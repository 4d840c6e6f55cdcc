----------------------------- MODULE AgentTurns -----------------------------
(***************************************************************************)
(* One conversation of a leader: its turns (agent_loop.py), the redirects  *)
(* and phases of its run (agent_run.py), the transcript that is written as *)
(* it goes and read again when the conversation is reopened (session.py,   *)
(* repair.py), and the compaction that rewrites both (compaction.py).      *)
(*                                                                         *)
(* The run's thread, the person who steers and stops, and the death of the *)
(* process interleave.  Messages are records; a call is the pair of its    *)
(* answer's number and its place in it.                                    *)
(***************************************************************************)
EXTENDS Integers, Sequences, FiniteSets, SequencesExt

CONSTANTS
  MaxTurns,     \* turns of a run (ApiAgent._max_turns)
  RunTurns,     \* provider calls the run's budget allows
  RecentTurns,  \* turns compaction tries to keep
  StopLimit,    \* continuations the stop hooks get (3 in the code)
  MaxCalls,     \* bound: tool calls of the first answer (later ones: one)
  MaxAnswers,   \* bound: answers in the whole history
  MaxPrompts,   \* bound: prompts in the whole history
  MaxRedirects, \* bound: redirects in the whole history
  MaxRewrites,  \* bound: compactions in the whole history
  MaxOpens,     \* bound: times the conversation is opened
  MaxEvents     \* bound: redirects, compactions and reopenings together

ASSUME AgentAssumption == MaxCalls \in Nat \ {0} /\ RecentTurns \in Nat

VARIABLES
  pc,           \* the step the thread of the run stands at
  turn, calls, continues, attempt,   \* counters of run()
  refused,      \* the last answer was a refusal
  todo, batch,  \* calls to run, and the batch that runs: calls with their state
  conv,         \* the conversation of the run
  chat,         \* LeaderAgent._chat_messages between runs
  digests,      \* what the agent believes the transcript holds
  saved,        \* what load_run would read from the transcript
  readable,     \* load_run accepts the transcript
  writing,      \* messages of a rewrite still to be written
  turnLog,      \* messages recorded since the last turn_started
  partial,      \* an earlier turn of this run was left with an unanswered call
  queue, closed, phase,   \* AgentRun's redirects and phase
  cancelled,    \* the run's token
  spent,        \* the loop has seen the time, tokens or cost of its budget used up
  reason,       \* how the last run ended
  answers, prompts, accepted, delivered, rewrites, opens,
  patched       \* the opening that first had to answer calls in memory, or 0

run == <<turn, calls, continues, attempt, refused, todo, batch>>
log == <<digests, saved, readable, writing, turnLog>>
control == <<queue, closed, phase>>
counts == <<answers, prompts, accepted, rewrites, opens>>
vars == <<pc, run, conv, chat, log, partial, control, cancelled, spent, reason,
          counts, delivered, patched>>

\* Room for one more redirect, compaction or reopening.
Room == Len(accepted) + rewrites + opens <= MaxEvents

-----------------------------------------------------------------------------
(* Messages *)

User(u)         == [role |-> "user", id |-> u]
Answer(n, k)    == [role |-> "assistant", id |-> <<"answer", n>>, calls |-> k]
Result(c, how)  == [role |-> "tool", call |-> c, how |-> how]
Summary(n)      == [role |-> "system", id |-> <<"summary", n>>]

Has(m, c) == m.role = "tool" /\ m.call = c

Callers(ms) == {i \in DOMAIN ms : ms[i].role = "assistant" /\ ms[i].calls # {}}
Latest(S)   == CHOOSE i \in S : \A j \in S : j <= i

\* The calls of the last answer with calls that no later message answers.
Unanswered(ms) ==
  IF Callers(ms) = {} THEN {}
  ELSE LET a == Latest(Callers(ms))
       IN  {c \in ms[a].calls : ~\E i \in a+1 .. Len(ms) : Has(ms[i], c)}

\* The k-th of a set of numbers, counted from the end.
Nth(S, k) == CHOOSE i \in S : Cardinality({j \in S : j >= i}) = k

\* Calls of one answer in their order.
InOrder(C) ==
  LET places == {p \in 1 .. MaxCalls : \E c \in C : c[2] = p}
      n == Cardinality(places)
  IN  [k \in 1 .. n |-> CHOOSE c \in C : c[2] = Nth(places, n + 1 - k)]

\* One result for each unanswered call, at the end.
Repairs(ms, how) ==
  LET cs == InOrder(Unanswered(ms)) IN [i \in DOMAIN cs |-> Result(cs[i], how)]

Where(ms, r) == {i \in DOMAIN ms : ms[i].role = r}
\* There are only results from the answer at a to i.
Follows(ms, a, i) ==
  a < i /\ ms[a].role = "assistant" /\ \A j \in a+1 .. i : ms[j].role = "tool"

\* What a provider accepts: the results of an answer's calls follow it at once,
\* one each, and no result stands anywhere else.
WellFormed(ms) ==
  /\ \A i \in Where(ms, "tool") : \E a \in DOMAIN ms : Follows(ms, a, i) /\ ms[i].call \in ms[a].calls
  /\ \A a \in Where(ms, "assistant") : \A c \in ms[a].calls : \E i \in DOMAIN ms :
       /\ Follows(ms, a, i) /\ ms[i].call = c
       /\ \A j \in DOMAIN ms : Follows(ms, a, j) /\ ms[j].call = c => j = i

-----------------------------------------------------------------------------
(* Compaction: the middle of a history becomes a summary, or old results    *)
(* lose their text.  Whether something fits is left open: sizes are data.   *)

\* Mutant: the window begins a number of messages from the end.
RecentStartAnywhere(ms, keep, byAnswers) == IF Len(ms) <= keep THEN 1 ELSE Len(ms) - keep + 1

RecentStart(ms, keep, byAnswers) ==
  LET us == Where(ms, "user")  as == Where(ms, "assistant") IN
  IF byAnswers
  THEN IF Cardinality(as) <= keep THEN 1 ELSE Nth(as, keep)
  ELSE Nth(us, keep)

Prefix(ms, start, byAnswers) ==
  LET us == Where(ms, "user") IN
  IF byAnswers THEN {i \in us : i < start}
  ELSE {i \in us : i < start /\ \A j \in us : i <= j}

\* The messages at the places I, in their order.
Pick(ms, I) ==
  LET n == Cardinality(I) IN [k \in 1 .. n |-> ms[Nth(I, n + 1 - k)]]

Cut(ms, window, n) ==
  LET recent == {i \in DOMAIN ms : i >= window.start /\ ms[i].role # "system"}
  IN  IF window.prefix \cup recent = DOMAIN ms THEN ms
      ELSE Pick(ms, window.prefix) \o <<Summary(n)>> \o Pick(ms, recent)

\* Clearing takes the results before the recent window from the oldest on
\* until the rest fits; here it takes the first one that has its text.
Cleared(ms, window) ==
  LET full == {i \in DOMAIN ms : i < window.start /\ ms[i].role = "tool" /\ ms[i].how = "result"}
  IN  IF full = {} THEN ms
      ELSE LET i == CHOOSE i \in full : \A j \in full : i <= j
           IN  [ms EXCEPT ![i].how = "cleared"]

Window(ms, keep, byAnswers) ==
  LET start == RecentStart(ms, keep, byAnswers) IN
  [start |-> start, prefix |-> Prefix(ms, start, byAnswers)]

Windows(ms) ==
  {Window(ms, k, TRUE) : k \in 1 .. RecentTurns} \cup
  {Window(ms, k, FALSE) : k \in {k \in 1 .. RecentTurns :
                                   RecentTurns <= Cardinality(Where(ms, "user"))}}

Compactions(ms, n) ==
  UNION {{Cut(ms, w, n), Cleared(ms, w)} : w \in Windows(ms)} \ {ms}

-----------------------------------------------------------------------------
(* The transcript *)

\* Mutant: the common prefix is taken from the lengths alone.
KeptPrefixByLength(old, new) == IF Len(old) < Len(new) THEN Len(old) ELSE Len(new)

KeptPrefix(old, new) ==
  LET same == {k \in 0 .. Len(old) : k <= Len(new) /\ SubSeq(old, 1, k) = SubSeq(new, 1, k)}
  IN  Latest(same)

\* append_message: one record, at once.
Say(ms) ==
  /\ conv'    = conv \o ms
  /\ saved'   = saved \o ms
  /\ digests' = digests \o ms
  /\ turnLog' = turnLog \o ms
  /\ UNCHANGED <<readable, writing>>

\* persist_messages: the rewrite record, then the messages one by one (Write).
\* load_run refuses a prefix longer than what it has read.
Persist(ms, rewritten) ==
  LET kept == KeptPrefix(digests, ms)
      cut  == rewritten \/ kept < Len(digests)
  IN  /\ saved'    = IF cut /\ kept <= Len(saved) THEN SubSeq(saved, 1, kept) ELSE saved
      /\ readable' = (readable /\ (cut => kept <= Len(saved)))
      /\ writing'  = SubSeq(ms, kept + 1, Len(ms))
      /\ digests'  = ms

Write ==
  /\ pc # "down" /\ writing # <<>>
  /\ saved'   = Append(saved, Head(writing))
  /\ writing' = Tail(writing)
  /\ turnLog' = IF pc = "turn" /\ turn = 0 THEN <<>> ELSE Append(turnLog, Head(writing))
  /\ UNCHANGED <<pc, run, conv, chat, digests, readable, partial, control, cancelled,
                 spent, reason, counts, delivered, patched>>

\* The thread is at step p and has nothing left to write.
At(p) == pc = p /\ writing = <<>>

-----------------------------------------------------------------------------
(* The start of a run *)

Asked == Append(chat, User(<<"prompt", prompts + 1>>))

\* LeaderAgent.chat, its history compacted first or not, up to start_run.
Chat(asked) ==
  /\ At("idle") /\ prompts < MaxPrompts
  /\ prompts' = prompts + 1
  /\ chat' = asked /\ conv' = asked
  /\ Persist(asked, FALSE) /\ turnLog' = <<>>
  /\ phase' = "running" /\ closed' = FALSE /\ queue' = <<>>
  /\ cancelled' = FALSE /\ spent' = FALSE /\ partial' = FALSE
  /\ turn' = 0 /\ calls' = 0 /\ continues' = 0 /\ attempt' = 1
  /\ refused' = FALSE /\ todo' = <<>> /\ batch' = <<>>
  /\ pc' = "turn"
  /\ UNCHANGED <<reason, answers, accepted, opens, delivered, patched>>

StartChat == Chat(Asked) /\ UNCHANGED rewrites

CompactChat ==
  /\ Room /\ rewrites < MaxRewrites /\ rewrites' = rewrites + 1
  /\ \E ms \in Compactions(Asked, rewrites + 1) : Chat(ms)

-----------------------------------------------------------------------------
(* The end of a run *)

Texts(q) == [i \in DOMAIN q |-> User(q[i])]

\* Mutant: closing forgets what the loop has not read.
ClosingForgets == <<>>

\* close_redirects: what the loop has not read.
ClosingRedirects == queue

\* append_redirects(close=True), finish_run and what LeaderAgent makes of it:
\* a failed run leaves _chat_messages as they were.
Close(ms, why) ==
  /\ queue' = <<>> /\ closed' = TRUE /\ pc' = "idle" /\ reason' = why
  /\ Say(ms \o Texts(ClosingRedirects))
  /\ delivered' = delivered \o ClosingRedirects
  /\ phase' = CASE why = "failed" -> "failed"
                [] why = "cancelled" -> "cancelled"
                [] OTHER -> "finished"
  /\ chat' = IF why = "failed" THEN chat ELSE conv'
  /\ UNCHANGED <<run, partial, cancelled, spent, counts, patched>>

Cancelled ==
  At("cancelled") /\ \E ms \in {Repairs(conv, "cancelled")} : Close(ms, "cancelled")
Failed ==
  At("failed") /\ \E ms \in {Repairs(conv, "failed")} : Close(ms, "failed")
Finish    == At("ending") /\ Close(<<>>, IF refused THEN "refused" ELSE "final_response")

-----------------------------------------------------------------------------
(* A turn *)

OutOfTurns ==
  /\ At("turn") /\ turn = MaxTurns
  /\ Close(<<>>, "max_turns")

\* start_turn and take_redirects_and_check_budget.
Turn ==
  /\ At("turn") /\ turn < MaxTurns
  /\ turn' = turn + 1
  /\ partial' = (partial \/ Unanswered(turnLog) # {})
  /\ IF cancelled
     THEN /\ pc' = "cancelled" /\ turnLog' = <<>>
          /\ UNCHANGED <<conv, digests, saved, queue, delivered>>
     ELSE /\ LET ms == Texts(queue) IN
               /\ conv' = conv \o ms /\ saved' = saved \o ms /\ digests' = digests \o ms
               /\ turnLog' = ms
          /\ delivered' = delivered \o queue /\ queue' = <<>>
          /\ pc' \in IF RunTurns <= calls \/ spent THEN {"budget"} ELSE {"request", "budget"}
  /\ attempt' = 1
  /\ UNCHANGED <<calls, continues, refused, todo, batch, chat, readable, writing, closed,
                 phase, cancelled, spent, reason, counts, patched>>

Budget == At("budget") /\ Close(<<>>, "budget")

Unmoved == UNCHANGED <<chat, partial, control, cancelled, spent, reason, delivered, patched>>

\* compact_for_request: the history fits, is compacted, or cannot be.
Fits ==
  /\ At("request") /\ pc' = "ask"
  /\ UNCHANGED <<run, conv, log, counts>> /\ Unmoved

Compact(from, to) ==
  /\ At(from) /\ Room /\ rewrites < MaxRewrites
  /\ rewrites' = rewrites + 1 /\ pc' = to
  /\ \E ms \in Compactions(conv, rewrites + 1) : conv' = ms /\ Persist(ms, TRUE)
  /\ UNCHANGED turnLog
  /\ Unmoved /\ UNCHANGED <<answers, prompts, accepted, opens>>

CompactForRequest == Compact("request", "ask") /\ UNCHANGED run

\* The first overflow compacts and asks again; the second one fails.
Overflow ==
  /\ attempt = 1 /\ attempt' = 2
  /\ Compact("ask", "request")
  /\ UNCHANGED <<turn, calls, continues, refused, todo, batch>>

\* An answer arrives: record_response_usage and handle_response.  The last
\* call may have been cut short.
Respond(k, kinds) ==
  LET n == answers + 1
      call(i) == <<n, i>>
  IN  /\ answers' = n /\ calls' = calls + 1
      /\ refused' = FALSE
      /\ Say(<<Answer(n, {call(i) : i \in 1 .. k})>>)
      /\ todo' = [i \in 1 .. k |-> [call |-> call(i), kind |-> kinds[i]]] /\ batch' = <<>>
      /\ pc' = IF cancelled THEN "cancelled" ELSE IF k = 0 THEN "final" ELSE "tools"
      /\ UNCHANGED <<turn, continues, attempt, prompts, accepted, rewrites, opens>>
      /\ Unmoved

Responds ==
  /\ At("ask") /\ answers < MaxAnswers
  /\ \E k \in 0 .. IF answers = 0 THEN MaxCalls ELSE 1 :
       \E kinds \in [1 .. k -> {"safe", "alone", "cut"}] :
         (\A i \in 1 .. k : kinds[i] = "cut" => i = k) /\ Respond(k, kinds)

\* A refusal is stripped of its calls and is not part of the conversation.
Refuses ==
  /\ At("ask") /\ answers < MaxAnswers
  /\ answers' = answers + 1 /\ calls' = calls + 1
  /\ refused' = TRUE
  /\ pc' = IF cancelled THEN "cancelled" ELSE "ending"
  /\ UNCHANGED <<turn, continues, attempt, todo, batch, conv, log,
                 prompts, accepted, rewrites, opens>>
  /\ Unmoved

\* The provider fails for good, a compaction is impossible, or a second
\* overflow; a stopped request raises OperationCancelled.
RequestFails ==
  /\ At("ask") \/ At("request")
  /\ pc' = "failed"
  /\ UNCHANGED <<run, conv, log, counts>> /\ Unmoved

RequestStopped ==
  /\ At("ask") \/ At("request")
  /\ cancelled /\ pc' = "cancelled"
  /\ UNCHANGED <<run, conv, log, counts>> /\ Unmoved

-----------------------------------------------------------------------------
(* The tools of a turn *)

Still(p) == At(p) /\ UNCHANGED <<turn, calls, continues, attempt, refused, counts>> /\ Unmoved

\* partition_tool_calls: neighbours that are safe share a batch.
Together(cs) ==
  Latest({k \in 1 .. Len(cs) : k = 1 \/ \A i \in 1 .. k : cs[i].kind = "safe"})

\* A call that was cut short is answered without being run.
StartBatch ==
  /\ Still("tools") /\ batch = <<>> /\ todo # <<>>
  /\ LET k == Together(todo) IN
       /\ batch' = [i \in 1 .. k |-> [call |-> todo[i].call,
                       state |-> IF todo[i].kind = "cut" THEN "result" ELSE "running"]]
       /\ todo' = SubSeq(todo, k + 1, Len(todo))
  /\ UNCHANGED <<pc, conv, log>>

\* A call ends with a result, or unwinds because the run was stopped.
CallEnds(i, how) ==
  /\ Still("tools") /\ i \in DOMAIN batch /\ batch[i].state = "running"
  /\ how = "stopped" => cancelled
  /\ batch' = [batch EXCEPT ![i].state = how]
  /\ UNCHANGED <<pc, todo, conv, log>>

\* Mutant: the batch waits for a result of every call.
AllAnswered == \A i \in DOMAIN batch : batch[i].state \in {"result", "appended"}

AllEnded == \A i \in DOMAIN batch : batch[i].state # "running"

\* Results are appended in the order of the calls once the batch is over; if
\* a call was stopped the others' results are kept and the run is cancelled.
AppendResult ==
  LET done == {i \in DOMAIN batch : batch[i].state = "result"}
      i    == CHOOSE i \in done : \A j \in done : i <= j
  IN  /\ Still("tools") /\ AllEnded /\ done # {}
      /\ Say(<<Result(batch[i].call, "result")>>)
      /\ batch' = [batch EXCEPT ![i].state = "appended"]
      /\ UNCHANGED <<pc, todo>>

\* Mutant: the budget is looked at between two batches.
EndBatchChecksBudget ==
  /\ Still("tools") /\ batch # <<>>
  /\ \A i \in DOMAIN batch : batch[i].state \in {"appended", "stopped"}
  /\ batch' = <<>>
  /\ pc' \in IF \E i \in DOMAIN batch : batch[i].state = "stopped" THEN {"cancelled"}
            ELSE IF todo = <<>> THEN {"after"} ELSE {"tools", "budget"}
  /\ UNCHANGED <<todo, conv, log>>

EndBatch ==
  /\ Still("tools") /\ batch # <<>>
  /\ \A i \in DOMAIN batch : batch[i].state \in {"appended", "stopped"}
  /\ batch' = <<>>
  /\ pc' = IF \E i \in DOMAIN batch : batch[i].state = "stopped" THEN "cancelled"
           ELSE IF todo = <<>> THEN "after" ELSE "tools"
  /\ UNCHANGED <<todo, conv, log>>

\* Cancellation and budget are looked at when every batch is answered.
AfterTools ==
  /\ Still("after")
  /\ pc' \in IF cancelled THEN {"cancelled"} ELSE {"turn", "budget"}
  /\ UNCHANGED <<todo, batch, conv, log>>

-----------------------------------------------------------------------------
(* A turn without calls *)

Limit == IF MaxTurns < RunTurns THEN MaxTurns ELSE RunTurns

\* wait_for_background, unless the budget is used up, and has_redirects.
Settle ==
  /\ At("final")
  /\ spent' \in BOOLEAN
  /\ pc' = IF turn < Limit /\ queue # <<>> THEN "turn" ELSE "hook"
  /\ UNCHANGED <<run, conv, log, counts, chat, partial, control, cancelled, reason,
                 delivered, patched>>

\* The budget runs out while it waits.
WaitedTooLong ==
  /\ Still("final") /\ turn < Limit /\ pc' = "budget"
  /\ UNCHANGED <<todo, batch, conv, log>>

\* The stop hooks may ask for another turn, three times; the fourth request
\* only leaves a note in the answer.
StopHook ==
  /\ At("hook") /\ pc' = "turn" /\ turn < Limit /\ ~spent /\ ~cancelled /\ continues < StopLimit
  /\ continues' = continues + 1
  /\ Say(<<User(<<"hook", answers>>)>>)
  /\ Unmoved
  /\ UNCHANGED <<turn, calls, attempt, refused, todo, batch, counts>>

Noted(m) == [m EXCEPT !.id = <<"noted", @[2]>>]

StopHookRefused ==
  /\ Still("hook") /\ pc' = "ending"
  /\ turn < Limit /\ ~spent /\ ~cancelled /\ continues = StopLimit
  /\ conv' = [conv EXCEPT ![Len(conv)] = Noted(@)]
  /\ Persist(conv', TRUE) /\ UNCHANGED turnLog
  /\ UNCHANGED <<todo, batch>>

NoHook ==
  /\ Still("hook") /\ pc' = "ending"
  /\ UNCHANGED <<todo, batch, conv, log>>

-----------------------------------------------------------------------------
(* The person, the clock and the process *)

\* LeaderAgent.redirect; refused once the run has closed its redirects.
Redirect ==
  /\ Room /\ Len(accepted) < MaxRedirects
  /\ phase = "running" /\ ~closed
  /\ LET r == <<"redirect", Len(accepted) + 1>> IN
       /\ accepted' = Append(accepted, r)
       /\ queue' = Append(queue, r)
  /\ UNCHANGED <<pc, run, conv, chat, log, partial, closed, phase, cancelled, spent, reason,
                 answers, prompts, rewrites, opens, delivered, patched>>

Stop ==
  /\ phase = "running" /\ ~cancelled /\ cancelled' = TRUE
  /\ UNCHANGED <<pc, run, conv, chat, log, partial, control, spent, reason, counts,
                 delivered, patched>>

\* The host dies, or closes the conversation: only the transcript is left.
Leave ==
  /\ pc # "down" /\ Room /\ opens < MaxOpens
  /\ pc' = "down"
  /\ conv' = <<>> /\ chat' = <<>> /\ digests' = <<>> /\ writing' = <<>> /\ turnLog' = <<>>
  /\ queue' = <<>> /\ closed' = TRUE /\ phase' = "none"
  /\ accepted' = SubSeq(accepted, 1, Len(delivered))
  /\ turn' = 0 /\ calls' = 0 /\ continues' = 0 /\ attempt' = 1
  /\ refused' = FALSE /\ todo' = <<>> /\ batch' = <<>>
  /\ cancelled' = FALSE /\ spent' = FALSE /\ partial' = FALSE /\ reason' = "none"
  /\ UNCHANGED <<saved, readable, answers, prompts, rewrites, opens, delivered, patched>>

\* open_session: load_run_for_resume answers in memory what is unanswered, and
\* seed_chat takes the whole of it for persisted.
Reopen ==
  LET ms == saved \o Repairs(saved, "ended") IN
  /\ pc = "down" /\ readable
  /\ opens' = opens + 1
  /\ chat' = ms /\ digests' = ms
  /\ patched' = IF patched = 0 /\ ms # saved THEN opens' ELSE patched
  /\ pc' = "idle"
  /\ UNCHANGED <<run, conv, saved, readable, writing, turnLog, partial, control, cancelled,
                 spent, reason, answers, prompts, accepted, rewrites, delivered>>

-----------------------------------------------------------------------------
Init ==
  /\ pc = "idle" /\ turn = 0 /\ calls = 0 /\ continues = 0 /\ attempt = 1
  /\ refused = FALSE /\ todo = <<>> /\ batch = <<>>
  /\ conv = <<>> /\ chat = <<>> /\ digests = <<>> /\ saved = <<>> /\ readable = TRUE
  /\ writing = <<>> /\ turnLog = <<>> /\ partial = FALSE
  /\ queue = <<>> /\ closed = TRUE /\ phase = "none"
  /\ cancelled = FALSE /\ spent = FALSE /\ reason = "none"
  /\ answers = 0 /\ prompts = 0 /\ accepted = <<>> /\ delivered = <<>>
  /\ rewrites = 0 /\ opens = 1 /\ patched = 0

\* The steps of the thread once a run has begun.
Thread ==
  \/ Write \/ Turn \/ OutOfTurns \/ Budget \/ Cancelled \/ Failed \/ Finish
  \/ Fits \/ Responds \/ Refuses \/ RequestFails \/ RequestStopped
  \/ CompactForRequest \/ Overflow
  \/ StartBatch \/ AppendResult \/ EndBatch \/ AfterTools
  \/ \E i \in 1 .. MaxCalls, how \in {"result", "stopped"} : CallEnds(i, how)
  \/ Settle \/ WaitedTooLong \/ StopHook \/ StopHookRefused \/ NoHook

Next == Thread \/ StartChat \/ CompactChat \/ Redirect \/ Stop \/ Leave \/ Reopen

Spec == Init /\ [][Next]_vars /\ WF_vars(Thread)

-----------------------------------------------------------------------------
(* Properties *)

Steps == {"idle", "turn", "request", "ask", "tools", "after", "final", "hook", "ending",
          "budget", "cancelled", "failed", "down"}
Phases == {"none", "running", "finished", "failed", "cancelled"}

\* Every variable has its type; a run never takes more turns than it may, nor
\* more continuations from its stop hooks than the limit.
TypeOK ==
  /\ pc \in Steps /\ phase \in Phases
  /\ turn \in 0 .. MaxTurns /\ calls \in 0 .. MaxTurns
  /\ continues \in 0 .. StopLimit /\ attempt \in 1 .. 2
  /\ {refused, readable, partial, closed, cancelled, spent} \subseteq BOOLEAN
  /\ answers \in 0 .. MaxAnswers /\ prompts \in 0 .. MaxPrompts
  /\ rewrites \in 0 .. MaxRewrites /\ opens \in 1 .. MaxOpens
  /\ Len(accepted) <= MaxRedirects /\ patched \in 0 .. MaxOpens

\* Whatever was stopped, failed, compacted or interrupted by the death of the
\* process before, a request shows the provider every call with its result
\* right behind it: repair, the order of the batches and the cut of compaction
\* together (agent_loop.py, repair.py, compaction.py).  (A conversation that was
\* opened once more after such a repair is another matter: see ReopensAnswered.)
RequestsAreAnswered == pc = "ask" /\ patched \in {0, opens} => WellFormed(conv)

\* The transcript, with what is still to be written of a rewrite, is exactly
\* the conversation the agent holds, through failures, compactions and deaths:
\* persist_messages works from digests, never from the file.  (Where reopening
\* had to answer calls in memory this no longer holds, see ReopensAnswered.)
TranscriptIsConversation ==
  patched = 0 /\ pc # "down" =>
    /\ readable /\ saved \o writing = digests
    /\ pc # "idle" => digests = conv

\* A redirect that was accepted reaches the conversation of its run, once and
\* in order, even when it came after the loop had decided to end
\* (close_redirects).
RedirectsArrive ==
  /\ pc # "down" => delivered \o queue = accepted
  /\ phase # "running" => queue = <<>>

\* "a completed run cannot contain a partial turn" (session.py, classify_run):
\* a run that neither failed nor was cancelled left no call unanswered in any
\* of its turns.
CompletedHasNoPartialTurn ==
  reason \notin {"none", "failed", "cancelled"} /\ pc = "idle" /\ phase = "finished" =>
    ~partial /\ Unanswered(turnLog) = {}

\* A run that is stopped comes to an end.
StopEnds == cancelled ~> pc \in {"idle", "down"}

\* "Load, diagnose, and repair a conversation for provider-safe resume"
\* (session.py, load_run_for_resume): what reopening hands to the leader is
\* answered call by call.
ReopensAnswered == pc = "idle" => WellFormed(chat)
=============================================================================
