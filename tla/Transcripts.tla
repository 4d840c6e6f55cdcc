---------------------------- MODULE Transcripts ----------------------------
(***************************************************************************)
(* The stored conversations: run.jsonl, an append-only file of records, and *)
(* meta.json beside it (session.py, paths.py, the agent loop's             *)
(* persist_messages), read back after a crash, forked at a message         *)
(* (HostRun.fork_session) and listed (sessions.py).                        *)
(*                                                                         *)
(* What is said in a turn is AgentTurns'.  Here a message is its kind and a *)
(* number, an answer makes at most one call, and each record is written in *)
(* a step of its own.                                                      *)
(***************************************************************************)
EXTENDS Naturals, Sequences, FiniteSets, SequencesExt

CONSTANTS Sessions,      \* the first of them is there from the start
          First,
          MaxMessages, MaxRuns, MaxCrashes, None

VARIABLES records,       \* session -> the lines of its run.jsonl
          meta,          \* session -> meta.json, or None: no directory
          held,          \* session -> the conversation its leader has, or had
          was,           \* session -> the same, before what is being written
          open,          \* the session that is open, or None
          active,        \* whether it has a run
          todo,          \* the records still to be written
          saves,         \* the record meta.json is to be changed for, or None
          fork,          \* what is being forked, or None
          outcome,       \* session -> how its last run ended
          said, runs, crashes

storeVars == <<records, meta, held, was>>
writeVars == <<open, active, todo, saves, fork>>
transcriptVars == <<storeVars, writeVars, outcome, said, runs, crashes>>

Message(kind, n) == [type |-> "message", kind |-> kind, n |-> n]
Record(type) == [type |-> type]
Rewritten(k) == [type |-> "conversation_rewritten", kept |-> k]
Finished(reason) == [type |-> "run_finished", reason |-> reason]
Torn == Record("torn")
Ends == {"run_finished", "run_failed"}

NewMeta == [stopped |-> None, viewed |-> None]

Init ==
  /\ records = [s \in Sessions |-> <<>>]
  /\ meta = [s \in Sessions |-> IF s = First THEN NewMeta ELSE None]
  /\ held = [s \in Sessions |-> <<>>] /\ was = held
  /\ open = First /\ active = FALSE /\ todo = <<>> /\ saves = None /\ fork = None
  /\ outcome = [s \in Sessions |-> "none"]
  /\ said = 0 /\ runs = 0 /\ crashes = 0

-----------------------------------------------------------------------------
\* Reading.

\* read_records: a malformed last line is dropped; one before it is an error.
Readable(rs) == \A i \in 1..Len(rs) - 1 : rs[i] # Torn
Lines(rs) == SelectSeq(rs, LAMBDA r : r # Torn)

\* load_run: what is left of the messages.
Load(rs) ==
  FoldLeft(LAMBDA ms, r : CASE r.type = "message" -> Append(ms, r)
                            [] r.type = "conversation_rewritten" -> SubSeq(ms, 1, r.kept)
                            [] OTHER -> ms,
           <<>>, Lines(rs))

Started(rs) == \E i \in DOMAIN rs : rs[i].type = "run_started"
Positions(rs, types) == {i \in DOMAIN rs : rs[i].type \in types}
Latest(S) == CHOOSE i \in S : \A j \in S : j <= i

\* unanswered_tool_call_ids: of the last answer that makes a call.
Unanswered(ms) ==
  LET calls == {i \in DOMAIN ms : ms[i].kind = "calls"} IN
  {i \in calls : /\ \A j \in calls : j <= i
                 /\ \A j \in i + 1..Len(ms) : ms[j].kind \notin {"result", "repaired"} \/ ms[j].n # ms[i].n}

\* classify_run: the last run's records, split at its turns.
Segment(rs) == SubSeq(rs, Latest(Positions(rs, {"run_started"})), Len(rs))
State(rs) ==
  LET seg == Segment(rs)
      ends == Positions(seg, {"run_finished"})
  IN IF Positions(seg, {"run_failed"}) # {} THEN "failed"
     ELSE IF ends = {} THEN "crashed"
     ELSE IF seg[Latest(ends)].reason = "cancelled" THEN "cancelled" ELSE "completed"
Said(rs) == SelectSeq(rs, LAMBDA r : r.type = "message")
PartialTurn(rs) ==
  LET seg == Segment(rs)
      turns == Positions(seg, {"turn_started"})
  IN \E t \in turns :
       LET later == {u \in turns : u > t}
           end == IF later = {} THEN Len(seg) ELSE (CHOOSE u \in later : \A v \in later : u <= v) - 1
       IN Unanswered(Said(SubSeq(seg, t, end))) # {}

\* The assertion of classify_run: a completed run has no partial turn.
Classifiable(rs) == Started(rs) /\ ~(State(rs) = "completed" /\ PartialTurn(rs))

\* repair_unanswered_tool_calls: an error at the end, in memory only.
Repaired(ms) ==
  IF Unanswered(ms) = {} THEN ms ELSE Append(ms, Message("repaired", ms[CHOOSE i \in Unanswered(ms) : TRUE].n))
Stored(ms) == SelectSeq(ms, LAMBDA m : m.kind # "repaired")

-----------------------------------------------------------------------------
\* Writing.

\* Mutant: the torn tail is left in the file.
AppendedUncut(rs, r) == Append(rs, r)

\* append_record: a torn tail is cut off first.
Appended(rs, r) == Append(IF rs # <<>> /\ Last(rs) = Torn THEN Front(rs) ELSE rs, r)

Free == open # None /\ todo = <<>> /\ saves = None /\ fork = None

\* persist_messages: what the two have in common is kept.
Common(a, b) ==
  Cardinality({i \in DOMAIN a \cap DOMAIN b : SubSeq(a, 1, i) = SubSeq(b, 1, i)})
Persist(old, new) ==
  LET k == Common(old, new) IN
  (IF k < Len(old) THEN <<Rewritten(k)>> ELSE <<>>) \o SubSeq(new, k + 1, Len(new))

\* The conversation becomes ms, and rs are to be written.
Holds(ms, rs) ==
  /\ was' = [was EXCEPT ![open] = held[open]]
  /\ held' = [held EXCEPT ![open] = ms]
  /\ todo' = rs

\* TranscriptWriter.append, and the metadata it is to change.
Writes ==
  /\ open # None /\ todo # <<>> /\ saves = None
  /\ records' = [records EXCEPT ![open] = Appended(@, Head(todo))]
  /\ todo' = Tail(todo)
  /\ saves' = IF Head(todo).type \in Ends THEN Head(todo) ELSE None
  /\ outcome' = CASE Head(todo).type = "run_started" -> [outcome EXCEPT ![open] = "crashed"]
                  [] Head(todo).type = "run_failed" -> [outcome EXCEPT ![open] = "failed"]
                  [] Head(todo).type = "run_finished" -> [outcome EXCEPT ![open] = Head(todo).reason]
                  [] OTHER -> outcome
  /\ UNCHANGED <<meta, held, was, open, active, fork, said, runs, crashes>>

Reason(r) == IF r.type = "run_failed" THEN "failed" ELSE r.reason

\* _record_appended.
SavesMeta ==
  /\ saves # None
  /\ meta' = [meta EXCEPT ![open].stopped = Reason(saves)]
  /\ saves' = None
  /\ UNCHANGED <<records, held, was, open, active, todo, fork, outcome, said, runs, crashes>>

\* A run begins with what the conversation has that is not taken for written.
StartsRun ==
  /\ Free /\ ~active /\ runs < MaxRuns /\ said < MaxMessages
  /\ runs' = runs + 1 /\ said' = said + 1 /\ active' = TRUE
  /\ LET ms == Append(held[open], Message("user", said + 1)) IN
     Holds(ms, <<Record("run_started")>> \o Persist(held[open], ms))
  /\ UNCHANGED <<records, meta, open, saves, fork, outcome, crashes>>

Calls == held[open] # <<>> /\ Last(held[open]).kind = "calls"

\* A turn is answered, with a call or without.
Turns ==
  /\ Free /\ active /\ ~Calls /\ said < MaxMessages
  /\ said' = said + 1
  /\ \E kind \in {"calls", "says"} :
       LET m == Message(kind, said + 1) IN
       Holds(Append(held[open], m), <<Record("turn_started"), m>>)
  /\ UNCHANGED <<records, meta, open, active, saves, fork, outcome, runs, crashes>>

Results ==
  /\ Free /\ active /\ Calls
  /\ LET m == Message("result", Last(held[open]).n) IN Holds(Append(held[open], m), <<m>>)
  /\ UNCHANGED <<records, meta, open, active, saves, fork, outcome, said, runs, crashes>>

\* A compaction: a summary and the last message.
Compacts ==
  /\ Free /\ active /\ ~Calls /\ Len(held[open]) > 1 /\ Last(held[open]).kind \notin {"result", "repaired"}
  /\ said < MaxMessages /\ said' = said + 1
  /\ LET ms == <<Message("summary", said + 1), Last(held[open])>> IN Holds(ms, Persist(held[open], ms))
  /\ UNCHANGED <<records, meta, open, active, saves, fork, outcome, runs, crashes>>

\* A failed run may leave a call unanswered.
EndsRun ==
  /\ Free /\ active
  /\ \E r \in {Finished("completed"), Finished("cancelled"), Record("run_failed")} :
       /\ Calls => r.type = "run_failed"
       /\ r = Finished("completed") => Last(held[open]).kind = "says"
       /\ Holds(held[open], <<r>>)
  /\ active' = FALSE
  /\ UNCHANGED <<records, meta, open, saves, fork, outcome, said, runs, crashes>>

-----------------------------------------------------------------------------
\* The host.

\* open_session: loaded, classified and repaired; seed_chat takes the whole
\* for written.
Opens(s) ==
  /\ open = None /\ fork = None /\ meta[s] # None
  /\ Readable(records[s]) /\ Classifiable(Lines(records[s]))
  /\ open' = s
  /\ held' = [held EXCEPT ![s] = Repaired(Load(records[s]))]
  /\ was' = [was EXCEPT ![s] = held'[s]]
  /\ UNCHANGED <<records, meta, active, todo, saves, fork, outcome, said, runs, crashes>>

Closes ==
  /\ Free /\ ~active /\ open' = None
  /\ UNCHANGED <<storeVars, active, todo, saves, fork, outcome, said, runs, crashes>>

\* The record being written may be lost, torn or whole.
Crashes ==
  /\ crashes < MaxCrashes /\ crashes' = crashes + 1
  /\ open # None \/ fork # None
  /\ LET at == IF fork # None THEN fork.to ELSE open IN
     \/ UNCHANGED records
     \/ fork # None /\ fork.todo # <<>> /\ records' = [records EXCEPT ![at] = Appended(@, Torn)]
     \/ fork = None /\ todo # <<>> /\ records' = [records EXCEPT ![at] = Appended(@, Torn)]
  /\ open' = None /\ active' = FALSE /\ todo' = <<>> /\ saves' = None /\ fork' = None
  /\ UNCHANGED <<meta, held, was, outcome, said, runs>>

\* fork_run: a message of the conversation as it is, with every call before it
\* answered, is the last of the new one.
Forks(s, t) ==
  /\ Free /\ ~active /\ meta[s] # None /\ meta[t] = None
  /\ LET rs == Lines(records[s]) IN
     \E i \in Positions(rs, {"message"}) :
       /\ rs[i] \in Range(Load(rs))
       /\ Unanswered(Said(SubSeq(rs, 1, i))) = {}
       /\ fork' = [from |-> s, to |-> t, wants |-> Load(SubSeq(rs, 1, i)),
                   todo |-> <<Record("run_started")>> \o SelectSeq(SubSeq(rs, 1, i), LAMBDA r : r.type # "run_started")]
  /\ meta' = [meta EXCEPT ![t] = NewMeta]
  /\ open' = None
  /\ UNCHANGED <<records, held, was, active, todo, saves, outcome, said, runs, crashes>>

\* Each record is written as any other; its metadata with it.
Copies ==
  /\ fork # None /\ fork.todo # <<>>
  /\ LET r == Head(fork.todo) IN
     /\ records' = [records EXCEPT ![fork.to] = Appended(@, r)]
     /\ meta' = IF r.type \in Ends THEN [meta EXCEPT ![fork.to].stopped = Reason(r)] ELSE meta
  /\ fork' = [fork EXCEPT !.todo = Tail(@)]
  /\ UNCHANGED <<held, was, open, active, todo, saves, outcome, said, runs, crashes>>

\* The fork is opened.
Forked ==
  /\ fork # None /\ fork.todo = <<>> /\ Classifiable(records[fork.to])
  /\ open' = fork.to /\ fork' = None
  /\ held' = [held EXCEPT ![fork.to] = Repaired(Load(records[fork.to]))]
  /\ was' = [was EXCEPT ![fork.to] = held'[fork.to]]
  /\ outcome' = [outcome EXCEPT ![fork.to] = State(records[fork.to])]
  /\ UNCHANGED <<records, meta, active, todo, saves, said, runs, crashes>>

\* A copy that fails is removed, and so is a session that is deleted.
Removed(s) ==
  /\ records' = [records EXCEPT ![s] = <<>>] /\ meta' = [meta EXCEPT ![s] = None]
  /\ held' = [held EXCEPT ![s] = <<>>] /\ was' = [was EXCEPT ![s] = <<>>]
  /\ outcome' = [outcome EXCEPT ![s] = "none"]
ForkFails ==
  /\ fork # None /\ Removed(fork.to) /\ fork' = None
  /\ UNCHANGED <<open, active, todo, saves, said, runs, crashes>>
Deletes(s) ==
  /\ fork = None /\ meta[s] # None /\ s # First /\ (s = open => Free /\ ~active)
  /\ Removed(s) /\ open' = IF s = open THEN None ELSE open
  /\ UNCHANGED <<active, todo, saves, fork, said, runs, crashes>>

EndCount(s) == Cardinality(Positions(Lines(records[s]), Ends))

Viewed(s) ==
  /\ meta[s] # None /\ meta[s].viewed # EndCount(s)
  /\ meta' = [meta EXCEPT ![s].viewed = EndCount(s)]
  /\ UNCHANGED <<records, held, was, writeVars, outcome, said, runs, crashes>>

\* list_sessions: unread until it is viewed after the last run's end.
Unread(s) ==
  IF meta[s].viewed = None THEN TRUE
  ELSE meta[s].stopped # None /\ EndCount(s) > meta[s].viewed

Next ==
  \/ Writes \/ SavesMeta \/ StartsRun \/ Turns \/ Results \/ Compacts \/ EndsRun
  \/ Closes \/ Crashes \/ Copies \/ Forked \/ ForkFails
  \/ \E s \in Sessions : Opens(s) \/ Deletes(s) \/ Viewed(s) \/ \E t \in Sessions : Forks(s, t)

Spec == Init /\ [][Next]_transcriptVars

-----------------------------------------------------------------------------
TypeOK ==
  /\ open \in Sessions \cup {None} /\ active \in BOOLEAN
  /\ \A s \in Sessions : Range(records[s]) \subseteq [type : {"run_started", "turn_started", "run_failed", "torn"}]
         \cup [type : {"run_finished"}, reason : {"completed", "cancelled"}]
         \cup [type : {"conversation_rewritten"}, kept : 0..2 * MaxMessages]
         \cup [type : {"message"}, kind : {"user", "calls", "says", "result", "summary"}, n : 1..MaxMessages]

\* A file can be read, whatever was torn; what it gives is the conversation as
\* it was before or a beginning of what it became.
Reads(s) ==
  /\ Readable(records[s])
  /\ \/ Load(records[s]) = Stored(was[s])
     \/ IsPrefix(Load(records[s]), Stored(held[s]))
     \/ fork # None /\ fork.to = s
     \/ outcome[s] = "none"    \* a fork that a crash cut off
  /\ Free /\ s = open /\ active => Load(records[s]) = Stored(held[s])

\* A fork has the messages up to the one it was made at, all calls answered.
ForkIsBeginning ==
  fork # None /\ fork.todo = <<>> =>
    Load(records[fork.to]) = fork.wants /\ Unanswered(fork.wants) = {}

\* A run that has ended is listed as it ended, one that has not as crashed.
Classified(s) ==
  LET rs == Lines(records[s]) IN Started(rs) /\ outcome[s] # "none" => State(rs) = outcome[s]

\* What has ended since it was viewed is unread, once meta.json is saved.
EndsAreUnread(s) ==
  meta[s] # None /\ meta[s].viewed # None /\ EndCount(s) > meta[s].viewed =>
    Unread(s) \/ crashes > 0 \/ (saves # None /\ s = open)

\* What is stored can be read back whatever has been torn, a fork is the
\* beginning it was made at, and the list says how each run ended.
TranscriptsHold ==
  /\ ForkIsBeginning
  /\ \A s \in Sessions : Reads(s) /\ Classified(s) /\ EndsAreUnread(s)

\* classify_run asserts it of every session that is listed or opened: "a
\* completed run cannot contain a partial turn".
CompletedIsWhole ==
  \A s \in Sessions :
    LET rs == Lines(records[s]) IN
    Started(rs) /\ State(rs) = "completed" =>
      ~PartialTurn(rs) \/ (fork # None /\ fork.to = s /\ fork.todo # <<>>)
=============================================================================
