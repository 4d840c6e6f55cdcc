--------------------------- MODULE SubagentNotices ---------------------------
(***************************************************************************)
(* What a leader learns of its background subagents (symphonai_api/        *)
(* leader.py): their results and questions reach it as notices in the      *)
(* queue of its run (agent_run.py) or as the result of wait_subagents,     *)
(* whichever comes first; a leader that has answered waits for the ones    *)
(* at work (agent_loop.py), and whatever is left of them at the end of the *)
(* run is cancelled.                                                       *)
(*                                                                         *)
(* One leader.  Between two of its requests it makes any calls.  Leases,   *)
(* rounds of validation and the two locks of a dispatch are                *)
(* SubagentLeases; the turns of the leader itself are AgentTurns.          *)
(***************************************************************************)
EXTENDS Naturals, FiniteSets

CONSTANTS
    Names,          \* subagents
    MaxBackground,  \* background subagents at once (4)
    MaxDispatches,  \* bound: background dispatches, all runs together
    MaxRuns,        \* bound: chats
    MaxQuestions,   \* bound: questions of all subagents
    None

\* What is assumed of the bounds; MCRuntime checks it of the instance.
NoticeAssumption == MaxDispatches \in Nat /\ MaxQuestions \in Nat

Dispatches == 1 .. MaxDispatches
Questions == 1 .. MaxQuestions
\* What a run's queue may hold: a deferred result, a deferred question, or a
\* text, which the person, a subagent's progress or a message to one leaves.
Notices == [result : Dispatches] \cup [question : Questions] \cup {[text : {TRUE}]}

VARIABLES
    at,         \* what the leader does
    again,      \* it goes on after an answer because has_redirects said so
    answered,   \* history: the run ends because the leader had no more to do
    run,        \* history: number of the chat
    queue,      \* run._redirects
    accepts,    \* not run._redirects_closed
    names,      \* _background_names
    pool,       \* the background dispatch whose record a name has, 0 if none
    record,     \* the records of background dispatches
    live,       \* dispatches with a thread at work
    toClose,    \* what cancel_background has still to close
    questions,  \* _questions
    told        \* history: how often each result was given to the leader

vars == <<at, again, answered, run, queue, accepts, names, pool, record, live, toClose,
          questions, told>>
leaderVars == <<at, again, answered, run>>

Made == {d \in Dispatches : record[d].state # "none"}
Asked == {q \in Questions : questions[q].by # 0}

Init ==
    /\ at = "idle" /\ again = FALSE /\ answered = FALSE /\ run = 0
    /\ queue = {} /\ accepts = FALSE
    /\ names = {} /\ pool = [n \in Names |-> 0]
    /\ record = [d \in Dispatches |->
                    [name |-> None, state |-> "none", result |-> FALSE, delivered |-> FALSE, run |-> 0]]
    /\ live = {} /\ toClose = {}
    /\ questions = [q \in Questions |-> [by |-> 0, delivered |-> FALSE, waited |-> FALSE]]
    /\ told = [d \in Dispatches |-> 0]

-----------------------------------------------------------------------------
(* What is told.                                                            *)

\* Mutant: a result that wait_subagents gave is given again.
CollectableTwice(d) == record[d].result /\ record[d].state # "closed"
\* _collect: not yet delivered, not closed, and there is a result.
Collectable(d) == record[d].result /\ ~record[d].delivered /\ record[d].state # "closed"
\* The deferred notice of a question.
Open(q) == ~questions[q].delivered /\ record[questions[q].by].state # "closed"

Collect(D) ==
    /\ record' = [d \in Dispatches |->
                    IF d \in D THEN [record[d] EXCEPT !.delivered = TRUE] ELSE record[d]]
    /\ told' = [d \in Dispatches |-> IF d \in D THEN told[d] + 1 ELSE told[d]]

Results(Q) == {d \in Dispatches : [result |-> d] \in Q /\ Collectable(d)}
Told(Q) == {q \in Questions : [question |-> q] \in Q /\ Open(q)}
\* take_redirects and close_redirects: the queue is emptied, and each notice
\* says whether there is anything to say.  Nothing that another thread does in
\* between changes what they say.
Resolve ==
    /\ Collect(Results(queue))
    /\ questions' = [q \in Questions |-> IF q \in Told(queue)
                        THEN [questions[q] EXCEPT !.delivered = TRUE] ELSE questions[q]]
    /\ queue' = {}
Says(Q) == [text |-> TRUE] \in Q \/ Results(Q) # {} \/ Told(Q) # {}

\* A notice finds the queue open, or is dropped.
Enqueue(x) == queue' = IF accepts THEN queue \cup {x} ELSE queue

-----------------------------------------------------------------------------
(* The leader.                                                              *)

Goes(place) == at' = place /\ UNCHANGED run
\* The run ends for another reason: a budget, the limit of turns, a refusal, a
\* stop, an exception.
Breaks == Goes("closing") /\ again' = FALSE /\ answered' = FALSE

Chat ==
    /\ at = "idle" /\ run < MaxRuns
    /\ at' = "boundary" /\ run' = run + 1 /\ again' = FALSE /\ answered' = FALSE
    /\ queue' = {} /\ accepts' = TRUE
    /\ UNCHANGED <<names, pool, record, live, toClose, questions, told>>

\* append_redirects at the start of a turn.
TakeRedirects ==
    /\ at = "boundary" /\ Resolve
    /\ Goes("asking") /\ again' = FALSE /\ UNCHANGED answered
    /\ UNCHANGED <<accepts, names, pool, live, toClose>>

\* The response has calls, or is an answer.
Responds ==
    /\ at = "asking"
    /\ Goes("tools") \/ Goes("waiting")
    /\ UNCHANGED <<again, answered, queue, accepts, names, pool, record, live, toClose,
                   questions, told>>
EndTools ==
    /\ at = "tools" /\ Goes("boundary")
    /\ UNCHANGED <<again, answered, queue, accepts, names, pool, record, live, toClose,
                   questions, told>>
Interrupted ==
    /\ at \in {"boundary", "asking", "tools", "waiting", "deciding"} /\ Breaks
    /\ UNCHANGED <<queue, accepts, names, pool, record, live, toClose, questions, told>>

\* wait_for_background: until nobody is at work, or there is something to say.
Undelivered == \E n \in Names : pool[n] # 0 /\ Collectable(pool[n])
WaitedFor ==
    /\ at = "waiting" /\ Goes("deciding")
    /\ names = {} \/ queue # {} \/ Undelivered
    /\ UNCHANGED <<again, answered, queue, accepts, names, pool, record, live, toClose,
                   questions, told>>
\* has_redirects; a hook may make the leader go on, too.
Decides ==
    /\ at = "deciding"
    /\ IF queue # {} THEN Goes("boundary") /\ again' = TRUE /\ UNCHANGED answered
       ELSE \/ Goes("closing") /\ answered' = TRUE /\ UNCHANGED again
            \/ Goes("boundary") /\ UNCHANGED <<again, answered>>
    /\ UNCHANGED <<queue, accepts, names, pool, record, live, toClose, questions, told>>

\* close_redirects, and what it returns is appended.
CloseRedirects ==
    /\ at = "closing" /\ Resolve /\ accepts' = FALSE
    /\ Goes("ending") /\ UNCHANGED <<again, answered, names, pool, live, toClose>>

\* cancel_background: first the names, then one after the other.
CancelBackground ==
    /\ at = "ending" /\ toClose' = names /\ Goes("cancelling")
    /\ UNCHANGED <<again, answered, queue, accepts, names, pool, record, live, questions, told>>

Closes(n) == record' = [record EXCEPT ![pool[n]].state = "closed", ![pool[n]].delivered = TRUE]
CloseNext ==
    /\ at = "cancelling"
    /\ \E n \in toClose : Closes(n) /\ toClose' = toClose \ {n}
    /\ Goes("joining")
    /\ UNCHANGED <<again, answered, queue, accepts, names, pool, live, questions, told>>
\* Whoever was closed is waited for.
Joined ==
    /\ at = "joining" /\ \A d \in live : record[d].state # "closed"
    /\ Goes(IF accepts THEN "tools" ELSE "cancelling")
    /\ UNCHANGED <<again, answered, queue, accepts, names, pool, record, live, toClose,
                   questions, told>>
EndRun ==
    /\ at = "cancelling" /\ toClose = {} /\ Goes("idle")
    /\ UNCHANGED <<again, answered, queue, accepts, names, pool, record, live, toClose,
                   questions, told>>
\* A worktree is applied or discarded: its subagent is forgotten.
ForgetSubagent(n) ==
    /\ at = "idle" /\ pool[n] # 0 /\ pool' = [pool EXCEPT ![n] = 0]
    /\ UNCHANGED <<leaderVars, queue, accepts, names, record, live, toClose, questions, told>>

-----------------------------------------------------------------------------
(* The calls of the leader.                                                 *)

\* A new record, if the name's record is that of a background dispatch: the
\* deferred delivery of that one keeps its own.
Dispatch(n) ==
    /\ at = "tools" /\ n \notin names /\ Cardinality(names) < MaxBackground
    /\ \E d \in Dispatches \ Made :
        /\ \A e \in Dispatches : e < d => e \in Made
        /\ pool' = [pool EXCEPT ![n] = d]
        /\ \/ /\ record' = [record EXCEPT ![d].state = "running", ![d].run = run, ![d].name = n]
              /\ live' = live \cup {d} /\ names' = names \cup {n}
           \* No lease, no worktree: it is over at once.
           \/ /\ record' = [record EXCEPT ![d].state = "failed", ![d].run = run, ![d].name = n]
              /\ UNCHANGED <<live, names>>
    /\ UNCHANGED <<leaderVars, queue, accepts, toClose, questions, told>>
\* A dispatch in the foreground has a record of its own, too.
DispatchForeground(n) ==
    /\ at = "tools" /\ n \notin names /\ pool[n] # 0
    /\ pool' = [pool EXCEPT ![n] = 0]
    /\ UNCHANGED <<leaderVars, queue, accepts, names, record, live, toClose, questions, told>>

\* wait_subagents, when it has something to give.
WaitSubagents(S) ==
    LET D == {d \in Dispatches : Collectable(d) /\ \E n \in S : pool[n] = d}
        Q == {q \in Asked : /\ record[questions[q].by].name \in S
                            /\ ~questions[q].delivered /\ ~questions[q].waited} IN
    /\ at = "tools" /\ D \cup Q # {}
    /\ Collect(D)
    /\ questions' = [q \in Questions |-> IF q \in Q
                        THEN [questions[q] EXCEPT !.waited = TRUE] ELSE questions[q]]
    /\ UNCHANGED <<leaderVars, queue, accepts, names, pool, live, toClose>>
CloseSubagent(n) ==
    /\ at = "tools" /\ pool[n] # 0 /\ Closes(n)
    /\ Goes("joining")
    /\ UNCHANGED <<again, answered, queue, accepts, names, pool, live, toClose, questions, told>>

-----------------------------------------------------------------------------
(* The subagents' threads, and others that write to the queue.              *)

\* The end of worker.
Report(d) ==
    LET n == CHOOSE m \in names : pool[m] = d IN
    /\ d \in live /\ live' = live \ {d} /\ names' = names \ {n}
    /\ IF record[d].state = "closed" THEN UNCHANGED <<record, queue>>
       ELSE /\ record' = [record EXCEPT ![d].state = "finished", ![d].result = TRUE]
            /\ Enqueue([result |-> d])
    /\ UNCHANGED <<leaderVars, accepts, pool, toClose, questions, told>>

\* message_leader: a question.
Ask(d) ==
    /\ d \in live /\ record[d].state # "closed" /\ at # "idle"
    /\ \E q \in Questions \ Asked :
        /\ \A p \in Questions : p < q => p \in Asked
        /\ questions' = [questions EXCEPT ![q].by = d]
        /\ Enqueue([question |-> q])
    /\ UNCHANGED <<leaderVars, accepts, names, pool, record, live, toClose, told>>
\* The person's redirect, a subagent's progress; refused once the queue is closed.
Redirect ==
    /\ accepts /\ queue' = queue \cup {[text |-> TRUE]}
    /\ UNCHANGED <<leaderVars, accepts, names, pool, record, live, toClose, questions, told>>

Next ==
    \/ Chat \/ TakeRedirects \/ Responds \/ EndTools \/ Interrupted \/ WaitedFor \/ Decides
    \/ CloseRedirects \/ CancelBackground \/ CloseNext \/ Joined \/ EndRun \/ Redirect
    \/ \E n \in Names : Dispatch(n) \/ DispatchForeground(n) \/ CloseSubagent(n)
                        \/ ForgetSubagent(n)
    \/ \E S \in SUBSET Names : WaitSubagents(S)
    \/ \E d \in Dispatches : Report(d) \/ Ask(d)

Spec == Init /\ [][Next]_vars

-----------------------------------------------------------------------------
\* A result that no notice is left for since its run was over when it came: the
\* next run does not wait for anybody until it is collected or its subagent is
\* dispatched again.
Leftover == \E n \in Names : /\ pool[n] # 0 /\ Collectable(pool[n])
                             /\ record[pool[n]].run < run

\* The leader is given a result once at most, by a notice or by wait_subagents,
\* also when the subagent is dispatched again or closed in between.
ToldOnce == \A d \in Dispatches : told[d] <= 1
\* "turns.background_results_continue_the_leader" (scripts/checks/turns.py): a
\* run that ends because the leader has no more to do, ends when nobody is at
\* work for it any more, and with every result and question told, unless the
\* leader closed the subagent.
WorkIsAwaited ==
    answered /\ at \in {"closing", "ending"} /\ ~Leftover =>
        /\ live = {}
        /\ \A d \in Made : record[d].run = run =>
              told[d] = 1 \/ record[d].state \in {"closed", "failed"}
        /\ \A q \in Asked : record[questions[q].by].run = run => ~Open(q)
\* An answered leader goes on only with something new to read: else its next
\* request would end with its own answer.
GoesOnWithNews == at = "boundary" /\ again => Says(queue)

NoticesArrive == ToldOnce /\ WorkIsAwaited /\ GoesOnWithNews

-----------------------------------------------------------------------------
(* Why NoticesArrive holds: the inductive invariant of the proof.           *)

Listening == {"boundary", "asking", "tools", "waiting", "deciding", "closing"}
Records == [name : Names \cup {None}, state : {"none", "running", "failed", "finished", "closed"},
            result : BOOLEAN, delivered : BOOLEAN, run : Nat]
Typing ==
    /\ at \in Listening \cup {"idle", "ending", "cancelling", "joining"}
    /\ {again, answered, accepts} \subseteq BOOLEAN /\ run \in Nat
    /\ names \subseteq Names /\ pool \in [Names -> Dispatches \cup {0}]
    /\ record \in [Dispatches -> Records] /\ live \subseteq Dispatches
    /\ toClose \subseteq Names
    /\ questions \in [Questions -> [by : Dispatches \cup {0}, delivered : BOOLEAN,
                                   waited : BOOLEAN]]
    /\ told \in [Dispatches -> Nat]
\* The queue is open while the run may still read it, and only the run after an
\* answer goes on again.
Places ==
    /\ at \in Listening => accepts
    /\ at \in {"idle", "ending", "cancelling"} => ~accepts
    /\ again => at = "boundary"
\* What a record says of its dispatch.
RecordAgrees(d) ==
    /\ told[d] <= 1 /\ (~record[d].delivered => told[d] = 0)
    /\ record[d].delivered /\ record[d].state # "closed" => told[d] = 1
    /\ record[d].state \in {"none", "running", "failed"} => ~record[d].result /\ ~record[d].delivered
    /\ record[d].state = "finished" => record[d].result
    /\ record[d].state = "running" => d \in live
    /\ record[d].run <= run
    /\ d \in live => /\ record[d].state \in {"running", "closed"}
                     /\ record[d].run = run /\ ~record[d].result
\* The names at work are those of the live dispatches, one each; whoever asks
\* was dispatched.
Pooled ==
    /\ \A n \in Names : pool[n] # 0 => /\ record[pool[n]].state # "none"
                                       /\ record[pool[n]].name = n
    /\ \A n \in names : pool[n] \in live
    /\ \A d \in live : \E n \in names : pool[n] = d
    /\ \A q \in Asked : record[questions[q].by].state # "none"
\* Whoever is closed is waited for; cancel_background misses nobody.
Ends ==
    /\ at # "joining" => \A d \in live : record[d].state # "closed"
    /\ at = "idle" => live = {}
    /\ \A n \in toClose : pool[n] # 0
    /\ toClose # {} => at \in {"cancelling", "joining"} /\ ~accepts
    /\ at \in {"cancelling", "joining"} /\ ~accepts =>
          \A d \in live : record[d].state = "closed" \/ \E n \in toClose : pool[n] = d
\* Whatever of this run has not been told has its notice in the queue, which
\* holds no result of an earlier run, and no question nobody asked.
Queued ==
    /\ accepts => \A d \in Dispatches : Collectable(d) /\ record[d].run = run
                                          => [result |-> d] \in queue
    /\ accepts => \A q \in Asked : Open(q) /\ record[questions[q].by].run = run
                                      => [question |-> q] \in queue
    /\ \A d \in Dispatches : [result |-> d] \in queue => record[d].run = run
    /\ \A q \in Questions \ Asked : ~questions[q].delivered /\ [question |-> q] \notin queue
\* Every notice that came since the last request has something to say.
Telling ==
    at \in {"asking", "waiting", "deciding"} \/ (at = "boundary" /\ again) =>
        \A x \in queue : \/ x = [text |-> TRUE]
                         \/ \E d \in Dispatches : x = [result |-> d] /\ Collectable(d)
                         \/ \E q \in Asked : x = [question |-> q] /\ Open(q)
Awaited == at = "deciding" => names = {} \/ queue # {} \/ Undelivered
GoesHaveNews == at = "boundary" /\ again => queue # {}
IInv == /\ Typing /\ Places /\ (\A d \in Dispatches : RecordAgrees(d)) /\ Pooled /\ Ends
        /\ Queued /\ Telling /\ Awaited /\ GoesHaveNews /\ WorkIsAwaited
=============================================================================
