---------------------------- MODULE HeadlessRun ----------------------------
(***************************************************************************)
(* `symphonai run`: a command that starts one turn of a conversation, new  *)
(* or resumed, reads the events of the host until the turn has ended, and  *)
(* tells its caller by a result and an exit code what has become of it.    *)
(***************************************************************************)
EXTENDS Naturals, Sequences

CONSTANTS QueueLimit,   \* events a subscription holds
          MaxEvents,    \* events published before the last one
          MaxSaid,      \* messages the turn adds
          None

CommandAssumption == QueueLimit \in Nat \ {0}

VARIABLES run,          \* the turn: works, or what it ended with
          messages,     \* the conversation as it is loaded: "old", "new", "summary"
          before,       \* messages there were before the turn
          queue,        \* the subscription
          lost,         \* whether the queue lost the event that ends the turn
          published, said,
          wait,         \* where _wait_for_terminal is
          interrupted,  \* Ctrl-C was pressed while it waited
          stopping,     \* HostRun.stop has cancelled the turn
          schema,       \* an output schema was given
          result        \* what the command prints and returns

commandVars == <<run, messages, before, queue, lost, published, said, wait, interrupted, stopping, schema, result>>

Reasons == {"final_response", "turn_limit", "cancelled", "refused"}
Failures == {"rejected_key", "other_error"}
Ends == Reasons \cup Failures

\* A resumed conversation has an answer already.
Init ==
  /\ messages \in {<<>>, <<"old">>, <<"old", "old">>} /\ before = Len(messages)
  /\ run = "works" /\ queue = <<>> /\ lost = FALSE /\ published = 0 /\ said = 0
  /\ wait = "get" /\ interrupted = FALSE /\ stopping = FALSE
  /\ schema \in BOOLEAN
  /\ result = None

\* EventBroker.publish: a full queue loses its oldest event.
Put(q, e) == Append(IF Len(q) < QueueLimit THEN q ELSE Tail(q), e)

Publishes ==
  /\ published < MaxEvents /\ run = "works"
  /\ published' = published + 1
  /\ queue' = Put(queue, "other")
  /\ UNCHANGED <<run, messages, before, lost, said, wait, interrupted, stopping, schema, result>>

Says ==
  /\ run = "works" /\ said < MaxSaid
  /\ said' = said + 1 /\ messages' = Append(messages, "new")
  /\ UNCHANGED <<run, before, queue, lost, published, wait, interrupted, stopping, schema, result>>

\* Older messages become a summary; the last one is kept.
Compacts ==
  /\ run = "works" /\ Len(messages) > 1 /\ messages[1] # "summary"
  /\ messages' = <<"summary", messages[Len(messages)]>>
  /\ UNCHANGED <<run, before, queue, lost, published, said, wait, interrupted, stopping, schema, result>>

\* The turn's end is published while it is taken off the active runs, followed
\* by what a memory extraction deferred.
TurnEnds(o) ==
  /\ run = "works"
  /\ o = "cancelled" => stopping
  /\ o = "final_response" => said > 0
  /\ run' = o
  /\ \E memory \in 0..QueueLimit :
       LET all == queue \o <<o>> \o [i \in 1..memory |-> "other"]
           over == IF Len(all) > QueueLimit THEN Len(all) - QueueLimit ELSE 0
       IN /\ queue' = SubSeq(all, over + 1, Len(all))
          /\ lost' = (over > Len(queue))
  /\ UNCHANGED <<messages, before, published, said, wait, interrupted, stopping, schema, result>>

-----------------------------------------------------------------------------
Terminal(e) == e \in Ends

\* subscription.get: an event, or none within its time.
Get ==
  /\ wait = "get"
  /\ IF queue # <<>>
     THEN /\ queue' = Tail(queue)
          /\ wait' = IF Terminal(Head(queue)) THEN Head(queue) ELSE "get"
     ELSE wait' = "none" /\ queue' = queue
  /\ UNCHANGED <<run, messages, before, lost, published, said, interrupted, stopping, schema, result>>

\* Mutant: a turn that is no longer active has ended without an event.
AsksActiveOnly ==
  /\ wait = "none"
  /\ wait' = IF run = "works" THEN "get" ELSE "unheard"
  /\ UNCHANGED <<run, messages, before, queue, lost, published, said, interrupted, stopping, schema, result>>

\* No event in time: unless the turn is still active, its end may have been
\* queued just before.
AsksActive ==
  /\ wait = "none"
  /\ wait' = IF run = "works" THEN "get" ELSE "drain"
  /\ UNCHANGED <<run, messages, before, queue, lost, published, said, interrupted, stopping, schema, result>>

Drain ==
  /\ wait = "drain"
  /\ IF queue = <<>> THEN wait' = "unheard" /\ queue' = queue
     ELSE /\ queue' = Tail(queue)
          /\ wait' = IF Terminal(Head(queue)) THEN Head(queue) ELSE "get"
  /\ UNCHANGED <<run, messages, before, lost, published, said, interrupted, stopping, schema, result>>

Interrupt ==
  /\ wait = "get" /\ ~interrupted
  /\ interrupted' = TRUE /\ stopping' = (run = "works")
  /\ UNCHANGED <<run, messages, before, queue, lost, published, said, wait, schema, result>>

\* _saved_result: the last answer among the messages the turn has added, or
\* among all of them if there are fewer than before.
Added == IF Len(messages) >= before THEN SubSeq(messages, before + 1, Len(messages)) ELSE messages
SavedResult ==
  LET A == {i \in 1..Len(Added) : Added[i] # "summary"}
  IN IF A = {} THEN "nothing" ELSE Added[CHOOSE i \in A : \A j \in A : j <= i]

ExitCode(status, seen) ==
  IF interrupted THEN 130
  ELSE IF seen = "rejected_key" THEN 2
  ELSE IF status = "failed" THEN 1
  ELSE IF status = "finished" THEN 0 ELSE 3

\* The result, once the turn has ended.
Reports ==
  /\ wait \in Ends \cup {"unheard"} /\ result = None
  /\ \E valid \in BOOLEAN :
       LET ended == IF wait \in Failures \cup {"unheard"} THEN "failed"
                    ELSE IF wait = "final_response" /\ ~interrupted THEN "finished" ELSE "stopped"
           status == IF schema /\ ended = "finished" /\ ~valid THEN "failed" ELSE ended
       IN result' = [status |-> status, code |-> ExitCode(status, wait), valid |-> valid,
                     text |-> IF wait = "refused" THEN "nothing" ELSE SavedResult]
  /\ UNCHANGED <<run, messages, before, queue, lost, published, said, wait, interrupted, stopping, schema>>

Next == \/ Publishes \/ Says \/ Compacts \/ \E o \in Ends : TurnEnds(o)
        \/ Get \/ AsksActive \/ Drain \/ Interrupt \/ Reports
Spec == Init /\ [][Next]_commandVars

-----------------------------------------------------------------------------
TypeOK ==
  /\ run \in Ends \cup {"works"} /\ messages \in Seq({"old", "new", "summary"})
  /\ queue \in Seq(Ends \cup {"other"}) /\ Len(queue) <= QueueLimit
  /\ before \in Nat /\ said \in Nat
  /\ lost \in BOOLEAN /\ interrupted \in BOOLEAN /\ schema \in BOOLEAN
  /\ wait \in Ends \cup {"get", "none", "drain", "unheard"}

\* The exit code is what has become of the turn: 0 only for an answer that is
\* final, valid and uninterrupted, a failure only for a turn that failed, or
\* one whose end the queue has lost.
CodeIsTrue ==
  result # None =>
    /\ run # "works"
    /\ result.code = 0 <=> run = "final_response" /\ ~interrupted /\ ~lost /\ (schema => result.valid)
    /\ result.status = "failed" =>
         run \in Failures \/ lost \/ (schema /\ ~result.valid /\ run = "final_response")

\* The text of a finished turn is one the turn has said, unless a compaction
\* has made fewer messages of those there were before.
TextIsOwn ==
  result # None /\ result.status = "finished" => result.text = "new" \/ "summary" \in {messages[i] : i \in 1..Len(messages)}

CommandTells == CodeIsTrue /\ TextIsOwn

\* What keeps it so: the end of the turn is in the queue until it is heard, or
\* it is lost, and the messages the turn has added are the last ones.
Holds(e) == \E i \in 1..Len(queue) : queue[i] = e
EndIsHeard ==
  /\ \A i \in 1..Len(queue) : queue[i] \in {"other", run}
  /\ run = "works" => ~lost /\ wait \in {"get", "none"}
  /\ run # "works" /\ wait \in {"get", "none", "drain"} => (Holds(run) <=> ~lost)
  /\ wait \in Ends => wait = run /\ ~lost
  /\ wait = "unheard" => lost
AddedAreLast ==
  /\ \/ \E i \in 1..Len(messages) : messages[i] = "summary"
     \/ /\ Len(messages) = before + said
        /\ \A i \in 1..Len(messages) : i > before => messages[i] = "new"
  /\ run = "final_response" => said > 0

IInv ==
  /\ TypeOK /\ EndIsHeard /\ AddedAreLast /\ CommandTells
  /\ result # None => wait \in Ends \cup {"unheard"}
=============================================================================
