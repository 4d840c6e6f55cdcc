---------------------------- MODULE CancelTokens ----------------------------
(***************************************************************************)
(* The tokens of a run, its dispatches and their rounds (cancellation.py): *)
(* a child is cancelled with its parent, by its deadline, or explicitly,   *)
(* from any thread, while it is being made, and while it is being closed.  *)
(* Callbacks are copied under the lock and run outside of it.              *)
(***************************************************************************)
EXTENDS Integers, FiniteSets

CONSTANTS
  Tokens,
  Root,      \* the token of the run
  Parent,    \* [Tokens \ {Root} -> Tokens]
  Deadlines  \* tokens made with a deadline

VARIABLES
  stage,     \* how far child() or close() has come with a token
  reason,    \* CancelReason, "none" while its event is not set
  callbacks, \* children registered with a token
  linked,    \* _parent_unsubscribe is stored
  timer,     \* its deadline timer: "off", "set", or "elapsed" and about to cancel
  pending    \* children whose callback was taken and has not run yet

tokenVars == <<stage, reason, callbacks, linked, timer, pending>>

Children == Tokens \ {Root}
Whys     == {"none", "explicit", "parent", "deadline"}

Init ==
  /\ stage = [t \in Tokens |-> IF t = Root THEN "live" ELSE "none"]
  /\ reason = [t \in Tokens |-> "none"]
  /\ callbacks = [t \in Tokens |-> {}]
  /\ linked = [t \in Tokens |-> FALSE]
  /\ timer = [t \in Tokens |-> "off"]
  /\ pending = {}

Moves(t, from, to) == stage[t] = from /\ stage' = [stage EXCEPT ![t] = to]

-----------------------------------------------------------------------------
(* child() *)

Make(t) ==
  /\ stage[Parent[t]] = "live" /\ Moves(t, "none", "new")
  /\ timer' = [timer EXCEPT ![t] = IF t \in Deadlines THEN "set" ELSE "off"]
  /\ UNCHANGED <<reason, callbacks, linked, pending>>

\* Mutant: on_cancel registers without looking at the event.
RegisterBlindly(t) ==
  /\ Moves(t, "new", "registered")
  /\ callbacks' = [callbacks EXCEPT ![Parent[t]] = @ \cup {t}]
  /\ UNCHANGED <<reason, linked, timer, pending>>

\* on_cancel: registered, or, with the parent already cancelled, called at once
\* by the thread that makes the child.
Register(t) ==
  /\ IF reason[Parent[t]] = "none"
     THEN /\ Moves(t, "new", "registered")
          /\ callbacks' = [callbacks EXCEPT ![Parent[t]] = @ \cup {t}]
     ELSE Moves(t, "new", "late") /\ UNCHANGED callbacks
  /\ UNCHANGED <<reason, linked, timer, pending>>

\* child() stores the unsubscriber and returns.
Link(t) ==
  /\ Moves(t, "registered", "live")
  /\ linked' = [linked EXCEPT ![t] = TRUE]
  /\ UNCHANGED <<reason, callbacks, timer, pending>>

-----------------------------------------------------------------------------
(* _cancel *)

\* The first cause sets the event, takes the callbacks and stops the timer;
\* others are the calls that go on pending.
Cancelling(t, why, others) ==
  /\ IF reason[t] = "none"
     THEN /\ reason' = [reason EXCEPT ![t] = why]
          /\ pending' = others \cup callbacks[t]
          /\ callbacks' = [callbacks EXCEPT ![t] = {}]
          /\ timer' = [timer EXCEPT ![t] = IF @ = "set" THEN "off" ELSE @]
     ELSE pending' = others /\ UNCHANGED <<reason, callbacks, timer>>
  /\ UNCHANGED linked

Cancel(t) ==
  /\ stage[t] \in {"live", "closing", "detached", "closed"} /\ reason[t] = "none"
  /\ Cancelling(t, "explicit", pending)
  /\ UNCHANGED stage

CallBack(t) ==
  /\ t \in pending
  /\ Cancelling(t, "parent", pending \ {t})
  /\ UNCHANGED stage

CallLate(t) ==
  /\ Moves(t, "late", "live")
  /\ Cancelling(t, "parent", pending)

\* The timer has run out; stopping it now is too late.
Elapse(t) ==
  /\ timer[t] = "set" /\ timer' = [timer EXCEPT ![t] = "elapsed"]
  /\ UNCHANGED <<stage, reason, callbacks, linked, pending>>

Expire(t) ==
  /\ timer[t] = "elapsed" /\ reason[t] = "none"
  /\ Cancelling(t, "deadline", pending)
  /\ UNCHANGED stage

-----------------------------------------------------------------------------
(* close() *)

Close(t) ==
  /\ Moves(t, "live", IF linked[t] THEN "closing" ELSE "detached")
  /\ linked' = [linked EXCEPT ![t] = FALSE]
  /\ UNCHANGED <<reason, callbacks, timer, pending>>

Detach(t) ==
  /\ Moves(t, "closing", "detached")
  /\ callbacks' = [callbacks EXCEPT ![Parent[t]] = @ \ {t}]
  /\ UNCHANGED <<reason, linked, timer, pending>>

StopTimer(t) ==
  /\ Moves(t, "detached", "closed")
  /\ timer' = [timer EXCEPT ![t] = IF @ = "set" THEN "off" ELSE @]
  /\ UNCHANGED <<reason, callbacks, linked, pending>>

-----------------------------------------------------------------------------
Next ==
  \E t \in Tokens :
    \/ Cancel(t)
    \/ /\ t \in Children
       /\ \/ Make(t) \/ Register(t) \/ Link(t) \/ CallBack(t) \/ CallLate(t)
          \/ Elapse(t) \/ Expire(t) \/ Close(t) \/ Detach(t) \/ StopTimer(t)

Spec == Init /\ [][Next]_tokenVars

-----------------------------------------------------------------------------
TypeOK ==
  /\ stage \in [Tokens -> {"none", "new", "registered", "late", "live", "closing",
                           "detached", "closed"}]
  /\ reason \in [Tokens -> Whys]
  /\ callbacks \in [Tokens -> SUBSET Tokens]
  /\ linked \in [Tokens -> BOOLEAN]
  /\ timer \in [Tokens -> {"off", "set", "elapsed"}]
  /\ pending \subseteq Tokens

\* Whatever token of the chain is cancelled, and by whom, everything still at
\* work below it is cancelled or about to be; and a token that was closed
\* leaves nothing behind with its parent, which lives on (child, on_cancel and
\* close in cancellation.py).
CancelReaches ==
  \A t \in Children :
    /\ stage[t] = "live" /\ reason[Parent[t]] # "none" => reason[t] # "none" \/ t \in pending
    /\ stage[t] \in {"detached", "closed"} => t \notin callbacks[Parent[t]]
    /\ stage[t] = "closed" => timer[t] # "set"

\* What is assumed of the tree of tokens.
TokenAssumption == Root \in Tokens /\ Parent \in [Tokens \ {Root} -> Tokens]

\* Why: a child is registered with its parent from on_cancel to close, until the
\* parent takes its callbacks, which are pending then; one that came late is not
\* registered, and its parent is cancelled.
IInv ==
  /\ TypeOK
  /\ \A t \in Children :
       /\ stage[t] \in {"none", "new", "late", "detached", "closed"}
            => t \notin callbacks[Parent[t]]
       /\ stage[t] = "late" => reason[Parent[t]] # "none"
       /\ stage[t] = "live" /\ t \in callbacks[Parent[t]] => linked[t]
       /\ stage[t] \in {"registered", "live"} =>
            IF reason[Parent[t]] = "none" THEN t \in callbacks[Parent[t]]
            ELSE reason[t] # "none" \/ t \in pending
       /\ stage[t] = "closed" => timer[t] # "set"
=============================================================================
