---------------------------- MODULE ModelRequest ----------------------------
(***************************************************************************)
(* One streamed request of a turn: the models it falls back to             *)
(* (agent_loop.py), the attempts each of them gets (retry.py,              *)
(* streaming.py), and the answer put together from the chunks.  The        *)
(* provider is external: it sends chunks, and fails in any of the ways the  *)
(* code tells apart.                                                       *)
(***************************************************************************)
EXTENDS Integers, FiniteSets

CONSTANTS
  Chain,        \* models: the one asked for and its fallbacks, 1 .. Chain
  MaxAttempts,  \* attempts a model gets
  Background,   \* the call is a background one (CallClass)
  Parameters    \* optional parameters a vendor may reject

FallbackAttempts == 3   \* FALLBACK_OVERLOAD_MAX_ATTEMPTS

VARIABLES
  state,     \* where the request is
  model,     \* the model that is asked
  attempt,   \* its attempt
  late,      \* the overall deadline of this model's attempts has passed
  output,    \* this attempt's text was yielded
  held,      \* chunks of this attempt that wait for its first text
  shown,     \* attempts whose text the person has seen
  parts,     \* attempts whose chunks are in the assembler
  dropped,   \* parameters left out after the vendor rejected them
  stop       \* the token of the run is cancelled

requestVars == <<state, model, attempt, late, output, held, shown, parts, dropped, stop>>

This == <<model, attempt>>
Over == {"answered", "failed", "unavailable", "overflow", "stopped"}

\* How a provider fails, as retry_decision and the exceptions tell it apart.
Failures == {"network", "server", "rate", "long_wait", "overload", "permanent", "context"}

Init ==
  /\ state = "start" /\ model = 1 /\ attempt = 1 /\ late = FALSE
  /\ output = FALSE /\ held = FALSE /\ shown = {} /\ parts = {} /\ dropped = 0 /\ stop = FALSE

-----------------------------------------------------------------------------
\* The head of the loop over attempts.
Begin ==
  /\ state = "start"
  /\ output' = FALSE /\ held' = FALSE
  /\ state' = IF stop THEN "stopped" ELSE IF late THEN "failed" ELSE "reading"
  /\ UNCHANGED <<model, attempt, late, shown, parts, dropped, stop>>

\* A text or reasoning delta: what was held goes first.  The loop of the turn
\* looks at its token before it shows a chunk.
Text ==
  /\ state = "reading"
  /\ output' = TRUE /\ held' = FALSE
  /\ IF stop THEN state' = "stopped" /\ UNCHANGED <<shown, parts>>
     ELSE shown' = shown \cup {This} /\ parts' = parts \cup {This} /\ UNCHANGED state
  /\ UNCHANGED <<model, attempt, late, dropped, stop>>

\* A delta of a tool call is held until the attempt has shown text.
ToolDelta ==
  /\ state = "reading"
  /\ IF ~output THEN held' = TRUE /\ UNCHANGED <<state, parts>>
     ELSE IF stop THEN state' = "stopped" /\ UNCHANGED <<held, parts>>
     ELSE parts' = parts \cup {This} /\ UNCHANGED <<state, held>>
  /\ UNCHANGED <<model, attempt, late, output, shown, dropped, stop>>

\* The stream ends; without a completion event the assembler fails.
Ends(complete) ==
  /\ state = "reading"
  /\ held' = FALSE
  /\ IF stop THEN state' = "stopped" /\ UNCHANGED parts
     ELSE /\ parts' = parts \cup {This}
          /\ state' = IF complete THEN "answered" ELSE "failed"
  /\ UNCHANGED <<model, attempt, late, output, shown, dropped, stop>>

-----------------------------------------------------------------------------
\* The next model of the chain starts with attempts and a deadline of its own,
\* and with a new assembler; without one the request is unavailable.
NextModel ==
  IF model < Chain
  THEN /\ model' = model + 1 /\ attempt' = 1 /\ late' = FALSE
       /\ parts' = {} /\ state' = "start"
  ELSE state' = "unavailable" /\ UNCHANGED <<model, attempt, late, parts>>

Less(a, b) == IF a < b THEN a ELSE b

\* With fallbacks configured, overload and rate limits get few attempts.
AttemptLimit(f) ==
  IF Chain > 1 /\ f \in {"rate", "overload"} THEN Less(MaxAttempts, FallbackAttempts)
  ELSE MaxAttempts

\* wait_before_retry waits, or gives up because of the attempts, the deadline
\* or a wait longer than what is left.
RetryOrGiveUp(f) ==
  \/ /\ attempt < AttemptLimit(f) /\ ~late
     /\ state' = "waiting" /\ UNCHANGED <<model, attempt, late, parts>>
  \/ NextModel

\* Mutant: an attempt that has shown text is tried again.
FailsRetried(f) ==
  /\ state = "reading"
  /\ IF f \in {"permanent", "context", "long_wait"} \/ (f = "overload" /\ Background)
     THEN /\ state' = IF f = "context" THEN "overflow" ELSE "failed"
          /\ UNCHANGED <<model, attempt, late, parts>>
     ELSE RetryOrGiveUp(f)
  /\ UNCHANGED <<output, held, shown, dropped, stop>>

\* After text was shown nothing is tried again, with this model or another.
\* A context overflow is an HTTP status, so it comes before any chunk.
Fails(f) ==
  /\ state = "reading"
  /\ f = "context" => ~output /\ ~held
  /\ IF output \/ f \in {"permanent", "context", "long_wait"} \/ (f = "overload" /\ Background)
     THEN /\ state' = IF f = "context" THEN "overflow" ELSE "failed"
          /\ UNCHANGED <<model, attempt, late, parts>>
     ELSE RetryOrGiveUp(f)
  /\ UNCHANGED <<output, held, shown, dropped, stop>>

\* The wait before the next attempt is over, cut short by a stop, or has used
\* up the deadline.
Waited ==
  /\ state = "waiting"
  /\ IF stop THEN state' = "stopped" /\ UNCHANGED <<model, attempt, late, parts>>
     ELSE IF late THEN NextModel
     ELSE state' = "start" /\ attempt' = attempt + 1 /\ UNCHANGED <<model, late, parts>>
  /\ UNCHANGED <<output, held, shown, dropped, stop>>

\* The connection looks at the token for every line it reads.
Interrupted ==
  /\ state = "reading" /\ stop
  /\ state' = "stopped"
  /\ UNCHANGED <<model, attempt, late, output, held, shown, parts, dropped, stop>>

\* The vendor rejects a parameter before it sent anything: the request is sent
\* again without it, with all its attempts (the adapters' resend).
Resend ==
  /\ state = "reading" /\ ~output /\ ~held /\ dropped < Parameters
  /\ dropped' = dropped + 1
  /\ state' = "start" /\ attempt' = 1 /\ late' = FALSE
  /\ UNCHANGED <<model, output, held, shown, parts, stop>>

Stop ==
  /\ ~stop /\ stop' = TRUE /\ state \notin Over
  /\ UNCHANGED <<state, model, attempt, late, output, held, shown, parts, dropped>>

DeadlinePasses ==
  /\ ~late /\ late' = TRUE /\ state \notin Over
  /\ UNCHANGED <<state, model, attempt, output, held, shown, parts, dropped, stop>>

Next ==
  \/ Begin \/ Text \/ ToolDelta \/ Interrupted \/ Resend \/ Waited \/ Stop \/ DeadlinePasses
  \/ \E complete \in BOOLEAN : Ends(complete)
  \/ \E f \in Failures : Fails(f)

Spec == Init /\ [][Next]_requestVars

-----------------------------------------------------------------------------
\* Every variable has its type; no model gets more attempts than the limit.
TypeOK ==
  /\ state \in {"start", "reading", "waiting"} \cup Over
  /\ model \in 1 .. Chain /\ attempt \in 1 .. MaxAttempts /\ dropped \in 0 .. Parameters
  /\ {late, output, held, stop} \subseteq BOOLEAN
  /\ {shown, parts} \subseteq SUBSET ((1 .. Chain) \X (1 .. MaxAttempts))

\* The person never reads the texts of two attempts one after the other, and
\* an answer is put together from the chunks of one attempt alone, the one
\* whose text was shown: "Retry transient stream failures until answer text
\* has been yielded" (streaming.py).
OneVoice ==
  /\ Cardinality(shown) <= 1
  /\ state = "answered" => parts = {This} /\ shown \subseteq parts

\* Why: what was shown or kept is the attempt's own, and there is nothing of it
\* where another attempt or another model begins.
IInv ==
  /\ shown \subseteq {This} /\ parts \subseteq {This}
  /\ state \in {"start", "waiting"} => shown = {} /\ parts = {}
  /\ state = "reading" /\ ~output => shown = {} /\ parts = {}
  /\ state = "answered" => parts = {This}
=============================================================================
