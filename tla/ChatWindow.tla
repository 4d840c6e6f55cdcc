----------------------------- MODULE ChatWindow -----------------------------
(***************************************************************************)
(* The window's account of the turn (turn.js) and what app.js makes of it:   *)
(* messages are sent, steered into the running turn or queued; frames of the *)
(* host's event stream end turns and let the next message go; after a gap in *)
(* the stream, or a disconnection, the window asks the host what it is       *)
(* doing.  Requests are answered late, fail, or fail after the host took     *)
(* them; each await is a place where anything else may happen, except that   *)
(* the frames of one stream wait for each other.                             *)
(***************************************************************************)
EXTENDS Integers, Sequences, SequencesExt, FiniteSets

CONSTANTS
  MaxMessages,   \* messages the person writes
  MaxRuns,       \* turns the host runs
  MaxGaps,       \* losses of frames, and of the stream
  None

VARIABLES
  state, active, inFlight, queue,   \* turn.js
  requests,    \* prompts and steers on their way, each with what came of it
  asked,       \* what the window does about a gap or a new stream
  connected,
  frames,      \* on their way in the stream
  hostRun,     \* the turn the host runs
  announced,   \* whether its start was published
  runs,        \* turns the host has run
  taken,       \* messages the host took, in order
  written,     \* messages the person wrote
  returned,    \* messages the person was told were not sent, or took back
  unheard,     \* messages whose reply was lost
  crossed,     \* messages in flight that the answer to an earlier one was taken for
  astray,      \* the window acted on a state of the host that no longer held
  left,        \* queued messages that an adoption put in flight and never sent
  gaps

turnVars == <<state, active, inFlight, queue>>
windowVars == <<turnVars, requests, asked>>
hostVars == <<hostRun, announced, runs, taken>>
personVars == <<written, returned, unheard>>
lossVars == <<crossed, astray, left, gaps>>
chatVars == <<windowVars, connected, frames, hostVars, personVars, lossVars>>

IDLE == "idle"
DISPATCHING == "dispatching"
RUNNING == "running"

\* The message that a window invents for a turn it did not begin.
Blank == 0
Flight(m) == [id |-> m, cancelled |-> FALSE]
\* A prompt that a frame let go keeps the frames after it waiting.
Request(m, kind, by) == [id |-> m, kind |-> kind, by |-> by, stage |-> "sent"]

Init ==
  /\ state = IDLE /\ active = None /\ inFlight = None /\ queue = <<>>
  /\ requests = {} /\ asked = None /\ connected = TRUE /\ frames = <<>>
  /\ hostRun = None /\ announced = FALSE /\ runs = 0 /\ taken = <<>>
  /\ written = 0 /\ returned = {} /\ unheard = {}
  /\ crossed = {} /\ astray = FALSE /\ left = {} /\ gaps = 0

-----------------------------------------------------------------------------
\* turn.js, as steps from one account to the next.
Turn == [state |-> state, active |-> active, inFlight |-> inFlight, queue |-> queue]
Becomes(t) ==
  /\ state' = t.state /\ active' = t.active /\ inFlight' = t.inFlight /\ queue' = t.queue
dispatch(t, m) == [t EXCEPT !.state = DISPATCHING, !.active = None, !.inFlight = Flight(m)]
Drains(t) == t.state = IDLE /\ t.queue # <<>>
drainOne(t) ==
  IF Drains(t) THEN [dispatch(t, Head(t.queue)) EXCEPT !.queue = Tail(t.queue)] ELSE t
submit(t, m) == drainOne([t EXCEPT !.queue = Append(@, m)])
withdraw(t, m) == [t EXCEPT !.queue = SelectSeq(@, LAMBDA x : x # m)]
stop(t) ==
  IF t.state = DISPATCHING /\ t.inFlight # None THEN [t EXCEPT !.inFlight.cancelled = TRUE] ELSE t
accepted(t) ==
  IF t.state # DISPATCHING \/ t.inFlight = None THEN t
  ELSE IF t.inFlight.cancelled THEN t ELSE [t EXCEPT !.state = RUNNING]
rejected(t) ==
  IF t.state # DISPATCHING \/ t.inFlight = None THEN t
  ELSE [state |-> IDLE, active |-> None, inFlight |-> None,
        queue |-> <<t.inFlight.id>> \o t.queue]
RunStarted(t, r) ==
  IF t.active = None /\ t.state \in {DISPATCHING, RUNNING} THEN [t EXCEPT !.active = r] ELSE t
Ends(t, r) == t.active # None /\ t.active = r
RunEnded(t, r) ==
  IF Ends(t, r) THEN drainOne([t EXCEPT !.state = IDLE, !.active = None, !.inFlight = None]) ELSE t

\* The prompt that a step from t to u lets go, if any.
Sends(t, u, by) ==
  IF u.inFlight # None /\ u.inFlight # t.inFlight /\ (t.state = IDLE \/ u.inFlight.id # t.inFlight.id)
  THEN {Request(u.inFlight.id, "prompt", by)} ELSE {}

-----------------------------------------------------------------------------
\* The host.
HostBegins(m) ==
  /\ hostRun = None /\ runs < MaxRuns
  /\ hostRun' = runs + 1 /\ runs' = runs + 1 /\ announced' = FALSE
  /\ taken' = IF m = None THEN taken ELSE Append(taken, m)
Tells(f) == frames' = IF connected THEN Append(frames, f) ELSE frames

\* A turn of the same conversation that this window did not ask for.
Other ==
  /\ HostBegins(None)
  /\ UNCHANGED <<windowVars, connected, frames, personVars, lossVars>>
Announce ==
  /\ hostRun # None /\ ~announced /\ announced' = TRUE
  /\ Tells([type |-> "RunStarted", run |-> hostRun])
  /\ UNCHANGED <<lossVars, windowVars, connected, hostRun, runs, taken,
                 personVars>>
HostEnds ==
  /\ hostRun # None /\ announced /\ hostRun' = None
  /\ Tells([type |-> "RunEnded", run |-> hostRun])
  /\ UNCHANGED <<windowVars, connected, announced, runs, taken, personVars,
                 lossVars>>

\* A prompt begins a turn, or is refused while one runs; a steer joins one.
\* The reply may be lost on its way.
Becoming(q, stage) == requests' = (requests \ {q}) \cup {[q EXCEPT !.stage = stage]}
Arrives(q, lost) ==
  /\ q.stage = "sent"
  /\ \/ /\ q.kind = "prompt" /\ q.id # Blank /\ HostBegins(q.id)
        /\ Becoming(q, IF lost THEN "failed" ELSE "accepted")
     \/ /\ q.kind = "steer" /\ hostRun # None /\ taken' = Append(taken, q.id)
        /\ Becoming(q, IF lost THEN "failed" ELSE "accepted")
        /\ UNCHANGED <<hostRun, announced, runs>>
  /\ unheard' = IF lost THEN unheard \cup {q.id} ELSE unheard
  /\ UNCHANGED <<turnVars, asked, connected, frames, written, returned, lossVars>>
Refused(q) ==
  /\ q.stage = "sent"
  /\ q.kind = "prompt" => q.id = Blank \/ hostRun # None
  /\ q.kind = "steer" => hostRun = None
  /\ Becoming(q, "failed")
  /\ UNCHANGED <<turnVars, asked, connected, frames, hostVars, personVars, lossVars>>
\* The request does not reach the host.
Fails(q) ==
  /\ q.stage = "sent" /\ Becoming(q, "failed")
  /\ UNCHANGED <<turnVars, asked, connected, frames, hostVars, personVars, lossVars>>

-----------------------------------------------------------------------------
\* The composer: one prompt of the person's at a time; a message without files
\* steers a running turn, and is queued if the host refuses that.
submittingPrompt == \E q \in requests : q.by = "person"
Submit ==
  /\ written < MaxMessages /\ ~submittingPrompt
  /\ written' = written + 1
  /\ LET m == written + 1
         next == submit(Turn, m) IN
     \/ /\ state = RUNNING
        /\ requests' = requests \cup {Request(m, "steer", "person")}
        /\ UNCHANGED turnVars
     \/ Becomes(next) /\ requests' = requests \cup Sends(Turn, next, "person")
  /\ UNCHANGED <<asked, connected, frames, hostVars, returned, unheard, lossVars>>
Stop ==
  /\ state = DISPATCHING /\ inFlight # None /\ ~inFlight.cancelled /\ Becomes(stop(Turn))
  /\ UNCHANGED <<requests, asked, connected, frames, hostVars, personVars, lossVars>>
Withdraw ==
  /\ \E m \in ToSet(queue) : Becomes(withdraw(Turn, m)) /\ returned' = returned \cup {m}
  /\ UNCHANGED <<requests, asked, connected, frames, hostVars, written, unheard, lossVars>>

\* perform, after a reply: an accepted prompt runs; one that failed leaves the
\* queue and goes back to the composer.  A late answer finds another message
\* in flight.
Crosses(q) ==
  crossed' = IF q.kind = "prompt" /\ state = DISPATCHING /\ inFlight.id # q.id
             THEN crossed \cup {inFlight.id} ELSE crossed
Accepted(q) ==
  /\ q.stage = "accepted" /\ requests' = requests \ {q}
  /\ IF q.kind = "prompt" THEN Becomes(accepted(Turn))
     ELSE UNCHANGED turnVars
  /\ Crosses(q)
  /\ UNCHANGED <<asked, connected, frames, hostVars, personVars, astray, left, gaps>>
\* Mutant: a message handed back stays in the queue.
PromptFailedQueued(q) ==
  /\ q.stage = "failed" /\ q.kind = "prompt" /\ requests' = requests \ {q}
  /\ Becomes(rejected(Turn))
  /\ returned' = returned \cup {q.id}
  /\ Crosses(q)
  /\ UNCHANGED <<asked, connected, frames, hostVars, written, unheard, astray, left, gaps>>
PromptFailed(q) ==
  /\ q.stage = "failed" /\ q.kind = "prompt" /\ requests' = requests \ {q}
  /\ Becomes(withdraw(rejected(Turn), q.id))
  /\ returned' = returned \cup {q.id}
  /\ Crosses(q)
  /\ UNCHANGED <<asked, connected, frames, hostVars, written, unheard, astray, left, gaps>>
SteerFailed(q) ==
  /\ q.stage = "failed" /\ q.kind = "steer"
  /\ LET next == submit(Turn, q.id) IN
       Becomes(next) /\ requests' = (requests \ {q}) \cup Sends(Turn, next, "person")
  /\ UNCHANGED <<asked, connected, frames, hostVars, personVars, lossVars>>

-----------------------------------------------------------------------------
\* The stream.
Busy == (\E q \in requests : q.by = "frames") \/ (asked # None /\ asked.by = "frames")
Reconcile(by) == [by |-> by, stage |-> "asks", run |-> None, known |-> None]
Deliver ==
  /\ frames # <<>> /\ ~Busy /\ frames' = Tail(frames)
  /\ LET f == Head(frames)
         next == CASE f.type = "RunStarted" -> RunStarted(Turn, f.run)
                   [] f.type = "RunEnded" -> RunEnded(Turn, f.run)
                   [] OTHER -> Turn IN
     /\ Becomes(next) /\ requests' = requests \cup Sends(Turn, next, "frames")
     /\ f.type = "gap" => asked = None
     /\ asked' = IF f.type = "gap" THEN Reconcile("frames") ELSE asked
  /\ UNCHANGED <<connected, hostVars, personVars, lossVars>>
Lose ==
  /\ gaps < MaxGaps /\ gaps' = gaps + 1 /\ frames # <<>>
  /\ \E n \in 1 .. Len(frames) :
       frames' = <<[type |-> "gap", run |-> None]>> \o SubSeq(frames, n + 1, Len(frames))
  /\ UNCHANGED <<windowVars, connected, hostVars, personVars, crossed, astray,
                 left>>
Disconnect ==
  /\ connected /\ asked = None /\ gaps < MaxGaps /\ gaps' = gaps + 1
  /\ connected' = FALSE /\ frames' = <<>>
  /\ UNCHANGED <<windowVars, hostVars, personVars, crossed, astray, left>>
\* The new stream does not wait for what a frame of the old one began.
reconnect ==
  /\ ~connected /\ connected' = TRUE /\ asked' = Reconcile("timer")
  /\ requests' = {IF q.by = "frames" THEN [q EXCEPT !.by = "old"] ELSE q : q \in requests}
  /\ UNCHANGED <<turnVars, frames, hostVars, personVars, lossVars>>

\* reconcileConnection asks what runs, awaits more of the host, and then takes
\* up a turn it did not know of, or ends one that is over.
health ==
  /\ asked # None /\ asked.stage = "asks"
  /\ asked' = [asked EXCEPT !.stage = "knows", !.run = hostRun,
                            !.known = IF hostRun # None /\ announced THEN hostRun ELSE None]
  /\ UNCHANGED <<turnVars, requests, connected, frames, hostVars, personVars, lossVars>>
TakesUp(t) == IF t.state = IDLE THEN accepted(submit(t, Blank)) ELSE t
reconcileConnection ==
  /\ asked # None /\ asked.stage = "knows" /\ asked' = None
  /\ LET busy == state \in {RUNNING, DISPATCHING}
         next == CASE asked.run # None ->
                        IF asked.known = None THEN TakesUp(Turn)
                        ELSE RunStarted(TakesUp(Turn), asked.known)
                   [] asked.run = None /\ busy ->
                        LET t == RunStarted(Turn, "reconciled") IN RunEnded(t, t.active)
                   [] OTHER -> Turn IN
     /\ Becomes(next)
     /\ requests' = IF asked.run # None THEN requests
                    ELSE requests \cup Sends(Turn, next, asked.by)
     /\ left' = IF asked.run # None /\ state = IDLE /\ queue # <<>> THEN left \cup {Head(queue)}
                ELSE left
  /\ astray' = \/ asked.run # hostRun \/ (hostRun # None /\ asked.known = None /\ announced)
               \/ asked.run # None /\ state # IDLE /\ active \notin {None, asked.run}
  /\ UNCHANGED <<connected, frames, hostVars, personVars, crossed, gaps>>

Next ==
  \/ Other \/ Announce \/ HostEnds
  \/ \E q \in requests : \/ \E lost \in BOOLEAN : Arrives(q, lost)
                         \/ Refused(q) \/ Fails(q)
                         \/ Accepted(q) \/ PromptFailed(q) \/ SteerFailed(q)
  \/ Submit \/ Stop \/ Withdraw
  \/ Deliver \/ Lose \/ Disconnect \/ reconnect \/ health \/ reconcileConnection

Spec == Init /\ [][Next]_chatVars

-----------------------------------------------------------------------------
TypeOK ==
  /\ state \in {IDLE, DISPATCHING, RUNNING} /\ written \in 0 .. MaxMessages
  /\ ToSet(queue) \subseteq 0 .. MaxMessages /\ returned \subseteq 0 .. MaxMessages

Pending(m) == \E q \in requests : q.id = m
Times(m) == Cardinality({i \in DOMAIN taken : taken[i] = m})

\* No message is lost: the host has it, or it waits, or is on its way, or the
\* person was told.
NoneLost ==
  \A m \in 1 .. written :
    Times(m) > 0 \/ m \in ToSet(queue) \/ Pending(m) \/ m \in returned \/ m \in left
\* Nor is one sent twice, unless the reply to the first was lost; and one that
\* was given back is not sent after all.
NoneTwice ==
  \A m \in 1 .. written : m \notin unheard \cup crossed =>
    /\ Times(m) <= 1
    /\ m \in returned => Times(m) = 0 /\ m \notin ToSet(queue)
\* When nothing is on its way, a window that waits for a turn waits for one
\* that runs.
Quiet == connected /\ frames = <<>> /\ requests = {} /\ asked = None
Crossed == inFlight # None /\ inFlight.id \in crossed
NoneStuck == Quiet /\ ~astray /\ ~Crossed /\ state # IDLE => hostRun # None

MessagesHold == NoneLost /\ NoneTwice /\ NoneStuck
=============================================================================
