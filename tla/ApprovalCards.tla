--------------------------- MODULE ApprovalCards ---------------------------
(***************************************************************************)
(* The questions a window shows (approvals.js) and those the host waits for. *)
(* The window hears of one by a frame, or asks for all when frames were lost *)
(* or the stream was made again; the host settles one by the window's        *)
(* answer, or without it: another client's, a time limit, the end of a run.  *)
(* Frames that come while a new chat is begun, or a conversation opened, are *)
(* held until that is done.                                                  *)
(***************************************************************************)
EXTENDS Integers, Sequences, SequencesExt, FiniteSets

CONSTANTS
  Approvals,   \* ids of approvals
  MaxLosses,   \* losses of frames, of the stream and of requests
  None

VARIABLES
  pending,     \* approvals the host waits for
  settled,     \* how the others of it ended
  frames,      \* approvals on their way in the stream, and gaps
  connected,
  holds,       \* frames are held
  held,
  cards,       \* the window's questions
  answers,     \* answers on their way, with what came of them
  sync,        \* a list of the pending approvals, asked for
  forgotten,   \* approvals whose frame was held and never shown
  losses

cardVars == <<cards, answers, sync>>
streamVars == <<frames, connected, holds, held>>
approvalVars == <<pending, settled, streamVars, cardVars, forgotten, losses>>

Gap == "gap"
NoFunction == [a \in {} |-> None]
With(f, a, v) == [b \in DOMAIN f \cup {a} |-> IF b = a THEN v ELSE f[b]]

Init ==
  /\ pending = {} /\ settled = NoFunction
  /\ frames = <<>> /\ connected = TRUE /\ holds = FALSE /\ held = <<>>
  /\ cards = NoFunction /\ answers = {} /\ sync = None /\ forgotten = {} /\ losses = 0

-----------------------------------------------------------------------------
\* The host registers an approval and then publishes it; it settles one for
\* good.
Ask ==
  /\ \E a \in Approvals \ (pending \cup DOMAIN settled) :
       /\ pending' = pending \cup {a}
       /\ frames' = IF connected THEN Append(frames, a) ELSE frames
  /\ UNCHANGED <<settled, connected, holds, held, cardVars, forgotten, losses>>
Settles(a, how) == pending' = pending \ {a} /\ settled' = With(settled, a, how)
Withdrawn ==
  /\ \E a \in pending : Settles(a, "elsewhere")
  /\ UNCHANGED <<streamVars, cardVars, forgotten, losses>>

\* The reply of the host to an answer, which may be lost as the answer may be.
Resolve(q) ==
  /\ q.stage = "sent"
  /\ \/ /\ q.id \in pending /\ Settles(q.id, "here")
        /\ \E stage \in {"resolved", "failed"} :
             /\ answers' = (answers \ {q}) \cup {[q EXCEPT !.stage = stage]}
             /\ losses' = losses + (IF stage = "failed" THEN 1 ELSE 0)
     \/ /\ q.id \notin pending /\ answers' = (answers \ {q}) \cup {[q EXCEPT !.stage = "gone"]}
        /\ UNCHANGED <<pending, settled, losses>>
     \/ /\ answers' = (answers \ {q}) \cup {[q EXCEPT !.stage = "failed"]}
        /\ losses' = losses + 1 /\ UNCHANGED <<pending, settled>>
  /\ losses' <= MaxLosses
  /\ UNCHANGED <<streamVars, cards, sync, forgotten>>

-----------------------------------------------------------------------------
open(cs, a) == IF a \in DOMAIN cs THEN cs ELSE With(cs, a, "open")

Answer ==
  /\ \E a \in DOMAIN cards :
       /\ cards[a] = "open" /\ cards' = [cards EXCEPT ![a] = "answering"]
       /\ answers' = answers \cup {[id |-> a, stage |-> "sent"]}
  /\ UNCHANGED <<pending, settled, streamVars, sync, forgotten, losses>>
Answered(q) ==
  /\ q.stage # "sent" /\ answers' = answers \ {q}
  /\ cards' = [cards EXCEPT ![q.id] =
       CASE q.stage = "resolved" -> "resolved" [] q.stage = "gone" -> "stale" [] OTHER -> "open"]
  /\ UNCHANGED <<pending, settled, streamVars, sync, forgotten, losses>>

-----------------------------------------------------------------------------
\* resync: what the window knows, then what the host has, then both together.
\* Frames of the stream wait for it if a gap in them asks for it.
Resync(by) == sync' = [by |-> by, known |-> DOMAIN cards, outstanding |-> None]
SyncReads ==
  /\ sync # None /\ sync.outstanding = None
  /\ sync' = [sync EXCEPT !.outstanding = [a \in pending |-> TRUE]]
  /\ UNCHANGED <<pending, settled, streamVars, cards, answers, forgotten, losses>>
\* A list that cannot be had ends the stream.
SyncFails ==
  /\ sync # None /\ losses < MaxLosses /\ losses' = losses + 1
  /\ sync' = None /\ connected' = FALSE /\ frames' = <<>>
  /\ UNCHANGED <<pending, settled, holds, held, cards, answers, forgotten>>
\* Mutant: every card that the list does not have expires.
ExpiresUnknown(a, known, outstanding) ==
  a \notin outstanding /\ cards[a] \notin {"resolved", "stale", "answering"}
Expires(a, known, outstanding) ==
  a \in known \ outstanding /\ cards[a] \notin {"resolved", "stale", "answering"}
SyncApplies ==
  /\ sync # None /\ sync.outstanding # None /\ sync' = None
  /\ LET outstanding == DOMAIN sync.outstanding IN
       cards' = [a \in DOMAIN cards \cup outstanding |->
         IF a \notin DOMAIN cards THEN "open"
         ELSE IF Expires(a, sync.known, outstanding) THEN "stale"
         ELSE IF a \in outstanding /\ cards[a] # "answering" THEN "open"
         ELSE cards[a]]
  /\ UNCHANGED <<pending, settled, streamVars, answers, forgotten, losses>>

-----------------------------------------------------------------------------
\* The stream.  A frame is shown, or held; a gap is never held.
Deliver ==
  /\ frames # <<>> /\ ~(sync # None /\ sync.by = "frames") /\ frames' = Tail(frames)
  /\ LET f == Head(frames) IN
     \/ f = Gap /\ sync = None /\ Resync("frames") /\ UNCHANGED <<cards, held>>
     \/ f # Gap /\ holds /\ held' = Append(held, f) /\ UNCHANGED <<cards, sync>>
     \/ f # Gap /\ ~holds /\ cards' = open(cards, f) /\ UNCHANGED <<held, sync>>
  /\ UNCHANGED <<pending, settled, connected, holds, answers, forgotten, losses>>
Hold ==
  /\ ~holds /\ holds' = TRUE
  /\ UNCHANGED <<pending, settled, frames, connected, held, cardVars, forgotten, losses>>
\* What was held is shown once the chat has begun or the conversation is open;
\* it is dropped if the prompt fails, or another conversation is opened.
Unhold ==
  /\ holds /\ holds' = FALSE /\ held' = <<>>
  /\ \/ cards' = FoldLeft(open, cards, held) /\ UNCHANGED forgotten
     \/ forgotten' = forgotten \cup (ToSet(held) \ DOMAIN cards) /\ UNCHANGED cards
  /\ UNCHANGED <<pending, settled, frames, connected, answers, sync, losses>>
Lose ==
  /\ losses < MaxLosses /\ losses' = losses + 1 /\ frames # <<>>
  /\ \E n \in 1 .. Len(frames) : frames' = <<Gap>> \o SubSeq(frames, n + 1, Len(frames))
  /\ UNCHANGED <<pending, settled, connected, holds, held, cardVars, forgotten>>
Disconnect ==
  /\ connected /\ sync = None /\ losses < MaxLosses /\ losses' = losses + 1
  /\ connected' = FALSE /\ frames' = <<>>
  /\ UNCHANGED <<pending, settled, holds, held, cardVars, forgotten>>
reconnect ==
  /\ ~connected /\ connected' = TRUE /\ Resync("timer")
  /\ UNCHANGED <<pending, settled, frames, holds, held, cards, answers, forgotten, losses>>

Next ==
  \/ Ask \/ Withdrawn \/ \E q \in answers : Resolve(q) \/ Answered(q)
  \/ Answer \/ SyncReads \/ SyncFails \/ SyncApplies
  \/ Deliver \/ Hold \/ Unhold \/ Lose \/ Disconnect \/ reconnect

Spec == Init /\ [][Next]_approvalVars

-----------------------------------------------------------------------------
TypeOK ==
  /\ pending \subseteq Approvals /\ DOMAIN settled \subseteq Approvals
  /\ cards \in UNION {[d -> {"open", "answering", "resolved", "stale"}] : d \in SUBSET Approvals}

Quiet == connected /\ frames = <<>> /\ held = <<>> /\ ~holds /\ answers = {} /\ sync = None

\* What the host waits for is asked of the person: when nothing is on its way
\* every pending approval has an open card, save those whose frame was dropped
\* with a chat that did not begin.
AllAreAsked ==
  Quiet => \A a \in pending \ forgotten : a \in DOMAIN cards /\ cards[a] = "open"
\* And what the window says of a card is so: one that expired is no longer
\* waited for, one that was answered was answered here.
CardsAreTrue ==
  \A a \in DOMAIN cards :
    /\ cards[a] = "stale" => a \notin pending
    /\ cards[a] = "resolved" => a \in DOMAIN settled /\ settled[a] = "here"

CardsFollow == AllAreAsked /\ CardsAreTrue
=============================================================================
