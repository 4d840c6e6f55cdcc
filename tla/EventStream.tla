---------------------------- MODULE EventStream ----------------------------
(***************************************************************************)
(* The stream of events to the front ends: EventBroker's bounded queues    *)
(* (broker.py) and the loop of the server's GET /events (server.py).       *)
(* Publishing threads, the stream of each subscriber, peers that go away   *)
(* and the closing of the host interleave.                                 *)
(***************************************************************************)
EXTENDS Integers, Sequences, FiniteSets

CONSTANTS
  Publishers,    \* threads that publish
  Terminals,     \* those of them that publish TerminalOutput
  Subscribers,
  QueueLimit,    \* max_queued_events
  TerminalLimit, \* terminal outputs a subscription keeps
  MaxEvents      \* bound: events a thread publishes

VARIABLES
  closed,   \* EventBroker._closed
  peers,    \* EventBroker._subscriptions
  sub,      \* the subscriptions
  sent,     \* events each thread has published
  rest,     \* subscriptions a publication has still to reach
  closing,  \* subscriptions close() has still to reach
  stage,    \* the loop of _stream_events
  got, told,\* frames that were written: events, and losses announced
  offered   \* events that reached a subscription

streamVars == <<closed, peers, sub, sent, rest, closing, stage, got, told, offered>>

Nothing == [queue |-> <<>>, terminal |-> <<>>, dropped |-> 0, closed |-> FALSE]
Stop    == [by |-> "close", n |-> 0]    \* the None that close() puts in

Init ==
  /\ closed = FALSE /\ peers = <<>> /\ closing = <<>>
  /\ sub = [s \in Subscribers |-> Nothing]
  /\ sent = [p \in Publishers |-> 0] /\ rest = [p \in Publishers |-> <<>>]
  /\ stage = [s \in Subscribers |-> "none"]
  /\ got = [s \in Subscribers |-> <<>>]
  /\ told = [s \in Subscribers |-> 0] /\ offered = told

Members(q) == {q[i] : i \in DOMAIN q}
\* list.remove: without the first of them.
Without(q, s) ==
  LET i == CHOOSE j \in DOMAIN q : q[j] = s /\ \A k \in 1 .. j - 1 : q[k] # s
  IN  IF s \in Members(q) THEN [j \in 1 .. Len(q) - 1 |-> IF j < i THEN q[j] ELSE q[j + 1]]
      ELSE q

-----------------------------------------------------------------------------
Subscribe(s) ==
  /\ stage[s] = "none" /\ stage' = [stage EXCEPT ![s] = "look"]
  /\ IF closed
     THEN sub' = [sub EXCEPT ![s] = [Nothing EXCEPT !.queue = <<Stop>>, !.closed = TRUE]]
          /\ UNCHANGED peers
     ELSE peers' = Append(peers, s) /\ UNCHANGED sub
  /\ UNCHANGED <<closed, sent, rest, closing, got, told, offered>>

\* unsubscribe, when the connection ends.
Unsubscribe(s) ==
  /\ stage[s] = "leaving" /\ stage' = [stage EXCEPT ![s] = "left"]
  /\ peers' = Without(peers, s)
  /\ sub' = [sub EXCEPT ![s].closed = TRUE]
  /\ UNCHANGED <<closed, sent, rest, closing, got, told, offered>>

-----------------------------------------------------------------------------
(* publish: the list is copied, then each subscription reached in turn *)

Publish(p) ==
  /\ rest[p] = <<>> /\ sent[p] < MaxEvents
  /\ sent' = [sent EXCEPT ![p] = @ + 1]
  /\ rest' = [rest EXCEPT ![p] = peers]
  /\ UNCHANGED <<closed, peers, sub, closing, stage, got, told, offered>>

\* Mutant: a full queue loses its oldest event silently.
PutQuietly(q, e, limit) ==
  [events |-> IF Len(q) < limit THEN Append(q, e) ELSE Append(Tail(q), e), lost |-> 0]

\* A full queue loses its oldest event, which is counted.
Put(q, e, limit) ==
  IF Len(q) < limit THEN [events |-> Append(q, e), lost |-> 0]
  ELSE [events |-> Append(Tail(q), e), lost |-> 1]

Offered(r, p) ==
  LET e == [by |-> p, n |-> sent[p]] IN
  IF p \in Terminals
  THEN LET put == Put(r.terminal, e, TerminalLimit)
       IN  [r EXCEPT !.terminal = put.events, !.dropped = @ + put.lost]
  ELSE LET put == Put(r.queue, e, QueueLimit)
       IN  [r EXCEPT !.queue = put.events, !.dropped = @ + put.lost]

\* A subscription that was closed since the list was copied is skipped.
Offer(p) ==
  /\ rest[p] # <<>> /\ rest' = [rest EXCEPT ![p] = Tail(@)]
  /\ LET s == Head(rest[p]) IN
       IF sub[s].closed THEN UNCHANGED <<sub, offered>>
       ELSE /\ sub' = [sub EXCEPT ![s] = Offered(@, p)]
            /\ offered' = [offered EXCEPT ![s] = @ + 1]
  /\ UNCHANGED <<closed, peers, sent, closing, stage, got, told>>

\* A terminal output that is too large is only counted.
OfferTooLarge(p) ==
  /\ p \in Terminals /\ rest[p] # <<>> /\ rest' = [rest EXCEPT ![p] = Tail(@)]
  /\ LET s == Head(rest[p]) IN
       /\ ~sub[s].closed
       /\ sub' = [sub EXCEPT ![s].dropped = @ + 1]
       /\ offered' = [offered EXCEPT ![s] = @ + 1]
  /\ UNCHANGED <<closed, peers, sent, closing, stage, got, told>>

-----------------------------------------------------------------------------
(* _stream_events *)

\* The losses are taken and announced before the next event is waited for.
Look(s) ==
  /\ stage[s] = "look"
  /\ IF sub[s].closed THEN stage' = [stage EXCEPT ![s] = "leaving"] /\ UNCHANGED <<sub, told>>
     ELSE /\ told' = [told EXCEPT ![s] = @ + sub[s].dropped]
          /\ sub' = [sub EXCEPT ![s].dropped = 0]
          /\ stage' = [stage EXCEPT ![s] = "get"]
  /\ UNCHANGED <<closed, peers, sent, rest, closing, got, offered>>

\* The next event is written; the waiting output of terminals comes last.
Get(s) ==
  LET r == sub[s] IN
  /\ stage[s] = "get"
  /\ IF r.queue # <<>>
     THEN /\ sub' = [sub EXCEPT ![s].queue = Tail(@)]
          /\ got' = IF Head(r.queue) = Stop THEN got
                    ELSE [got EXCEPT ![s] = Append(@, Head(r.queue))]
     ELSE /\ r.terminal # <<>>
          /\ sub' = [sub EXCEPT ![s].terminal = Tail(@)]
          /\ got' = [got EXCEPT ![s] = Append(@, Head(r.terminal))]
  /\ stage' = [stage EXCEPT ![s] = "look"]
  /\ UNCHANGED <<closed, peers, sent, rest, closing, told, offered>>

\* Nothing came for a while, or the subscription was closed.
GetNothing(s) ==
  /\ stage[s] = "get" /\ sub[s].queue = <<>> /\ sub[s].terminal = <<>>
  /\ stage' = [stage EXCEPT ![s] = "look"]
  /\ UNCHANGED <<closed, peers, sub, sent, rest, closing, got, told, offered>>

\* Writing fails: the peer has gone.
PeerGone(s) ==
  /\ stage[s] \in {"look", "get"} /\ stage' = [stage EXCEPT ![s] = "leaving"]
  /\ UNCHANGED <<closed, peers, sub, sent, rest, closing, got, told, offered>>

-----------------------------------------------------------------------------
(* close *)

Close ==
  /\ ~closed /\ closed' = TRUE
  /\ closing' = peers /\ peers' = <<>>
  /\ UNCHANGED <<sub, sent, rest, stage, got, told, offered>>

CloseSubscription ==
  /\ closing # <<>> /\ closing' = Tail(closing)
  /\ LET s == Head(closing) IN
       sub' = [sub EXCEPT ![s].closed = TRUE,
                          ![s].queue = Put(sub[s].queue, Stop, QueueLimit).events]
  /\ UNCHANGED <<closed, peers, sent, rest, stage, got, told, offered>>

-----------------------------------------------------------------------------
Next ==
  \/ Close \/ CloseSubscription
  \/ \E p \in Publishers : Publish(p) \/ Offer(p) \/ OfferTooLarge(p)
  \/ \E s \in Subscribers : \/ Subscribe(s) \/ Unsubscribe(s) \/ Look(s) \/ Get(s)
                            \/ GetNothing(s) \/ PeerGone(s)

Spec == Init /\ [][Next]_streamVars

-----------------------------------------------------------------------------
TypeOK ==
  /\ closed \in BOOLEAN
  /\ Members(peers) \cup Members(closing) \subseteq Subscribers
  /\ \A s \in Subscribers :
       /\ Len(sub[s].queue) <= QueueLimit /\ Len(sub[s].terminal) <= TerminalLimit
       /\ sub[s].dropped \in Nat /\ sub[s].closed \in BOOLEAN
       /\ stage[s] \in {"none", "look", "get", "leaving", "left"}
  /\ sent \in [Publishers -> 0 .. MaxEvents]

\* A subscriber that stays learns of everything that was published to it: each
\* event reaches it or is announced as lost, those of one thread in their
\* order; "Non-blocking fan-out" (broker.py) loses nothing silently.
LossesAreTold ==
  \A s \in Subscribers :
    /\ ~sub[s].closed =>
         offered[s] = Len(got[s]) + told[s] + sub[s].dropped
                      + Len(sub[s].queue) + Len(sub[s].terminal)
    /\ \A i, j \in DOMAIN got[s] :
         i < j /\ got[s][i].by = got[s][j].by => got[s][i].n < got[s][j].n

\* What is assumed of the limits.
StreamAssumption == {QueueLimit, TerminalLimit} \subseteq Nat \ {0}

\* The types in full, and that one publication reaches a subscription once.
Events == [by : Publishers \cup {"close"}, n : Nat]
Distinct(q) == \A i, j \in DOMAIN q : q[i] = q[j] => i = j
Typing ==
  /\ closed \in BOOLEAN /\ {peers, closing} \subseteq Seq(Subscribers)
  /\ sub \in [Subscribers -> [queue : Seq(Events), terminal : Seq(Events), dropped : Nat,
                              closed : BOOLEAN]]
  /\ sent \in [Publishers -> Nat] /\ rest \in [Publishers -> Seq(Subscribers)]
  /\ stage \in [Subscribers -> {"none", "look", "get", "leaving", "left"}]
  /\ got \in [Subscribers -> Seq(Events)]
  /\ {told, offered} \subseteq [Subscribers -> Nat]
Once ==
  /\ Distinct(peers) /\ \A p \in Publishers : Distinct(rest[p])
  /\ \A s \in Members(peers) : stage[s] # "none"
  /\ \A p \in Publishers : rest[p] # <<>> => sent[p] > 0

\* What reached a subscription has a number that was given out, and another one
\* than what is still to reach it.
Numbered(s, e) ==
  /\ e.by \in Publishers => e.n <= sent[e.by] /\ (s \in Members(rest[e.by]) => e.n < sent[e.by])
  /\ e.n = 0 => e = Stop
\* Numbers grow: of e and of every later f by the same thread.
Grows(e, f) == e.by = f.by /\ f.n > 0 => e.n < f.n
Ordered(q) == \A i, j \in DOMAIN q : i < j => Grows(q[i], q[j])

\* Why: the queues hold what comes after what was got, and the terminal outputs,
\* which may be overtaken, are those of other threads.
InOrder(s) ==
  /\ \A e \in Members(got[s]) \cup Members(sub[s].queue) \cup Members(sub[s].terminal) :
       Numbered(s, e)
  /\ Ordered(got[s]) /\ Ordered(sub[s].queue) /\ Ordered(sub[s].terminal)
  /\ \A e \in Members(got[s]) :
       /\ e.n > 0
       /\ \A f \in Members(sub[s].queue) \cup Members(sub[s].terminal) : Grows(e, f)
  /\ \A e \in Members(sub[s].queue) : e.n = 0 \/ e.by \notin Terminals
  /\ \A e \in Members(sub[s].terminal) : e.n > 0 /\ e.by \in Terminals
Counted(s) ==
  ~sub[s].closed =>
    /\ \A e \in Members(sub[s].queue) : e.n > 0
    /\ offered[s] = Len(got[s]) + told[s] + sub[s].dropped
                    + Len(sub[s].queue) + Len(sub[s].terminal)
IInv == Typing /\ Once /\ \A s \in Subscribers : InOrder(s) /\ Counted(s)
=============================================================================
