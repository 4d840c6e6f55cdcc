------------------------ MODULE SubagentLeasesProofs ------------------------
(***************************************************************************)
(* Proofs about SubagentLeases, for any calls, leaders, prefixes and       *)
(* limits: its types, that leases are held just by the dispatches that     *)
(* have a tree to themselves, that these exclude each other, and that the  *)
(* leases implement TreeWriters.                                           *)
(***************************************************************************)
EXTENDS SubagentLeases, TLAPS

USE DEF Leases, Places

\* Places that only a background call reaches; there it has its lease.
PlacesFit ==
    \A c \in Calls : pc[c] \in {"leased", "undone", "releasing", "left"} => c \in Background

IInv == TypeOK /\ PlacesFit /\ NoLeaseLeft /\ OneWriterPerTree

LEMMA LeaseOfType ==
    ASSUME TypeOK, NEW c \in Calls
    PROVE  LeaseOf(c) \in Leases
BY DispatchAssumption DEF TypeOK, LeaseOf

\* The types of the variables are kept by every step.
LEMMA TypeStep ==
    ASSUME TypeOK, [Next]_vars
    PROVE  TypeOK'
<1>1. CASE UNCHANGED vars
  BY <1>1 DEF vars, TypeOK
<1>2. ASSUME NEW c \in Calls
      PROVE  /\ Release(LeaseOf(c)) => held' \in [Leases -> Nat]
             /\ Acquire(LeaseOf(c)) => held' \in [Leases -> Nat]
  BY LeaseOfType DEF Release, Acquire, TypeOK
<1>3. ASSUME NEW c \in Calls, NEW place \in Places, Go(c, place)
      PROVE  pc' \in [Calls -> Places]
  BY <1>3 DEF Go, TypeOK
<1>4. ASSUME NEW c \in Calls
      PROVE  /\ Take(c) => held' \in [Leases -> Nat]
             /\ GiveBack(c) => held' \in [Leases -> Nat]
             /\ Vacate(c) => occupied' \subseteq {Subagent[d] : d \in Calls}
             /\ Forget(c) => names' \subseteq {Subagent[d] : d \in Background}
  BY <1>2 DEF Take, GiveBack, Vacate, Forget, TypeOK
<1>5. CASE Next
  <2> SUFFICES ASSUME NEW c \in Calls,
                      \/ Admit(c) \/ SetupFails(c) \/ Register(c)
                      \/ Lease(c) \/ LeaseRefused(c) \/ PrepareFails(c)
                      \/ StartRound(c) \/ RoundFails(c) \/ EndRound(c) \/ Again(c)
                      \/ Conclude(c) \/ Close(c) \/ Leave(c) \/ Return(c) \/ LastRelease(c)
               PROVE  TypeOK'
    BY <1>5 DEF Next
  <2>1. CASE Admit(c)
    BY <2>1, <1>3, DispatchAssumption DEF Admit, TypeOK
  <2>2. CASE SetupFails(c)
    BY <2>2, <1>3, <1>4 DEF SetupFails, TypeOK
  <2>3. CASE Register(c)
    BY <2>3, <1>3, <1>4 DEF Register, TypeOK
  <2>4. CASE Lease(c)
    BY <2>4, <1>3, <1>4 DEF Lease, TypeOK
  <2>5. CASE LeaseRefused(c)
    BY <2>5, <1>3, <1>4 DEF LeaseRefused, TypeOK
  <2>6. CASE PrepareFails(c)
    BY <2>6, <1>3, <1>4 DEF PrepareFails, TypeOK
  <2>7. CASE StartRound(c)
    BY <2>7, <1>3, <1>4 DEF StartRound, TypeOK
  <2>8. CASE RoundFails(c)
    BY <2>8, <1>3, <1>4 DEF RoundFails, TypeOK
  <2>9. CASE EndRound(c)
    BY <2>9, <1>3, <1>4 DEF EndRound, TypeOK
  <2>10. CASE Again(c)
    BY <2>10, <1>3, DispatchAssumption DEF Again, TypeOK
  <2>11. CASE Conclude(c)
    BY <2>11, <1>3, <1>4 DEF Conclude, TypeOK
  <2>12. CASE Close(c)
    BY <2>12, <1>3, <1>4 DEF Close, TypeOK
  <2>13. CASE Leave(c)
    BY <2>13, <1>3, <1>4 DEF Leave, TypeOK
  <2>14. CASE Return(c)
    BY <2>14, <1>3, <1>4 DEF Return, TypeOK
  <2>15. CASE LastRelease(c)
    BY <2>15, <1>3, <1>4 DEF LastRelease, TypeOK
  <2> QED
    BY <2>1, <2>2, <2>3, <2>4, <2>5, <2>6, <2>7, <2>8, <2>9, <2>10, <2>11, <2>12,
       <2>13, <2>14, <2>15
<1> QED
  BY <1>1, <1>5

-----------------------------------------------------------------------------
(* What a step does to the leases: nothing, one dispatch gets a tree, or    *)
(* one gives it back.                                                       *)

Keeps ==
    /\ writing' = writing
    /\ held' = held
    /\ \A c \in writing : LeaseOf(c)' = LeaseOf(c)

Gets(c) ==
    /\ c \in Calls \ writing
    /\ ~Conflict(LeaseOf(c))
    /\ held' = [held EXCEPT ![LeaseOf(c)] = @ + 1]
    /\ writing' = writing \cup {c}
    /\ round' = round

Gives(c) ==
    /\ c \in writing
    /\ held' = [held EXCEPT ![LeaseOf(c)] = IF @ = 0 THEN 0 ELSE @ - 1]
    /\ writing' = writing \ {c}
    /\ round' = round

\* A call that moves without touching the leases, from one place where it has
\* a tree to itself to another, or between two where it has none.
LEMMA MoveStep ==
    ASSUME TypeOK, NEW c \in Calls, NEW place \in Places, Go(c, place), held' = held,
           round' = round,
           Exclusive(c)' <=> Exclusive(c)
    PROVE  Keeps
<1>1. \A d \in Calls : Exclusive(d)' <=> Exclusive(d)
  BY DEF Go, TypeOK, Exclusive, Shared
<1> QED
  BY <1>1 DEF Keeps, writing, LeaseOf

LEMMA TakeStep ==
    ASSUME TypeOK, NEW c \in Calls, NEW place \in Places, Go(c, place), Take(c),
           round' = round,
           ~Exclusive(c), Exclusive(c)' <=> Shared(c)
    PROVE  Keeps \/ Gets(c)
<1>1. \A d \in Calls \ {c} : Exclusive(d)' <=> Exclusive(d)
  BY DEF Go, TypeOK, Exclusive, Shared
<1>2. CASE Shared(c)
  BY <1>1, <1>2 DEF Gets, Take, Acquire, writing
<1>3. CASE ~Shared(c)
  BY <1>1, <1>3 DEF Keeps, Take, writing, LeaseOf
<1> QED
  BY <1>2, <1>3

LEMMA GiveStep ==
    ASSUME TypeOK, NEW c \in Calls, NEW place \in Places, Go(c, place), GiveBack(c),
           round' = round,
           ~Exclusive(c)', Exclusive(c) <=> Shared(c)
    PROVE  Keeps \/ Gives(c)
<1>1. \A d \in Calls \ {c} : Exclusive(d)' <=> Exclusive(d)
  BY DEF Go, TypeOK, Exclusive, Shared
<1>2. CASE Shared(c)
  BY <1>1, <1>2 DEF Gives, GiveBack, Release, writing
<1>3. CASE ~Shared(c)
  BY <1>1, <1>3 DEF Keeps, GiveBack, writing, LeaseOf
<1> QED
  BY <1>2, <1>3

LEMMA LeaseStep ==
    ASSUME TypeOK, PlacesFit, [Next]_vars
    PROVE  Keeps \/ \E c \in Calls : Gets(c) \/ Gives(c)
<1>1. CASE UNCHANGED vars
  BY <1>1 DEF vars, Keeps, writing, Exclusive, LeaseOf, Shared
<1>2. CASE Next
  <2> SUFFICES ASSUME NEW c \in Calls,
                      \/ Admit(c) \/ SetupFails(c) \/ Register(c)
                      \/ Lease(c) \/ LeaseRefused(c) \/ PrepareFails(c)
                      \/ StartRound(c) \/ RoundFails(c) \/ EndRound(c) \/ Again(c)
                      \/ Conclude(c) \/ Close(c) \/ Leave(c) \/ Return(c) \/ LastRelease(c)
               PROVE  Keeps \/ Gets(c) \/ Gives(c)
    BY <1>2 DEF Next
  <2>a. ASSUME NEW place \in Places, Go(c, place)
        PROVE  pc'[c] = place
    BY <2>a DEF Go, TypeOK
  \* Neither of the two that write the round concerns a lease.
  <2>1. CASE Admit(c)
    <3>1. pc[c] = "idle" /\ Go(c, "admitted") /\ pc'[c] = "admitted" /\ held' = held
      BY <2>1, <2>a DEF Admit
    <3>2. \A d \in Calls : Exclusive(d)' <=> Exclusive(d)
      BY <3>1 DEF Go, TypeOK, Exclusive, Shared
    <3>3. c \notin writing /\ \A d \in Calls \ {c} : round'[d] = round[d]
      BY <2>1, <3>1 DEF Admit, TypeOK, writing, Exclusive
    <3> QED
      BY <3>1, <3>2, <3>3 DEF Keeps, writing, LeaseOf
  <2>2. CASE Again(c)
    <3>1. pc[c] = "judging" /\ Go(c, "again") /\ pc'[c] = "again" /\ held' = held
      BY <2>2, <2>a DEF Again
    <3>2. \A d \in Calls : Exclusive(d)' <=> Exclusive(d)
      BY <3>1 DEF Go, TypeOK, Exclusive, Shared
    <3>3. /\ c \notin Background => c \notin writing
          /\ \A d \in Calls \ {c} : round'[d] = round[d]
      BY <2>2, <3>1 DEF Again, TypeOK, writing, Exclusive
    <3> QED
      BY <3>1, <3>2, <3>3 DEF Keeps, writing, LeaseOf
  <2>3. CASE SetupFails(c)
    BY <2>3, <2>a, MoveStep DEF SetupFails, Exclusive, Shared
  <2>4. CASE Register(c)
    BY <2>4, <2>a, MoveStep DEF Register, Exclusive, Shared
  <2>5. CASE Lease(c)
    BY <2>5, <2>a, TakeStep DEF Lease, Exclusive, Shared
  <2>6. CASE LeaseRefused(c)
    BY <2>6, <2>a, MoveStep DEF LeaseRefused, Exclusive, Shared
  <2>7. CASE PrepareFails(c)
    BY <2>7, <2>a, MoveStep DEF PrepareFails, Exclusive, Shared, PlacesFit
  <2>8. CASE StartRound(c)
    <3>1. CASE c \in Background
      BY <2>8, <3>1, <2>a, MoveStep DEF StartRound, Exclusive, Shared
    <3>2. CASE c \notin Background
      BY <2>8, <3>2, <2>a, TakeStep DEF StartRound, Exclusive, Shared
    <3> QED
      BY <3>1, <3>2
  <2>9. CASE RoundFails(c)
    BY <2>9, <2>a, MoveStep DEF RoundFails, Exclusive, Shared
  <2>10. CASE EndRound(c)
    <3>1. CASE c \in Background
      BY <2>10, <3>1, <2>a, MoveStep DEF EndRound, Exclusive, Shared
    <3>2. CASE c \notin Background
      BY <2>10, <3>2, <2>a, GiveStep DEF EndRound, Exclusive, Shared
    <3> QED
      BY <3>1, <3>2
  <2>11. CASE Conclude(c)
    BY <2>11, <2>a, MoveStep DEF Conclude, Exclusive, Shared
  <2>12. CASE Close(c)
    <3>1. CASE c \in Background
      BY <2>12, <3>1, <2>a, GiveStep DEF Close, Exclusive, Shared
    <3>2. CASE c \notin Background
      BY <2>12, <3>2, <2>a, MoveStep DEF Close, Exclusive, Shared
    <3> QED
      BY <3>1, <3>2
  <2>13. CASE Leave(c)
    BY <2>13, <2>a, MoveStep DEF Leave, Exclusive, Shared
  <2>14. CASE Return(c)
    <3>1. CASE pc[c] = "undone"
      BY <2>14, <3>1, <2>a, MoveStep DEF Return, Exclusive, Shared
    <3>2. CASE pc[c] = "returning"
      BY <2>14, <3>2, <2>a, MoveStep DEF Return, Exclusive, Shared
    <3> QED
      BY <2>14, <3>1, <3>2 DEF Return
  <2>15. CASE LastRelease(c)
    BY <2>15, <2>a, GiveStep DEF LastRelease, Exclusive, Shared, PlacesFit
  <2> QED
    BY <2>1, <2>2, <2>3, <2>4, <2>5, <2>6, <2>7, <2>8, <2>9, <2>10, <2>11, <2>12,
       <2>13, <2>14, <2>15
<1> QED
  BY <1>1, <1>2

\* A dispatch that gets a tree clashes with none that has one: each of these
\* holds its lease, and Acquire has looked at all of them.
LEMMA GetsExcludes ==
    ASSUME TypeOK, NoLeaseLeft, NEW c \in Calls, Gets(c)
    PROVE  \A d \in writing : ~Clash(c, d) /\ ~Clash(d, c)
<1> SUFFICES ASSUME NEW d \in writing
             PROVE  ~Clash(c, d) /\ ~Clash(d, c)
  OBVIOUS
<1>1. d \in Calls /\ c # d
  BY DEF writing, Gets
<1>2. LeaseOf(d) \in Leases /\ LeaseOf(d)[1] = d /\ LeaseOf(c)[1] = c
  BY <1>1, LeaseOfType DEF LeaseOf
<1>3. held[LeaseOf(d)] = 1
  BY <1>2 DEF NoLeaseLeft
<1>4. ~Overlap(Path[Subagent[d]], Path[Subagent[c]])
  BY <1>1, <1>2, <1>3 DEF Gets, Conflict, PathOf
<1> QED
  BY <1>4 DEF Clash, Overlap

\* The leases held stay those of the dispatches that have a tree.
LEMMA HeldStep ==
    ASSUME TypeOK, TypeOK', NoLeaseLeft, Keeps \/ \E c \in Calls : Gets(c) \/ Gives(c)
    PROVE  NoLeaseLeft'
<1>1. CASE Keeps
  BY <1>1 DEF Keeps, NoLeaseLeft
<1>2. ASSUME NEW c \in Calls, Gets(c) \/ Gives(c)
      PROVE  NoLeaseLeft'
  <2>1. /\ \A d \in Calls : LeaseOf(d)' = LeaseOf(d)
        /\ LeaseOf(c) \in Leases /\ LeaseOf(c)[1] = c
    BY <1>2, LeaseOfType DEF Gets, Gives, LeaseOf
  <2>2. held' \in [Leases -> Nat] /\ held \in [Leases -> Nat]
    BY DEF TypeOK
  <2> SUFFICES ASSUME NEW l \in Leases
               PROVE  held'[l] = IF l[1] \in writing' /\ l = LeaseOf(l[1]) THEN 1 ELSE 0
    BY <2>1 DEF NoLeaseLeft
  <2>3. held[l] = IF l[1] \in writing /\ l = LeaseOf(l[1]) THEN 1 ELSE 0
    BY DEF NoLeaseLeft
  <2>4. CASE Gets(c)
    BY <2>1, <2>2, <2>3, <2>4 DEF Gets
  <2>5. CASE Gives(c)
    BY <2>1, <2>2, <2>3, <2>5 DEF Gives
  <2> QED
    BY <1>2, <2>4, <2>5
<1> QED
  BY <1>1, <1>2

LEMMA PlacesStep ==
    ASSUME TypeOK, PlacesFit, [Next]_vars
    PROVE  PlacesFit'
<1>1. CASE UNCHANGED vars
  BY <1>1 DEF vars, PlacesFit
<1>2. CASE Next
  BY <1>2 DEF Next, Admit, SetupFails, Register, Lease, LeaseRefused, PrepareFails,
     StartRound, RoundFails, EndRound, Again, Conclude, Close, Leave, Return,
     LastRelease, Go, TypeOK, PlacesFit
<1> QED
  BY <1>1, <1>2

LEMMA ExclusionStep ==
    ASSUME TypeOK, NoLeaseLeft, OneWriterPerTree,
           Keeps \/ \E c \in Calls : Gets(c) \/ Gives(c)
    PROVE  OneWriterPerTree'
<1>1. CASE Keeps
  BY <1>1 DEF Keeps, OneWriterPerTree
<1>2. ASSUME NEW c \in Calls, Gets(c)
      PROVE  OneWriterPerTree'
  BY <1>2, GetsExcludes DEF Gets, Clash, OneWriterPerTree
<1>3. ASSUME NEW c \in Calls, Gives(c)
      PROVE  OneWriterPerTree'
  BY <1>3 DEF Gives, OneWriterPerTree
<1> QED
  BY <1>1, <1>2, <1>3

LEMMA InitIInv ==
    ASSUME Init
    PROVE  IInv /\ writing = {}
<1>1. writing = {}
  BY DEF Init, writing, Exclusive
<1>2. TypeOK
  BY DispatchAssumption DEF Init, TypeOK
<1>3. PlacesFit
  BY DEF Init, PlacesFit
<1>4. NoLeaseLeft
  BY <1>1 DEF Init, NoLeaseLeft
<1> QED
  BY <1>1, <1>2, <1>3, <1>4 DEF IInv, OneWriterPerTree

LEMMA IInvStep ==
    ASSUME IInv, [Next]_vars
    PROVE  IInv'
BY TypeStep, PlacesStep, LeaseStep, HeldStep, ExclusionStep DEF IInv

\* Every reachable state satisfies the inductive invariant.
THEOREM Inductive == Spec => []IInv
<1>1. Init => IInv
  BY InitIInv
<1>2. IInv /\ [Next]_vars => IInv'
  BY IInvStep
<1> QED
  BY <1>1, <1>2, PTL DEF Spec

\* The types, for any calls, leaders and prefixes (leader.py, leases.py).
THEOREM Typing == Spec => []TypeOK
BY Inductive, PTL DEF IInv

\* Leases are held exactly by the dispatches that have a tree to themselves:
\* none is left by a dispatch that failed, was cancelled or was refused.
THEOREM NoLeaseIsLeft == Spec => []NoLeaseLeft
BY Inductive, PTL DEF IInv

\* One writer at a time per path prefix (leases.py:32), whatever the prefixes,
\* the leaders, and their calls' rounds and failures are.
THEOREM Exclusion == Spec => []OneWriterPerTree
BY Inductive, PTL DEF IInv

\* The leases implement the abstract promise: every step is a Begin, an End or
\* a stutter of TreeWriters.
THEOREM LeasesKeepPromise == Spec => KeepsPromise
<1>1. Init => Promise!Init
  BY InitIInv DEF Promise!Init
<1>2. IInv /\ [Next]_vars => [Promise!Next]_writing
  <2> SUFFICES ASSUME IInv, [Next]_vars
               PROVE  [Promise!Next]_writing
    OBVIOUS
  <2>1. ASSUME NEW c \in Calls, Gets(c)
        PROVE  Promise!Begin(c)
    BY <2>1, GetsExcludes DEF IInv, Gets, Promise!Begin
  <2>2. ASSUME NEW c \in Calls, Gives(c)
        PROVE  Promise!End(c)
    BY <2>2 DEF Gives, Promise!End
  <2>3. Keeps \/ \E c \in Calls : Gets(c) \/ Gives(c)
    BY LeaseStep DEF IInv
  <2> QED
    BY <2>1, <2>2, <2>3 DEF Promise!Next, Keeps
<1> QED
  BY <1>1, <1>2, Inductive, PTL DEF Spec, KeepsPromise, Promise!Spec

-----------------------------------------------------------------------------
(* The subagents of the shared tree run alone.  Their calls are alone among *)
(* the tool calls of their leader, and once the call has returned the name  *)
(* stands for the thread.                                                   *)

InlineAlone ==
    \A c, d \in Calls : c # d /\ Leader[c] = Leader[d] /\ Inline(c) /\ Inline(d) => ~Shared(c)

Threads == {"registered", "leased", "running", "judging", "again", "closing", "left"}
NamesKept ==
    \A c \in Background : Shared(c) /\ pc[c] \in Threads => Subagent[c] \in names

AloneInv == TypeOK /\ PlacesFit /\ InlineAlone /\ SharedRunsAlone /\ NamesKept

\* What a step of a call does to its place and to the names, when the call was
\* let in before.
LEMMA CallMoves ==
    ASSUME TypeOK, PlacesFit, NEW c \in Calls, [Next]_vars, pc'[c] # pc[c], pc[c] # "idle"
    PROVE  /\ \A d \in Calls \ {c} : pc'[d] = pc[d]
           /\ Inline(c)' => Inline(c)
           /\ names' \in {names, names \cup {Subagent[c]}, names \ {Subagent[c]}}
           /\ c \in Background /\ pc'[c] \in Threads =>
                 Subagent[c] \in names' \/ (names' = names /\ pc[c] \in Threads)
BY DEF Next, Admit, SetupFails, Register, Lease, LeaseRefused, PrepareFails,
   StartRound, RoundFails, EndRound, Again, Conclude, Close, Leave, Return, vars,
   LastRelease, Go, Forget, TypeOK, PlacesFit, Inline, Threads

\* A call is let in.
LEMMA CallEnters ==
    ASSUME TypeOK, NEW c \in Calls, [Next]_vars, pc'[c] # pc[c], pc[c] = "idle"
    PROVE  /\ pc' = [pc EXCEPT ![c] = "admitted"]
           /\ names' = names
           /\ MayRun(c)
           /\ Subagent[c] \notin names
BY DEF Next, Admit, SetupFails, Register, Lease, LeaseRefused, PrepareFails,
   StartRound, RoundFails, EndRound, Again, Conclude, Close, Leave, Return, vars,
   LastRelease, Go, TypeOK

LEMMA NobodyMoves ==
    ASSUME TypeOK, [Next]_vars, \A c \in Calls : pc'[c] = pc[c]
    PROVE  names' = names
BY DEF Next, Admit, SetupFails, Register, Lease, LeaseRefused, PrepareFails,
   StartRound, RoundFails, EndRound, Again, Conclude, Close, Leave, Return, vars,
   LastRelease, Go, TypeOK

LEMMA AloneStep ==
    ASSUME AloneInv, [Next]_vars
    PROVE  InlineAlone' /\ SharedRunsAlone' /\ NamesKept'
<1> USE DEF AloneInv
<1>1. CASE \A c \in Calls : pc'[c] = pc[c]
  <2>1. names' = names
    BY <1>1, NobodyMoves
  <2> QED
    BY <1>1, <2>1, DispatchAssumption
       DEF InlineAlone, SharedRunsAlone, NamesKept, Inline, Shared
<1>2. ASSUME NEW c \in Calls, pc'[c] # pc[c], pc[c] # "idle"
      PROVE  InlineAlone' /\ SharedRunsAlone' /\ NamesKept'
  <2>1. /\ \A d \in Calls \ {c} : pc'[d] = pc[d]
        /\ Inline(c)' => Inline(c)
        /\ names' \in {names, names \cup {Subagent[c]}, names \ {Subagent[c]}}
        /\ c \in Background /\ pc'[c] \in Threads =>
              Subagent[c] \in names' \/ (names' = names /\ pc[c] \in Threads)
    BY <1>2, CallMoves
  <2>2. \A d \in Calls \ {c} : Inline(d)' <=> Inline(d)
    BY <2>1 DEF Inline
  <2>3. InlineAlone'
    BY <2>1, <2>2 DEF InlineAlone, Shared
  <2>4. SharedRunsAlone'
    BY <1>2, <2>1 DEF SharedRunsAlone, Shared
  <2>5. NamesKept'
    <3> SUFFICES ASSUME NEW d \in Background, Shared(d), pc'[d] \in Threads
                 PROVE  Subagent[d] \in names'
      BY DEF NamesKept, Shared
    <3>1. CASE d = c
      BY <2>1, <3>1 DEF NamesKept
    <3>2. CASE d # c
      <4>1. d \in Calls /\ pc[d] \in Threads /\ Subagent[d] \in names
        BY <2>1, <3>2, DispatchAssumption DEF NamesKept
      <4>2. Subagent[d] # Subagent[c]
        BY <1>2, <3>2, <4>1 DEF SharedRunsAlone, Threads
      <4> QED
        BY <2>1, <4>1, <4>2
    <3> QED
      BY <3>1, <3>2
  <2> QED
    BY <2>3, <2>4, <2>5
<1>3. ASSUME NEW c \in Calls, pc'[c] # pc[c], pc[c] = "idle"
      PROVE  InlineAlone' /\ SharedRunsAlone' /\ NamesKept'
  <2>1. /\ pc' = [pc EXCEPT ![c] = "admitted"]
        /\ names' = names /\ MayRun(c) /\ Subagent[c] \notin names
    BY <1>3, CallEnters
  <2>2. pc'[c] = "admitted" /\ \A d \in Calls \ {c} : pc'[d] = pc[d]
    BY <2>1 DEF TypeOK
  <2>3. \A d \in Calls \ {c} : Inline(d)' <=> Inline(d)
    BY <2>2 DEF Inline
  <2>4. InlineAlone'
    BY <2>1, <2>2, <2>3 DEF InlineAlone, MayRun, Shared
  \* Another call of the subagent would be one of its leader's, and inline, or
  \* a thread that keeps the name.
  <2>5. ASSUME NEW d \in Calls \ {c}, Subagent[d] = Subagent[c], Shared(c)
        PROVE  pc[d] = "idle"
    <3>1. Leader[d] = Leader[c] /\ Shared(d)
      BY <2>5, DispatchAssumption DEF Shared
    <3>2. ~Inline(d)
      BY <2>1, <2>5, <3>1 DEF MayRun
    <3>3. CASE d \in Background /\ pc[d] # "idle"
      <4>1. pc[d] \in Threads
        BY <3>2, <3>3 DEF Inline, TypeOK, Threads
      <4> QED
        BY <2>1, <2>5, <3>1, <3>3, <4>1 DEF NamesKept
    <3> QED
      BY <3>2, <3>3 DEF Inline
  <2>6. SharedRunsAlone'
    <3> SUFFICES ASSUME NEW a \in Calls, NEW b \in Calls, a # b,
                        Subagent[a] = Subagent[b], Shared(a)
                 PROVE  pc'[a] = "idle" \/ pc'[b] = "idle"
      BY DEF SharedRunsAlone, Shared
    <3>1. CASE a = c
      BY <2>2, <2>5, <3>1
    <3>2. CASE b = c
      BY <2>2, <2>5, <3>2 DEF Shared
    <3>3. CASE a # c /\ b # c
      BY <2>2, <3>3 DEF SharedRunsAlone
    <3> QED
      BY <3>1, <3>2, <3>3
  <2>7. NamesKept'
    BY <2>1, <2>2, DispatchAssumption DEF NamesKept, Shared, Threads
  <2> QED
    BY <2>4, <2>6, <2>7
<1> QED
  BY <1>1, <1>2, <1>3

LEMMA AloneInvariant == Spec => []AloneInv
<1>1. Init => AloneInv
  <2> SUFFICES ASSUME Init
               PROVE  AloneInv
    OBVIOUS
  <2>1. TypeOK /\ PlacesFit
    BY InitIInv DEF IInv
  <2>2. \A c \in Calls : pc[c] = "idle"
    BY DEF Init
  <2>3. InlineAlone /\ SharedRunsAlone
    BY <2>2 DEF InlineAlone, SharedRunsAlone, Inline
  <2>4. NamesKept
    BY <2>2, DispatchAssumption DEF NamesKept, Threads
  <2> QED
    BY <2>1, <2>3, <2>4 DEF AloneInv
<1>2. AloneInv /\ [Next]_vars => AloneInv'
  BY AloneStep, TypeStep, PlacesStep DEF AloneInv
<1> QED
  BY <1>1, <1>2, PTL DEF Spec

\* A subagent of the shared tree has one dispatch at a time (leader.py:894),
\* although record.running is cleared early and more than once.
THEOREM SharedSubagentsRunAlone == Spec => []SharedRunsAlone
BY AloneInvariant, PTL DEF AloneInv

\* A leader does not lose sight of a background dispatch in the shared tree
\* before its lease is back (leader.py:590).
THEOREM BackgroundIsKnown == Spec => []KnownWhileRunning
<1>1. AloneInv => KnownWhileRunning
  BY DEF AloneInv, NamesKept, KnownWhileRunning, Threads
<1> QED
  BY <1>1, AloneInvariant, PTL
=============================================================================
