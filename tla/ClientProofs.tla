---------------------------- MODULE ClientProofs ----------------------------
(***************************************************************************)
(* Proofs about the components that MCClients puts side by side, for any   *)
(* values of the constants: each section shows one component's inductive   *)
(* invariant (IInv, beside the property it is for) and its property.       *)
(***************************************************************************)
EXTENDS MCClients, FiniteSetTheorems, SequenceTheorems, TLAPS

\* A step of the whole is a step of the one component that moves.
LEMMA OnePartMoves ==
  ASSUME [Next]_vars
  PROVE  /\ part' = part
         /\ part = "loops" => [Loop!Next]_loopVars
         /\ part = "projects" => [Project!Next]_projectVars
         /\ part = "command" => [Command!Next]_commandVars
BY DEF vars, Next, CardSteps, ChatSteps, ApprovalSteps, TerminalSteps, LoopSteps,
       ProjectSteps, CommandSteps

-----------------------------------------------------------------------------
(* The projects of a host: ProjectHost.                                     *)

LEMMA ProjectInit == Init => Project!IInv
<1> SUFFICES ASSUME Project!Init
             PROVE  Project!IInv
  BY DEF Init
<1>1. Project!TypeOK
  BY ProjectParameters DEF Project!Init, Project!TypeOK, Project!Idle, Project!ProjectAssumption
<1>2. Project!Known = {}
  BY DEF Project!Init, Project!Known
<1> QED
  BY <1>1, <1>2 DEF Project!IInv, Project!Init, Project!Idle, Project!ProjectsAreKept,
     Project!NoneIsLeft, Project!WorkIsKnown, Project!CurrentIsOpen

\* A closer that only looks changes nothing that is kept.
LEMMA ClosersLook ==
  ASSUME Project!IInv, NEW c \in Closers,
         NEW k \in [pc : {"idle", "looks", "asks", "pops"}, of : Roots \cup {None},
                    runtime : {None} \cup 1..made],
         closer[c].pc # "closes", closer' = [closer EXCEPT ![c] = k],
         k.pc # "idle" => k.of \in Roots, k.pc \in {"asks", "pops"} => k.runtime # None,
         UNCHANGED <<runtimes, current, root, made, open, busy, request, hostClosed, strays>>
  PROVE  Project!IInv'
<1>1. /\ closer' \in [Closers -> [pc : {"idle", "looks", "asks", "pops", "closes"},
                                  of : Roots \cup {None}, runtime : {None} \cup 1..made]]
      /\ \A d \in Closers : closer'[d] = (IF d = c THEN k ELSE closer[d])
  BY DEF Project!IInv, Project!TypeOK
<1>2. Project!TypeOK'
  BY <1>1 DEF Project!IInv, Project!TypeOK
<1>3. Project!Known' = Project!Known /\ Project!BeingClosed' = Project!BeingClosed
  BY <1>1 DEF Project!Known, Project!BeingClosed
<1> QED
  BY <1>1, <1>2, <1>3 DEF Project!IInv, Project!ProjectsAreKept, Project!NoneIsLeft,
     Project!WorkIsKnown, Project!CurrentIsOpen

LEMMA ProjectStep ==
  ASSUME Project!IInv, [Project!Next]_projectVars
  PROVE  Project!IInv'
<1> USE DEF Project!IInv
<1>n. MaxRuntimes \in Nat /\ None \notin Roots /\ None \notin 1..MaxRuntimes
  BY ProjectParameters DEF Project!ProjectAssumption
<1>t. Project!TypeOK /\ made \in Nat /\ made <= MaxRuntimes
  BY <1>n DEF Project!TypeOK
<1>1. CASE UNCHANGED projectVars
  BY <1>1 DEF projectVars, Project!TypeOK, Project!ProjectsAreKept, Project!NoneIsLeft,
     Project!WorkIsKnown, Project!CurrentIsOpen, Project!Known, Project!BeingClosed
<1>2. ASSUME NEW c \in Closers, NEW r \in Roots, Project!OpenProject(c, r)
      PROVE  Project!IInv'
  <2>1. CASE runtimes[r] # None
    <3>1. UNCHANGED <<runtimes, root, made, open, busy, request, hostClosed, strays>>
      BY <1>2, <2>1 DEF Project!OpenProject
    <3>2. PICK k : /\ k = IF current = None THEN closer[c]
                          ELSE [pc |-> "looks", of |-> current, runtime |-> None]
      OBVIOUS
    <3>3. closer' = [closer EXCEPT ![c] = k] /\ current' = r /\ closer[c].pc = "idle"
      <4>1. current' = r /\ closer[c] = Project!Idle
        BY <1>2 DEF Project!OpenProject
      <4>2. closer = [closer EXCEPT ![c] = closer[c]]
        BY <1>t DEF Project!TypeOK
      <4>3. closer' = [closer EXCEPT ![c] = k]
        BY <1>2, <3>2, <4>2 DEF Project!OpenProject
      <4> QED
        BY <4>1, <4>3 DEF Project!Idle
    <3>4. closer' \in [Closers -> [pc : {"idle", "looks", "asks", "pops", "closes"},
                                   of : Roots \cup {None}, runtime : {None} \cup 1..made]]
      BY <1>t, <3>2, <3>3 DEF Project!TypeOK
    <3>5. \A d \in Closers : closer'[d] = (IF d = c THEN k ELSE closer[d])
      BY <1>t, <3>3 DEF Project!TypeOK
    <3>6. k.pc \in {"idle", "looks"} /\ (k.pc # "idle" => k.of \in Roots)
      BY <1>t, <3>2, <3>3 DEF Project!TypeOK
    <3>7. Project!TypeOK'
      BY <1>t, <3>1, <3>3, <3>4 DEF Project!TypeOK
    <3>8. Project!Known' = Project!Known /\ Project!BeingClosed' = Project!BeingClosed
      BY <3>1, <3>3, <3>5, <3>6 DEF Project!Known, Project!BeingClosed
    <3> QED
      BY <2>1, <3>1, <3>3, <3>5, <3>6, <3>7, <3>8 DEF Project!ProjectsAreKept,
         Project!NoneIsLeft, Project!WorkIsKnown, Project!CurrentIsOpen
  <2>2. CASE runtimes[r] = None
    <3>1. PICK i \in 1..MaxRuntimes : i = made + 1 /\ i # None /\ i \notin 1..made
      BY <1>2, <1>n, <1>t, <2>2 DEF Project!OpenProject
    <3>2. /\ made' = i /\ root' = [root EXCEPT ![i] = r] /\ runtimes' = [runtimes EXCEPT ![r] = i]
          /\ open' = open \cup {i} /\ busy' \in {busy, busy \cup {i}} /\ current' = r
          /\ UNCHANGED <<request, hostClosed, strays>>
      BY <1>2, <2>2, <3>1 DEF Project!OpenProject
    <3>3. PICK k : /\ k = IF current = None THEN closer[c]
                          ELSE [pc |-> "looks", of |-> current, runtime |-> None]
      OBVIOUS
    <3>4. closer' = [closer EXCEPT ![c] = k] /\ closer[c].pc = "idle"
      <4>1. closer[c] = Project!Idle
        BY <1>2 DEF Project!OpenProject
      <4>2. closer = [closer EXCEPT ![c] = closer[c]]
        BY <1>t DEF Project!TypeOK
      <4>3. closer' = [closer EXCEPT ![c] = k]
        BY <1>2, <3>3, <4>2 DEF Project!OpenProject
      <4> QED
        BY <4>1, <4>3 DEF Project!Idle
    <3>5. k \in [pc : {"idle", "looks", "asks", "pops", "closes"},
                 of : Roots \cup {None}, runtime : {None} \cup 1..made]
      BY <1>t, <3>3, <3>4 DEF Project!TypeOK
    <3>6. \A d \in Closers : closer'[d] = (IF d = c THEN k ELSE closer[d])
      BY <1>t, <3>4 DEF Project!TypeOK
    <3>7. k.pc \in {"idle", "looks"} /\ (k.pc # "idle" => k.of \in Roots)
      BY <1>t, <3>3, <3>4 DEF Project!TypeOK
    <3>8. 1..made \subseteq 1..made' /\ i \in 1..made' /\ made' \in 0..MaxRuntimes
      BY <1>n, <1>t, <3>1, <3>2
    <3>9. closer' \in [Closers -> [pc : {"idle", "looks", "asks", "pops", "closes"},
                                   of : Roots \cup {None}, runtime : {None} \cup 1..made']]
      BY <1>t, <3>4, <3>5, <3>8 DEF Project!TypeOK
    <3>10. Project!TypeOK'
      BY <1>t, <3>2, <3>8, <3>9 DEF Project!TypeOK
    <3>11. Project!Known' = Project!Known \cup {i} /\ i \notin Project!Known
      BY <1>t, <2>2, <3>1, <3>2 DEF Project!Known, Project!TypeOK
    <3>12. Project!BeingClosed' = Project!BeingClosed
      BY <3>4, <3>6, <3>7 DEF Project!BeingClosed
    <3>13. \A q \in Roots : runtimes'[q] = (IF q = r THEN i ELSE runtimes[q])
      BY <1>t, <3>2 DEF Project!TypeOK
    <3>14. \A j \in 1..made : root'[j] = root[j]
      BY <1>t, <3>1, <3>2, <3>8 DEF Project!TypeOK
    <3>15. root'[i] = r
      BY <1>t, <3>2 DEF Project!TypeOK
    <3>16. \A q \in Roots : runtimes'[q] # None => root'[runtimes'[q]] = q
      BY <1>t, <3>13, <3>14, <3>15 DEF Project!TypeOK
    <3>17. \A d \in Closers : closer[d].pc = "closes" => closer[d].runtime \notin Project!Known'
      BY <1>t, <3>1, <3>11 DEF Project!TypeOK
    <3>18. Project!ProjectsAreKept'
      BY <1>t, <3>1, <3>2, <3>11, <3>12, <3>13, <3>15 DEF Project!ProjectsAreKept,
         Project!NoneIsLeft, Project!WorkIsKnown, Project!CurrentIsOpen
    <3> QED
      BY <3>6, <3>7, <3>10, <3>16, <3>17, <3>18
  <2> QED
    BY <2>1, <2>2
<1>3. ASSUME NEW r \in Roots, Project!OpenFails(r)
      PROVE  Project!IInv'
  <2>1. PICK i \in 1..MaxRuntimes : i = made + 1 /\ i \notin 1..made
    BY <1>3, <1>n, <1>t DEF Project!OpenFails
  <2>2. /\ made' = i /\ root' = [root EXCEPT ![i] = r]
        /\ UNCHANGED <<runtimes, current, open, busy, request, closer, hostClosed, strays>>
    BY <1>3, <2>1 DEF Project!OpenFails
  <2>3. 1..made \subseteq 1..made' /\ made' \in 0..MaxRuntimes
    BY <1>n, <1>t, <2>1, <2>2
  <2>4. \A j \in 1..made : root'[j] = root[j]
    BY <1>t, <2>1, <2>2, <1>n DEF Project!TypeOK
  <2>5. Project!TypeOK'
    BY <1>t, <2>2, <2>3 DEF Project!TypeOK
  <2>6. Project!Known' = Project!Known /\ Project!BeingClosed' = Project!BeingClosed
    BY <2>2 DEF Project!Known, Project!BeingClosed
  <2> QED
    BY <1>t, <2>2, <2>4, <2>5, <2>6 DEF Project!ProjectsAreKept, Project!NoneIsLeft,
       Project!WorkIsKnown, Project!CurrentIsOpen, Project!TypeOK
<1>4. ASSUME NEW c \in Closers, Project!Watches(c)
      PROVE  Project!IInv'
  <2>1. PICK r \in Roots :
          closer' = [closer EXCEPT ![c] = [pc |-> "looks", of |-> r, runtime |-> None]]
    BY <1>4 DEF Project!Watches
  <2>2. PICK k : k = [pc |-> "looks", of |-> r, runtime |-> None]
    OBVIOUS
  <2>3. /\ k \in [pc : {"idle", "looks", "asks", "pops"}, of : Roots \cup {None},
                  runtime : {None} \cup 1..made]
        /\ k.pc # "idle" => k.of \in Roots
        /\ k.pc \in {"asks", "pops"} => k.runtime # None
    BY <2>2
  <2>4. closer[c].pc # "closes" /\ closer' = [closer EXCEPT ![c] = k]
    <3>1. closer[c] = Project!Idle
      BY <1>4 DEF Project!Watches
    <3> QED
      BY <2>1, <2>2, <3>1 DEF Project!Idle
  <2>5. UNCHANGED <<runtimes, current, root, made, open, busy, request, hostClosed, strays>>
    BY <1>4 DEF Project!Watches
  <2> QED
    BY <2>3, <2>4, <2>5, ClosersLook
<1>5. ASSUME NEW c \in Closers, Project!Looks(c)
      PROVE  Project!IInv'
  <2>1. PICK k : k = IF runtimes[closer[c].of] = None THEN Project!Idle
                     ELSE [closer[c] EXCEPT !.pc = "asks", !.runtime = runtimes[closer[c].of]]
    OBVIOUS
  <2>2. closer[c].pc = "looks" /\ closer' = [closer EXCEPT ![c] = k]
    BY <1>5, <1>t, <2>1 DEF Project!Looks, Project!TypeOK
  <2>3. closer[c].of \in Roots /\ runtimes[closer[c].of] \in {None} \cup 1..made
    BY <1>t, <2>2 DEF Project!TypeOK
  <2>4. /\ k \in [pc : {"idle", "looks", "asks", "pops"}, of : Roots \cup {None},
                  runtime : {None} \cup 1..made]
        /\ k.pc # "idle" => k.of \in Roots
        /\ k.pc \in {"asks", "pops"} => k.runtime # None
    <3>1. PICK i : i = runtimes[closer[c].of]
      OBVIOUS
    <3>2. CASE i = None
      BY <2>1, <3>1, <3>2 DEF Project!Idle
    <3>3. CASE i # None
      <4>1. k = [pc |-> "asks", of |-> closer[c].of, runtime |-> i]
        BY <1>t, <2>1, <3>1, <3>3 DEF Project!TypeOK
      <4> QED
        BY <2>3, <3>1, <3>3, <4>1
    <3> QED
      BY <3>2, <3>3
  <2>5. UNCHANGED <<runtimes, current, root, made, open, busy, request, hostClosed, strays>>
    BY <1>5 DEF Project!Looks
  <2> QED
    BY <2>2, <2>4, <2>5, ClosersLook
<1>6. ASSUME NEW c \in Closers, Project!AsksWork(c)
      PROVE  Project!IInv'
  <2>1. PICK k : k = IF closer[c].runtime \in busy THEN Project!Idle
                     ELSE [closer[c] EXCEPT !.pc = "pops"]
    OBVIOUS
  <2>2. closer[c].pc = "asks" /\ closer' = [closer EXCEPT ![c] = k]
    BY <1>6, <1>t, <2>1 DEF Project!AsksWork, Project!TypeOK
  <2>3. /\ k \in [pc : {"idle", "looks", "asks", "pops"}, of : Roots \cup {None},
                  runtime : {None} \cup 1..made]
        /\ k.pc # "idle" => k.of \in Roots
        /\ k.pc \in {"asks", "pops"} => k.runtime # None
    BY <1>t, <2>1, <2>2 DEF Project!Idle, Project!TypeOK
  <2>4. UNCHANGED <<runtimes, current, root, made, open, busy, request, hostClosed, strays>>
    BY <1>6 DEF Project!AsksWork
  <2> QED
    BY <2>2, <2>3, <2>4, ClosersLook
<1>7. ASSUME NEW c \in Closers, Project!Pops(c)
      PROVE  Project!IInv'
  <2>1. CASE ~Project!MayPop(c)
    <3>1. closer[c].pc = "pops" /\ closer' = [closer EXCEPT ![c] = Project!Idle]
      BY <1>7, <2>1 DEF Project!Pops
    <3>2. UNCHANGED <<runtimes, current, root, made, open, busy, request, hostClosed, strays>>
      BY <1>7, <2>1 DEF Project!Pops
    <3> QED
      BY <3>1, <3>2, ClosersLook DEF Project!Idle
  <2>2. CASE Project!MayPop(c)
    <3>1. PICK r, i : r = closer[c].of /\ i = closer[c].runtime
      OBVIOUS
    <3>2. /\ closer[c].pc = "pops" /\ runtimes' = [runtimes EXCEPT ![r] = None]
          /\ closer' = [closer EXCEPT ![c].pc = "closes"] /\ strays' = strays \cup ({i} \cap busy)
          /\ r # current /\ runtimes[r] = i
          /\ UNCHANGED <<current, root, made, open, busy, request, hostClosed>>
      BY <1>7, <2>2, <3>1 DEF Project!Pops, Project!MayPop
    <3>3. r \in Roots /\ i \in 1..made /\ i # None
      BY <1>t, <1>n, <3>1, <3>2 DEF Project!TypeOK
    <3>4. PICK k : k = [closer[c] EXCEPT !.pc = "closes"]
      OBVIOUS
    <3>5. /\ closer' = [closer EXCEPT ![c] = k] /\ k.pc = "closes" /\ k.of = r /\ k.runtime = i
          /\ \A d \in Closers : closer'[d] = (IF d = c THEN k ELSE closer[d])
          /\ k \in [pc : {"idle", "looks", "asks", "pops", "closes"},
                    of : Roots \cup {None}, runtime : {None} \cup 1..made]
      BY <1>t, <3>1, <3>2, <3>4 DEF Project!TypeOK
    <3>6. \A q \in Roots : runtimes'[q] = (IF q = r THEN None ELSE runtimes[q])
      BY <1>t, <3>2 DEF Project!TypeOK
    <3>7. \A q \in Roots : runtimes[q] = i => q = r
      BY <3>2, <3>3
    <3>8. Project!Known' = Project!Known \ {i} /\ i \in Project!Known
      BY <3>2, <3>3, <3>6, <3>7 DEF Project!Known
    <3>9. Project!BeingClosed' = Project!BeingClosed \cup {i}
      BY <3>2, <3>5 DEF Project!BeingClosed
    <3>10. Project!TypeOK'
      <4>1. strays' \subseteq 1..made
        BY <1>t, <3>2, <3>3 DEF Project!TypeOK
      <4>2. runtimes' \in [Roots -> {None} \cup 1..made]
        BY <1>t, <3>2 DEF Project!TypeOK
      <4>3. closer' \in [Closers -> [pc : {"idle", "looks", "asks", "pops", "closes"},
                                     of : Roots \cup {None}, runtime : {None} \cup 1..made]]
        BY <1>t, <3>5 DEF Project!TypeOK
      <4> QED
        BY <1>t, <3>2, <4>1, <4>2, <4>3 DEF Project!TypeOK
    <3>11. Project!ProjectsAreKept'
      BY <3>2, <3>6, <3>8, <3>9 DEF Project!ProjectsAreKept, Project!NoneIsLeft,
         Project!WorkIsKnown, Project!CurrentIsOpen
    <3> QED
      BY <3>2, <3>3, <3>5, <3>6, <3>8, <3>10, <3>11
  <2> QED
    BY <2>1, <2>2
<1>8. ASSUME NEW c \in Closers, Project!CloseRuntime(c)
      PROVE  Project!IInv'
  <2>1. PICK i : i = closer[c].runtime
    OBVIOUS
  <2>2. /\ closer[c].pc = "closes" /\ closer' = [closer EXCEPT ![c] = Project!Idle]
        /\ UNCHANGED <<runtimes, current, root, made, request, hostClosed>>
        /\ \/ open' = open \ {i} /\ busy' = busy \ {i} /\ strays' = strays
           \/ strays' = strays \cup {i} /\ UNCHANGED <<open, busy>>
    BY <1>8, <2>1 DEF Project!CloseRuntime, Project!Closes
  <2>3. i \in 1..made /\ i \notin Project!Known
    BY <1>t, <2>1, <2>2 DEF Project!TypeOK
  <2>4. \A d \in Closers : closer'[d] = (IF d = c THEN Project!Idle ELSE closer[d])
    BY <1>t, <2>2 DEF Project!TypeOK
  <2>5. Project!Known' = Project!Known /\ Project!BeingClosed \subseteq Project!BeingClosed' \cup {i}
    BY <2>1, <2>2, <2>4 DEF Project!Known, Project!BeingClosed
  <2>6. Project!TypeOK'
    BY <1>t, <2>2, <2>3 DEF Project!TypeOK, Project!Idle
  <2>7. Project!ProjectsAreKept'
    BY <2>2, <2>3, <2>5 DEF Project!ProjectsAreKept, Project!NoneIsLeft,
       Project!WorkIsKnown, Project!CurrentIsOpen
  <2> QED
    BY <2>2, <2>4, <2>5, <2>6, <2>7 DEF Project!Idle
<1>9. ASSUME NEW q \in Requests, Project!Takes(q) \/ Project!Starts(q)
      PROVE  Project!IInv'
  <2>1. /\ UNCHANGED <<runtimes, current, root, made, open, closer, hostClosed>>
        /\ Project!Known' = Project!Known /\ Project!BeingClosed' = Project!BeingClosed
    BY <1>9 DEF Project!Takes, Project!Starts, Project!Known, Project!BeingClosed
  <2>2. /\ request' \in [Requests -> {None} \cup 1..made]
        /\ \/ UNCHANGED <<busy, strays>>
           \/ \E i \in 1..made :
                /\ busy' = busy \cup {i}
                /\ strays' = IF i \in Project!Known THEN strays ELSE strays \cup {i}
    BY <1>9, <1>t DEF Project!Takes, Project!Starts, Project!TypeOK
  <2>3. Project!TypeOK'
    BY <1>t, <2>1, <2>2 DEF Project!TypeOK
  <2>4. Project!ProjectsAreKept'
    BY <2>1, <2>2 DEF Project!ProjectsAreKept, Project!NoneIsLeft,
       Project!WorkIsKnown, Project!CurrentIsOpen
  <2> QED
    BY <2>1, <2>3, <2>4
<1>10. ASSUME NEW i \in 1..MaxRuntimes, Project!WorkEnds(i)
       PROVE  Project!IInv'
  <2>1. /\ UNCHANGED <<runtimes, current, root, made, open, request, closer, hostClosed, strays>>
        /\ busy' \subseteq busy
        /\ Project!Known' = Project!Known /\ Project!BeingClosed' = Project!BeingClosed
    BY <1>10 DEF Project!WorkEnds, Project!Known, Project!BeingClosed
  <2> QED
    BY <2>1 DEF Project!TypeOK, Project!ProjectsAreKept, Project!NoneIsLeft,
       Project!WorkIsKnown, Project!CurrentIsOpen
<1>11. CASE Project!CloseHost
  <2>1. /\ UNCHANGED <<runtimes, current, root, made, open, busy, request, closer, strays>>
        /\ hostClosed = "no" /\ hostClosed' = "begun"
        /\ Project!Known' = Project!Known /\ Project!BeingClosed' = Project!BeingClosed
    BY <1>11 DEF Project!CloseHost, Project!Known, Project!BeingClosed
  <2> QED
    BY <2>1 DEF Project!TypeOK, Project!ProjectsAreKept, Project!NoneIsLeft,
       Project!WorkIsKnown, Project!CurrentIsOpen
<1>12. CASE Project!Forget
  <2>1. /\ UNCHANGED <<current, root, made, request, closer, strays>>
        /\ hostClosed' = "done" /\ runtimes' = [r \in Roots |-> None]
        /\ open' = open \ Project!Known /\ busy' = busy \ Project!Known
    BY <1>12 DEF Project!Forget
  <2>2. Project!Known' = {} /\ Project!BeingClosed' = Project!BeingClosed
    BY <2>1 DEF Project!Known, Project!BeingClosed
  <2>3. Project!TypeOK'
    BY <1>t, <2>1 DEF Project!TypeOK
  <2>4. Project!ProjectsAreKept'
    BY <2>1, <2>2 DEF Project!ProjectsAreKept, Project!NoneIsLeft,
       Project!WorkIsKnown, Project!CurrentIsOpen
  <2> QED
    BY <2>1, <2>2, <2>3, <2>4
<1> QED
  BY <1>1, <1>2, <1>3, <1>4, <1>5, <1>6, <1>7, <1>8, <1>9, <1>10, <1>11, <1>12
     DEF Project!Next

\* Whatever requests, switches of projects, threads that close idle ones and the end
\* of the host interleave, the host knows every runtime that is open or at work, but
\* for one being closed and the strays, and the current project keeps its runtime
\* (server.py).
THEOREM ProjectsStayKept == Spec => []ProjectsAreKept
<1>1. Init => (part = "projects" => Project!IInv)
  BY ProjectInit
<1>2. (part = "projects" => Project!IInv) /\ [Next]_vars => (part = "projects" => Project!IInv)'
  BY OnePartMoves, ProjectStep
<1>3. (part = "projects" => Project!IInv) => ProjectsAreKept
  BY DEF ProjectsAreKept, Project!IInv
<1> QED
  BY <1>1, <1>2, <1>3, PTL DEF Spec
-----------------------------------------------------------------------------
(* What a headless command tells of its turn: HeadlessRun.                  *)

LEMMA CommandInit == Init => Command!IInv
<1> SUFFICES ASSUME Command!Init
             PROVE  Command!IInv
  BY DEF Init
<1>1. QueueLimit \in Nat \ {0}
  BY CommandParameters DEF Command!CommandAssumption
<1>2. messages \in Seq({"old", "new", "summary"}) /\ before = Len(messages) /\ before \in Nat
  <2>1. messages \in {<<>>, <<"old">>, <<"old", "old">>} /\ before = Len(messages)
    BY DEF Command!Init
  <2>2. CASE messages = <<>>
    BY <2>1, <2>2
  <2>3. CASE messages = <<"old">>
    BY <2>1, <2>3
  <2>4. CASE messages = <<"old", "old">>
    BY <2>1, <2>4
  <2> QED
    BY <2>1, <2>2, <2>3, <2>4
<1>3. eventQueue = <<>> /\ eventQueue \in Seq(Command!Ends \cup {"other"})
  BY DEF Command!Init
<1>4. run = "works" /\ "works" \notin Command!Ends
  BY DEF Command!Init, Command!Ends, Command!Reasons, Command!Failures
<1>5. Command!TypeOK
  <2>1. /\ said = 0 /\ wait = "get" /\ ~lost /\ lost \in BOOLEAN /\ ~interrupted
        /\ interrupted \in BOOLEAN /\ schema \in BOOLEAN
    BY DEF Command!Init
  <2>2. Len(eventQueue) <= QueueLimit
    BY <1>1, <1>3
  <2> QED
    BY <1>2, <1>3, <1>4, <2>1, <2>2 DEF Command!TypeOK
<1>6. Command!EndIsHeard
  BY <1>3, <1>4 DEF Command!Init, Command!EndIsHeard, Command!Ends, Command!Reasons,
     Command!Failures
<1>7. Command!AddedAreLast
  BY <1>2, <1>4 DEF Command!Init, Command!AddedAreLast
<1>8. Command!CommandTells
  BY DEF Command!Init, Command!CommandTells, Command!CodeIsTrue, Command!TextIsOwn
<1> QED
  BY <1>5, <1>6, <1>7, <1>8 DEF Command!IInv, Command!Init

\* What is left of a sequence without its first k elements.
LEMMA LastOnes ==
  ASSUME NEW E, NEW s \in Seq(E), NEW k \in 0..Len(s)
  PROVE  /\ SubSeq(s, k + 1, Len(s)) \in Seq(E)
         /\ Len(SubSeq(s, k + 1, Len(s))) = Len(s) - k
         /\ \A i \in 1..Len(SubSeq(s, k + 1, Len(s))) :
              k + i \in 1..Len(s) /\ SubSeq(s, k + 1, Len(s))[i] = s[k + i]
<1>1. PICK n \in Nat : n = Len(s)
  OBVIOUS
<1>2. PICK t : t = SubSeq(s, k + 1, n)
  OBVIOUS
<1>3. k + 1 \in Int /\ n \in Int /\ \A i \in k + 1..n : s[i] \in E
  BY <1>1
<1>4. /\ t \in Seq(E) /\ Len(t) = IF k + 1 <= n THEN n - (k + 1) + 1 ELSE 0
      /\ \A i \in 1..n - (k + 1) + 1 : t[i] = s[k + 1 + i - 1]
  BY <1>2, <1>3, SubSeqProperties
<1>5. Len(t) = n - k /\ n - (k + 1) + 1 = n - k
  BY <1>1, <1>4
<1>6. ASSUME NEW i \in 1..n - k
      PROVE  k + i \in 1..n /\ t[i] = s[k + i]
  <2>1. k + i \in 1..n /\ k + 1 + i - 1 = k + i
    BY <1>1
  <2> QED
    BY <1>4, <1>5, <2>1
<1> QED
  BY <1>1, <1>2, <1>4, <1>5, <1>6

\* What the queue holds after an event is put or taken.
LEMMA QueueOfEvents ==
  ASSUME NEW E, NEW q \in Seq(E), NEW e \in E, QueueLimit \in Nat \ {0}, Len(q) <= QueueLimit
  PROVE  /\ Command!Put(q, e) \in Seq(E) /\ Len(Command!Put(q, e)) <= QueueLimit
         /\ \A i \in 1..Len(Command!Put(q, e)) :
              Command!Put(q, e)[i] = e \/ \E j \in 1..Len(q) : Command!Put(q, e)[i] = q[j]
         /\ q # <<>> =>
              /\ Head(q) = q[1] /\ Len(q) \in Nat \ {0} /\ Tail(q) \in Seq(E)
              /\ Len(Tail(q)) = Len(q) - 1
              /\ \A i \in 1..Len(Tail(q)) : Tail(q)[i] = q[i + 1] /\ i + 1 \in 1..Len(q)
<1>1. q # <<>> =>
        /\ Head(q) = q[1] /\ Len(q) \in Nat \ {0} /\ Tail(q) \in Seq(E)
        /\ Len(Tail(q)) = Len(q) - 1
        /\ \A i \in 1..Len(Tail(q)) : Tail(q)[i] = q[i + 1] /\ i + 1 \in 1..Len(q)
  OBVIOUS
<1>2. CASE Len(q) < QueueLimit
  <2>1. Command!Put(q, e) = Append(q, e)
    BY <1>2 DEF Command!Put
  <2>2. /\ Append(q, e) \in Seq(E) /\ Len(Append(q, e)) = Len(q) + 1
        /\ \A i \in 1..Len(q) : Append(q, e)[i] = q[i]
        /\ Append(q, e)[Len(q) + 1] = e
    OBVIOUS
  <2> QED
    BY <1>1, <1>2, <2>1, <2>2
<1>3. CASE ~(Len(q) < QueueLimit)
  <2>1. q # <<>> /\ Command!Put(q, e) = Append(Tail(q), e)
    BY <1>3 DEF Command!Put
  <2>2. PICK t \in Seq(E) : t = Tail(q)
    BY <1>1, <2>1
  <2>3. /\ Append(t, e) \in Seq(E) /\ Len(Append(t, e)) = Len(t) + 1
        /\ \A i \in 1..Len(t) : Append(t, e)[i] = t[i]
        /\ Append(t, e)[Len(t) + 1] = e
    OBVIOUS
  <2>4. Len(t) + 1 = Len(q) /\ Len(t) \in Nat
    BY <1>1, <2>1, <2>2
  <2>5. Command!Put(q, e) \in Seq(E) /\ Len(Command!Put(q, e)) = Len(t) + 1
    BY <2>1, <2>2, <2>3
  <2>6. ASSUME NEW i \in 1..Len(Command!Put(q, e))
        PROVE  Command!Put(q, e)[i] = e \/ \E j \in 1..Len(q) : Command!Put(q, e)[i] = q[j]
    <3>1. CASE i = Len(t) + 1
      BY <2>1, <2>2, <2>3, <3>1
    <3>2. CASE i \in 1..Len(t)
      BY <1>1, <2>1, <2>2, <2>3, <3>2
    <3> QED
      BY <2>4, <2>5, <3>1, <3>2
  <2> QED
    BY <1>1, <1>3, <2>4, <2>5, <2>6
<1> QED
  BY <1>2, <1>3

\* The waiting command takes an event off the queue: an end is the turn's.
LEMMA EventIsTaken ==
  ASSUME Command!IInv, QueueLimit \in Nat \ {0}, eventQueue # <<>>,
         wait \in {"get", "drain"}, eventQueue' = Tail(eventQueue),
         wait' = (IF Command!Terminal(Head(eventQueue)) THEN Head(eventQueue) ELSE "get"),
         UNCHANGED <<run, messages, before, lost, published, said, interrupted, closing,
                     schema, result>>
  PROVE  Command!IInv'
<1> USE DEF Command!IInv
<1>1. /\ "works" \notin Command!Ends /\ "other" \notin Command!Ends
      /\ Command!Ends \cap {"get", "none", "drain", "unheard"} = {}
  BY DEF Command!Ends, Command!Reasons, Command!Failures
<1>2. /\ eventQueue \in Seq(Command!Ends \cup {"other"}) /\ Len(eventQueue) <= QueueLimit
      /\ run \in Command!Ends \cup {"works"}
  BY DEF Command!TypeOK
<1>3. /\ Head(eventQueue) = eventQueue[1] /\ Len(eventQueue) \in Nat \ {0}
      /\ Tail(eventQueue) \in Seq(Command!Ends \cup {"other"})
      /\ Len(Tail(eventQueue)) = Len(eventQueue) - 1
      /\ \A i \in 1..Len(Tail(eventQueue)) :
           Tail(eventQueue)[i] = eventQueue[i + 1] /\ i + 1 \in 1..Len(eventQueue)
  BY <1>2, QueueOfEvents
<1>4. eventQueue[1] \in {"other", run} /\ result = None
  BY <1>1, <1>3 DEF Command!EndIsHeard
<1>5. Command!Terminal(Head(eventQueue)) <=> eventQueue[1] = run /\ run # "works"
  BY <1>1, <1>2, <1>3, <1>4 DEF Command!Terminal
<1>6. Command!TypeOK'
  BY <1>2, <1>3, <1>4, <1>5 DEF Command!TypeOK
<1>7. \A i \in 1..Len(eventQueue') : eventQueue'[i] \in {"other", run'}
  BY <1>3 DEF Command!EndIsHeard
<1>8. CASE eventQueue[1] = run /\ run # "works"
  <2>1. wait' = run /\ ~lost
    BY <1>2, <1>3, <1>5, <1>8 DEF Command!EndIsHeard, Command!Holds
  <2> QED
    BY <1>1, <1>2, <1>4, <1>6, <1>7, <1>8, <2>1 DEF Command!EndIsHeard, Command!AddedAreLast,
       Command!CommandTells, Command!CodeIsTrue, Command!TextIsOwn
<1>9. CASE ~(eventQueue[1] = run /\ run # "works")
  <2>1. wait' = "get"
    BY <1>5, <1>9
  <2>2. run # "works" => (Command!Holds(run) <=> Command!Holds(run)')
    <3> SUFFICES ASSUME run # "works"
                 PROVE  Command!Holds(run) <=> Command!Holds(run)'
      OBVIOUS
    <3>1. ASSUME NEW i \in 1..Len(eventQueue), eventQueue[i] = run
          PROVE  i - 1 \in 1..Len(eventQueue') /\ eventQueue'[i - 1] = run
      BY <1>3, <1>9, <3>1
    <3> QED
      BY <1>3, <3>1 DEF Command!Holds
  <2>3. Command!EndIsHeard'
    BY <1>1, <1>7, <2>1, <2>2 DEF Command!EndIsHeard
  <2> QED
    BY <1>4, <1>6, <2>3 DEF Command!AddedAreLast, Command!CommandTells, Command!CodeIsTrue,
       Command!TextIsOwn
<1> QED
  BY <1>8, <1>9

LEMMA CommandStep ==
  ASSUME Command!IInv, [Command!Next]_commandVars
  PROVE  Command!IInv'
<1> USE DEF Command!IInv
<1>q. QueueLimit \in Nat \ {0}
  BY CommandParameters DEF Command!CommandAssumption
<1>e. /\ "works" \notin Command!Ends /\ "other" \notin Command!Ends /\ "final_response" \in Command!Ends
      /\ Command!Ends \cap {"get", "none", "drain", "unheard"} = {}
  BY DEF Command!Ends, Command!Reasons, Command!Failures
<1>t. /\ eventQueue \in Seq(Command!Ends \cup {"other"}) /\ Len(eventQueue) <= QueueLimit
      /\ run \in Command!Ends \cup {"works"} /\ said \in Nat /\ before \in Nat
      /\ messages \in Seq({"old", "new", "summary"})
  BY DEF Command!TypeOK
<1>w. run = "works" => result = None /\ wait \in {"get", "none"}
  BY <1>e, <1>t DEF Command!EndIsHeard
<1>1. CASE UNCHANGED commandVars
  BY <1>1 DEF commandVars, Command!TypeOK, Command!EndIsHeard, Command!Holds,
     Command!AddedAreLast, Command!CommandTells, Command!CodeIsTrue, Command!TextIsOwn
<1>2. CASE Command!Publishes
  <2>1. /\ run = "works" /\ published' = published + 1
        /\ eventQueue' = Command!Put(eventQueue, "other")
        /\ UNCHANGED <<run, messages, before, lost, said, wait, interrupted, closing, schema, result>>
    BY <1>2 DEF Command!Publishes
  <2>2. "other" \in Command!Ends \cup {"other"}
    OBVIOUS
  <2>3. /\ eventQueue' \in Seq(Command!Ends \cup {"other"}) /\ Len(eventQueue') <= QueueLimit
        /\ \A i \in 1..Len(eventQueue') :
             eventQueue'[i] = "other" \/ \E j \in 1..Len(eventQueue) : eventQueue'[i] = eventQueue[j]
    BY <1>q, <1>t, <2>1, <2>2, QueueOfEvents
  <2>4. \A i \in 1..Len(eventQueue') : eventQueue'[i] \in {"other", run'}
    BY <2>1, <2>3 DEF Command!EndIsHeard
  <2>5. Command!TypeOK'
    BY <2>1, <2>3 DEF Command!TypeOK
  <2>6. Command!EndIsHeard'
    BY <1>e, <2>1, <2>4 DEF Command!EndIsHeard
  <2> QED
    BY <1>w, <2>1, <2>5, <2>6 DEF Command!AddedAreLast, Command!CommandTells,
       Command!CodeIsTrue, Command!TextIsOwn
<1>3. CASE Command!Says
  <2>1. /\ run = "works" /\ said' = said + 1 /\ messages' = Append(messages, "new")
        /\ UNCHANGED <<run, before, eventQueue, lost, published, wait, interrupted, closing, schema, result>>
    BY <1>3 DEF Command!Says
  <2>2. /\ messages' \in Seq({"old", "new", "summary"}) /\ Len(messages') = Len(messages) + 1
        /\ Len(messages) \in Nat /\ messages'[Len(messages) + 1] = "new"
        /\ \A i \in 1..Len(messages) : messages'[i] = messages[i]
    BY <1>t, <2>1
  <2>3. Command!TypeOK'
    BY <1>t, <2>1, <2>2 DEF Command!TypeOK
  <2>4. Command!EndIsHeard'
    BY <2>1 DEF Command!EndIsHeard, Command!Holds
  <2>5. CASE \E i \in 1..Len(messages) : messages[i] = "summary"
    <3>1. \E i \in 1..Len(messages') : messages'[i] = "summary"
      BY <2>2, <2>5
    <3> QED
      BY <1>e, <1>w, <2>1, <2>3, <2>4, <3>1 DEF Command!AddedAreLast, Command!CommandTells,
         Command!CodeIsTrue, Command!TextIsOwn
  <2>6. CASE ~\E i \in 1..Len(messages) : messages[i] = "summary"
    <3>1. /\ Len(messages) = before + said
          /\ \A i \in 1..Len(messages) : i > before => messages[i] = "new"
      BY <2>6 DEF Command!AddedAreLast
    <3>2. Len(messages') = before' + said'
      BY <1>t, <2>1, <2>2, <3>1
    <3>3. \A i \in 1..Len(messages') : i > before' => messages'[i] = "new"
      BY <1>t, <2>1, <2>2, <3>1
    <3> QED
      BY <1>e, <1>w, <2>1, <2>3, <2>4, <3>2, <3>3 DEF Command!AddedAreLast,
         Command!CommandTells, Command!CodeIsTrue, Command!TextIsOwn
  <2> QED
    BY <2>5, <2>6
<1>4. CASE Command!Compacts
  <2>1. /\ run = "works" /\ Len(messages) > 1 /\ messages' = <<"summary", messages[Len(messages)]>>
        /\ UNCHANGED <<run, before, eventQueue, lost, published, said, wait, interrupted, closing, schema, result>>
    BY <1>4 DEF Command!Compacts
  <2>2. messages[Len(messages)] \in {"old", "new", "summary"}
    BY <1>t, <2>1
  <2>3. /\ messages' \in Seq({"old", "new", "summary"})
        /\ \E i \in 1..Len(messages') : messages'[i] = "summary"
    BY <2>1, <2>2
  <2> QED
    BY <1>e, <1>w, <2>1, <2>3 DEF Command!TypeOK, Command!EndIsHeard, Command!Holds,
       Command!AddedAreLast, Command!CommandTells, Command!CodeIsTrue, Command!TextIsOwn
<1>5. ASSUME NEW o \in Command!Ends, Command!TurnEnds(o)
      PROVE  Command!IInv'
  <2>1. /\ run = "works" /\ run' = o /\ (o = "final_response" => said > 0)
        /\ UNCHANGED <<messages, before, published, said, wait, interrupted, closing, schema, result>>
    BY <1>5 DEF Command!TurnEnds
  <2>. PICK memory \in 0..QueueLimit : \E all, over :
          /\ all = eventQueue \o <<o>> \o [i \in 1..memory |-> "other"]
          /\ over = (IF Len(all) > QueueLimit THEN Len(all) - QueueLimit ELSE 0)
          /\ eventQueue' = SubSeq(all, over + 1, Len(all)) /\ lost' = (over > Len(eventQueue))
    BY <1>5 DEF Command!TurnEnds
  <2>2. PICK all, over :
          /\ all = eventQueue \o <<o>> \o [i \in 1..memory |-> "other"]
          /\ over = (IF Len(all) > QueueLimit THEN Len(all) - QueueLimit ELSE 0)
          /\ eventQueue' = SubSeq(all, over + 1, Len(all)) /\ lost' = (over > Len(eventQueue))
    OBVIOUS
  <2>3. PICK n \in Nat : n = Len(eventQueue) /\ n <= QueueLimit
    BY <1>t
  <2>4. /\ all \in Seq(Command!Ends \cup {"other"}) /\ Len(all) = n + 1 + memory
        /\ \A i \in 1..Len(all) : all[i] = IF i = n + 1 THEN o ELSE "other"
    <3>1. PICK tail : tail = [i \in 1..memory |-> "other"]
      OBVIOUS
    <3>2. /\ tail \in Seq(Command!Ends \cup {"other"}) /\ Len(tail) = memory
          /\ \A i \in 1..memory : tail[i] = "other"
      BY <1>q, <3>1
    <3>3. \A i \in 1..n : eventQueue[i] = "other"
      BY <1>e, <1>t, <2>1, <2>3 DEF Command!EndIsHeard
    <3>4. PICK head : head = eventQueue \o <<o>>
      OBVIOUS
    <3>5. /\ head \in Seq(Command!Ends \cup {"other"}) /\ Len(head) = n + 1 /\ head[n + 1] = o
          /\ \A i \in 1..n : head[i] = eventQueue[i]
      BY <1>t, <2>3, <3>4
    <3>6. all = head \o tail
      BY <2>2, <3>1, <3>4
    <3>7. /\ all \in Seq(Command!Ends \cup {"other"}) /\ Len(all) = n + 1 + memory
          /\ \A i \in 1..n + 1 : all[i] = head[i]
          /\ \A i \in 1..memory : all[n + 1 + i] = tail[i]
      <4>1. /\ all \in Seq(Command!Ends \cup {"other"}) /\ Len(all) = Len(head) + Len(tail)
            /\ \A i \in 1..Len(head) + Len(tail) :
                 all[i] = IF i <= Len(head) THEN head[i] ELSE tail[i - Len(head)]
        BY <3>2, <3>5, <3>6, ConcatProperties
      <4>2. \A i \in 1..memory : n + 1 + i \in 1..Len(head) + Len(tail) /\ ~(n + 1 + i <= Len(head))
                                /\ n + 1 + i - Len(head) = i
        <5>1. n \in Nat /\ memory \in Nat /\ Len(head) = n + 1 /\ Len(tail) = memory
          BY <1>q, <2>3, <3>2, <3>5
        <5>2. \A i \in 1..memory : n + 1 + i \in 1..(n + 1) + memory /\ ~(n + 1 + i <= n + 1)
                                  /\ n + 1 + i - (n + 1) = i
          BY <5>1
        <5> QED
          BY <5>1, <5>2
      <4>3. \A i \in 1..n + 1 : i \in 1..Len(head) + Len(tail) /\ i <= Len(head)
        BY <1>q, <3>2, <3>5
      <4> QED
        BY <3>2, <3>5, <4>1, <4>2, <4>3
    <3>8. ASSUME NEW i \in 1..Len(all)
          PROVE  all[i] = IF i = n + 1 THEN o ELSE "other"
      <4>1. CASE i \in 1..n
        BY <3>3, <3>5, <3>7, <4>1
      <4>2. CASE i = n + 1
        BY <3>5, <3>7, <4>2
      <4>3. CASE i > n + 1
        <5>1. i - (n + 1) \in 1..memory /\ i = n + 1 + (i - (n + 1))
          BY <1>q, <3>7, <4>3
        <5>2. PICK j \in 1..memory : i = n + 1 + j
          BY <5>1
        <5>3. all[i] = tail[j] /\ tail[j] = "other" /\ i # n + 1
          BY <3>2, <3>7, <4>3, <5>2
        <5> QED
          BY <5>3
      <4> QED
        BY <1>q, <3>7, <4>1, <4>2, <4>3
    <3> QED
      BY <3>7, <3>8
  <2>5. /\ over \in 0..n + 1 + memory /\ n + 1 + memory - over <= QueueLimit
        /\ n + 1 + memory \in Nat
    BY <1>q, <2>2, <2>3, <2>4
  <2>6. /\ eventQueue' \in Seq(Command!Ends \cup {"other"})
        /\ Len(eventQueue') = n + 1 + memory - over
        /\ \A i \in 1..Len(eventQueue') :
             /\ over + i \in 1..Len(all)
             /\ eventQueue'[i] = all[over + i]
    <3>1. over \in 0..Len(all) /\ Len(all) - over = n + 1 + memory - over
      BY <2>4, <2>5
    <3>2. /\ SubSeq(all, over + 1, Len(all)) \in Seq(Command!Ends \cup {"other"})
          /\ Len(SubSeq(all, over + 1, Len(all))) = Len(all) - over
          /\ \A i \in 1..Len(SubSeq(all, over + 1, Len(all))) :
               over + i \in 1..Len(all) /\ SubSeq(all, over + 1, Len(all))[i] = all[over + i]
      BY <2>4, <3>1, LastOnes
    <3>3. PICK s : s = SubSeq(all, over + 1, Len(all)) /\ eventQueue' = s
      BY <2>2
    <3> QED
      BY <3>1, <3>2, <3>3
  <2>7. \A i \in 1..Len(eventQueue') : eventQueue'[i] = IF over + i = n + 1 THEN o ELSE "other"
    BY <2>4, <2>6
  <2>8. Command!Holds(run)' <=> ~lost'
    <3>1. CASE over > n
      <4>1. \A i \in 1..Len(eventQueue') : over + i # n + 1
        BY <2>3, <2>5, <3>1
      <4> QED
        BY <1>e, <2>1, <2>2, <2>3, <2>7, <3>1, <4>1 DEF Command!Holds
    <3>2. CASE over <= n
      <4>1. n + 1 - over \in 1..Len(eventQueue') /\ over + (n + 1 - over) = n + 1
        <5>1. over \in Nat /\ n \in Nat /\ memory \in Nat
          BY <1>q, <2>3, <2>5
        <5>2. n + 1 - over \in 1..n + 1 + memory - over /\ over + (n + 1 - over) = n + 1
          BY <3>2, <5>1
        <5> QED
          BY <2>6, <5>2
      <4>2. eventQueue'[n + 1 - over] = o
        BY <2>7, <4>1
      <4>3. ~lost'
        <5>1. ~(over > Len(eventQueue))
          BY <2>3, <2>5, <3>2
        <5> QED
          BY <2>2, <5>1
      <4> QED
        BY <2>1, <4>1, <4>2, <4>3 DEF Command!Holds
    <3> QED
      BY <2>3, <2>5, <3>1, <3>2
  <2>9. Command!TypeOK'
    <3>1. lost' \in BOOLEAN /\ Len(eventQueue') <= QueueLimit
      BY <2>2, <2>5, <2>6
    <3> QED
      BY <2>1, <2>6, <3>1 DEF Command!TypeOK
  <2>10. Command!EndIsHeard'
    BY <1>e, <1>w, <2>1, <2>7, <2>8 DEF Command!EndIsHeard
  <2>11. Command!AddedAreLast'
    BY <2>1 DEF Command!AddedAreLast
  <2> QED
    BY <1>w, <2>1, <2>9, <2>10, <2>11 DEF Command!CommandTells, Command!CodeIsTrue,
       Command!TextIsOwn
<1>6. CASE Command!Get
  <2>1. CASE eventQueue # <<>>
    BY <1>6, <1>q, <2>1, EventIsTaken DEF Command!Get
  <2>2. CASE eventQueue = <<>>
    <3>1. /\ wait = "get" /\ wait' = "none"
          /\ UNCHANGED <<run, messages, before, eventQueue, lost, published, said, interrupted, closing, schema, result>>
      BY <1>6, <2>2 DEF Command!Get
    <3> QED
      BY <1>e, <3>1 DEF Command!TypeOK, Command!EndIsHeard, Command!Holds, Command!AddedAreLast,
         Command!CommandTells, Command!CodeIsTrue, Command!TextIsOwn
  <2> QED
    BY <2>1, <2>2
<1>7. CASE Command!AsksActive
  <2>1. /\ wait = "none" /\ wait' = (IF run = "works" THEN "get" ELSE "drain")
        /\ UNCHANGED <<run, messages, before, eventQueue, lost, published, said, interrupted, closing, schema, result>>
    BY <1>7 DEF Command!AsksActive
  <2> QED
    BY <1>e, <2>1 DEF Command!TypeOK, Command!EndIsHeard, Command!Holds, Command!AddedAreLast,
       Command!CommandTells, Command!CodeIsTrue, Command!TextIsOwn
<1>8. CASE Command!Drain
  <2>1. CASE eventQueue # <<>>
    BY <1>8, <1>q, <2>1, EventIsTaken DEF Command!Drain
  <2>2. CASE eventQueue = <<>>
    <3>1. /\ wait = "drain" /\ wait' = "unheard"
          /\ UNCHANGED <<run, messages, before, eventQueue, lost, published, said, interrupted, closing, schema, result>>
      BY <1>8, <2>2 DEF Command!Drain
    <3>2. run # "works" /\ ~Command!Holds(run)
      BY <1>e, <2>2, <3>1 DEF Command!EndIsHeard, Command!Holds
    <3> QED
      BY <1>e, <3>1, <3>2 DEF Command!TypeOK, Command!EndIsHeard, Command!Holds,
         Command!AddedAreLast, Command!CommandTells, Command!CodeIsTrue, Command!TextIsOwn
  <2> QED
    BY <2>1, <2>2
<1>9. CASE Command!Interrupt
  <2>1. /\ wait = "get" /\ interrupted' = TRUE
        /\ UNCHANGED <<run, messages, before, eventQueue, lost, published, said, wait, schema, result>>
    BY <1>9 DEF Command!Interrupt
  <2> QED
    BY <1>e, <2>1 DEF Command!TypeOK, Command!EndIsHeard, Command!Holds, Command!AddedAreLast,
       Command!CommandTells, Command!CodeIsTrue, Command!TextIsOwn
<1>10. CASE Command!Reports
  <2>1. /\ wait \in Command!Ends \cup {"unheard"}
        /\ UNCHANGED <<run, messages, before, eventQueue, lost, published, said, wait, interrupted, closing, schema>>
    BY <1>10 DEF Command!Reports
  <2>2. /\ run # "works" /\ (wait = "unheard" => lost)
        /\ (wait # "unheard" => wait = run /\ ~lost)
    BY <1>e, <1>w, <2>1 DEF Command!EndIsHeard
  <2>. PICK valid \in BOOLEAN : \E ended, status :
          /\ ended = (IF wait \in Command!Failures \cup {"unheard"} THEN "failed"
                      ELSE IF wait = "final_response" /\ ~interrupted THEN "finished" ELSE "stopped")
          /\ status = (IF schema /\ ended = "finished" /\ ~valid THEN "failed" ELSE ended)
          /\ result' = [status |-> status, code |-> Command!ExitCode(status, wait), valid |-> valid,
                        text |-> IF wait = "refused" THEN "nothing" ELSE Command!SavedResult]
    BY <1>10 DEF Command!Reports
  <2>3. PICK ended, status :
          /\ ended = (IF wait \in Command!Failures \cup {"unheard"} THEN "failed"
                      ELSE IF wait = "final_response" /\ ~interrupted THEN "finished" ELSE "stopped")
          /\ status = (IF schema /\ ended = "finished" /\ ~valid THEN "failed" ELSE ended)
          /\ result' = [status |-> status, code |-> Command!ExitCode(status, wait), valid |-> valid,
                        text |-> IF wait = "refused" THEN "nothing" ELSE Command!SavedResult]
    OBVIOUS
  <2>4. Command!CodeIsTrue'
    BY <1>e, <2>1, <2>2, <2>3 DEF Command!CodeIsTrue, Command!ExitCode, Command!Failures
  <2>5. Command!TextIsOwn'
    <3> SUFFICES ASSUME status = "finished",
                        ~\E i \in 1..Len(messages) : messages[i] = "summary"
                 PROVE  Command!SavedResult = "new"
      BY <2>1, <2>3, <1>e DEF Command!TextIsOwn
    <3>1. run = "final_response" /\ said > 0
      BY <2>2, <2>3 DEF Command!AddedAreLast
    <3>2. /\ Len(messages) = before + said
          /\ \A i \in 1..Len(messages) : i > before => messages[i] = "new"
      BY DEF Command!AddedAreLast
    <3>3. Command!Added = SubSeq(messages, before + 1, Len(messages))
      BY <1>t, <3>2 DEF Command!Added
    <3>4. /\ Len(Command!Added) = said
          /\ \A i \in 1..said : Command!Added[i] = messages[before + i] /\ before + i \in 1..Len(messages)
      BY <1>t, <3>2, <3>3
    <3>5. \A i \in 1..said : Command!Added[i] = "new"
      BY <1>t, <3>2, <3>4
    <3>6. PICK A : A = {i \in 1..Len(Command!Added) : Command!Added[i] # "summary"}
      OBVIOUS
    <3>7. A = 1..said /\ said \in A
      BY <1>t, <3>1, <3>4, <3>5, <3>6
    <3>8. PICK n : n = CHOOSE i \in A : \A j \in A : j <= i
      OBVIOUS
    <3>9. n \in A
      <4>1. \A j \in A : j <= said
        BY <1>t, <3>7
      <4> QED
        BY <3>7, <3>8, <4>1
    <3> QED
      BY <3>5, <3>6, <3>7, <3>8, <3>9 DEF Command!SavedResult
  <2> QED
    BY <2>1, <2>4, <2>5 DEF Command!TypeOK, Command!EndIsHeard, Command!Holds,
       Command!AddedAreLast, Command!CommandTells
<1> QED
  BY <1>1, <1>2, <1>3, <1>4, <1>5, <1>6, <1>7, <1>8, <1>9, <1>10 DEF Command!Next

\* The exit code of a headless command and its result are what has become of the turn,
\* whatever the queue loses, whenever it is interrupted or its wait times out, and the
\* text of a finished turn is one it has said, unless its conversation was compacted
\* (headless.py).
THEOREM CommandsTellTheTruth == Spec => [](part = "command" => Command!CommandTells)
<1>1. Init => (part = "command" => Command!IInv)
  BY CommandInit
<1>2. (part = "command" => Command!IInv) /\ [Next]_vars => (part = "command" => Command!IInv)'
  BY OnePartMoves, CommandStep
<1>3. (part = "command" => Command!IInv) => (part = "command" => Command!CommandTells)
  BY DEF Command!IInv
<1> QED
  BY <1>1, <1>2, <1>3, PTL DEF Spec
-----------------------------------------------------------------------------
(* A loop that two processes work on: LoopRunners.                          *)

LEMMA SameSets ==
  ASSUME NEW S
  PROVE  Loop!Cardinality(S) = Cardinality(S) /\ (Loop!IsFiniteSet(S) <=> IsFiniteSet(S))
<1>1. Loop!Cardinality(S) = Cardinality(S)
  BY DEF Loop!Cardinality, Cardinality
<1>2. Loop!IsFiniteSet(S) <=> IsFiniteSet(S)
  BY DEF Loop!IsFiniteSet, IsFiniteSet
<1> QED
  BY <1>1, <1>2

LEMMA LoopConstants ==
  /\ Cards \subseteq Nat /\ IsFiniteSet(Cards) /\ Cards # {} /\ MaxWorks \in Nat
  /\ None \notin Nat /\ None \notin {"planner", "validation"} /\ None \notin Cards
  /\ Plan \notin Cards /\ Validation \notin Cards /\ Plan # Validation
<1>1. Loop!LoopAssumption
  BY LoopParameters
<1>2. Cards \subseteq Nat /\ None \notin Nat
  BY <1>1 DEF Loop!LoopAssumption
<1>3. None \notin Cards
  BY <1>2
<1> QED
  BY <1>1, <1>3, SameSets DEF Loop!LoopAssumption

LEMMA StateFields ==
  ASSUME NEW r \in Loop!Records, NEW s \in Loop!States
  PROVE  /\ Loop!State(r, s) \in Loop!Records /\ Loop!State(r, s).state = s
         /\ Loop!State(r, s).stage = None /\ Loop!State(r, s).cards = r.cards
         /\ Loop!State(r, s).worker = r.worker /\ Loop!State(r, s).locked = r.locked
BY DEF Loop!State, Loop!Records

LEMMA AttentionFields ==
  ASSUME NEW r \in Loop!Records, NEW g \in Loop!Stages \cup {"validation"},
         NEW c \in Cards \cup {None}
  PROVE  /\ Loop!Attention(r, g, c) \in Loop!Records
         /\ Loop!Attention(r, g, c).state = "needs_attention"
         /\ Loop!Attention(r, g, c).stage = g /\ Loop!Attention(r, g, c).cards = r.cards
         /\ Loop!Attention(r, g, c).worker = r.worker /\ Loop!Attention(r, g, c).locked = r.locked
BY DEF Loop!Attention, Loop!Records, Loop!States

\* A plan is asked for when no card is begun.
LEMMA Planning ==
  ASSUME NEW p \in Loop!Processes, NEW r \in Loop!Records, NEW lo,
         works \subseteq Loop!Works, madeWorks \in 0..MaxWorks, validating \subseteq Loop!Processes,
         Loop!Plans(p, r), validating' = validating, Loop!Blank(r),
         \A w \in works : w.on \notin Cards,
         Plan \in exempt \/ \A w \in works : w.on # Plan,
         Validation \in exempt \/ validating = {}
  PROVE  /\ record' \in Loop!Records /\ works' \subseteq Loop!Works /\ madeWorks' \in 0..MaxWorks
         /\ Loop!LoopFits(record', works', validating', lo, exempt)
         /\ record'.locked = r.locked /\ record'.state \in {"planning", "needs_attention"}
         /\ record'.stage = "planner" => works' = works
         /\ \A w \in works' : w \in works \/ w.by = p
<1>c. /\ None \notin {"planner", "validation"} /\ Plan \notin Cards /\ MaxWorks \in Nat
      /\ Cards # {}
  BY LoopConstants
<1>1. ASSUME NEW n \in Loop!Records, n.cards = r.cards, n.state \in {"planning", "needs_attention"}
      PROVE  Loop!Blank(n) /\ Loop!InProgress(n) = {}
  BY <1>1 DEF Loop!Blank, Loop!InProgress
<1>2. CASE /\ madeWorks < MaxWorks /\ madeWorks' = madeWorks + 1
           /\ works' = works \cup {Loop!Work(p, Plan, madeWorks + 1)}
           /\ record' = Loop!State(r, "planning")
  <2>1. PICK w : w = Loop!Work(p, Plan, madeWorks + 1)
    OBVIOUS
  <2>2. w \in Loop!Works /\ w.by = p /\ w.on = Plan
    BY <2>1 DEF Loop!Work, Loop!Works
  <2>3. /\ record' \in Loop!Records /\ record'.state = "planning" /\ record'.stage = None
        /\ record'.cards = r.cards /\ record'.locked = r.locked
    BY <1>2, StateFields DEF Loop!States
  <2>4. works' = works \cup {w} /\ madeWorks' \in 0..MaxWorks
    BY <1>c, <1>2, <2>1
  <2>5. Loop!Blank(record') /\ Loop!InProgress(record') = {}
    BY <1>1, <2>3
  <2>6. \A v \in works' : v.on \notin Cards
    BY <1>c, <2>2, <2>4
  <2>7. Loop!WorksFit(record', works')
    BY <2>6 DEF Loop!WorksFit
  <2>8. Loop!StatesFit(record', works')
    BY <1>c, <2>3, <2>5, <2>6 DEF Loop!StatesFit
  <2>9. Loop!OnePlanner(record', works', exempt)
    BY <2>2, <2>3, <2>4 DEF Loop!OnePlanner
  <2>10. Loop!OneValidates(record', validating', exempt)
    BY DEF Loop!OneValidates
  <2>11. Loop!SomeoneWorks(record', works', validating', lo)
    BY <2>2, <2>3, <2>4, <2>5 DEF Loop!SomeoneWorks, Loop!WorksGoOn
  <2> QED
    BY <1>c, <2>2, <2>3, <2>4, <2>7, <2>8, <2>9, <2>10, <2>11 DEF Loop!LoopFits
<1>3. CASE record' = Loop!Attention(r, "planner", None) /\ UNCHANGED <<works, madeWorks>>
  <2>1. /\ record' \in Loop!Records /\ record'.state = "needs_attention" /\ record'.stage = "planner"
        /\ record'.cards = r.cards /\ record'.locked = r.locked
    BY <1>3, AttentionFields DEF Loop!Stages
  <2>2. Loop!Blank(record') /\ Loop!InProgress(record') = {}
    BY <1>1, <2>1
  <2>3. Loop!WorksFit(record', works')
    BY <1>3 DEF Loop!WorksFit
  <2>4. Loop!StatesFit(record', works')
    BY <1>3, <2>1, <2>2 DEF Loop!StatesFit
  <2>5. Loop!OnePlanner(record', works', exempt)
    BY <1>3 DEF Loop!OnePlanner
  <2>6. Loop!OneValidates(record', validating', exempt)
    BY DEF Loop!OneValidates
  <2>7. Loop!SomeoneWorks(record', works', validating', lo)
    BY <2>1, <2>2 DEF Loop!SomeoneWorks, Loop!WorksGoOn
  <2> QED
    BY <1>3, <2>1, <2>3, <2>4, <2>5, <2>6, <2>7 DEF Loop!LoopFits
<1> QED
  BY <1>2, <1>3 DEF Loop!Plans

\* What a loop that goes on starts: each card that is due, once.
LEMMA Advancing ==
  ASSUME NEW p \in Loop!Processes, NEW r \in Loop!Records, NEW ws \in SUBSET Loop!Works, NEW lo,
         madeWorks \in 0..MaxWorks, validating \subseteq Loop!Processes,
         Loop!Advances(p, r, ws), r.state \in {"running", "validating"}, r.stage = None,
         Loop!Planned(r), Loop!WorksFit(r, ws), Loop!WorksGoOn(r, ws, lo),
         r.state = "validating" => \A w \in ws : w.on \notin Cards,
         r.state = "running" => \A c \in Cards : r.cards[c] # "failed",
         Plan \in exempt \/ \A w \in ws : w.on # Plan,
         Validation \in exempt \/ validating = {}
  PROVE  /\ record' \in Loop!Records /\ works' \subseteq Loop!Works /\ madeWorks' \in 0..MaxWorks
         /\ validating' \in {validating, validating \cup {p}}
         /\ Loop!LoopFits(record', works', validating', lo, exempt)
         /\ record'.locked = r.locked /\ Loop!Planned(record')
         /\ record'.state \in {"running", "validating", "needs_attention"}
         /\ record'.stage # "planner"
         /\ \A w \in works' : w \in ws \/ w.by = p
<1>c. /\ Cards \subseteq Nat /\ IsFiniteSet(Cards) /\ MaxWorks \in Nat /\ None \notin Nat
      /\ None \notin {"planner", "validation"} /\ None \notin Cards /\ Plan \notin Cards
      /\ Cards # {}
  BY LoopConstants
<1>n. ~Loop!Blank(r)
  BY <1>c DEF Loop!Blank, Loop!Planned
<1>1. CASE r.state = "validating"
  <2>1. record' = r /\ works' = ws /\ madeWorks' = madeWorks /\ validating' = validating \cup {p}
    BY <1>1 DEF Loop!Advances
  <2>2. Loop!StatesFit(r, ws)
    BY <1>c, <1>n, <1>1 DEF Loop!StatesFit
  <2>3. Loop!OnePlanner(r, ws, exempt)
    BY DEF Loop!OnePlanner
  <2>4. Loop!OneValidates(r, validating', exempt)
    BY <1>1, <2>1 DEF Loop!OneValidates
  <2>5. Loop!SomeoneWorks(r, ws, validating', lo)
    BY <1>1, <2>1 DEF Loop!SomeoneWorks
  <2> QED
    BY <1>c, <1>1, <2>1, <2>2, <2>3, <2>4, <2>5 DEF Loop!LoopFits
<1>2. CASE r.state = "running" /\ \A c \in Cards : r.cards[c] = "done"
  <2>1. /\ record' = Loop!State(r, "validating") /\ works' = ws /\ madeWorks' = madeWorks
        /\ validating' = validating \cup {p}
    BY <1>2 DEF Loop!Advances
  <2>2. /\ record' \in Loop!Records /\ record'.state = "validating" /\ record'.stage = None
        /\ record'.cards = r.cards /\ record'.worker = r.worker /\ record'.locked = r.locked
    BY <2>1, StateFields DEF Loop!States
  <2>3. \A w \in ws : w.on \notin Cards
    BY <1>2 DEF Loop!WorksFit
  <2>4. Loop!Planned(record') /\ ~Loop!Blank(record') /\ Loop!InProgress(record') = {}
    BY <1>c, <1>2, <2>2 DEF Loop!Planned, Loop!Blank, Loop!InProgress
  <2>5. Loop!WorksFit(record', works')
    BY <2>1, <2>3 DEF Loop!WorksFit
  <2>6. Loop!StatesFit(record', works')
    BY <1>c, <2>1, <2>2, <2>3, <2>4 DEF Loop!StatesFit
  <2>7. Loop!OnePlanner(record', works', exempt)
    BY <2>1 DEF Loop!OnePlanner
  <2>8. Loop!OneValidates(record', validating', exempt)
    BY <2>1, <2>2 DEF Loop!OneValidates
  <2>9. Loop!SomeoneWorks(record', works', validating', lo)
    BY <2>1, <2>2, <2>4 DEF Loop!SomeoneWorks, Loop!WorksGoOn
  <2> QED
    BY <1>c, <2>1, <2>2, <2>4, <2>5, <2>6, <2>7, <2>8, <2>9 DEF Loop!LoopFits
<1>3. CASE r.state = "running" /\ ~\A c \in Cards : r.cards[c] = "done"
  <2>1. PICK failed \in Loop!Due(r) \cup {None} :
          LET S == Loop!Startable(r, failed)
              r1 == Loop!Started(r, S)
          IN /\ madeWorks + Loop!Cardinality(S) <= MaxWorks
             /\ madeWorks' = madeWorks + Loop!Cardinality(S)
             /\ works' = ws \cup {Loop!Work(p, c, madeWorks + Loop!Number(c, S)) : c \in S}
             /\ record' = IF failed = None THEN r1
                          ELSE [Loop!Attention(r1, "implementer", failed) EXCEPT !.cards[failed] = "failed"]
             /\ validating' = validating
    BY <1>3 DEF Loop!Advances
  <2>2. PICK S, r1 :
          /\ S = Loop!Startable(r, failed) /\ r1 = Loop!Started(r, S)
          /\ madeWorks + Cardinality(S) <= MaxWorks /\ madeWorks' = madeWorks + Cardinality(S)
          /\ works' = ws \cup {Loop!Work(p, c, madeWorks + Loop!Number(c, S)) : c \in S}
          /\ record' = (IF failed = None THEN r1
                       ELSE [Loop!Attention(r1, "implementer", failed) EXCEPT !.cards[failed] = "failed"])
          /\ validating' = validating
    BY <2>1, SameSets
  <2>3. /\ S \subseteq Loop!Due(r) /\ failed \notin S /\ (failed = None => S = Loop!Due(r))
        /\ Loop!Due(r) \subseteq Cards /\ S \subseteq Cards /\ (failed # None => failed \in Cards)
    <3>1. Loop!Due(r) \subseteq Cards
      BY DEF Loop!Due
    <3>2. CASE failed = None
      BY <1>c, <2>2, <3>1, <3>2 DEF Loop!Startable
    <3>3. CASE failed # None
      <4>1. failed \in Nat
        BY <1>c, <2>1, <3>1, <3>3
      <4>2. ~(failed < failed)
        BY <4>1
      <4> QED
        BY <2>2, <3>1, <3>3, <4>2 DEF Loop!Startable
    <3> QED
      BY <3>2, <3>3
  <2>4. /\ Cardinality(S) \in Nat /\ madeWorks' \in 0..MaxWorks
        /\ \A c \in Cards : madeWorks + Loop!Number(c, S) \in Nat
    <3>1. IsFiniteSet(S) /\ \A c \in Cards : IsFiniteSet({d \in S : d <= c})
      BY <1>c, <2>3, FS_Subset
    <3>2. Cardinality(S) \in Nat /\ \A c \in Cards : Cardinality({d \in S : d <= c}) \in Nat
      BY <3>1, FS_CardinalityType
    <3> QED
      <4>1. \A c \in Cards : Loop!Number(c, S) \in Nat
        BY <3>2, SameSets DEF Loop!Number
      <4>2. madeWorks' \in 0..MaxWorks
        BY <1>c, <2>2, <3>2
      <4> QED
        BY <3>2, <4>1, <4>2
  <2>5. /\ r1 \in Loop!Records /\ r1.state = "running" /\ r1.stage = None /\ r1.locked = r.locked
        /\ \A c \in Cards : /\ r1.cards[c] = IF c \in S THEN "running" ELSE r.cards[c]
                            /\ r1.worker[c] = IF c \in S THEN madeWorks + Loop!Number(c, S) ELSE r.worker[c]
    BY <1>3, <2>2, <2>3, <2>4 DEF Loop!Started, Loop!Records
  <2>6. /\ record' \in Loop!Records /\ record'.locked = r.locked /\ record'.worker = r1.worker
        /\ \A c \in Cards : record'.cards[c] = IF c = failed THEN "failed" ELSE r1.cards[c]
        /\ failed = None => record'.state = "running" /\ record'.stage = None
        /\ failed # None => record'.state = "needs_attention" /\ record'.stage = "implementer"
    <3>1. CASE failed = None
      BY <1>c, <2>2, <2>5, <3>1
    <3>2. CASE failed # None
      <4>1. PICK a : a = Loop!Attention(r1, "implementer", failed)
        OBVIOUS
      <4>2. /\ a \in Loop!Records /\ a.state = "needs_attention" /\ a.stage = "implementer"
            /\ a.cards = r1.cards /\ a.worker = r1.worker /\ a.locked = r1.locked
        <5>1. "implementer" \in Loop!Stages \cup {"validation"} /\ failed \in Cards \cup {None}
          BY <2>3, <3>2 DEF Loop!Stages
        <5> QED
          BY <2>5, <4>1, <5>1, AttentionFields
      <4>3. record' = [a EXCEPT !.cards[failed] = "failed"]
        BY <2>2, <3>2, <4>1
      <4> QED
        BY <2>3, <2>5, <3>2, <4>2, <4>3 DEF Loop!Records
    <3> QED
      BY <3>1, <3>2
  <2>7. /\ \A w \in works' \ ws : /\ w \in Loop!Works /\ w.by = p /\ w.on \in S
                                 /\ w.id = madeWorks + Loop!Number(w.on, S)
                                 /\ w = Loop!Work(p, w.on, madeWorks + Loop!Number(w.on, S))
        /\ \A c \in S : \E w \in works' : w.on = c
        /\ ws \subseteq works'
    <3>1. ASSUME NEW c \in S, NEW w, w = Loop!Work(p, c, madeWorks + Loop!Number(c, S))
          PROVE  w \in Loop!Works /\ w.by = p /\ w.on = c /\ w.id = madeWorks + Loop!Number(c, S)
      BY <2>3, <2>4, <3>1 DEF Loop!Work, Loop!Works
    <3>2. ASSUME NEW w \in works' \ ws
          PROVE  /\ w \in Loop!Works /\ w.by = p /\ w.on \in S
                 /\ w.id = madeWorks + Loop!Number(w.on, S)
                 /\ w = Loop!Work(p, w.on, madeWorks + Loop!Number(w.on, S))
      <4>1. PICK c \in S : w = Loop!Work(p, c, madeWorks + Loop!Number(c, S))
        BY <2>2
      <4> QED
        BY <3>1, <4>1
    <3>3. ASSUME NEW c \in S
          PROVE  \E w \in works' : w.on = c
      <4>1. PICK w : w = Loop!Work(p, c, madeWorks + Loop!Number(c, S))
        OBVIOUS
      <4> QED
        BY <2>2, <3>1, <4>1
    <3>4. ws \subseteq works'
      BY <2>2
    <3> QED
      BY <3>2, <3>3, <3>4
  <2>8. \A w \in ws : w.on \in Cards => r.cards[w.on] = "running" /\ r.worker[w.on] = w.id
    BY DEF Loop!WorksFit
  <2>10. \A w \in ws : w.on \in Cards => w.on \notin S /\ w.on # failed
    BY <1>c, <2>1, <2>3, <2>8 DEF Loop!Due
  <2>11. Loop!WorksFit(record', works')
    <3>1. ASSUME NEW w \in works', w.on \in Cards
          PROVE  record'.cards[w.on] = "running" /\ record'.worker[w.on] = w.id
      <4>1. CASE w \in ws
        BY <2>5, <2>6, <2>8, <2>10, <3>1, <4>1
      <4>2. CASE w \notin ws
        BY <2>3, <2>5, <2>6, <2>7, <3>1, <4>2
      <4> QED
        BY <4>1, <4>2
    <3>2. ASSUME NEW w \in works', NEW v \in works', w.on = v.on, w.on \in Cards
          PROVE  w = v
      <4>1. CASE w \in ws /\ v \in ws
        BY <3>2, <4>1 DEF Loop!WorksFit
      <4>2. CASE w \notin ws /\ v \notin ws
        <5>1. /\ w = Loop!Work(p, w.on, madeWorks + Loop!Number(w.on, S))
              /\ v = Loop!Work(p, v.on, madeWorks + Loop!Number(v.on, S))
          BY <2>7, <4>2
        <5> QED
          BY <3>2, <5>1
      <4>3. (w \in ws => w.on \notin S) /\ (v \in ws => v.on \notin S)
        BY <2>10, <3>2
      <4>4. (w \notin ws => w.on \in S) /\ (v \notin ws => v.on \in S)
        BY <2>7
      <4> QED
        BY <3>2, <4>1, <4>2, <4>3, <4>4
    <3> QED
      BY <3>1, <3>2 DEF Loop!WorksFit
  <2>12. Loop!Planned(record') /\ ~Loop!Blank(record')
    <3>1. ASSUME NEW c \in Cards
          PROVE  record'.cards[c] # "none"
      <4>1. r.cards[c] # "none"
        BY DEF Loop!Planned
      <4>2. r1.cards[c] # "none"
        BY <2>5, <4>1
      <4> QED
        BY <2>6, <4>2
    <3> QED
      BY <1>c, <3>1 DEF Loop!Planned, Loop!Blank
  <2>13. ASSUME failed = None
         PROVE  /\ Loop!Due(record') = {} /\ \A c \in Cards : record'.cards[c] # "failed"
                /\ \E c \in Cards : record'.cards[c] # "done"
    <3>1. \A c \in Cards : record'.cards[c] = IF c \in Loop!Due(r) THEN "running" ELSE r.cards[c]
      <4>1. S = Loop!Due(r) /\ \A c \in Cards : c # failed
        BY <1>c, <2>3, <2>13
      <4> QED
        BY <2>5, <2>6, <4>1
    <3>2. Loop!Due(record') = {}
      BY <2>3, <2>5, <2>6, <2>13, <3>1 DEF Loop!Due
    <3> QED
      BY <1>3, <3>1, <3>2
  <2>14. Loop!StatesFit(record', works')
    BY <1>c, <2>6, <2>12, <2>13 DEF Loop!StatesFit
  <2>15. Loop!OnePlanner(record', works', exempt)
    BY <1>c, <2>3, <2>7 DEF Loop!OnePlanner
  <2>16. Loop!OneValidates(record', validating', exempt)
    BY <2>2 DEF Loop!OneValidates
  <2>17. Loop!SomeoneWorks(record', works', validating', lo)
    <3>1. ASSUME NEW c \in Loop!InProgress(record') \ lo
          PROVE  \/ \E w \in works' : w.on = c
                 \/ record'.cards[c] = "review" /\ record'.worker[c] = None
      <4>1. CASE c \in S
        BY <2>7, <4>1
      <4>2. CASE c \notin S
        <5>1. c \in Loop!InProgress(r) \ lo /\ c # failed
          BY <2>5, <2>6, <3>1, <4>2 DEF Loop!InProgress
        <5>2. (\E w \in ws : w.on = c) \/ (r.cards[c] = "review" /\ r.worker[c] = None)
          BY <5>1 DEF Loop!WorksGoOn
        <5>3. c \in Cards
          BY <5>1 DEF Loop!InProgress
        <5> QED
          BY <2>5, <2>6, <2>7, <4>2, <5>1, <5>2, <5>3
      <4> QED
        BY <4>1, <4>2
    <3> QED
      BY <2>6, <3>1 DEF Loop!SomeoneWorks, Loop!WorksGoOn
  <2>18. \A w \in works' : w \in Loop!Works /\ (w \in ws \/ w.by = p)
    BY <2>7
  <2> QED
    BY <1>c, <2>2, <2>4, <2>6, <2>11, <2>12, <2>14, <2>15, <2>16, <2>17, <2>18 DEF Loop!LoopFits
<1> QED
  BY <1>1, <1>2, <1>3

\* A loop that needs attention goes on where it stopped.
LEMMA Resuming ==
  ASSUME NEW p \in Loop!Processes, NEW r \in Loop!Records, NEW lo,
         works \subseteq Loop!Works, madeWorks \in 0..MaxWorks, validating \subseteq Loop!Processes,
         Loop!Resumes(p, r), r.state = "needs_attention",
         Loop!LoopFits(r, works, validating, lostWorks, exempt), lostWorks \cap Cards \subseteq lo
  PROVE  /\ record' \in Loop!Records /\ works' \subseteq Loop!Works /\ madeWorks' \in 0..MaxWorks
         /\ validating' \in {validating, validating \cup {p}}
         /\ Loop!LoopFits(record', works', validating', lo, exempt)
         /\ record'.locked = r.locked /\ record'.state # "none"
         /\ Loop!Planned(r) => Loop!Planned(record') /\ record'.state # "awaiting_plan"
         /\ record'.stage = "planner" => works' = works /\ validating' = validating
         /\ \A w \in works' : w \in works \/ w.by = p
<1>c. None \notin {"planner", "validation"} /\ None \notin Cards /\ Cards # {}
  BY LoopConstants
<1>1. /\ Plan \in exempt \/ \A w \in works : w.on # Plan
      /\ Validation \in exempt \/ validating = {}
  BY DEF Loop!LoopFits, Loop!OnePlanner, Loop!OneValidates
<1>2. CASE r.stage = "planner" \/ \A c \in Cards : r.cards[c] = "none"
  <2>1. Loop!Plans(p, r) /\ validating' = validating
    BY <1>2 DEF Loop!Resumes
  <2>2. Loop!Blank(r) /\ ~Loop!Planned(r)
    BY <1>c, <1>2 DEF Loop!LoopFits, Loop!StatesFit, Loop!Blank, Loop!Planned
  <2>3. \A w \in works : w.on \notin Cards
    BY <2>2 DEF Loop!LoopFits, Loop!WorksFit, Loop!Blank
  <2>4. /\ record' \in Loop!Records /\ works' \subseteq Loop!Works /\ madeWorks' \in 0..MaxWorks
        /\ Loop!LoopFits(record', works', validating', lo, exempt)
        /\ record'.locked = r.locked /\ record'.state \in {"planning", "needs_attention"}
        /\ record'.stage = "planner" => works' = works
        /\ \A w \in works' : w \in works \/ w.by = p
    BY <1>1, <2>1, <2>2, <2>3, Planning
  <2> QED
    BY <2>1, <2>2, <2>4
<1>3. CASE ~(r.stage = "planner" \/ \A c \in Cards : r.cards[c] = "none")
  <2>1. PICK t : t = Loop!TriedAgain(r)
    OBVIOUS
  <2>2. PICK s : s = IF r.stage = "validation" THEN "validating" ELSE "running"
    OBVIOUS
  <2>3. PICK n : n = Loop!State(t, s)
    OBVIOUS
  <2>4. Loop!Advances(p, n, works)
    BY <1>3, <2>1, <2>2, <2>3 DEF Loop!Resumes
  <2>5. /\ t \in Loop!Records /\ t.locked = r.locked
        /\ \A c \in Cards : /\ t.cards[c] = IF r.cards[c] = "failed" THEN "planned" ELSE r.cards[c]
                            /\ t.worker[c] = IF r.cards[c] = "failed" THEN None ELSE r.worker[c]
    BY <2>1 DEF Loop!TriedAgain, Loop!Records
  <2>6. s \in Loop!States /\ s \in {"running", "validating"}
    BY <2>2 DEF Loop!States
  <2>7. /\ n \in Loop!Records /\ n.state = s /\ n.stage = None /\ n.cards = t.cards
        /\ n.worker = t.worker /\ n.locked = r.locked
    BY <2>3, <2>5, <2>6, StateFields
  <2>8. Loop!Planned(r)
    BY <1>3 DEF Loop!LoopFits, Loop!StatesFit, Loop!Blank
  <2>9. Loop!Planned(n) /\ \A c \in Cards : n.cards[c] # "failed"
    BY <2>5, <2>7, <2>8 DEF Loop!Planned
  <2>10. Loop!WorksFit(n, works)
    BY <2>5, <2>7 DEF Loop!LoopFits, Loop!WorksFit
  <2>11. Loop!WorksGoOn(n, works, lo)
    <3>1. ASSUME NEW c \in Loop!InProgress(n) \ lo
          PROVE  c \in Cards /\ c \in Loop!InProgress(r) \ lostWorks /\ r.cards[c] # "failed"
      BY <2>5, <2>7, <3>1 DEF Loop!InProgress
    <3>2. Loop!WorksGoOn(r, works, lostWorks)
      BY DEF Loop!LoopFits, Loop!SomeoneWorks
    <3> QED
      BY <2>5, <2>7, <3>1, <3>2 DEF Loop!WorksGoOn
  <2>12. n.state = "validating" => \A w \in works : w.on \notin Cards
    BY <2>2, <2>7 DEF Loop!LoopFits, Loop!StatesFit
  <2>13. /\ record' \in Loop!Records /\ works' \subseteq Loop!Works /\ madeWorks' \in 0..MaxWorks
         /\ validating' \in {validating, validating \cup {p}}
         /\ Loop!LoopFits(record', works', validating', lo, exempt)
         /\ record'.locked = n.locked /\ Loop!Planned(record')
         /\ record'.state \in {"running", "validating", "needs_attention"}
         /\ record'.stage # "planner"
         /\ \A w \in works' : w \in works \/ w.by = p
    <3>1. works \in SUBSET Loop!Works /\ n.state \in {"running", "validating"}
      BY <2>6, <2>7
    <3> QED
      BY <1>1, <2>4, <2>7, <2>9, <2>10, <2>11, <2>12, <3>1, Advancing
  <2> QED
    BY <2>7, <2>13
<1> QED
  BY <1>2, <1>3

\* A loop that is cancelled, or was, may lose any of its runs.
LEMMA Cancelling ==
  ASSUME NEW r \in Loop!Records, NEW ws, NEW val, NEW lo, NEW ws2, NEW val2, NEW lo2,
         Loop!LoopFits(r, ws, val, lo, exempt), ws2 \subseteq ws, val2 \subseteq val
  PROVE  /\ r.state = "cancelled" => Loop!LoopFits(r, ws2, val2, lo2, exempt)
         /\ Loop!LoopFits(Loop!State(r, "cancelled"), ws2, val2, lo2, exempt)
         /\ Loop!State(r, "cancelled") \in Loop!Records
<1>c. None \notin {"planner", "validation"}
  BY LoopConstants
<1>1. PICK n : n = Loop!State(r, "cancelled")
  OBVIOUS
<1>2. /\ n \in Loop!Records /\ n.state = "cancelled" /\ n.stage = None /\ n.cards = r.cards
      /\ n.worker = r.worker
  BY <1>1, StateFields DEF Loop!States
<1>3. ASSUME NEW m \in {r, n}, m.state = "cancelled"
      PROVE  Loop!LoopFits(m, ws2, val2, lo2, exempt)
  <2>1. m.cards = r.cards /\ m.worker = r.worker
    BY <1>2
  <2>2. Loop!WorksFit(m, ws2)
    BY <2>1 DEF Loop!LoopFits, Loop!WorksFit
  <2>3. m.stage = None /\ (Loop!Blank(m) \/ Loop!Planned(m))
    BY <1>2, <1>3, <2>1 DEF Loop!LoopFits, Loop!StatesFit, Loop!Blank, Loop!Planned
  <2>4. Loop!StatesFit(m, ws2)
    BY <1>c, <1>3, <2>3 DEF Loop!StatesFit
  <2>5. Loop!OnePlanner(m, ws2, exempt)
    BY <1>3 DEF Loop!LoopFits, Loop!OnePlanner
  <2>6. Loop!OneValidates(m, val2, exempt)
    BY <1>3 DEF Loop!LoopFits, Loop!OneValidates
  <2>7. Loop!SomeoneWorks(m, ws2, val2, lo2)
    BY <1>3 DEF Loop!SomeoneWorks
  <2> QED
    BY <2>2, <2>4, <2>5, <2>6, <2>7 DEF Loop!LoopFits
<1> QED
  BY <1>1, <1>2, <1>3

\* A loop that is not cancelled stops and asks for attention.
LEMMA Stopping ==
  ASSUME NEW r \in Loop!Records, NEW n \in Loop!Records, NEW ws, NEW val, NEW lo, NEW lo2, NEW ex,
         Loop!WorksFit(r, ws), Loop!Blank(r) \/ Loop!Planned(r), Loop!WorksGoOn(r, ws, lo),
         lo \cap Cards \subseteq lo2,
         n.state = "needs_attention", n.cards = r.cards, n.worker = r.worker,
         n.stage = "planner" => Loop!Blank(r),
         n.stage \in {"planner", "validation"} => \A w \in ws : w.on \notin Cards,
         Plan \in ex \/ \A w \in ws : w.on # Plan, Validation \in ex \/ val = {}
  PROVE  Loop!LoopFits(n, ws, val, lo2, ex)
<1>1. Loop!WorksFit(n, ws)
  BY DEF Loop!WorksFit
<1>2. (Loop!Blank(n) <=> Loop!Blank(r)) /\ (Loop!Planned(n) <=> Loop!Planned(r))
  BY DEF Loop!Blank, Loop!Planned
<1>3. Loop!StatesFit(n, ws)
  BY <1>2 DEF Loop!StatesFit
<1>4. Loop!OnePlanner(n, ws, ex) /\ Loop!OneValidates(n, val, ex)
  BY DEF Loop!OnePlanner, Loop!OneValidates
<1>5. Loop!SomeoneWorks(n, ws, val, lo2)
  <2>1. Loop!WorksGoOn(n, ws, lo2)
    BY DEF Loop!WorksGoOn, Loop!InProgress
  <2> QED
    BY <2>1 DEF Loop!SomeoneWorks
<1> QED
  BY <1>1, <1>3, <1>4, <1>5 DEF Loop!LoopFits

\* Runs that end with nobody after them are left, unless the loop is cancelled.
LEMMA Leaving ==
  ASSUME NEW r \in Loop!Records, NEW ws, NEW val, NEW lo, NEW ex, NEW ws2, NEW val2, NEW lo2,
         Loop!LoopFits(r, ws, val, lo, ex), ws2 \subseteq ws, val2 \subseteq val,
         r.state = "cancelled" \/
           /\ lo \subseteq lo2
           /\ \A w \in ws \ ws2 : w.on \in lo2 \/ (w.on = Plan /\ r.state # "planning")
           /\ val2 = val \/ Validation \in lo2 \/ r.state # "validating"
  PROVE  Loop!LoopFits(r, ws2, val2, lo2, ex)
<1>c. Plan \notin Cards
  BY LoopConstants
<1>1. Loop!WorksFit(r, ws2)
  BY DEF Loop!LoopFits, Loop!WorksFit
<1>2. Loop!StatesFit(r, ws2)
  BY DEF Loop!LoopFits, Loop!StatesFit
<1>3. Loop!OnePlanner(r, ws2, ex) /\ Loop!OneValidates(r, val2, ex)
  BY DEF Loop!LoopFits, Loop!OnePlanner, Loop!OneValidates
<1>4. Loop!SomeoneWorks(r, ws2, val2, lo2)
  <2> SUFFICES ASSUME r.state # "cancelled"
               PROVE  Loop!SomeoneWorks(r, ws2, val2, lo2)
    BY DEF Loop!SomeoneWorks
  <2>1. Loop!WorksGoOn(r, ws2, lo2)
    <3>1. ASSUME NEW c \in Loop!InProgress(r) \ lo2
          PROVE  (\E w \in ws2 : w.on = c) \/ (r.cards[c] = "review" /\ r.worker[c] = None)
      <4>1. c \in Loop!InProgress(r) \ lo /\ c \in Cards
        BY <3>1 DEF Loop!InProgress
      <4>2. (\E w \in ws : w.on = c) \/ (r.cards[c] = "review" /\ r.worker[c] = None)
        BY <4>1 DEF Loop!LoopFits, Loop!SomeoneWorks, Loop!WorksGoOn
      <4> QED
        BY <1>c, <3>1, <4>1, <4>2
    <3> QED
      BY <3>1 DEF Loop!WorksGoOn
  <2>2. r.state = "planning" => Plan \in lo2 \/ \E w \in ws2 : w.on = Plan
    BY DEF Loop!LoopFits, Loop!SomeoneWorks
  <2>3. r.state = "validating" => Validation \in lo2 \/ val2 # {}
    BY DEF Loop!LoopFits, Loop!SomeoneWorks
  <2> QED
    BY <2>1, <2>2, <2>3 DEF Loop!SomeoneWorks
<1> QED
  BY <1>1, <1>2, <1>3, <1>4 DEF Loop!LoopFits

-----------------------------------------------------------------------------

LoopKept ==
  /\ Loop!TypeOK /\ Loop!LoopFits(record, works, validating, lostWorks, exempt)
  /\ Loop!ProcessesFit

LEMMA RunnerFields ==
  /\ Loop!NoRecord \in Loop!Records /\ Loop!OutOfIt \in Loop!Runners /\ Loop!Enters \in Loop!Runners
  /\ Loop!OutOfIt.pc = "out" /\ ~Loop!OutOfIt.holds /\ ~Loop!OutOfIt.approved
  /\ Loop!Enters.pc = "polls" /\ Loop!Enters.holds /\ ~Loop!Enters.approved
<1>1. Loop!NoRecord \in Loop!Records
  BY DEF Loop!NoRecord, Loop!Records, Loop!States
<1>2. Loop!OutOfIt \in Loop!Runners
  BY <1>1 DEF Loop!OutOfIt, Loop!Runners
<1> QED
  BY <1>1, <1>2 DEF Loop!Enters, Loop!OutOfIt, Loop!Runners

LEMMA LoopInit == Init => Loop!IInv
<1> SUFFICES ASSUME Loop!Init
             PROVE  LoopKept
  BY DEF Init, LoopKept, Loop!IInv
<1>c. MaxWorks \in Nat
  BY LoopConstants
<1>1. Loop!TypeOK
  BY <1>c, RunnerFields DEF Loop!Init, Loop!TypeOK
<1>2. record = Loop!NoRecord /\ works = {} /\ validating = {}
  BY DEF Loop!Init
<1>3. Loop!Blank(record) /\ Loop!InProgress(record) = {} /\ record.state = "none" /\ record.stage = None
  BY <1>2 DEF Loop!NoRecord, Loop!Blank, Loop!InProgress
<1>4. Loop!WorksFit(record, works) /\ Loop!StatesFit(record, works)
  BY <1>2, <1>3 DEF Loop!WorksFit, Loop!StatesFit
<1>5. Loop!OnePlanner(record, works, exempt) /\ Loop!OneValidates(record, validating, exempt)
  BY <1>2 DEF Loop!OnePlanner, Loop!OneValidates
<1>6. Loop!SomeoneWorks(record, works, validating, lostWorks)
  BY <1>3 DEF Loop!SomeoneWorks, Loop!WorksGoOn
<1>7. Loop!ProcessesFit
  BY <1>2, RunnerFields DEF Loop!Init, Loop!ProcessesFit, Loop!Of
<1> QED
  BY <1>1, <1>4, <1>5, <1>6, <1>7 DEF LoopKept, Loop!LoopFits

\* What keeps the processes right: only one that is up, or has the lock, acts.
LEMMA Acting ==
  ASSUME LoopKept, record' \in Loop!Records, works' \subseteq Loop!Works, madeWorks' \in 0..MaxWorks,
         validating' \subseteq Loop!Processes,
         Loop!LoopFits(record', works', validating', lostWorks', exempt'),
         app' = app \/ app' = "up", runner' \in Loop!Runners, runner'.pc = "out" <=> ~runner'.holds,
         ~runner'.holds => ~runner.holds,
         runner'.holds => record'.locked /\ record'.state # "none",
         runner'.pc \in {"polls", "acts"} /\ runner'.approved =>
           record'.state # "awaiting_plan" /\ Loop!Planned(record'),
         \A w \in works' : (w \in works) \/ (w.by = "app" /\ app' = "up")
                                         \/ (w.by = "runner" /\ runner'.holds),
         \A q \in validating' : (q \in validating) \/ (q = "app" /\ app' = "up")
                                                   \/ (q = "runner" /\ runner'.holds)
  PROVE  LoopKept'
<1>1. Loop!TypeOK'
  BY DEF LoopKept, Loop!TypeOK
<1>2. ~runner'.holds => Loop!Of("runner")' = {} /\ "runner" \notin validating'
  BY DEF LoopKept, Loop!ProcessesFit, Loop!Of
<1>3. app' = "down" => Loop!Of("app")' = {} /\ "app" \notin validating'
  BY DEF LoopKept, Loop!ProcessesFit, Loop!Of
<1>4. Loop!ProcessesFit'
  BY <1>2, <1>3 DEF Loop!ProcessesFit
<1> QED
  BY <1>1, <1>4 DEF LoopKept

\* What a loop that is kept says of the runner.
LEMMA RunnerKept ==
  ASSUME LoopKept
  PROVE  /\ record \in Loop!Records /\ works \subseteq Loop!Works /\ madeWorks \in 0..MaxWorks
         /\ validating \subseteq Loop!Processes /\ runner \in Loop!Runners
         /\ Loop!LoopFits(record, works, validating, lostWorks, exempt)
         /\ runner.pc = "out" <=> ~runner.holds
         /\ runner.holds => record.locked /\ record.state # "none"
         /\ runner.pc \in {"polls", "acts"} /\ runner.approved =>
              record.state # "awaiting_plan" /\ Loop!Planned(record)
         /\ Loop!Blank(record) => ~Loop!Planned(record) /\ \A w \in works : w.on \notin Cards
<1>1. Loop!Blank(record) => ~Loop!Planned(record) /\ \A w \in works : w.on \notin Cards
  BY LoopConstants DEF LoopKept, Loop!LoopFits, Loop!WorksFit, Loop!Blank, Loop!Planned
<1> QED
  BY <1>1 DEF LoopKept, Loop!TypeOK, Loop!ProcessesFit

\* Outside its own states nobody plans, and nobody validates.
LEMMA NobodyElse ==
  ASSUME LoopKept, record.state # "cancelled"
  PROVE  /\ record.state # "planning" => (Plan \in exempt \/ \A w \in works : w.on # Plan)
         /\ record.state # "validating" => (Validation \in exempt \/ validating = {})
         /\ Loop!WorksGoOn(record, works, lostWorks)
         /\ Loop!WorksFit(record, works) /\ Loop!StatesFit(record, works)
<1>1. record.state # "planning" => (Plan \in exempt \/ \A w \in works : w.on # Plan)
  BY DEF LoopKept, Loop!LoopFits, Loop!OnePlanner
<1>2. record.state # "validating" => (Validation \in exempt \/ validating = {})
  BY DEF LoopKept, Loop!LoopFits, Loop!OneValidates
<1> QED
  BY <1>1, <1>2 DEF LoopKept, Loop!LoopFits, Loop!SomeoneWorks

\* The lock is no part of what is worked on.
LEMMA Locking ==
  ASSUME LoopKept, NEW r, r = [record EXCEPT !.locked = TRUE]
  PROVE  /\ r \in Loop!Records /\ r.locked /\ r.state = record.state /\ r.stage = record.stage
         /\ r.cards = record.cards /\ r.worker = record.worker
         /\ Loop!LoopFits(r, works, validating, lostWorks, exempt)
         /\ Loop!Blank(r) <=> Loop!Blank(record)
<1>1. /\ r \in Loop!Records /\ r.locked /\ r.state = record.state /\ r.stage = record.stage
      /\ r.cards = record.cards /\ r.worker = record.worker
  BY RunnerKept DEF Loop!Records
<1>2. /\ Loop!Blank(r) <=> Loop!Blank(record)
      /\ Loop!Planned(r) <=> Loop!Planned(record)
      /\ Loop!InProgress(r) = Loop!InProgress(record) /\ Loop!Due(r) = Loop!Due(record)
  BY <1>1 DEF Loop!Blank, Loop!Planned, Loop!InProgress, Loop!Due
<1>3. Loop!WorksFit(r, works)
  BY <1>1 DEF LoopKept, Loop!LoopFits, Loop!WorksFit
<1>4. Loop!StatesFit(r, works)
  BY <1>1, <1>2 DEF LoopKept, Loop!LoopFits, Loop!StatesFit
<1>5. Loop!OnePlanner(r, works, exempt) /\ Loop!OneValidates(r, validating, exempt)
  BY <1>1 DEF LoopKept, Loop!LoopFits, Loop!OnePlanner, Loop!OneValidates
<1>6. Loop!SomeoneWorks(r, works, validating, lostWorks)
  BY <1>1, <1>2 DEF LoopKept, Loop!LoopFits, Loop!SomeoneWorks, Loop!WorksGoOn
<1> QED
  BY <1>1, <1>2, <1>3, <1>4, <1>5, <1>6 DEF Loop!LoopFits

-----------------------------------------------------------------------------

LEMMA RunnerStartsKeeps ==
  ASSUME LoopKept, Loop!RunnerStarts
  PROVE  LoopKept'
<1>1. PICK r : r = [record EXCEPT !.locked = TRUE]
  OBVIOUS
<1>2. /\ Loop!Plans("runner", r) /\ validating' = validating /\ runner.pc = "out"
      /\ record.state = "none" /\ runner' = Loop!Enters
      /\ app' = app /\ lostWorks' = lostWorks /\ exempt' = exempt
  BY <1>1 DEF Loop!RunnerStarts
<1>3. Loop!Blank(record) /\ works = {}
  BY <1>2 DEF LoopKept, Loop!LoopFits, Loop!StatesFit
<1>4. r \in Loop!Records /\ r.locked /\ Loop!Blank(r)
  BY <1>1, <1>3, Locking
<1>5. /\ Plan \in exempt \/ \A w \in works : w.on # Plan
      /\ Validation \in exempt \/ validating = {}
  BY <1>2, NobodyElse
<1>6. /\ works \subseteq Loop!Works /\ madeWorks \in 0..MaxWorks /\ validating \subseteq Loop!Processes
      /\ "runner" \in Loop!Processes /\ \A w \in works : w.on \notin Cards
  BY <1>3, RunnerKept DEF Loop!Processes
<1>7. /\ record' \in Loop!Records /\ works' \subseteq Loop!Works /\ madeWorks' \in 0..MaxWorks
      /\ Loop!LoopFits(record', works', validating', lostWorks, exempt)
      /\ record'.locked = r.locked /\ record'.state \in {"planning", "needs_attention"}
      /\ \A w \in works' : w \in works \/ w.by = "runner"
  BY <1>2, <1>4, <1>5, <1>6, Planning
<1> QED
  BY <1>2, <1>4, <1>6, <1>7, Acting, RunnerFields

LEMMA RunnerResumesKeeps ==
  ASSUME LoopKept, Loop!RunnerResumes
  PROVE  LoopKept'
<1>1. PICK r : r = [record EXCEPT !.locked = TRUE]
  OBVIOUS
<1>2. /\ Loop!Resumes("runner", r) /\ runner.pc = "out" /\ record.state = "needs_attention"
      /\ runner' = (IF record'.stage = "planner" THEN runner ELSE Loop!Enters)
      /\ app' = app /\ lostWorks' = lostWorks /\ exempt' = exempt
  BY <1>1 DEF Loop!RunnerResumes
<1>3. /\ r \in Loop!Records /\ r.locked /\ r.state = "needs_attention"
      /\ Loop!LoopFits(r, works, validating, lostWorks, exempt)
  BY <1>1, <1>2, Locking
<1>4. /\ works \subseteq Loop!Works /\ madeWorks \in 0..MaxWorks /\ validating \subseteq Loop!Processes
      /\ "runner" \in Loop!Processes /\ runner \in Loop!Runners /\ ~runner.holds
  BY <1>2, RunnerKept DEF Loop!Processes
<1>5. /\ record' \in Loop!Records /\ works' \subseteq Loop!Works /\ madeWorks' \in 0..MaxWorks
      /\ validating' \in {validating, validating \cup {"runner"}}
      /\ Loop!LoopFits(record', works', validating', lostWorks, exempt)
      /\ record'.locked = r.locked /\ record'.state # "none"
      /\ record'.stage = "planner" => works' = works /\ validating' = validating
      /\ \A w \in works' : w \in works \/ w.by = "runner"
  BY <1>2, <1>3, <1>4, Resuming
<1>6. validating' \subseteq Loop!Processes
  BY <1>4, <1>5
<1>7. CASE record'.stage = "planner"
  BY <1>2, <1>4, <1>5, <1>6, <1>7, Acting
<1>8. CASE record'.stage # "planner"
  BY <1>2, <1>3, <1>4, <1>5, <1>6, <1>8, Acting, RunnerFields
<1> QED
  BY <1>7, <1>8

\* A runner that only moves on.
LEMMA RunnerMoves ==
  ASSUME LoopKept, UNCHANGED <<record, works, madeWorks, validating, app, lostWorks, exempt>>,
         runner' \in Loop!Runners, runner'.holds = runner.holds, runner.pc # "out",
         runner'.pc # "out",
         runner'.pc \in {"polls", "acts"} => runner'.approved = runner.approved /\ runner.pc # "leaves"
  PROVE  LoopKept'
<1>0. runner.holds /\ runner.pc \in {"polls", "acts", "leaves"}
  BY RunnerKept DEF Loop!Runners
<1>1. /\ record' = record /\ works' = works /\ madeWorks' = madeWorks /\ validating' = validating
      /\ app' = app /\ lostWorks' = lostWorks /\ exempt' = exempt
  OBVIOUS
<1>2. runner'.pc \in {"polls", "acts"} /\ runner'.approved =>
           record'.state # "awaiting_plan" /\ Loop!Planned(record')
  BY <1>0, <1>1, RunnerKept
<1> QED
  BY <1>0, <1>1, <1>2, RunnerKept, Acting

LEMMA RunnerLooksKeeps ==
  ASSUME LoopKept, Loop!RunnerPolls \/ Loop!RunnerWaits \/ Loop!RunnerLeaves
  PROVE  LoopKept'
<1>1. /\ UNCHANGED <<record, works, madeWorks, validating, app, lostWorks, exempt>>
      /\ runner.pc \in {"polls", "acts"}
  BY DEF Loop!RunnerPolls, Loop!RunnerWaits, Loop!RunnerLeaves, Loop!loopVars, Loop!RunnerVars
<1>2. PICK pc \in {"polls", "acts", "leaves"}, seen \in Loop!Records :
        runner' = [runner EXCEPT !.pc = pc, !.seen = seen]
  BY RunnerKept, RunnerFields DEF Loop!RunnerPolls, Loop!RunnerWaits, Loop!RunnerLeaves
<1>3. /\ runner' \in Loop!Runners /\ runner'.holds = runner.holds /\ runner'.pc = pc
      /\ runner'.approved = runner.approved
  BY <1>2, RunnerKept DEF Loop!Runners
<1>4. runner.pc # "out" /\ runner'.pc # "out"
  BY <1>1, <1>2, <1>3
<1>5. runner'.pc \in {"polls", "acts"} => runner'.approved = runner.approved /\ runner.pc # "leaves"
  BY <1>1, <1>3
<1> QED
  BY <1>1, <1>3, <1>4, <1>5, RunnerMoves

\* A plan that is approved is begun.
LEMMA Approving ==
  ASSUME LoopKept, NEW p \in Loop!Processes, record.state = "awaiting_plan",
         Loop!Advances(p, Loop!State(record, "running"), works)
  PROVE  /\ record' \in Loop!Records /\ works' \subseteq Loop!Works /\ madeWorks' \in 0..MaxWorks
         /\ validating' \subseteq Loop!Processes /\ validating' \in {validating, validating \cup {p}}
         /\ Loop!LoopFits(record', works', validating', lostWorks, exempt)
         /\ record'.locked = record.locked /\ Loop!Planned(record')
         /\ record'.state \in {"running", "validating", "needs_attention"}
         /\ \A w \in works' : w \in works \/ w.by = p
<1>1. PICK n : n = Loop!State(record, "running")
  OBVIOUS
<1>2. /\ n \in Loop!Records /\ n.state = "running" /\ n.stage = None /\ n.cards = record.cards
      /\ n.worker = record.worker /\ n.locked = record.locked
  BY <1>1, RunnerKept, StateFields DEF Loop!States
<1>3. /\ Plan \in exempt \/ \A w \in works : w.on # Plan
      /\ Validation \in exempt \/ validating = {}
      /\ Loop!WorksGoOn(record, works, lostWorks)
      /\ Loop!WorksFit(record, works) /\ Loop!StatesFit(record, works)
  BY NobodyElse
<1>4. Loop!Planned(n) /\ \A c \in Cards : n.cards[c] # "failed"
  BY <1>2, <1>3 DEF Loop!StatesFit, Loop!Planned
<1>5. Loop!WorksFit(n, works)
  BY <1>2, <1>3 DEF Loop!WorksFit
<1>6. Loop!WorksGoOn(n, works, lostWorks)
  BY <1>2, <1>3 DEF Loop!WorksGoOn, Loop!InProgress
<1>7. works \in SUBSET Loop!Works /\ madeWorks \in 0..MaxWorks /\ validating \subseteq Loop!Processes
  BY RunnerKept
<1>8. Loop!Advances(p, n, works) /\ n.state \in {"running", "validating"} /\ n.state # "validating"
  BY <1>1, <1>2
<1>9. /\ record' \in Loop!Records /\ works' \subseteq Loop!Works /\ madeWorks' \in 0..MaxWorks
      /\ validating' \in {validating, validating \cup {p}}
      /\ Loop!LoopFits(record', works', validating', lostWorks, exempt)
      /\ record'.locked = n.locked /\ Loop!Planned(record')
      /\ record'.state \in {"running", "validating", "needs_attention"}
      /\ \A w \in works' : w \in works \/ w.by = p
  BY <1>2, <1>3, <1>4, <1>5, <1>6, <1>7, <1>8, Advancing
<1> QED
  BY <1>2, <1>7, <1>9

LEMMA RunnerApprovesKeeps ==
  ASSUME LoopKept, Loop!RunnerApproves
  PROVE  LoopKept'
<1>1. /\ runner.pc = "acts" /\ app' = app /\ lostWorks' = lostWorks /\ exempt' = exempt
  BY DEF Loop!RunnerApproves, Loop!RunnerVars
<1>2. CASE record.state = "awaiting_plan"
  <2>1. /\ Loop!Advances("runner", Loop!State(record, "running"), works)
        /\ runner' = [runner EXCEPT !.pc = "polls", !.seen = Loop!NoRecord, !.approved = TRUE]
    BY <1>2 DEF Loop!RunnerApproves
  <2>2. "runner" \in Loop!Processes
    BY DEF Loop!Processes
  <2>3. /\ record' \in Loop!Records /\ works' \subseteq Loop!Works /\ madeWorks' \in 0..MaxWorks
        /\ validating' \subseteq Loop!Processes
        /\ validating' \in {validating, validating \cup {"runner"}}
        /\ Loop!LoopFits(record', works', validating', lostWorks, exempt)
        /\ record'.locked = record.locked /\ Loop!Planned(record')
        /\ record'.state \in {"running", "validating", "needs_attention"}
        /\ \A w \in works' : w \in works \/ w.by = "runner"
    BY <1>2, <2>1, <2>2, Approving
  <2>4. runner.holds /\ record.locked
    BY <1>1, RunnerKept
  <2>5. runner' \in Loop!Runners /\ runner'.pc = "polls" /\ runner'.holds
    BY <2>1, <2>4, RunnerKept, RunnerFields DEF Loop!Runners
  <2> QED
    BY <1>1, <2>3, <2>4, <2>5, Acting
<1>3. CASE record.state # "awaiting_plan"
  <2>1. /\ UNCHANGED <<record, works, madeWorks, validating, app, lostWorks, exempt>>
        /\ runner' = [runner EXCEPT !.pc = "leaves", !.seen = Loop!NoRecord, !.approved = TRUE]
    BY <1>1, <1>3 DEF Loop!RunnerApproves, Loop!loopVars
  <2>2. runner' \in Loop!Runners /\ runner'.pc = "leaves" /\ runner'.holds = runner.holds
    BY <2>1, RunnerKept, RunnerFields DEF Loop!Runners
  <2> QED
    BY <1>1, <2>1, <2>2, RunnerMoves
<1> QED
  BY <1>2, <1>3

LEMMA RunnerRetriesKeeps ==
  ASSUME LoopKept, Loop!RunnerRetries, "overwritten" \notin exempt'
  PROVE  LoopKept'
<1>1. PICK retried : retried = runner.retried \cup {Loop!Key(runner.seen)}
  OBVIOUS
<1>2. /\ runner.pc = "acts" /\ app' = app /\ lostWorks' = lostWorks /\ runner.holds /\ record.locked
      /\ record \in Loop!Records /\ works \subseteq Loop!Works /\ madeWorks \in 0..MaxWorks
      /\ validating \subseteq Loop!Processes /\ "runner" \in Loop!Processes
      /\ Loop!LoopFits(record, works, validating, lostWorks, exempt)
  BY RunnerKept DEF Loop!RunnerRetries, Loop!Processes
<1>3. retried \in SUBSET ({"planner", "card"} \X (Cards \cup {None}))
  BY <1>1, RunnerKept DEF Loop!Key, Loop!Runners, Loop!Records
<1>4. ASSUME NEW pc \in {"polls", "leaves"},
             runner' = [runner EXCEPT !.pc = pc, !.seen = Loop!NoRecord, !.retried = retried]
      PROVE  /\ runner' \in Loop!Runners /\ runner'.pc = pc /\ runner'.holds
             /\ runner'.approved = runner.approved
  BY <1>2, <1>3, <1>4, RunnerKept, RunnerFields DEF Loop!Runners
<1>5. CASE /\ runner.seen.stage = "planner"
           /\ Loop!Plans("runner", runner.seen) /\ UNCHANGED validating
           /\ runner' = [runner EXCEPT !.pc = "polls", !.seen = Loop!NoRecord, !.retried = retried]
           /\ IF record = runner.seen THEN exempt' = exempt ELSE Loop!Departs("overwritten")
  <2>1. record = runner.seen /\ exempt' = exempt
    BY <1>5 DEF Loop!Departs
  <2>2. record.state = "needs_attention"
    BY <2>1 DEF Loop!RunnerRetries, Loop!Retries
  <2>3. Loop!Plans("runner", record) /\ validating' = validating /\ record.stage = "planner"
    BY <1>5, <2>1
  <2>4. Loop!Blank(record)
    BY <1>2, <2>3 DEF Loop!LoopFits, Loop!StatesFit
  <2>5. ~Loop!Planned(record) /\ \A w \in works : w.on \notin Cards
    BY <2>4, RunnerKept
  <2>6. /\ Plan \in exempt \/ \A w \in works : w.on # Plan
        /\ Validation \in exempt \/ validating = {}
    BY <2>2, NobodyElse
  <2>7. /\ record' \in Loop!Records /\ works' \subseteq Loop!Works /\ madeWorks' \in 0..MaxWorks
        /\ Loop!LoopFits(record', works', validating', lostWorks, exempt)
        /\ record'.locked = record.locked /\ record'.state \in {"planning", "needs_attention"}
        /\ \A w \in works' : w \in works \/ w.by = "runner"
    BY <1>2, <2>3, <2>4, <2>5, <2>6, Planning
  <2>8. runner' \in Loop!Runners /\ runner'.pc = "polls" /\ runner'.holds /\ ~runner'.approved
    BY <1>2, <1>4, <1>5, <2>5, RunnerKept
  <2> QED
    BY <1>2, <2>1, <2>3, <2>7, <2>8, Acting
<1>6. CASE /\ record.state = "needs_attention"
           /\ Loop!Resumes("runner", record)
           /\ runner' = [runner EXCEPT !.pc = "polls", !.seen = Loop!NoRecord, !.retried = retried]
           /\ exempt' = exempt
  <2>1. /\ record' \in Loop!Records /\ works' \subseteq Loop!Works /\ madeWorks' \in 0..MaxWorks
        /\ validating' \in {validating, validating \cup {"runner"}}
        /\ Loop!LoopFits(record', works', validating', lostWorks, exempt)
        /\ record'.locked = record.locked /\ record'.state # "none"
        /\ Loop!Planned(record) => Loop!Planned(record') /\ record'.state # "awaiting_plan"
        /\ \A w \in works' : w \in works \/ w.by = "runner"
    BY <1>2, <1>6, Resuming
  <2>2. validating' \subseteq Loop!Processes
    BY <1>2, <2>1
  <2>3. /\ runner' \in Loop!Runners /\ runner'.pc = "polls" /\ runner'.holds
        /\ runner'.approved => Loop!Planned(record)
    BY <1>2, <1>4, <1>6, RunnerKept
  <2> QED
    BY <1>2, <1>6, <2>1, <2>2, <2>3, Acting
<1>7. CASE /\ runner' = [runner EXCEPT !.pc = "leaves", !.seen = Loop!NoRecord, !.retried = retried]
           /\ UNCHANGED <<Loop!loopVars, exempt>>
  <2>1. UNCHANGED <<record, works, madeWorks, validating, app, lostWorks, exempt>>
    BY <1>2, <1>7 DEF Loop!loopVars
  <2>2. runner' \in Loop!Runners /\ runner'.pc = "leaves" /\ runner'.holds
    BY <1>4, <1>7
  <2> QED
    BY <1>2, <2>1, <2>2, RunnerMoves
<1> QED
  BY <1>1, <1>5, <1>6, <1>7 DEF Loop!RunnerRetries

LEMMA RunnerInterruptedKeeps ==
  ASSUME LoopKept, Loop!RunnerInterrupted
  PROVE  LoopKept'
<1>1. /\ runner.pc = "polls" /\ record' = Loop!State(record, "cancelled") /\ works' \subseteq works
      /\ validating' \subseteq validating /\ madeWorks' = madeWorks
      /\ app' = app /\ lostWorks' = lostWorks /\ exempt' = exempt
      /\ runner' = [runner EXCEPT !.pc = "leaves", !.seen = Loop!NoRecord]
  BY DEF Loop!RunnerInterrupted, Loop!RunnerVars
<1>2. /\ record \in Loop!Records /\ works \subseteq Loop!Works /\ madeWorks \in 0..MaxWorks
      /\ validating \subseteq Loop!Processes /\ runner.holds /\ record.locked
      /\ Loop!LoopFits(record, works, validating, lostWorks, exempt)
  BY <1>1, RunnerKept
<1>3. /\ record' \in Loop!Records
      /\ Loop!LoopFits(record', works', validating', lostWorks, exempt)
  BY <1>1, <1>2, Cancelling
<1>4. record'.locked /\ record'.state = "cancelled"
  BY <1>1, <1>2, StateFields DEF Loop!States
<1>5. runner' \in Loop!Runners /\ runner'.pc = "leaves" /\ runner'.holds
  BY <1>1, <1>2, RunnerKept, RunnerFields DEF Loop!Runners
<1>6. works' \subseteq Loop!Works /\ madeWorks' \in 0..MaxWorks /\ validating' \subseteq Loop!Processes
  BY <1>1, <1>2
<1> QED
  BY <1>1, <1>3, <1>4, <1>5, <1>6, Acting

\* A process that goes takes its work with it.
LEMMA Going ==
  ASSUME LoopKept, NEW p \in Loop!Processes, record' \in Loop!Records, madeWorks' = madeWorks,
         works' = works \ Loop!Of(p), validating' = validating \ {p},
         Loop!LoopFits(record', works', validating', lostWorks', exempt'),
         app' = IF p = "app" THEN "down" ELSE app,
         runner' = IF p = "runner" THEN Loop!OutOfIt ELSE runner,
         record' = record \/ p = "runner"
  PROVE  LoopKept'
<1>1. /\ works' \subseteq Loop!Works /\ madeWorks' \in 0..MaxWorks /\ validating' \subseteq Loop!Processes
      /\ runner' \in Loop!Runners /\ app' \in {"up", "down"}
  BY RunnerKept, RunnerFields DEF LoopKept, Loop!TypeOK
<1>2. Loop!TypeOK'
  BY <1>1 DEF Loop!TypeOK
<1>3. Loop!Of("runner")' \subseteq Loop!Of("runner") /\ Loop!Of("app")' \subseteq Loop!Of("app")
      /\ Loop!Of(p)' = {}
  BY DEF Loop!Of
<1>4. CASE p = "runner"
  <2>1. runner'.pc = "out" /\ ~runner'.holds /\ app' = app
    BY <1>4, RunnerFields
  <2>2. Loop!Of("runner")' = {} /\ "runner" \notin validating'
    BY <1>3, <1>4
  <2>3. app' = "down" => Loop!Of("app")' = {} /\ "app" \notin validating'
    BY <1>3, <2>1 DEF LoopKept, Loop!ProcessesFit
  <2> QED
    BY <1>2, <2>1, <2>2, <2>3 DEF LoopKept, Loop!ProcessesFit
<1>5. CASE p # "runner"
  <2>1. p = "app" /\ runner' = runner /\ record' = record
    BY <1>5 DEF Loop!Processes
  <2>2. Loop!Of("app")' = {} /\ "app" \notin validating'
    BY <1>3, <2>1
  <2>3. ~runner'.holds => Loop!Of("runner")' = {} /\ "runner" \notin validating'
    BY <1>3, <2>1 DEF LoopKept, Loop!ProcessesFit
  <2>4. Loop!ProcessesFit'
    BY <2>1, <2>2, <2>3, RunnerKept DEF Loop!ProcessesFit
  <2> QED
    BY <1>2, <2>4 DEF LoopKept
<1> QED
  BY <1>4, <1>5

\* A runner that leaves says which of its cards ended, and leaves the others.
LEMMA RunnerClosesKeeps ==
  ASSUME LoopKept, Loop!RunnerCloses
  PROVE  LoopKept'
<1>1. PICK mine, planning :
        /\ mine = {w.on : w \in {v \in Loop!Of("runner") : v.on \in Cards /\ record.worker[v.on] = v.id}}
        /\ planning = (record.state = "planning" /\ \E w \in Loop!Of("runner") : w.on = Plan)
  OBVIOUS
<1>2. PICK ended \in SUBSET mine :
        /\ record' = (IF record.state = "cancelled" THEN record
                      ELSE IF planning THEN Loop!Attention(record, "planner", None)
                      ELSE Loop!Closed(record, ended))
        /\ lostWorks' = (IF record.state = "cancelled" THEN lostWorks
                         ELSE lostWorks \cup (IF record.state = "running" THEN mine ELSE mine \ ended)
                                        \cup (IF "runner" \in validating THEN {Validation} ELSE {}))
  BY <1>1 DEF Loop!RunnerCloses
<1>3. /\ works' = works \ Loop!Of("runner") /\ validating' = validating \ {"runner"}
      /\ runner' = Loop!OutOfIt /\ madeWorks' = madeWorks /\ app' = app /\ exempt' = exempt
  BY DEF Loop!RunnerCloses
<1>4. /\ record \in Loop!Records /\ works \subseteq Loop!Works /\ works' \subseteq works
      /\ validating' \subseteq validating
      /\ Loop!LoopFits(record, works, validating, lostWorks, exempt)
  BY <1>3, RunnerKept
<1>5. SUFFICES record' \in Loop!Records /\ Loop!LoopFits(record', works', validating', lostWorks', exempt)
  <2>1. "runner" \in Loop!Processes
    BY DEF Loop!Processes
  <2> QED
    BY <1>3, <1>5, <2>1, Going
<1>6. CASE record.state = "cancelled"
  <2>1. record' = record /\ lostWorks' = lostWorks
    BY <1>2, <1>6
  <2> QED
    BY <1>4, <1>6, <2>1, Cancelling
<1>7. CASE record.state # "cancelled" /\ planning
  <2>1. /\ record' = Loop!Attention(record, "planner", None) /\ lostWorks \subseteq lostWorks'
        /\ record.state = "planning"
    BY <1>1, <1>2, <1>7
  <2>2. /\ record' \in Loop!Records /\ record'.state = "needs_attention" /\ record'.stage = "planner"
        /\ record'.cards = record.cards /\ record'.worker = record.worker
    BY <1>4, <2>1, AttentionFields DEF Loop!Stages
  <2>3. /\ Loop!WorksGoOn(record, works, lostWorks) /\ Loop!WorksFit(record, works)
        /\ Loop!StatesFit(record, works) /\ (Validation \in exempt \/ validating = {})
    BY <2>1, NobodyElse
  <2>4. Loop!Blank(record) /\ \A w \in works : w.on \notin Cards
    BY <2>1, <2>3, RunnerKept DEF Loop!StatesFit
  <2>5. Loop!WorksFit(record, works')
    BY <1>4, <2>3 DEF Loop!WorksFit
  <2>6. Loop!WorksGoOn(record, works', lostWorks)
    BY <2>4 DEF Loop!WorksGoOn, Loop!InProgress, Loop!Blank
  <2>7. Plan \in exempt \/ \A w \in works' : w.on # Plan
    <3>1. PICK w \in Loop!Of("runner") : w.on = Plan
      BY <1>1, <1>7
    <3>2. w \in works /\ w \notin works'
      BY <1>3, <3>1 DEF Loop!Of
    <3> QED
      BY <1>4, <3>1, <3>2 DEF Loop!LoopFits, Loop!OnePlanner
  <2>8. Validation \in exempt \/ validating' = {}
    BY <1>4, <2>3
  <2>9. \A w \in works' : w.on \notin Cards
    BY <1>4, <2>4
  <2> QED
    BY <1>4, <2>1, <2>2, <2>4, <2>5, <2>6, <2>7, <2>8, <2>9, Stopping
<1>8. CASE record.state # "cancelled" /\ ~planning
  <2>c. None \notin Nat /\ Plan \notin Cards
    BY LoopConstants
  <2>1. PICK n : n = Loop!Closed(record, ended)
    OBVIOUS
  <2>2. record' = n /\ exempt' = exempt /\ lostWorks \subseteq lostWorks'
    BY <1>2, <1>3, <1>8, <2>1
  <2>3. /\ Loop!WorksGoOn(record, works, lostWorks) /\ Loop!WorksFit(record, works)
        /\ Loop!StatesFit(record, works)
    BY <1>8, NobodyElse
  <2>4. \A c \in mine : /\ c \in Cards /\ record.cards[c] = "running" /\ record.worker[c] \in Nat
                        /\ \A w \in works' : w.on # c
    <3>1. ASSUME NEW c \in mine
          PROVE  /\ c \in Cards /\ record.cards[c] = "running" /\ record.worker[c] \in Nat
                 /\ \A w \in works' : w.on # c
      <4>1. PICK v \in Loop!Of("runner") : v.on = c /\ v.on \in Cards /\ record.worker[v.on] = v.id
        BY <1>1, <3>1
      <4>2. v \in works /\ v \notin works' /\ v.id \in Nat
        BY <1>3, <1>4, <4>1 DEF Loop!Of, Loop!Works
      <4> QED
        BY <1>4, <2>3, <4>1, <4>2 DEF Loop!WorksFit
    <3> QED
      BY <3>1
  <2>5. \A w \in works \ works' : w.on \in Cards => w.on \in mine
    <3>1. ASSUME NEW w \in works \ works', w.on \in Cards
          PROVE  w.on \in mine
      <4>1. w \in Loop!Of("runner") /\ record.worker[w.on] = w.id
        BY <1>3, <2>3, <3>1 DEF Loop!WorksFit
      <4> QED
        BY <1>1, <3>1, <4>1
    <3> QED
      BY <3>1
  <2>6. /\ n \in Loop!Records /\ n.state = record.state /\ n.stage = record.stage
        /\ \A c \in Cards :
             /\ n.cards[c] = IF c \in ended THEN "review" ELSE record.cards[c]
             /\ n.worker[c] = IF c \in ended /\ record.state # "running" THEN None ELSE record.worker[c]
    BY <1>4, <2>1 DEF Loop!Closed, Loop!Records
  <2>7. ended \subseteq mine /\ ended \subseteq Cards
    BY <2>4
  <2>8. Loop!WorksFit(n, works')
    <3>1. ASSUME NEW w \in works', w.on \in Cards
          PROVE  n.cards[w.on] = "running" /\ n.worker[w.on] = w.id
      <4>1. w \in works /\ w.on \notin ended
        BY <1>4, <2>4, <2>7
      <4> QED
        BY <2>3, <2>6, <3>1, <4>1 DEF Loop!WorksFit
    <3> QED
      BY <1>4, <2>3, <3>1 DEF Loop!WorksFit
  <2>9. /\ Loop!Blank(record) => Loop!Blank(n)
        /\ Loop!Planned(record) => Loop!Planned(n)
    BY <2>4, <2>6, <2>7 DEF Loop!Blank, Loop!Planned
  <2>10. ASSUME record.state = "running"
         PROVE  /\ Loop!Due(n) = {} /\ \E c \in Cards : n.cards[c] # "done"
                /\ \A c \in Cards : n.cards[c] # "failed"
    <3>1. /\ Loop!Due(record) = {} /\ \E c \in Cards : record.cards[c] # "done"
          /\ \A c \in Cards : record.cards[c] # "failed"
      BY <2>3, <2>10 DEF Loop!StatesFit
    <3>2. ASSUME NEW c \in Loop!Due(n)
          PROVE  FALSE
      <4>1. /\ c \in Cards
            /\ n.cards[c] = "planned" \/ (n.cards[c] = "review" /\ n.worker[c] = None)
        BY <3>2 DEF Loop!Due
      <4>2. CASE c \in ended
        <5>1. n.cards[c] = "review" /\ n.worker[c] = record.worker[c]
          BY <2>6, <2>10, <4>1, <4>2
        <5>2. record.worker[c] \in Nat
          BY <2>4, <2>7, <4>2
        <5> QED
          BY <2>c, <4>1, <5>1, <5>2
      <4>3. CASE c \notin ended
        <5>1. n.cards[c] = record.cards[c] /\ n.worker[c] = record.worker[c]
          BY <2>6, <4>1, <4>3
        <5>2. c \in Loop!Due(record)
          BY <4>1, <5>1 DEF Loop!Due
        <5> QED
          BY <3>1, <5>2
      <4> QED
        BY <4>2, <4>3
    <3>3. Loop!Due(n) = {}
      BY <3>2
    <3> QED
      BY <2>6, <3>1, <3>3
  <2>11. \A w \in works' : w.on \in Cards =>
           n.state \in {"running", "needs_attention", "cancelled"} /\ n.stage \notin {"planner", "validation"}
    BY <1>4, <2>3, <2>6 DEF Loop!StatesFit
  <2>12. Loop!StatesFit(n, works')
    <3>1. n.state # "needs_attention" => n.stage = None
      BY <2>3, <2>6 DEF Loop!StatesFit
    <3>2. n.state \in {"none", "planning"} \/ n.stage = "planner" => Loop!Blank(n)
      BY <2>3, <2>6, <2>9 DEF Loop!StatesFit
    <3>3. Loop!Blank(n) \/ Loop!Planned(n)
      BY <2>3, <2>9 DEF Loop!StatesFit
    <3>4. n.state \in {"awaiting_plan", "running"} => Loop!Planned(n) /\ \A c \in Cards : n.cards[c] # "failed"
      BY <2>3, <2>6, <2>9 DEF Loop!StatesFit
    <3>5. n.state = "none" => works' = {}
      BY <1>4, <2>3, <2>6 DEF Loop!StatesFit
    <3> QED
      BY <2>6, <2>10, <2>11, <3>1, <3>2, <3>3, <3>4, <3>5 DEF Loop!StatesFit
  <2>13. Loop!OnePlanner(n, works', exempt) /\ Loop!OneValidates(n, validating', exempt)
    BY <1>4, <2>6 DEF Loop!LoopFits, Loop!OnePlanner, Loop!OneValidates
  <2>14. Loop!WorksGoOn(n, works', lostWorks')
    <3>1. ASSUME NEW c \in Loop!InProgress(n) \ lostWorks'
          PROVE  (\E w \in works' : w.on = c) \/ (n.cards[c] = "review" /\ n.worker[c] = None)
      <4>1. c \in Cards /\ c \notin lostWorks
        BY <2>2, <3>1 DEF Loop!InProgress
      <4>2. CASE c \in ended
        <5>1. record.state # "running"
          BY <1>2, <1>8, <2>7, <3>1, <4>2
        <5> QED
          BY <2>6, <4>1, <4>2, <5>1
      <4>3. CASE c \notin ended
        <5>1. n.cards[c] = record.cards[c] /\ n.worker[c] = record.worker[c]
          BY <2>6, <4>1, <4>3
        <5>2. c \in Loop!InProgress(record) \ lostWorks
          BY <3>1, <4>1, <5>1 DEF Loop!InProgress
        <5>3. (\E w \in works : w.on = c) \/ (record.cards[c] = "review" /\ record.worker[c] = None)
          BY <2>3, <5>2 DEF Loop!WorksGoOn
        <5>4. c \notin mine
          BY <1>2, <1>8, <3>1, <4>3
        <5> QED
          BY <2>5, <4>1, <5>1, <5>3, <5>4
      <4> QED
        BY <4>2, <4>3
    <3> QED
      BY <3>1 DEF Loop!WorksGoOn
  <2>15. n.state = "planning" => Plan \in lostWorks' \/ \E w \in works' : w.on = Plan
    <3> SUFFICES ASSUME n.state = "planning", Plan \notin lostWorks
                 PROVE  \E w \in works' : w.on = Plan
      BY <2>2
    <3>1. PICK w \in works : w.on = Plan
      BY <1>4, <2>6 DEF Loop!LoopFits, Loop!SomeoneWorks
    <3>2. w \notin Loop!Of("runner")
      BY <1>1, <1>8, <2>6, <3>1
    <3> QED
      BY <1>3, <3>1, <3>2
  <2>16. n.state = "validating" => Validation \in lostWorks' \/ validating' # {}
    <3> SUFFICES ASSUME n.state = "validating", Validation \notin lostWorks'
                 PROVE  validating' # {}
      OBVIOUS
    <3>1. validating # {}
      BY <1>4, <2>2, <2>6 DEF Loop!LoopFits, Loop!SomeoneWorks
    <3>2. "runner" \notin validating
      BY <1>2, <1>8
    <3> QED
      BY <1>3, <3>1, <3>2
  <2>17. Loop!SomeoneWorks(n, works', validating', lostWorks')
    BY <2>14, <2>15, <2>16 DEF Loop!SomeoneWorks
  <2> QED
    BY <2>2, <2>6, <2>8, <2>12, <2>13, <2>17 DEF Loop!LoopFits
<1> QED
  BY <1>6, <1>7, <1>8

-----------------------------------------------------------------------------

LEMMA AppGoesOnKeeps ==
  ASSUME LoopKept, Loop!AppStartsLoop \/ Loop!AppApproves \/ Loop!AppResumes
  PROVE  LoopKept'
<1>1. /\ app = "up" /\ app' = app /\ runner' = runner /\ exempt' = exempt
  BY DEF Loop!AppStartsLoop, Loop!AppApproves, Loop!AppResumes, Loop!processVars
<1>2. /\ record \in Loop!Records /\ works \subseteq Loop!Works /\ madeWorks \in 0..MaxWorks
      /\ validating \subseteq Loop!Processes /\ "app" \in Loop!Processes
      /\ Loop!LoopFits(record, works, validating, lostWorks, exempt)
      /\ runner \in Loop!Runners /\ (runner.pc = "out" <=> ~runner.holds)
      /\ runner.holds => record.locked /\ record.state # "none"
      /\ runner.pc \in {"polls", "acts"} /\ runner.approved =>
              record.state # "awaiting_plan" /\ Loop!Planned(record)
  BY RunnerKept DEF Loop!Processes
<1>3. CASE Loop!AppStartsLoop
  <2>1. /\ record.state = "none" /\ Loop!Plans("app", record) /\ validating' = validating
        /\ lostWorks' = lostWorks
    BY <1>3 DEF Loop!AppStartsLoop
  <2>2. Loop!Blank(record) /\ works = {} /\ ~runner.holds
    BY <1>2, <2>1 DEF Loop!LoopFits, Loop!StatesFit
  <2>3. /\ Plan \in exempt \/ \A w \in works : w.on # Plan
        /\ Validation \in exempt \/ validating = {}
        /\ \A w \in works : w.on \notin Cards
    BY <2>1, <2>2, NobodyElse
  <2>4. /\ record' \in Loop!Records /\ works' \subseteq Loop!Works /\ madeWorks' \in 0..MaxWorks
        /\ Loop!LoopFits(record', works', validating', lostWorks, exempt)
        /\ record'.state \in {"planning", "needs_attention"}
        /\ \A w \in works' : w \in works \/ w.by = "app"
    BY <1>2, <2>1, <2>2, <2>3, Planning
  <2> QED
    BY <1>1, <1>2, <2>1, <2>2, <2>4, Acting
<1>4. CASE Loop!AppApproves
  <2>1. /\ record.state = "awaiting_plan" /\ lostWorks' = lostWorks
        /\ Loop!Advances("app", Loop!State(record, "running"), works)
    BY <1>4 DEF Loop!AppApproves
  <2>2. /\ record' \in Loop!Records /\ works' \subseteq Loop!Works /\ madeWorks' \in 0..MaxWorks
        /\ validating' \subseteq Loop!Processes /\ validating' \in {validating, validating \cup {"app"}}
        /\ Loop!LoopFits(record', works', validating', lostWorks, exempt)
        /\ record'.locked = record.locked /\ Loop!Planned(record')
        /\ record'.state \in {"running", "validating", "needs_attention"}
        /\ \A w \in works' : w \in works \/ w.by = "app"
    BY <1>2, <2>1, Approving
  <2> QED
    BY <1>1, <1>2, <2>1, <2>2, Acting
<1>5. CASE Loop!AppResumes
  <2>1. /\ record.state = "needs_attention" /\ Loop!Resumes("app", record)
        /\ lostWorks' = lostWorks \ {Validation, Plan}
    BY <1>5 DEF Loop!AppResumes
  <2>2. lostWorks \cap Cards \subseteq lostWorks'
    BY <2>1, LoopConstants
  <2>3. /\ record' \in Loop!Records /\ works' \subseteq Loop!Works /\ madeWorks' \in 0..MaxWorks
        /\ validating' \in {validating, validating \cup {"app"}}
        /\ Loop!LoopFits(record', works', validating', lostWorks', exempt)
        /\ record'.locked = record.locked /\ record'.state # "none"
        /\ Loop!Planned(record) => Loop!Planned(record') /\ record'.state # "awaiting_plan"
        /\ \A w \in works' : w \in works \/ w.by = "app"
    BY <1>2, <2>1, <2>2, Resuming
  <2>4. validating' \subseteq Loop!Processes
    BY <1>2, <2>3
  <2> QED
    BY <1>1, <1>2, <2>3, <2>4, Acting
<1> QED
  BY <1>3, <1>4, <1>5

\* What was validated waits to be committed, or is.
LEMMA Settling ==
  ASSUME NEW r \in Loop!Records, NEW ws, NEW val, NEW lo, NEW ex, NEW n \in Loop!Records, NEW val2,
         Loop!LoopFits(r, ws, val, lo, ex), r.state \in {"validating", "awaiting_commit"},
         n.state \in {"awaiting_commit", "done"}, n.stage = None,
         n.cards = r.cards, n.worker = r.worker, Validation \in ex \/ val2 = {}
  PROVE  Loop!LoopFits(n, ws, val2, lo, ex)
<1>c. None \notin {"planner", "validation"}
  BY LoopConstants
<1>1. /\ Loop!Blank(n) <=> Loop!Blank(r)
      /\ Loop!Planned(n) <=> Loop!Planned(r)
      /\ Loop!InProgress(n) = Loop!InProgress(r)
  BY DEF Loop!Blank, Loop!Planned, Loop!InProgress
<1>2. Loop!WorksFit(n, ws)
  BY DEF Loop!LoopFits, Loop!WorksFit
<1>3. Loop!StatesFit(n, ws)
  BY <1>c, <1>1 DEF Loop!LoopFits, Loop!StatesFit
<1>4. Loop!OnePlanner(n, ws, ex) /\ Loop!OneValidates(n, val2, ex)
  BY DEF Loop!LoopFits, Loop!OnePlanner, Loop!OneValidates
<1>5. Loop!SomeoneWorks(n, ws, val2, lo)
  BY <1>1 DEF Loop!LoopFits, Loop!SomeoneWorks, Loop!WorksGoOn
<1> QED
  BY <1>2, <1>3, <1>4, <1>5 DEF Loop!LoopFits

LEMMA AppEndsKeeps ==
  ASSUME LoopKept, Loop!AppCancels \/ Loop!AppCommits
  PROVE  LoopKept'
<1>1. /\ app = "up" /\ app' = app /\ runner' = runner /\ exempt' = exempt /\ lostWorks' = lostWorks
      /\ madeWorks' = madeWorks /\ works' \subseteq works /\ validating' \subseteq validating
  BY DEF Loop!AppCancels, Loop!AppCommits, Loop!processVars
<1>2. /\ record \in Loop!Records /\ works \subseteq Loop!Works /\ madeWorks \in 0..MaxWorks
      /\ validating \subseteq Loop!Processes
      /\ Loop!LoopFits(record, works, validating, lostWorks, exempt)
      /\ runner \in Loop!Runners /\ (runner.pc = "out" <=> ~runner.holds)
      /\ runner.holds => record.locked /\ record.state # "none"
      /\ runner.pc \in {"polls", "acts"} /\ runner.approved =>
              record.state # "awaiting_plan" /\ Loop!Planned(record)
  BY RunnerKept
<1>3. PICK s \in {"done", "cancelled"} : record' = Loop!State(record, s)
  BY DEF Loop!AppCancels, Loop!AppCommits
<1>4. /\ record' \in Loop!Records /\ record'.state = s /\ record'.stage = None
      /\ record'.cards = record.cards /\ record'.worker = record.worker
      /\ record'.locked = record.locked
  BY <1>2, <1>3, StateFields DEF Loop!States
<1>5. Loop!LoopFits(record', works', validating', lostWorks, exempt)
  <2>1. CASE s = "cancelled"
    BY <1>1, <1>2, <1>3, <2>1, Cancelling
  <2>2. CASE s = "done"
    <3>1. record.state = "awaiting_commit" /\ works' = works /\ validating' = validating
      <4>1. "cancelled" \in Loop!States
        BY DEF Loop!States
      <4>2. Loop!State(record, "cancelled").state = "cancelled"
        BY <1>2, <4>1, StateFields
      <4>3. ~Loop!AppCancels
        BY <1>4, <2>2, <4>2 DEF Loop!AppCancels
      <4> QED
        BY <4>3 DEF Loop!AppCommits
    <3>2. Validation \in exempt \/ validating = {}
      BY <3>1, NobodyElse
    <3> QED
      BY <1>2, <1>4, <2>2, <3>1, <3>2, Settling
  <2> QED
    BY <2>1, <2>2
<1>6. Loop!Planned(record') <=> Loop!Planned(record)
  BY <1>4 DEF Loop!Planned
<1>7. works' \subseteq Loop!Works /\ madeWorks' \in 0..MaxWorks /\ validating' \subseteq Loop!Processes
  BY <1>1, <1>2
<1> QED
  BY <1>1, <1>2, <1>4, <1>5, <1>6, <1>7, Acting

\* The app's host comes up, with no run of its own.
LEMMA AppStartsKeeps ==
  ASSUME LoopKept, Loop!AppStarts
  PROVE  LoopKept'
<1>1. /\ app = "down" /\ app' = "up" /\ runner' = runner
      /\ Loop!Of("app") = {} /\ "app" \notin validating
  BY DEF Loop!AppStarts, LoopKept, Loop!ProcessesFit
<1>2. /\ record \in Loop!Records /\ works \subseteq Loop!Works /\ madeWorks \in 0..MaxWorks
      /\ validating \subseteq Loop!Processes /\ "app" \in Loop!Processes
      /\ Loop!LoopFits(record, works, validating, lostWorks, exempt)
      /\ runner \in Loop!Runners /\ (runner.pc = "out" <=> ~runner.holds)
      /\ runner.holds => record.locked /\ record.state # "none"
      /\ runner.pc \in {"polls", "acts"} /\ runner.approved =>
              record.state # "awaiting_plan" /\ Loop!Planned(record)
  BY RunnerKept DEF Loop!Processes
<1>3. CASE /\ record.state = "planning"
           /\ record' = Loop!Attention(record, "planner", None)
           /\ lostWorks' = lostWorks \ {Plan}
           /\ IF Loop!WorkOn(Plan) # {} THEN Loop!Departs(Plan) ELSE exempt' = exempt
           /\ UNCHANGED <<works, madeWorks, validating>>
  <2>1. /\ record' \in Loop!Records /\ record'.state = "needs_attention" /\ record'.stage = "planner"
        /\ record'.cards = record.cards /\ record'.worker = record.worker
        /\ record'.locked = record.locked
    BY <1>2, <1>3, AttentionFields DEF Loop!Stages
  <2>2. /\ Loop!WorksGoOn(record, works, lostWorks) /\ Loop!WorksFit(record, works)
        /\ Loop!StatesFit(record, works) /\ (Validation \in exempt \/ validating = {})
    BY <1>3, NobodyElse
  <2>3. Loop!Blank(record) /\ ~Loop!Planned(record) /\ \A w \in works : w.on \notin Cards
    BY <1>3, <2>2, RunnerKept DEF Loop!StatesFit
  <2>4. /\ Plan \in exempt' \/ \A w \in works : w.on # Plan
        /\ Validation \in exempt' \/ validating = {}
    BY <1>3, <2>2 DEF Loop!WorkOn, Loop!Departs
  <2>5. lostWorks \cap Cards \subseteq lostWorks'
    BY <1>3, LoopConstants
  <2>6. Loop!LoopFits(record', works, validating, lostWorks', exempt')
    BY <1>2, <2>1, <2>2, <2>3, <2>4, <2>5, Stopping
  <2> QED
    BY <1>1, <1>2, <1>3, <2>1, <2>3, <2>6, Acting
<1>4. CASE /\ record.state = "validating"
           /\ validating' = validating \cup {"app"}
           /\ lostWorks' = lostWorks \ {Validation}
           /\ IF "runner" \in validating THEN Loop!Departs(Validation) ELSE exempt' = exempt
           /\ UNCHANGED <<record, works, madeWorks>>
  <2>1. /\ exempt \subseteq exempt' /\ validating' \subseteq Loop!Processes
        /\ Validation \in exempt' \/ validating' = {"app"}
    BY <1>1, <1>2, <1>4 DEF Loop!Departs, Loop!Processes
  <2>2. Loop!OnePlanner(record, works, exempt')
    BY <1>2, <2>1 DEF Loop!LoopFits, Loop!OnePlanner
  <2>3. Loop!OneValidates(record, validating', exempt')
    BY <1>4, <2>1 DEF Loop!OneValidates
  <2>4. Loop!SomeoneWorks(record, works, validating', lostWorks')
    <3>1. Loop!WorksGoOn(record, works, lostWorks')
      <4>1. Loop!WorksGoOn(record, works, lostWorks)
        BY <1>4, NobodyElse
      <4>2. lostWorks \cap Cards \subseteq lostWorks'
        BY <1>4, LoopConstants
      <4> QED
        BY <4>1, <4>2 DEF Loop!WorksGoOn, Loop!InProgress
    <3> QED
      BY <1>4, <3>1 DEF Loop!SomeoneWorks
  <2>5. Loop!LoopFits(record, works, validating', lostWorks', exempt')
    BY <1>2, <2>2, <2>3, <2>4 DEF Loop!LoopFits
  <2> QED
    BY <1>1, <1>2, <1>4, <2>1, <2>5, Acting
<1>5. CASE /\ record.state = "running" /\ ~Loop!LeftToRunner
           /\ Loop!Advances("app", Loop!RunningAgain(record), works)
           /\ lostWorks' = {} /\ exempt' = exempt
  <2>1. ~runner.holds
    BY <1>2, <1>5 DEF Loop!LeftToRunner, Loop!Locked
  <2>2. works = {} /\ validating = {}
    <3>1. Loop!Of("runner") = {} /\ "runner" \notin validating
      BY <2>1 DEF LoopKept, Loop!ProcessesFit
    <3> QED
      BY <1>1, <1>2, <3>1 DEF Loop!Of, Loop!Works, Loop!Processes
  <2>3. PICK n : n = Loop!RunningAgain(record)
    OBVIOUS
  <2>4. /\ n \in Loop!Records /\ n.state = "running" /\ n.stage = record.stage
        /\ n.locked = record.locked
        /\ \A c \in Cards : n.cards[c] = IF c \in Loop!InProgress(record) THEN "planned" ELSE record.cards[c]
    BY <1>2, <1>5, <2>3 DEF Loop!RunningAgain, Loop!Records
  <2>5. Loop!StatesFit(record, works)
    BY <1>2 DEF Loop!LoopFits
  <2>6. /\ n.stage = None /\ Loop!Planned(n) /\ Loop!InProgress(n) = {}
        /\ \A c \in Cards : n.cards[c] # "failed"
    BY <1>5, <2>4, <2>5 DEF Loop!StatesFit, Loop!Planned, Loop!InProgress
  <2>7. Loop!WorksFit(n, works) /\ Loop!WorksGoOn(n, works, lostWorks')
    BY <2>2, <2>6 DEF Loop!WorksFit, Loop!WorksGoOn
  <2>8. /\ Loop!Advances("app", n, works) /\ n.state \in {"running", "validating"}
        /\ n.state # "validating" /\ works \in SUBSET Loop!Works
        /\ Plan \in exempt \/ \A w \in works : w.on # Plan
    BY <1>5, <2>2, <2>3, <2>4
  <2>9. /\ record' \in Loop!Records /\ works' \subseteq Loop!Works /\ madeWorks' \in 0..MaxWorks
        /\ validating' \in {validating, validating \cup {"app"}}
        /\ Loop!LoopFits(record', works', validating', lostWorks', exempt)
        /\ \A w \in works' : w \in works \/ w.by = "app"
    BY <1>2, <2>2, <2>4, <2>6, <2>7, <2>8, Advancing
  <2>10. validating' \subseteq Loop!Processes
    BY <1>2, <2>9
  <2> QED
    BY <1>1, <1>2, <1>5, <2>1, <2>9, <2>10, Acting
<1>6. CASE UNCHANGED <<Loop!loopVars, lostWorks, exempt>>
  <2>1. UNCHANGED <<record, works, madeWorks, validating, lostWorks, exempt>>
    BY <1>6 DEF Loop!loopVars
  <2>2. /\ record' = record /\ works' = works /\ madeWorks' = madeWorks /\ validating' = validating
        /\ lostWorks' = lostWorks /\ exempt' = exempt
    BY <2>1
  <2> QED
    BY <1>1, <1>2, <2>2, Acting
<1> QED
  BY <1>3, <1>4, <1>5, <1>6 DEF Loop!AppStarts

-----------------------------------------------------------------------------

LEMMA PlanEndsKeeps ==
  ASSUME LoopKept, NEW w \in works, Loop!PlanEnds(w)
  PROVE  LoopKept'
<1>1. /\ w.on = Plan /\ works' = works \ {w} /\ madeWorks' = madeWorks /\ validating' = validating
      /\ app' = app /\ runner' = runner /\ exempt' = exempt
  BY DEF Loop!PlanEnds, Loop!processVars
<1>2. /\ record \in Loop!Records /\ works \subseteq Loop!Works /\ madeWorks \in 0..MaxWorks
      /\ validating \subseteq Loop!Processes
      /\ Loop!LoopFits(record, works, validating, lostWorks, exempt)
      /\ runner \in Loop!Runners /\ (runner.pc = "out" <=> ~runner.holds)
      /\ runner.holds => record.locked /\ record.state # "none"
      /\ runner.pc \in {"polls", "acts"} /\ runner.approved =>
              record.state # "awaiting_plan" /\ Loop!Planned(record)
  BY RunnerKept
<1>3. /\ works' \subseteq works /\ works' \subseteq Loop!Works /\ \A v \in works' : v \in works
      /\ \A v \in works \ works' : v = w
  BY <1>1, <1>2
<1>4. CASE record.state # "planning"
  <2>1. record' = record /\ lostWorks' = lostWorks
    BY <1>4 DEF Loop!PlanEnds
  <2>2. Loop!LoopFits(record, works', validating, lostWorks, exempt)
    BY <1>1, <1>2, <1>3, <1>4, Leaving
  <2> QED
    BY <1>1, <1>2, <1>3, <2>1, <2>2, Acting
<1>5. CASE record.state = "planning"
  <2>1. /\ Loop!WorksGoOn(record, works, lostWorks) /\ Loop!WorksFit(record, works)
        /\ Loop!StatesFit(record, works) /\ (Validation \in exempt \/ validating = {})
    BY <1>5, NobodyElse
  <2>2. Loop!Blank(record) /\ ~Loop!Planned(record) /\ \A v \in works' : v.on \notin Cards
    BY <1>3, <1>5, <2>1, RunnerKept DEF Loop!StatesFit
  <2>3. Plan \in exempt \/ \A v \in works' : v.on # Plan
    BY <1>1, <1>2 DEF Loop!LoopFits, Loop!OnePlanner
  <2>4. ~(runner.pc \in {"polls", "acts"} /\ runner.approved)
    BY <1>2, <2>2
  <2>5. CASE record' = Loop!Attention(record, "planner", None) /\ lostWorks' = lostWorks
    <3>1. /\ record' \in Loop!Records /\ record'.state = "needs_attention"
          /\ record'.stage = "planner" /\ record'.cards = record.cards
          /\ record'.worker = record.worker /\ record'.locked = record.locked
      BY <1>2, <2>5, AttentionFields DEF Loop!Stages
    <3>2. Loop!WorksFit(record, works')
      BY <1>3, <2>1 DEF Loop!WorksFit
    <3>3. Loop!WorksGoOn(record, works', lostWorks)
      BY <2>2 DEF Loop!WorksGoOn, Loop!InProgress, Loop!Blank
    <3>4. Loop!LoopFits(record', works', validating, lostWorks, exempt)
      BY <1>2, <2>1, <2>2, <2>3, <3>1, <3>2, <3>3, Stopping
    <3> QED
      BY <1>1, <1>2, <1>3, <2>4, <2>5, <3>1, <3>4, Acting
  <2>6. CASE /\ record' = [Loop!State(record, "awaiting_plan") EXCEPT !.cards = [c \in Cards |-> "planned"],
                                                                      !.worker = [c \in Cards |-> None]]
             /\ lostWorks' = lostWorks \ Cards
    <3>c. None \notin {"planner", "validation"}
      BY LoopConstants
    <3>1. PICK n : n = Loop!State(record, "awaiting_plan")
      OBVIOUS
    <3>2. n \in Loop!Records /\ n.state = "awaiting_plan" /\ n.stage = None /\ n.locked = record.locked
      BY <1>2, <3>1, StateFields DEF Loop!States
    <3>3. /\ record' \in Loop!Records /\ record'.state = "awaiting_plan" /\ record'.stage = None
          /\ record'.locked = record.locked /\ \A c \in Cards : record'.cards[c] = "planned"
      BY <2>6, <3>1, <3>2 DEF Loop!Records
    <3>4. Loop!Planned(record') /\ Loop!InProgress(record') = {}
      BY <3>3 DEF Loop!Planned, Loop!InProgress
    <3>5. Loop!WorksFit(record', works')
      BY <2>2 DEF Loop!WorksFit
    <3>6. Loop!StatesFit(record', works')
      BY <2>2, <3>c, <3>3, <3>4 DEF Loop!StatesFit
    <3>7. Loop!OnePlanner(record', works', exempt) /\ Loop!OneValidates(record', validating, exempt)
      BY <2>1, <2>3 DEF Loop!OnePlanner, Loop!OneValidates
    <3>8. Loop!SomeoneWorks(record', works', validating, lostWorks')
      BY <3>3, <3>4 DEF Loop!SomeoneWorks, Loop!WorksGoOn
    <3>9. Loop!LoopFits(record', works', validating, lostWorks', exempt)
      BY <3>5, <3>6, <3>7, <3>8 DEF Loop!LoopFits
    <3> QED
      BY <1>1, <1>2, <1>3, <2>4, <3>3, <3>9, Acting
  <2> QED
    BY <1>5, <2>5, <2>6 DEF Loop!PlanEnds
<1> QED
  BY <1>4, <1>5

\* A card's run is over: the others, and the other cards, are as they were.
LEMMA CardIsOver ==
  ASSUME LoopKept, NEW w \in works, w.on \in Cards, record.state # "cancelled",
         NEW s \in {"done", "failed"}, NEW r, r = [record EXCEPT !.cards[w.on] = s]
  PROVE  /\ r \in Loop!Records /\ r.state = record.state /\ r.stage = record.stage
         /\ r.locked = record.locked
         /\ Loop!Planned(r) /\ Loop!Planned(record)
         /\ Loop!WorksFit(r, works \ {w}) /\ Loop!WorksGoOn(r, works \ {w}, lostWorks)
         /\ record.state \in {"running", "needs_attention"}
         /\ record.stage \notin {"planner", "validation"}
         /\ Plan \in exempt \/ \A v \in works : v.on # Plan
         /\ Validation \in exempt \/ validating = {}
         /\ (s = "done" /\ record.state = "running") => \A c \in Cards : r.cards[c] # "failed"
         /\ record.state = "running" => record.stage = None
<1>1. /\ record \in Loop!Records
      /\ Loop!WorksGoOn(record, works, lostWorks) /\ Loop!WorksFit(record, works)
      /\ Loop!StatesFit(record, works)
  BY RunnerKept, NobodyElse
<1>2. /\ record.state \in {"running", "needs_attention"}
      /\ record.stage \notin {"planner", "validation"}
  BY <1>1 DEF Loop!StatesFit
<1>3. /\ Plan \in exempt \/ \A v \in works : v.on # Plan
      /\ Validation \in exempt \/ validating = {}
  BY <1>2, NobodyElse
<1>4. /\ r \in Loop!Records /\ r.state = record.state /\ r.stage = record.stage
      /\ r.locked = record.locked /\ r.worker = record.worker
      /\ \A c \in Cards : r.cards[c] = IF c = w.on THEN s ELSE record.cards[c]
  BY <1>1 DEF Loop!Records
<1>5. Loop!Planned(record)
  BY <1>1, RunnerKept DEF Loop!StatesFit
<1>6. Loop!Planned(r)
  BY <1>4, <1>5 DEF Loop!Planned
<1>7. Loop!WorksFit(r, works \ {w})
  BY <1>1, <1>4 DEF Loop!WorksFit
<1>8. Loop!WorksGoOn(r, works \ {w}, lostWorks)
  <2>1. ASSUME NEW c \in Loop!InProgress(r) \ lostWorks
        PROVE  (\E v \in works \ {w} : v.on = c) \/ (r.cards[c] = "review" /\ r.worker[c] = None)
    <3>1. c \in Cards /\ c # w.on
      BY <1>4, <2>1 DEF Loop!InProgress
    <3>2. r.cards[c] = record.cards[c] /\ r.worker[c] = record.worker[c]
      BY <1>4, <3>1
    <3>3. c \in Loop!InProgress(record) \ lostWorks
      BY <2>1, <3>1, <3>2 DEF Loop!InProgress
    <3>4. (\E v \in works : v.on = c) \/ (record.cards[c] = "review" /\ record.worker[c] = None)
      BY <1>1, <3>3 DEF Loop!WorksGoOn
    <3> QED
      BY <3>1, <3>2, <3>4
  <2> QED
    BY <2>1 DEF Loop!WorksGoOn
<1>9. record.state = "running" =>
        record.stage = None /\ (s = "done" => \A c \in Cards : r.cards[c] # "failed")
  BY <1>1, <1>4 DEF Loop!StatesFit
<1> QED
  BY <1>2, <1>3, <1>4, <1>5, <1>6, <1>7, <1>8, <1>9

LEMMA CardEndsKeeps ==
  ASSUME LoopKept, NEW w \in works, Loop!CardEnds(w)
  PROVE  LoopKept'
<1>1. /\ w.on \in Cards /\ Loop!Alive(w.by)
      /\ app' = app /\ runner' = runner /\ exempt' = exempt /\ lostWorks' = lostWorks
  BY DEF Loop!CardEnds, Loop!processVars
<1>2. /\ record \in Loop!Records /\ works \subseteq Loop!Works /\ madeWorks \in 0..MaxWorks
      /\ validating \subseteq Loop!Processes
      /\ Loop!LoopFits(record, works, validating, lostWorks, exempt)
      /\ runner \in Loop!Runners /\ (runner.pc = "out" <=> ~runner.holds)
      /\ runner.holds => record.locked /\ record.state # "none"
      /\ runner.pc \in {"polls", "acts"} /\ runner.approved =>
              record.state # "awaiting_plan" /\ Loop!Planned(record)
  BY RunnerKept
<1>3. /\ w.by \in Loop!Processes
      /\ (w.by = "app" /\ app = "up") \/ (w.by = "runner" /\ runner.holds)
  BY <1>1, <1>2 DEF Loop!Alive, Loop!Works, Loop!Processes
<1>4. record.worker[w.on] = w.id
  BY <1>1, <1>2 DEF Loop!LoopFits, Loop!WorksFit
<1>5. works \ {w} \subseteq works /\ works \ {w} \in SUBSET Loop!Works
  BY <1>2
<1>6. CASE record.state = "cancelled"
  <2>1. /\ record' = record /\ madeWorks' = madeWorks /\ validating' = validating
        /\ works' = works \ {w}
    BY <1>6 DEF Loop!CardEnds
  <2>2. Loop!LoopFits(record, works', validating, lostWorks, exempt)
    BY <1>2, <1>5, <1>6, <2>1, Cancelling
  <2> QED
    BY <1>1, <1>2, <1>5, <2>1, <2>2, Acting
<1>7. CASE record.state # "cancelled"
  <2>1. PICK d, f : /\ d = [record EXCEPT !.cards[w.on] = "done"]
                    /\ f = [record EXCEPT !.cards[w.on] = "failed"]
    OBVIOUS
  <2>2. /\ d \in Loop!Records /\ d.state = record.state /\ d.stage = record.stage
        /\ d.locked = record.locked
        /\ Loop!Planned(d) /\ Loop!Planned(record)
        /\ Loop!WorksFit(d, works \ {w}) /\ Loop!WorksGoOn(d, works \ {w}, lostWorks)
        /\ record.state \in {"running", "needs_attention"}
        /\ record.stage \notin {"planner", "validation"}
        /\ Plan \in exempt \/ \A v \in works : v.on # Plan
        /\ Validation \in exempt \/ validating = {}
        /\ record.state = "running" => record.stage = None /\ \A c \in Cards : d.cards[c] # "failed"
    BY <1>1, <1>7, <2>1, CardIsOver
  <2>3. /\ f \in Loop!Records /\ f.state = record.state /\ f.locked = record.locked
        /\ Loop!Planned(f)
        /\ Loop!WorksFit(f, works \ {w}) /\ Loop!WorksGoOn(f, works \ {w}, lostWorks)
    BY <1>1, <1>7, <2>1, CardIsOver
  <2>4. CASE record.state # "needs_attention" /\ Loop!Advances(w.by, d, works \ {w})
    <3>1. d.state = "running" /\ d.state # "validating" /\ d.state \in {"running", "validating"}
      BY <2>2, <2>4
    <3>2. /\ record' \in Loop!Records /\ works' \subseteq Loop!Works /\ madeWorks' \in 0..MaxWorks
          /\ validating' \in {validating, validating \cup {w.by}}
          /\ Loop!LoopFits(record', works', validating', lostWorks, exempt)
          /\ record'.locked = d.locked /\ Loop!Planned(record')
          /\ record'.state \in {"running", "validating", "needs_attention"}
          /\ \A v \in works' : v \in works \ {w} \/ v.by = w.by
      BY <1>2, <1>3, <1>5, <2>2, <2>4, <3>1, Advancing
    <3>3. validating' \subseteq Loop!Processes
      BY <1>2, <1>3, <3>2
    <3> QED
      BY <1>1, <1>2, <1>3, <2>2, <3>2, <3>3, Acting
  <2>5. ASSUME NEW n \in Loop!Records, record' = n, n.state = "needs_attention", n.locked = record.locked,
               NEW b \in {d, f}, n.cards = b.cards, n.worker = b.worker,
               n.stage \notin {"planner", "validation"},
               works' = works \ {w}, UNCHANGED <<madeWorks, validating>>
        PROVE  LoopKept'
    <3>1. /\ b \in Loop!Records /\ Loop!Planned(b) /\ Loop!WorksFit(b, works \ {w})
          /\ Loop!WorksGoOn(b, works \ {w}, lostWorks)
      BY <2>2, <2>3
    <3>2. Plan \in exempt \/ \A v \in works \ {w} : v.on # Plan
      BY <2>2
    <3>3. Loop!LoopFits(n, works \ {w}, validating, lostWorks, exempt)
      BY <2>2, <2>5, <3>1, <3>2, Stopping
    <3>4. Loop!Planned(n) /\ madeWorks' = madeWorks /\ validating' = validating
      BY <2>5, <3>1 DEF Loop!Planned
    <3> QED
      BY <1>1, <1>2, <1>5, <2>5, <3>3, <3>4, Acting
  <2>6. CASE /\ record.state = "needs_attention" /\ record' = d
             /\ works' = works \ {w} /\ UNCHANGED <<madeWorks, validating>>
    BY <2>2, <2>5, <2>6
  <2>7. CASE /\ \E stage \in {"implementer", "reviewer", "other"} : record' = Loop!Failed(record, stage, w.on)
             /\ works' = works \ {w} /\ UNCHANGED <<madeWorks, validating>>
    <3>1. PICK stage \in {"implementer", "reviewer", "other"} : record' = Loop!Failed(record, stage, w.on)
      BY <2>7
    <3>2. stage \in Loop!Stages /\ stage \notin {"planner", "validation"}
      BY DEF Loop!Stages
    <3>3. /\ record' \in Loop!Records /\ record'.state = "needs_attention" /\ record'.stage = stage
          /\ record'.locked = record.locked /\ record'.cards = f.cards /\ record'.worker = f.worker
      <4>1. CASE record.state = "running"
        <5>1. record' = Loop!Attention(f, stage, w.on)
          BY <2>1, <3>1, <4>1 DEF Loop!Failed
        <5> QED
          BY <1>1, <2>3, <3>2, <5>1, AttentionFields
      <4>2. CASE record.state # "running"
        <5>1. record' = [f EXCEPT !.stage = stage, !.card = w.on]
          BY <2>1, <3>1, <4>2 DEF Loop!Failed
        <5>2. f.state = "needs_attention"
          BY <2>2, <2>3, <4>2
        <5> QED
          BY <1>1, <2>3, <3>2, <5>1, <5>2 DEF Loop!Records
      <4> QED
        BY <4>1, <4>2
    <3> QED
      BY <2>5, <2>7, <3>2, <3>3
  <2> QED
    BY <1>4, <1>7, <2>1, <2>4, <2>6, <2>7 DEF Loop!CardEnds
<1> QED
  BY <1>6, <1>7

LEMMA CardAsksKeeps ==
  ASSUME LoopKept, NEW w \in works, Loop!CardAsks(w)
  PROVE  LoopKept'
<1>1. /\ w.on \in Cards /\ record.state = "running" /\ record' = Loop!Attention(record, "other", None)
      /\ works' = works \ {w} /\ runner' = [runner EXCEPT !.asked = TRUE]
      /\ lostWorks' = lostWorks \cup {w.on} /\ madeWorks' = madeWorks /\ validating' = validating
      /\ app' = app /\ exempt' = exempt
  BY DEF Loop!CardAsks
<1>2. /\ record \in Loop!Records /\ works \subseteq Loop!Works /\ madeWorks \in 0..MaxWorks
      /\ validating \subseteq Loop!Processes
      /\ runner \in Loop!Runners /\ (runner.pc = "out" <=> ~runner.holds)
      /\ runner.holds => record.locked /\ record.state # "none"
      /\ runner.pc \in {"polls", "acts"} /\ runner.approved =>
              record.state # "awaiting_plan" /\ Loop!Planned(record)
  BY RunnerKept
<1>3. /\ Plan \in exempt \/ \A v \in works : v.on # Plan
      /\ Validation \in exempt \/ validating = {}
      /\ Loop!WorksGoOn(record, works, lostWorks)
      /\ Loop!WorksFit(record, works) /\ Loop!StatesFit(record, works)
  BY <1>1, NobodyElse
<1>4. /\ record' \in Loop!Records /\ record'.state = "needs_attention" /\ record'.stage = "other"
      /\ record'.cards = record.cards /\ record'.worker = record.worker
      /\ record'.locked = record.locked
  <2>1. "other" \in Loop!Stages \cup {"validation"} /\ None \in Cards \cup {None}
    BY DEF Loop!Stages
  <2> QED
    BY <1>1, <1>2, <2>1, AttentionFields
<1>5. Loop!WorksFit(record, works')
  BY <1>1, <1>3 DEF Loop!WorksFit
<1>6. Loop!WorksGoOn(record, works', lostWorks')
  BY <1>1, <1>3 DEF Loop!WorksGoOn
<1>7. Plan \in exempt \/ \A v \in works' : v.on # Plan
  BY <1>1, <1>3
<1>8. Loop!Blank(record) \/ Loop!Planned(record)
  BY <1>3 DEF Loop!StatesFit
<1>9. Loop!LoopFits(record', works', validating, lostWorks', exempt)
  BY <1>2, <1>3, <1>4, <1>5, <1>6, <1>7, <1>8, Stopping
<1>10. /\ runner' \in Loop!Runners /\ runner'.pc = runner.pc /\ runner'.holds = runner.holds
       /\ runner'.approved = runner.approved
  BY <1>1, <1>2 DEF Loop!Runners
<1>11. works' \subseteq Loop!Works /\ (Loop!Planned(record') <=> Loop!Planned(record))
  BY <1>1, <1>2, <1>4 DEF Loop!Planned
<1> QED
  BY <1>1, <1>2, <1>4, <1>9, <1>10, <1>11, Acting

LEMMA ValidationEndsKeeps ==
  ASSUME LoopKept, NEW p \in Loop!Processes, Loop!ValidationEnds(p)
  PROVE  LoopKept'
<1>1. /\ p \in validating /\ validating' = validating \ {p} /\ works' = works
      /\ madeWorks' = madeWorks /\ app' = app /\ runner' = runner /\ exempt' = exempt
      /\ lostWorks' = lostWorks
  BY DEF Loop!ValidationEnds, Loop!processVars
<1>2. /\ record \in Loop!Records /\ works \subseteq Loop!Works /\ madeWorks \in 0..MaxWorks
      /\ validating \subseteq Loop!Processes
      /\ Loop!LoopFits(record, works, validating, lostWorks, exempt)
      /\ runner \in Loop!Runners /\ (runner.pc = "out" <=> ~runner.holds)
      /\ runner.holds => record.locked /\ record.state # "none"
      /\ runner.pc \in {"polls", "acts"} /\ runner.approved =>
              record.state # "awaiting_plan" /\ Loop!Planned(record)
  BY RunnerKept
<1>3. validating' \subseteq validating /\ validating' \subseteq Loop!Processes
  BY <1>1, <1>2
<1>4. CASE record.state # "validating"
  <2>1. record' = record
    BY <1>4 DEF Loop!ValidationEnds
  <2>2. Loop!LoopFits(record, works, validating', lostWorks, exempt)
    BY <1>2, <1>3, <1>4, Leaving
  <2> QED
    BY <1>1, <1>2, <1>3, <2>1, <2>2, Acting
<1>5. CASE record.state = "validating"
  <2>1. /\ Plan \in exempt \/ \A v \in works : v.on # Plan
        /\ Loop!WorksGoOn(record, works, lostWorks)
        /\ Loop!WorksFit(record, works) /\ Loop!StatesFit(record, works)
    BY <1>5, NobodyElse
  <2>2. Validation \in exempt \/ validating' = {}
    BY <1>1, <1>2 DEF Loop!LoopFits, Loop!OneValidates
  <2>3. CASE record' = Loop!State(record, "awaiting_commit")
    <3>1. /\ record' \in Loop!Records /\ record'.state = "awaiting_commit" /\ record'.stage = None
          /\ record'.cards = record.cards /\ record'.worker = record.worker
          /\ record'.locked = record.locked
      BY <1>2, <2>3, StateFields DEF Loop!States
    <3>2. Loop!LoopFits(record', works, validating', lostWorks, exempt)
      BY <1>2, <1>5, <2>2, <3>1, Settling
    <3>3. Loop!Planned(record') <=> Loop!Planned(record)
      BY <3>1 DEF Loop!Planned
    <3> QED
      BY <1>1, <1>2, <1>3, <3>1, <3>2, <3>3, Acting
  <2>4. CASE record' = Loop!Attention(record, "validation", None)
    <3>1. /\ record' \in Loop!Records /\ record'.state = "needs_attention"
          /\ record'.stage = "validation" /\ record'.cards = record.cards
          /\ record'.worker = record.worker /\ record'.locked = record.locked
      BY <1>2, <2>4, AttentionFields
    <3>2. (\A v \in works : v.on \notin Cards) /\ (Loop!Blank(record) \/ Loop!Planned(record))
      BY <1>5, <2>1 DEF Loop!StatesFit
    <3>3. Loop!LoopFits(record', works, validating', lostWorks, exempt)
      BY <1>2, <2>1, <2>2, <3>1, <3>2, Stopping
    <3>4. Loop!Planned(record') <=> Loop!Planned(record)
      BY <3>1 DEF Loop!Planned
    <3> QED
      BY <1>1, <1>2, <1>3, <3>1, <3>3, <3>4, Acting
  <2> QED
    BY <1>5, <2>3, <2>4 DEF Loop!ValidationEnds
<1> QED
  BY <1>4, <1>5

LEMMA DiesKeeps ==
  ASSUME LoopKept, NEW p \in Loop!Processes, Loop!Dies(p)
  PROVE  LoopKept'
<1>1. /\ works' = works \ Loop!Of(p) /\ validating' = validating \ {p}
      /\ record' = record /\ madeWorks' = madeWorks /\ exempt' = exempt
      /\ app' = (IF p = "app" THEN "down" ELSE app)
      /\ runner' = (IF p = "runner" THEN Loop!OutOfIt ELSE runner)
  BY DEF Loop!Dies
<1>2. PICK left : left = {w.on : w \in {v \in Loop!Of(p) :
                                   v.on = Plan \/ (v.on \in Cards /\ record.worker[v.on] = v.id)}}
  OBVIOUS
<1>3. lostWorks' = lostWorks \cup left \cup (IF p \in validating THEN {Validation} ELSE {})
  BY <1>2 DEF Loop!Dies
<1>4. /\ record \in Loop!Records /\ works \subseteq Loop!Works
      /\ Loop!LoopFits(record, works, validating, lostWorks, exempt)
  BY RunnerKept
<1>5. \A w \in works \ works' : w.on \in lostWorks'
  <2>1. ASSUME NEW w \in works \ works'
        PROVE  w.on \in lostWorks'
    <3>1. w \in Loop!Of(p) /\ w.on \in Cards \cup {Plan}
      BY <1>1, <1>4, <2>1 DEF Loop!Works
    <3>2. w.on \in Cards => record.worker[w.on] = w.id
      BY <1>4, <2>1 DEF Loop!LoopFits, Loop!WorksFit
    <3>3. w.on \in left
      BY <1>2, <3>1, <3>2
    <3> QED
      BY <1>3, <3>3
  <2> QED
    BY <2>1
<1>6. validating' = validating \/ Validation \in lostWorks'
  BY <1>1, <1>3
<1>7. works' \subseteq works /\ validating' \subseteq validating /\ lostWorks \subseteq lostWorks'
  BY <1>1, <1>3
<1>8. Loop!LoopFits(record, works', validating', lostWorks', exempt)
  BY <1>4, <1>5, <1>6, <1>7, Leaving
<1> QED
  BY <1>1, <1>4, <1>8, Going

-----------------------------------------------------------------------------

\* What has departed stays so.
LEMMA DepartedStays ==
  ASSUME Loop!Next
  PROVE  exempt \subseteq exempt'
BY DEF Loop!Next, Loop!RunnerNext, Loop!AppNext, Loop!EndNext, Loop!RunnerStarts, Loop!RunnerResumes,
       Loop!RunnerPolls, Loop!RunnerWaits, Loop!RunnerApproves, Loop!RunnerRetries,
       Loop!RunnerLeaves, Loop!RunnerInterrupted, Loop!RunnerCloses, Loop!AppStartsLoop,
       Loop!AppApproves, Loop!AppResumes, Loop!AppCancels, Loop!AppCommits, Loop!AppStarts,
       Loop!PlanEnds, Loop!CardEnds, Loop!CardAsks, Loop!ValidationEnds, Loop!Dies,
       Loop!Departs, Loop!RunnerVars

LEMMA LoopStep ==
  ASSUME Loop!IInv, [Loop!Next]_loopVars
  PROVE  Loop!IInv'
<1>1. CASE UNCHANGED loopVars
  <2>1. UNCHANGED <<record, works, madeWorks, validating, app, runner, lostWorks, exempt>>
    BY <1>1 DEF loopVars
  <2> QED
    BY <2>1 DEF Loop!IInv, Loop!TypeOK, Loop!ProcessesFit, Loop!Of
<1>2. CASE Loop!Next
  <2>1. CASE "overwritten" \in exempt'
    BY <2>1 DEF Loop!IInv
  <2>2. CASE "overwritten" \notin exempt'
    <3>1. LoopKept
      BY <1>2, <2>2, DepartedStays DEF Loop!IInv, LoopKept
    <3>2. ASSUME Loop!RunnerNext
          PROVE  LoopKept'
      BY <2>2, <3>1, <3>2, RunnerStartsKeeps, RunnerResumesKeeps, RunnerLooksKeeps, RunnerApprovesKeeps,
         RunnerRetriesKeeps, RunnerInterruptedKeeps, RunnerClosesKeeps DEF Loop!RunnerNext
    <3>3. ASSUME Loop!AppNext
          PROVE  LoopKept'
      BY <3>1, <3>3, AppGoesOnKeeps, AppEndsKeeps, AppStartsKeeps DEF Loop!AppNext
    <3>4. ASSUME Loop!EndNext
          PROVE  LoopKept'
      BY <3>1, <3>4, PlanEndsKeeps, CardEndsKeeps, CardAsksKeeps, ValidationEndsKeeps, DiesKeeps
         DEF Loop!EndNext
    <3>5. LoopKept'
      BY <1>2, <3>2, <3>3, <3>4 DEF Loop!Next
    <3> QED
      BY <3>5 DEF Loop!IInv, LoopKept
  <2> QED
    BY <2>1, <2>2
<1> QED
  BY <1>1, <1>2

\* A loop that is kept is worked on once, by someone, and answers its runner.
LEMMA LoopIsKept ==
  ASSUME Loop!IInv
  PROVE  Loop!LoopsAreKept
<1> SUFFICES ASSUME LoopKept
             PROVE  Loop!NothingIsTakenOver /\ Loop!NothingIsForgotten /\ Loop!RunnerIsAnswered
  BY DEF Loop!IInv, LoopKept, Loop!LoopsAreKept
<1>1. /\ record \in Loop!Records /\ works \subseteq Loop!Works /\ validating \subseteq Loop!Processes
      /\ runner \in Loop!Runners
      /\ Loop!LoopFits(record, works, validating, lostWorks, exempt)
      /\ (runner.pc = "out" <=> ~runner.holds) /\ (runner.holds => record.state # "none")
      /\ runner.pc \in {"polls", "acts"} /\ runner.approved =>
              record.state # "awaiting_plan" /\ Loop!Planned(record)
  BY RunnerKept
<1>2. ASSUME NEW S, \A x, y \in S : x = y
      PROVE  Loop!Cardinality(S) <= 1
  <2>1. CASE S = {}
    BY <2>1, FS_EmptySet, SameSets
  <2>2. CASE S # {}
    <3>1. PICK x : S = {x}
      BY <1>2, <2>2
    <3>2. Cardinality(S) = 1
      BY <3>1, FS_Singleton
    <3>3. Loop!Cardinality(S) = 1
      BY <3>2, SameSets
    <3> QED
      BY <3>3
  <2> QED
    BY <2>1, <2>2
<1>3. Loop!NothingIsTakenOver
  <2>1. ASSUME NEW c \in Cards
        PROVE  Loop!Cardinality(Loop!WorkOn(c)) <= 1
    <3>1. \A w, v \in Loop!WorkOn(c) : w = v
      BY <1>1 DEF Loop!LoopFits, Loop!WorksFit, Loop!WorkOn
    <3> QED
      BY <1>2, <3>1
  <2>2. Plan \in exempt \/ Loop!Cardinality(Loop!WorkOn(Plan)) <= 1
    <3>1. Plan \in exempt \/ \A w, v \in Loop!WorkOn(Plan) : w = v
      BY <1>1 DEF Loop!LoopFits, Loop!OnePlanner, Loop!WorkOn
    <3> QED
      BY <1>2, <3>1
  <2>3. Validation \in exempt \/ Loop!Cardinality(validating) <= 1
    <3>1. Validation \in exempt \/ \A p, q \in validating : p = q
      BY <1>1 DEF Loop!LoopFits, Loop!OneValidates
    <3> QED
      BY <1>2, <3>1
  <2> QED
    BY <2>1, <2>2, <2>3 DEF Loop!NothingIsTakenOver
<1>4. record.state = "running" => \A c \in Loop!InProgress(record) \ lostWorks : \E w \in works : w.on = c
  <2> SUFFICES ASSUME record.state = "running", NEW c \in Loop!InProgress(record) \ lostWorks
               PROVE  \E w \in works : w.on = c
    OBVIOUS
  <2>1. (\E w \in works : w.on = c) \/ (record.cards[c] = "review" /\ record.worker[c] = None)
    BY <1>1 DEF Loop!LoopFits, Loop!SomeoneWorks, Loop!WorksGoOn
  <2>2. Loop!Due(record) = {} /\ c \in Cards
    BY <1>1 DEF Loop!LoopFits, Loop!StatesFit, Loop!InProgress
  <2> QED
    BY <2>1, <2>2 DEF Loop!Due
<1>5. Loop!NothingIsForgotten
  <2>1. record.state = "running" =>
          \A c \in Loop!InProgress(record) \ lostWorks : Loop!WorkOn(c) # {}
    BY <1>4 DEF Loop!WorkOn
  <2>2. record.state = "planning" => Plan \in lostWorks \/ Loop!WorkOn(Plan) # {}
    BY <1>1 DEF Loop!LoopFits, Loop!SomeoneWorks, Loop!WorkOn
  <2>3. record.state = "validating" => Validation \in lostWorks \/ validating # {}
    BY <1>1 DEF Loop!LoopFits, Loop!SomeoneWorks
  <2> QED
    BY <2>1, <2>2, <2>3 DEF Loop!NothingIsForgotten
<1>6. Loop!RunnerIsAnswered
  <2> SUFFICES ASSUME runner.pc = "polls", lostWorks = {}, works = {}, validating = {},
                      record.state \notin Loop!Settled,
                      ~(record.state = "awaiting_plan" /\ ~runner.approved)
               PROVE  FALSE
    BY DEF Loop!RunnerIsAnswered
  <2>1. record.state # "none" /\ record.state # "awaiting_plan"
    BY <1>1
  <2>2. record.state # "planning" /\ record.state # "validating"
    BY <1>1 DEF Loop!LoopFits, Loop!SomeoneWorks
  <2>3. record.state = "running"
    BY <1>1, <2>1, <2>2 DEF Loop!Records, Loop!States, Loop!Settled
  <2>4. Loop!Due(record) = {} /\ Loop!Planned(record) /\ \A c \in Cards : record.cards[c] # "failed"
    BY <1>1, <2>3 DEF Loop!LoopFits, Loop!StatesFit
  <2>5. PICK c \in Cards : record.cards[c] # "done"
    BY <1>1, <2>3 DEF Loop!LoopFits, Loop!StatesFit
  <2>6. record.cards[c] \in {"none", "planned", "running", "review", "failed", "done"}
    BY <1>1 DEF Loop!Records
  <2>7. record.cards[c] # "planned" /\ record.cards[c] # "none"
    BY <2>4 DEF Loop!Due, Loop!Planned
  <2>8. c \in Loop!InProgress(record)
    BY <2>4, <2>5, <2>6, <2>7 DEF Loop!InProgress
  <2> QED
    BY <1>4, <2>3, <2>8
<1> QED
  BY <1>3, <1>5, <1>6

\* A loop that the app and a headless command work on is worked on once, by one of them,
\* whoever starts, resumes, cancels or dies, but for the plan and the validation that an
\* app coming up starts again; what the record says is being worked on someone works on
\* or was left; and a command that polls waits for something (spec_loop.py, headless.py).
\* A planner's retry over a record read before is excepted: it overwrites the loop.
THEOREM LoopsStayKept == Spec => [](part = "loops" => Loop!LoopsAreKept)
<1>1. Init => (part = "loops" => Loop!IInv)
  BY LoopInit
<1>2. (part = "loops" => Loop!IInv) /\ [Next]_vars => (part = "loops" => Loop!IInv)'
  BY OnePartMoves, LoopStep
<1>3. (part = "loops" => Loop!IInv) => (part = "loops" => Loop!LoopsAreKept)
  BY LoopIsKept
<1> QED
  BY <1>1, <1>2, <1>3, PTL DEF Spec

\* Both together are what the run checks of commands and their loops.
THEOREM CommandsStayTrue == Spec => []CommandsHold
<1>1. /\ part = "loops" => Loop!LoopsAreKept
      /\ part = "command" => Command!CommandTells
      => CommandsHold
  BY DEF CommandsHold
<1> QED
  BY <1>1, LoopsStayKept, CommandsTellTheTruth, PTL
=============================================================================
