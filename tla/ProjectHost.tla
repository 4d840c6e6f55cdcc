---------------------------- MODULE ProjectHost ----------------------------
(***************************************************************************)
(* The projects one host has open: each has a runtime, one project is the  *)
(* current one, and a runtime that is neither current nor at work is       *)
(* closed, by the thread that switches projects or by the one that         *)
(* watches events.  Requests run on threads of their own and look the      *)
(* current runtime up before they use it.                                  *)
(***************************************************************************)
EXTENDS Naturals, FiniteSets

CONSTANTS Roots, Requests, Closers, MaxRuntimes, None

\* None is no project and no runtime.
ProjectAssumption == MaxRuntimes \in Nat /\ None \notin Roots \cup 1..MaxRuntimes

VARIABLES runtimes,   \* root -> the runtime the host knows for it
          current,    \* the current root
          root,       \* runtime -> its root
          made,       \* runtimes built
          open,       \* runtimes not closed
          busy,       \* runtimes with work in flight
          request,    \* request -> the runtime its handler holds, or None
          closer,     \* closer -> where it is in _close_if_idle
          closed,     \* HostServer.close: no, begun, done
          strays      \* runtimes nobody will close, or that work unseen

hostVars == <<runtimes, current, root, made, open, busy, request, closer, closed, strays>>

Idle == [pc |-> "idle", of |-> None, runtime |-> None]
Known == {runtimes[r] : r \in Roots} \ {None}

Init ==
  /\ runtimes = [r \in Roots |-> None] /\ current = None
  /\ root = [i \in 1..MaxRuntimes |-> None] /\ made = 0
  /\ open = {} /\ busy = {}
  /\ request = [q \in Requests |-> None]
  /\ closer = [c \in Closers |-> Idle]
  /\ closed = "no" /\ strays = {}

Closes(i) == open' = open \ {i} /\ busy' = busy \ {i}

\* open_project: under the lock of the runtimes from end to end; the project
\* that was current is then closed if it is idle.  Loops that are recovered
\* put the new runtime to work.
OpenProject(c, r) ==
  /\ closed = "no" /\ closer[c] = Idle /\ current # r
  /\ IF runtimes[r] # None
     THEN UNCHANGED <<runtimes, root, made, open, busy>>
     ELSE /\ made < MaxRuntimes
          /\ made' = made + 1
          /\ root' = [root EXCEPT ![made + 1] = r]
          /\ runtimes' = [runtimes EXCEPT ![r] = made + 1]
          /\ open' = open \cup {made + 1}
          /\ \E works \in {{}, {made + 1}} : busy' = busy \cup works
  /\ current' = r
  /\ closer' = IF current = None THEN closer
               ELSE [closer EXCEPT ![c] = [pc |-> "looks", of |-> current, runtime |-> None]]
  /\ UNCHANGED <<request, closed, strays>>

\* A project that cannot be built, or whose loops cannot be recovered, is
\* closed again and the current one stays.
OpenFails(r) ==
  /\ closed = "no" /\ runtimes[r] = None /\ made < MaxRuntimes
  /\ made' = made + 1 /\ root' = [root EXCEPT ![made + 1] = r]
  /\ UNCHANGED <<runtimes, current, open, busy, request, closer, closed, strays>>

\* The watching thread looks at every project but the current one.
Watches(c) ==
  /\ closed # "done" /\ closer[c] = Idle
  /\ \E r \in Roots \ {current} :
       /\ runtimes[r] # None
       /\ closer' = [closer EXCEPT ![c] = [pc |-> "looks", of |-> r, runtime |-> None]]
  /\ UNCHANGED <<runtimes, current, root, made, open, busy, request, closed, strays>>

\* _close_if_idle, between its locks.
Looks(c) ==
  /\ closer[c].pc = "looks"
  /\ LET i == runtimes[closer[c].of] IN
     closer' = [closer EXCEPT ![c] = IF i = None THEN Idle ELSE [@ EXCEPT !.pc = "asks", !.runtime = i]]
  /\ UNCHANGED <<runtimes, current, root, made, open, busy, request, closed, strays>>

AsksWork(c) ==
  /\ closer[c].pc = "asks"
  /\ closer' = [closer EXCEPT ![c] = IF closer[c].runtime \in busy THEN Idle ELSE [@ EXCEPT !.pc = "pops"]]
  /\ UNCHANGED <<runtimes, current, root, made, open, busy, request, closed, strays>>

\* Mutant: the runtime that was looked at is not compared with the one known.
MayPopAny(c) == closer[c].of # current /\ runtimes[closer[c].of] # None

MayPop(c) == closer[c].of # current /\ runtimes[closer[c].of] = closer[c].runtime

\* Work may have begun since it was asked for: its runtime is then no longer
\* known, though what it does goes on until it is closed.
Pops(c) ==
  /\ closer[c].pc = "pops"
  /\ IF MayPop(c)
     THEN /\ runtimes' = [runtimes EXCEPT ![closer[c].of] = None]
          /\ closer' = [closer EXCEPT ![c].pc = "closes"]
          /\ strays' = strays \cup ({closer[c].runtime} \cap busy)
     ELSE closer' = [closer EXCEPT ![c] = Idle] /\ UNCHANGED <<runtimes, strays>>
  /\ UNCHANGED <<current, root, made, open, busy, request, closed>>

\* The project has been opened again meanwhile: the old runtime is left open.
CloseRuntime(c) ==
  /\ closer[c].pc = "closes"
  /\ IF closer[c].of # current
     THEN Closes(closer[c].runtime) /\ strays' = strays
     ELSE strays' = strays \cup {closer[c].runtime} /\ UNCHANGED <<open, busy>>
  /\ closer' = [closer EXCEPT ![c] = Idle]
  /\ UNCHANGED <<runtimes, current, root, made, request, closed>>

\* A request's handler takes the current runtime, then has it work.
Takes(q) ==
  /\ closed # "done" /\ request[q] = None /\ current # None /\ runtimes[current] # None
  /\ request' = [request EXCEPT ![q] = runtimes[current]]
  /\ UNCHANGED <<runtimes, current, root, made, open, busy, closer, closed, strays>>

\* HostRun.start does not ask whether its runtime has been closed.
Starts(q) ==
  /\ request[q] # None
  /\ \/ /\ busy' = busy \cup {request[q]}
        /\ strays' = IF request[q] \in Known THEN strays ELSE strays \cup {request[q]}
     \/ UNCHANGED <<busy, strays>>
  /\ request' = [request EXCEPT ![q] = None]
  /\ UNCHANGED <<runtimes, current, root, made, open, closer, closed>>

WorkEnds(i) ==
  /\ i \in busy /\ busy' = busy \ {i}
  /\ UNCHANGED <<runtimes, current, root, made, open, request, closer, closed, strays>>

\* HostServer.close: what is known is forgotten under the lock, then closed.
CloseHost ==
  /\ closed = "no" /\ closed' = "begun"
  /\ UNCHANGED <<runtimes, current, root, made, open, busy, request, closer, strays>>

Forget ==
  /\ closed = "begun" /\ closed' = "done"
  /\ open' = open \ Known /\ busy' = busy \ Known
  /\ runtimes' = [r \in Roots |-> None]
  /\ UNCHANGED <<current, root, made, request, closer, strays>>

Next ==
  \/ \E c \in Closers : \/ Watches(c) \/ Looks(c) \/ AsksWork(c) \/ Pops(c) \/ CloseRuntime(c)
                        \/ \E r \in Roots : OpenProject(c, r)
  \/ \E r \in Roots : OpenFails(r)
  \/ \E q \in Requests : Takes(q) \/ Starts(q)
  \/ \E i \in 1..MaxRuntimes : WorkEnds(i)
  \/ CloseHost \/ Forget

Spec == Init /\ [][Next]_hostVars

-----------------------------------------------------------------------------
TypeOK ==
  /\ runtimes \in [Roots -> {None} \cup 1..made] /\ current \in Roots \cup {None}
  /\ root \in [1..MaxRuntimes -> Roots \cup {None}] /\ made \in 0..MaxRuntimes
  /\ open \subseteq 1..made /\ busy \subseteq 1..made /\ strays \subseteq 1..made
  /\ request \in [Requests -> {None} \cup 1..made]
  /\ closer \in [Closers -> [pc : {"idle", "looks", "asks", "pops", "closes"},
                            of : Roots \cup {None}, runtime : {None} \cup 1..made]]
  /\ closed \in {"no", "begun", "done"}

BeingClosed == {closer[c].runtime : c \in {d \in Closers : closer[d].pc = "closes"}}

\* A runtime that is open is one the host knows, one a thread is about to
\* close, or a stray: nothing else is left behind.
NoneIsLeft == open \subseteq Known \cup BeingClosed \cup strays

\* Work goes on only in a runtime the host knows, where its approvals can be
\* answered and the host's end stops it, or in a stray.
WorkIsKnown == busy \subseteq Known \cup strays

\* The current project always has its runtime, and a runtime the host knows is
\* open: what a request takes is not closed under it while its project is
\* current.
CurrentIsOpen ==
  /\ Known \subseteq open
  /\ closed # "done" /\ current # None => runtimes[current] # None /\ root[runtimes[current]] = current

ProjectsAreKept == NoneIsLeft /\ WorkIsKnown /\ CurrentIsOpen

\* What keeps it so: a runtime is known for its own root only, and one that has
\* been popped is known for none.
IInv ==
  /\ TypeOK /\ ProjectsAreKept
  /\ \A r \in Roots : runtimes[r] # None => root[runtimes[r]] = r
  /\ \A c \in Closers :
       /\ closer[c].pc # "idle" => closer[c].of \in Roots
       /\ closer[c].pc \in {"asks", "pops", "closes"} => closer[c].runtime # None
       /\ closer[c].pc = "closes" => closer[c].runtime \notin Known
=============================================================================
