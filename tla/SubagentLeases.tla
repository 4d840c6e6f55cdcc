--------------------------- MODULE SubagentLeases ---------------------------
(***************************************************************************)
(* Dispatches of subagents (symphonai_api/leader.py, _DispatchTool) and    *)
(* the workspace leases they take (symphonai_api/leases.py).               *)
(*                                                                         *)
(* Several leaders, one per conversation, share one WorkspaceLeases.  A    *)
(* tool call runs its dispatch in the foreground, each round under a lease *)
(* of its own, or starts a background thread, whose lease is taken before  *)
(* the call returns.  Within a leader only dispatches of subagents with a  *)
(* git worktree of their own run in parallel tool calls; they take no      *)
(* lease.                                                                  *)
(***************************************************************************)
EXTENDS Integers, FiniteSets

CONSTANTS
    Calls,           \* dispatch_subagent calls, each made again and again
    Subagent,        \* the subagent a call names, one of its leader's pool
    Leader,          \* the leader that makes the call
    Background,      \* the calls with background = true
    Isolated,        \* the subagents that have a worktree
    Path,            \* the workspace prefix of a subagent, resolved
    Contains,        \* pairs <<p, q>>: q is p or below it (_contains_path)
    MaxRounds,       \* rounds of a dispatch with Validation commands (5)
    MaxBackground    \* background dispatches of a leader at once (4)

ASSUME DispatchAssumption ==
    /\ Background \subseteq Calls
    /\ MaxRounds \in Nat \ {0}
    /\ MaxBackground \in Nat
    /\ \A c, d \in Calls : Subagent[c] = Subagent[d] => Leader[c] = Leader[d]

VARIABLES
    pc,         \* where the call, or the thread it has started, is
    round,      \* validation_round; each round is a run with an id of its own
    held,       \* WorkspaceLeases._held: the count of each lease
    occupied,   \* subagents with record.running, or in _reserved_names
    names       \* the leaders' _background_names

vars == <<pc, round, held, occupied, names>>

-----------------------------------------------------------------------------
(* WorkspaceLeases.  A lease is known by its holder, the id of a run, which *)
(* stands here for the call and the number of its round.                   *)

Leases == Calls \X (1 .. MaxRounds)
Overlap(p, q) == <<p, q>> \in Contains \/ <<q, p>> \in Contains
PathOf(l) == Path[Subagent[l[1]]]

\* Mutant: only leases above the requested path are looked at.
ConflictAbove(l) ==
    \E k \in Leases : held[k] > 0 /\ k # l /\ <<PathOf(k), PathOf(l)>> \in Contains
\* Mutant: off by one, a lease counts from its second holder on.
ConflictTwice(l) ==
    \E k \in Leases : held[k] > 1 /\ k # l /\ Overlap(PathOf(k), PathOf(l))
Conflict(l) ==
    \E k \in Leases : held[k] > 0 /\ k # l /\ Overlap(PathOf(k), PathOf(l))

Acquire(l) == ~Conflict(l) /\ held' = [held EXCEPT ![l] = @ + 1]

\* Mutant: the count stays.
ReleaseNothing(l) == UNCHANGED held
Release(l) == held' = [held EXCEPT ![l] = IF @ = 0 THEN 0 ELSE @ - 1]

-----------------------------------------------------------------------------
Shared(c) == Subagent[c] \notin Isolated
\* The lease of a background dispatch is that of its first run.
LeaseOf(c) == IF c \in Background THEN <<c, 1>> ELSE <<c, round[c]>>
\* What the foreground does at each round, and the background once.
Take(c) == IF Shared(c) THEN Acquire(LeaseOf(c)) ELSE UNCHANGED held
GiveBack(c) == IF Shared(c) THEN Release(LeaseOf(c)) ELSE UNCHANGED held

Known(c) == {s \in names : \E d \in Calls : s = Subagent[d] /\ Leader[d] = Leader[c]}

Inline(c) == IF c \in Background
             THEN pc[c] \in {"admitted", "registered", "leased", "returning", "undone", "releasing"}
             ELSE pc[c] # "idle"
\* partition_tool_calls: a call runs beside others of its leader only when all
\* of them name isolated subagents.
\* Mutant: every call is declared concurrency safe.
MayRunAlways(c) == TRUE
MayRun(c) == \A d \in Calls : Leader[d] = Leader[c] /\ Inline(d) => ~Shared(c) /\ ~Shared(d)

Go(c, place) == pc' = [pc EXCEPT ![c] = place]
\* record.running = False, and _background_names.discard
Vacate(c) == occupied' = occupied \ {Subagent[c]}
Forget(c) == names' = names \ {Subagent[c]}

Init ==
    /\ pc = [c \in Calls |-> "idle"]
    /\ round = [c \in Calls |-> 1]
    /\ held = [l \in Leases |-> 0]
    /\ occupied = {}
    /\ names = {}

\* The first lock: the subagent is free, and becomes occupied.
Admit(c) ==
    /\ pc[c] = "idle" /\ MayRun(c)
    /\ Subagent[c] \notin occupied \cup names
    /\ c \in Background => Cardinality(Known(c)) < MaxBackground
    /\ occupied' = occupied \cup {Subagent[c]}
    /\ Go(c, "admitted")
    /\ round' = [round EXCEPT ![c] = 1]
    /\ UNCHANGED <<held, names>>

\* No worktree, no agent: the exception ends the call.
SetupFails(c) ==
    /\ pc[c] = "admitted"
    /\ Go(c, "returning")
    /\ Vacate(c) \/ UNCHANGED occupied
    /\ UNCHANGED <<round, held, names>>

\* The second lock.
Register(c) ==
    /\ pc[c] = "admitted"
    /\ IF c \in Background /\ Cardinality(Known(c)) >= MaxBackground
       THEN Vacate(c) /\ Go(c, "returning") /\ UNCHANGED names
       ELSE /\ names' = IF c \in Background THEN names \cup {Subagent[c]} ELSE names
            /\ Go(c, "registered")
            /\ UNCHANGED occupied
    /\ UNCHANGED <<round, held>>

\* A background call takes its lease, or is refused it.
Lease(c) ==
    /\ c \in Background
    /\ pc[c] = "registered"
    /\ Take(c)
    /\ Go(c, "leased")
    /\ UNCHANGED <<round, occupied, names>>

LeaseRefused(c) ==
    /\ c \in Background
    /\ pc[c] = "registered"
    /\ Shared(c) /\ Conflict(LeaseOf(c))
    /\ Go(c, "returning")
    /\ Vacate(c) /\ Forget(c)
    /\ UNCHANGED <<round, held>>

\* prepare_child raises with the lease taken.
PrepareFails(c) ==
    /\ pc[c] = "leased"
    /\ Go(c, "undone")
    /\ \/ Vacate(c) /\ Forget(c)
       \/ UNCHANGED <<occupied, names>>
    /\ UNCHANGED <<round, held>>

\* A round starts: in the foreground under a lease, in the background it is
\* the thread that runs it.
StartRound(c) ==
    /\ pc[c] \in {IF c \in Background THEN "leased" ELSE "registered", "again"}
    /\ IF c \in Background THEN UNCHANGED held ELSE Take(c)
    /\ Go(c, "running")
    /\ UNCHANGED <<round, occupied, names>>

\* A round of the foreground ends before it runs: LeaseConflict, a failed
\* preparation or a cancellation.  Most of these clear record.running early.
RoundFails(c) ==
    /\ c \notin Background
    /\ pc[c] \in {"registered", "again"}
    /\ Go(c, "closing")
    /\ Vacate(c) \/ UNCHANGED occupied
    /\ UNCHANGED <<round, held, names>>

\* The run of a round returns or raises; the Validation commands of a
\* foreground dispatch run without its lease.
EndRound(c) ==
    /\ pc[c] = "running"
    /\ IF c \in Background THEN UNCHANGED held ELSE GiveBack(c)
    /\ Go(c, "judging")
    /\ UNCHANGED <<round, occupied, names>>

\* A command failed, with rounds left: another round, of a new run.
Again(c) ==
    /\ pc[c] = "judging"
    /\ round[c] < MaxRounds
    /\ round' = [round EXCEPT ![c] = @ + 1]
    /\ Go(c, "again")
    /\ UNCHANGED <<held, occupied, names>>

\* Mutant: the name of a background dispatch goes with its last round.
ConcludeForgets(c) ==
    /\ pc[c] = "judging"
    /\ Go(c, "closing")
    /\ Vacate(c) /\ Forget(c)
    /\ UNCHANGED <<round, held>>

\* No further round: record.running is cleared before the diff and the output
\* are looked at (unless the run raised OperationCancelled).
Conclude(c) ==
    /\ pc[c] = "judging"
    /\ Go(c, "closing")
    /\ Vacate(c) \/ UNCHANGED occupied
    /\ UNCHANGED <<round, held, names>>

\* The `finally` of the foreground and that of the thread.
Close(c) ==
    /\ pc[c] = "closing"
    /\ IF c \in Background
       THEN GiveBack(c) /\ Go(c, "left") /\ UNCHANGED occupied
       ELSE Vacate(c) /\ Go(c, "returning") /\ UNCHANGED held
    /\ UNCHANGED <<round, names>>

\* The last lock of the thread.
Leave(c) ==
    /\ pc[c] = "left"
    /\ Go(c, "idle")
    /\ Vacate(c) /\ Forget(c)
    /\ UNCHANGED <<round, held>>

\* The `finally` of a call that started no thread: it clears record.running and
\* the name once more, then gives back a lease that is left.
Return(c) ==
    /\ pc[c] \in {"returning", "undone"}
    /\ Go(c, IF pc[c] = "undone" THEN "releasing" ELSE "idle")
    /\ Vacate(c) /\ Forget(c)
    /\ UNCHANGED <<round, held>>

LastRelease(c) ==
    /\ pc[c] = "releasing"
    /\ GiveBack(c)
    /\ Go(c, "idle")
    /\ UNCHANGED <<round, occupied, names>>

Next ==
    \E c \in Calls :
        \/ Admit(c) \/ SetupFails(c) \/ Register(c)
        \/ Lease(c) \/ LeaseRefused(c) \/ PrepareFails(c)
        \/ StartRound(c) \/ RoundFails(c) \/ EndRound(c) \/ Again(c) \/ Conclude(c)
        \/ Close(c) \/ Leave(c) \/ Return(c) \/ LastRelease(c)

Spec == Init /\ [][Next]_vars

-----------------------------------------------------------------------------
Places == {"idle", "admitted", "registered", "leased", "running", "judging", "again",
           "closing", "left", "returning", "undone", "releasing"}
TypeOK ==
    /\ pc \in [Calls -> Places]
    /\ round \in [Calls -> 1 .. MaxRounds]
    /\ held \in [Leases -> Nat]
    /\ occupied \subseteq {Subagent[c] : c \in Calls}
    /\ names \subseteq {Subagent[c] : c \in Background}

\* The dispatches that have the shared tree below their prefix to themselves:
\* those whose round runs, and background ones from their lease to their end.
Exclusive(c) ==
    /\ Shared(c)
    /\ \/ pc[c] = "running"
       \/ c \in Background /\ pc[c] \in {"leased", "judging", "again", "closing", "undone", "releasing"}
writing == {c \in Calls : Exclusive(c)}

\* Of two dispatches that have a tree to themselves neither prefix contains the
\* other: rounds and retries of different leaders' dispatches and background
\* threads exclude each other, and nobody writes below a background dispatch
\* while its Validation commands run.
OneWriterPerTree ==
    \A c, d \in writing : c # d => ~Overlap(Path[Subagent[c]], Path[Subagent[d]])

\* No lease outlives its dispatch and none is given back early, whichever way
\* it ends: a lease is held, exactly once, just while its dispatch has the tree.
NoLeaseLeft ==
    \A l \in Leases : held[l] = IF l[1] \in writing /\ l = LeaseOf(l[1]) THEN 1 ELSE 0

\* A subagent that works in the shared tree has one dispatch at a time: a second
\* one would append to the messages of the first.  Neither the early clearing
\* of record.running nor the second one of the last `finally` lets one in.
SharedRunsAlone ==
    \A c, d \in Calls :
        c # d /\ Subagent[c] = Subagent[d] /\ Shared(c) => "idle" \in {pc[c], pc[d]}

\* A background dispatch in the shared tree is known to its leader until its
\* lease is back: wait_for_background does not let the leader answer before.
KnownWhileRunning ==
    \A c \in Background :
        Shared(c) /\ pc[c] \in {"leased", "running", "judging", "again", "closing", "left"}
            => Subagent[c] \in names

Clash(c, d) == Overlap(Path[Subagent[c]], Path[Subagent[d]])
Promise == INSTANCE TreeWriters WITH Writers <- Calls
\* The leases keep the promise of WorkspaceLeases' docstring (leases.py:32).
KeepsPromise == Promise!Spec

-----------------------------------------------------------------------------
\* What the error of a second dispatch says, and the code does not keep for an
\* isolated subagent: "subagent X is already running; dispatch it again after
\* it finishes" (leader.py:899).
RunsOnce ==
    \A c, d \in Calls :
        c # d /\ Subagent[c] = Subagent[d] => ~(pc[c] = "running" /\ pc[d] = "running")
=============================================================================
