------------------------------- MODULE Policies -------------------------------
(***************************************************************************)
(* Permission policies: what a policy decides of a write, a fetch and a    *)
(* shell line (symphonai_api/permissions.py), the ceiling that the owner   *)
(* of the machine sets in the configuration (config.py), the roles of      *)
(* subagents (agent_file.py, leader.py), and how the host derives,         *)
(* replaces and changes the policies of its conversations (run.py,         *)
(* spec_loop.py).                                                          *)
(*                                                                         *)
(* A place is a directory or file of the project or of a worktree.  A      *)
(* shell line is the set of its commands, each with whether it writes      *)
(* through a redirection.  What no policy here can change is left out:     *)
(* forbidden and protected paths, commands always denied, lines that       *)
(* cannot be checked, private hosts, the sandbox.  Modes "ask" and "auto"  *)
(* differ in who is asked (Approvals).                                     *)
(***************************************************************************)
EXTENDS Naturals

CONSTANTS
    Dirs, Top,     \* directories of the project, and its own
    Words,         \* beginnings of commands, and commands
    Empty,         \* the beginning of every command
    Below,         \* of a directory or a beginning, what is in it or begins so
    Lines,         \* shell lines
    ReadOnly,      \* commands that plan mode runs
    Hosts,
    Preapproved,   \* hosts fetched without a question
    Configured,    \* hosts the configuration grants
    Stored,        \* hosts in the file of grants to begin with
    Ceilings,      \* ceilings the configuration may set
    Roles,         \* policies of agent files
    Folders,       \* folders of specs
    Conversations,
    MaxReloads,    \* bound: how often the extensions are loaded again
    None, Same

Repo == "repo"
Trees == {Repo, "run worktree", "agent worktree"}
Places == [tree : Trees, dir : Dirs]
Modes == {"ask", "plan", "allow"}

PolicyRecords ==
    [tree : Trees, mode : Modes,
     scope : SUBSET Places, ownScope : {None} \cup SUBSET Places,
     shellOn : BOOLEAN, shellOff : BOOLEAN, shellList : SUBSET Words,
     ownShellOff : BOOLEAN, ownShellList : {None} \cup SUBSET Words,
     fetchOn : BOOLEAN, fetchOff : BOOLEAN, fetchList : SUBSET Hosts,
     ownFetchOff : BOOLEAN, ownFetchList : {None} \cup SUBSET Hosts]

\* What is assumed of the parameters; MCRuntime checks it of the instance.
PolicyAssumption ==
    /\ Below \in [Dirs \cup Words -> SUBSET (Dirs \cup Words)]
    /\ \A x, y, z \in Dirs \cup Words : y \in Below[x] /\ z \in Below[y] => z \in Below[x]
    /\ \A w \in Words : Empty \in Below[w] => w = Empty
    /\ Top \in Dirs /\ Empty \in Words
    /\ Stored \cup Configured \subseteq Hosts /\ Folders \subseteq Dirs
    /\ Lines \subseteq SUBSET [argv : Words, writes : BOOLEAN]
    /\ Roles \subseteq PolicyRecords
    /\ Ceilings \subseteq
         [scope : {None} \cup SUBSET Places, modes : (SUBSET Modes) \ {{}},
          shellOn : {None} \cup BOOLEAN, shellList : {None} \cup SUBSET Words,
          fetchOn : {None} \cup BOOLEAN, fetchList : {None} \cup SUBSET Hosts]
    /\ None # Same /\ {None, Same} \cap PolicyRecords = {}
    /\ \A s \in (SUBSET Places) \cup (SUBSET Words) \cup SUBSET Hosts : s # None

VARIABLES
    ceiling,    \* of the extensions in force (_extensions.ceiling)
    saved,      \* hosts in the project's file of grants
    granted,    \* host._project_fetch_grants
    base,       \* _base_policy: what spec runs start from
    next,       \* _next_policy: None, the object that is `here`, or a policy
    here,       \* _policy, of the current conversation if there is one
    current,    \* _conversation
    open,       \* _policy_by_session
    since,      \* history: the ceiling in force when a conversation was opened
    reloads     \* how often the extensions were loaded again

vars == <<ceiling, saved, granted, base, next, here, current, open, since, reloads>>

-----------------------------------------------------------------------------
(* What a policy decides.                                                   *)

Covers(scope, x) == \E s \in scope : s.tree = x.tree /\ x.dir \in Below[s.dir]
Begins(list, argv) == \E w \in list : argv \in Below[w]
Plain(list, line) == \A c \in line : ~c.writes /\ Begins(list, c.argv)

WriteBarred(p, x) ==
    x.tree # p.tree \/ (p.ownScope # None /\ ~Covers(p.ownScope, x))
Write(p, x) ==
    IF WriteBarred(p, x) \/ p.mode = "plan" THEN "deny"
    ELSE IF p.mode = "ask" THEN "ask"
    ELSE IF Covers(p.scope, x) THEN "allow" ELSE "deny"

FetchBarred(p, h) ==
    p.ownFetchOff \/ p.fetchOff \/ (p.ownFetchList # None /\ h \notin p.ownFetchList)
Fetch(p, h) ==
    IF FetchBarred(p, h) THEN "deny"
    ELSE IF h \in Preapproved \cup p.fetchList THEN "allow"
    ELSE IF p.mode = "ask" THEN "ask"
    ELSE IF p.fetchOn THEN "allow" ELSE "deny"

ShellBarred(p, line) ==
    \/ p.ownShellOff \/ p.shellOff
    \/ p.ownShellList # None /\ Empty \notin p.ownShellList /\ ~Plain(p.ownShellList, line)
Shell(p, line) ==
    IF ShellBarred(p, line) THEN "deny"
    ELSE IF p.mode = "plan"
         THEN IF \A c \in line : ~c.writes /\ c.argv \in ReadOnly THEN "allow" ELSE "deny"
    ELSE IF p.mode = "ask" THEN "ask"
    ELSE IF p.shellOn /\ \A c \in line : IF c.writes THEN Empty \in p.shellList
                                         ELSE Begins(p.shellList, c.argv)
         THEN "allow" ELSE "deny"

-----------------------------------------------------------------------------
(* Policies made from others.                                               *)

MeetScopes(a, b) == {x \in a : Covers(b, x)} \cup {x \in b : Covers(a, x)}
MeetLists(a, b) == {w \in a : Begins(b, w)} \cup {w \in b : Begins(a, w)}
\* Mutant: a limit that only one side has is dropped.
BothListsOnly(a, b) == IF a = None \/ b = None THEN None ELSE MeetLists(a, b)
\* A limit that only one side has is kept.
BothScopes(a, b) == IF a = None THEN b ELSE IF b = None THEN a ELSE MeetScopes(a, b)
BothLists(a, b) == IF a = None THEN b ELSE IF b = None THEN a ELSE MeetLists(a, b)
BothHosts(a, b) == IF a = None THEN b ELSE IF b = None THEN a ELSE a \cap b

\* CapabilityCeiling.bound.
Bound(c, p) ==
    LET listed == c.fetchOn # FALSE /\ c.fetchList # None IN
    [p EXCEPT
        !.ownScope = BothScopes(@, c.scope),
        !.scope = IF c.scope = None THEN @ ELSE MeetScopes(@, c.scope),
        !.ownShellOff = @ \/ c.shellOn = FALSE,
        !.shellOn = @ /\ c.shellOn # FALSE,
        !.ownShellList = BothLists(@, c.shellList),
        !.shellList = IF c.shellList = None THEN @ ELSE MeetLists(@, c.shellList),
        !.ownFetchOff = @ \/ c.fetchOn = FALSE,
        !.ownFetchList = BothHosts(@, c.fetchList),
        !.fetchOn = @ /\ c.fetchOn # FALSE /\ ~listed,
        !.fetchList = IF c.fetchOn = FALSE THEN {}
                      ELSE IF listed THEN IF p.fetchOn THEN c.fetchList ELSE @ \cap c.fetchList
                      ELSE @]

\* What the hosts granted to the project may be under a ceiling.
Restricted(hosts, c) ==
    IF c.fetchOn = FALSE THEN {}
    ELSE IF c.fetchList = None THEN hosts ELSE hosts \cap c.fetchList

Tightest(a, b) ==
    IF "plan" \in {a, b} THEN "plan" ELSE IF "ask" \in {a, b} THEN "ask" ELSE "allow"
\* PermissionPolicy.narrowed: a subagent's policy under its role's.
Narrowed(p, r) ==
    [tree |-> r.tree, mode |-> Tightest(p.mode, r.mode),
     scope |-> MeetScopes(p.scope, r.scope), ownScope |-> BothScopes(p.ownScope, r.ownScope),
     shellOn |-> p.shellOn /\ r.shellOn, shellOff |-> p.shellOff \/ r.shellOff,
     shellList |-> MeetLists(p.shellList, r.shellList),
     ownShellOff |-> p.ownShellOff \/ r.ownShellOff,
     ownShellList |-> BothLists(p.ownShellList, r.ownShellList),
     fetchOn |-> p.fetchOn /\ r.fetchOn, fetchOff |-> p.fetchOff \/ r.fetchOff,
     fetchList |-> p.fetchList \cap r.fetchList,
     ownFetchOff |-> p.ownFetchOff \/ r.ownFetchOff,
     ownFetchList |-> BothHosts(p.ownFetchList, r.ownFetchList)]

\* PermissionPolicy.rerooted: in a worktree; the owner's scope stays as it is.
Rerooted(p, t) ==
    [p EXCEPT !.tree = t, !.scope = {[x EXCEPT !.tree = t] : x \in {y \in @ : y.tree = p.tree}}]

\* The policy a project is opened with, before its ceiling, and the one of a
\* role whose file sets none.
Opened ==
    [tree |-> Repo, mode |-> "allow", scope |-> {[tree |-> Repo, dir |-> Top]}, ownScope |-> None,
     shellOn |-> TRUE, shellOff |-> FALSE, shellList |-> {Empty}, ownShellOff |-> FALSE,
     ownShellList |-> None, fetchOn |-> TRUE, fetchOff |-> FALSE, fetchList |-> {},
     ownFetchOff |-> FALSE, ownFetchList |-> None]

Starting(c) ==
    IF "ask" \in c.modes THEN "ask" ELSE IF "plan" \in c.modes THEN "plan" ELSE "allow"
\* Hosts go from a policy, and others come.
Rehosted(p, gone, come) == [p EXCEPT !.fetchList = (@ \ gone) \cup come]

\* A role's file is loaded only if it asks for nothing the ceiling excludes.
Exceeds(r, c) ==
    \/ c.scope # None /\ \E x \in r.scope : ~Covers(c.scope, x)
    \/ c.shellOn = FALSE /\ r.shellOn
    \/ c.shellList # None /\ \E w \in r.shellList : ~Begins(c.shellList, w)
    \/ c.fetchOn = FALSE /\ r.fetchOn
    \/ c.fetchList # None /\ ~(r.fetchList \subseteq c.fetchList)
    \/ r.mode \notin c.modes

-----------------------------------------------------------------------------
(* The host.                                                                *)

Init ==
    /\ ceiling \in Ceilings
    /\ saved = Stored /\ granted = Restricted(Configured \cup saved, ceiling)
    /\ base = Rehosted(Bound(ceiling, Opened), {}, granted)
    /\ here = [base EXCEPT !.mode = Starting(ceiling)]
    /\ next = None /\ current = None /\ reloads = 0
    /\ open = [k \in Conversations |-> None]
    /\ since = [k \in Conversations |-> None]

\* The extensions are loaded again: for conversations that start from now on.
Reload ==
    /\ reloads < MaxReloads
    /\ \E c \in Ceilings :
        LET hosts == Restricted(Configured \cup saved, c)
            p == [Bound(c, Opened) EXCEPT !.fetchList = hosts, !.mode = Starting(c)] IN
        /\ ceiling' = c /\ granted' = hosts /\ base' = p /\ reloads' = reloads + 1
        /\ IF current = None THEN here' = p /\ next' = Same
                             ELSE next' = p /\ UNCHANGED here
        /\ UNCHANGED <<saved, current, open, since>>

\* The current policy is no longer the object of the next one.
Parted == IF next = Same THEN here ELSE next
Fresh == IF next = None THEN here ELSE [Parted EXCEPT !.mode = Starting(ceiling)]
Opens(k, p) ==
    /\ open[k] = None
    /\ open' = [open EXCEPT ![k] = p] /\ since' = [since EXCEPT ![k] = ceiling]
Becomes(k, p) == current' = k /\ here' = p /\ next' = Parted

\* The first prompt of a chat; a session that is opened again.
Start(k) ==
    LET p == IF next = None THEN here ELSE Parted IN
    /\ current = None
    /\ Opens(k, p) /\ Becomes(k, p)
    /\ UNCHANGED <<ceiling, saved, granted, base, reloads>>
Reopen(k) ==
    LET p == [Fresh EXCEPT !.mode = Starting(ceiling)] IN
    /\ Opens(k, p) /\ Becomes(k, p)
    /\ UNCHANGED <<ceiling, saved, granted, base, reloads>>
Switch(k) ==
    /\ open[k] # None /\ Becomes(k, open[k])
    /\ UNCHANGED <<ceiling, saved, granted, base, open, since, reloads>>
\* A new chat is asked for; the old one stays open while it works.
EndConversation ==
    /\ current # None /\ current' = None
    /\ here' = [Fresh EXCEPT !.mode = Starting(ceiling)]
    /\ UNCHANGED <<ceiling, saved, granted, base, next, open, since, reloads>>
Close(k) ==
    /\ k # current /\ open[k] # None
    /\ open' = [open EXCEPT ![k] = None]
    /\ since' = [since EXCEPT ![k] = None]
    /\ UNCHANGED <<ceiling, saved, granted, base, next, here, current, reloads>>

\* Runs of the spec loop start from the base policy: an implementer in a
\* worktree, a reviewer in it with a folder to write to, a planner with a
\* folder and a shell if there is a sandbox.
ImplementerPolicy == [Rerooted(base, "run worktree") EXCEPT !.mode = "allow"]
ReviewerPolicy(d) ==
    [base EXCEPT !.tree = "run worktree", !.mode = "allow",
                 !.scope = {[tree |-> "run worktree", dir |-> d]}]
PlannerPolicy(d, box) ==
    [base EXCEPT !.mode = "allow", !.scope = {[tree |-> Repo, dir |-> d]},
                 !.shellOn = box, !.shellList = IF box THEN {Empty} ELSE {}]
SpecPolicies ==
    {ImplementerPolicy} \cup {ReviewerPolicy(d) : d \in Folders}
    \cup {PlannerPolicy(d, box) : d \in Folders, box \in BOOLEAN}
StartSpec(k) ==
    /\ \E p \in SpecPolicies : Opens(k, p)
    /\ UNCHANGED <<ceiling, saved, granted, base, next, here, current, reloads>>

\* The roles of files, in the project's own tree.
RolesFor(k) ==
    {r \in Roles : r = Opened \/ ~Exceeds(r, since[k])} \cap {r \in Roles : r.tree = open[k].tree}
\* The policies of subagents, as they may be dispatched at any time: under a
\* role's file, or as their leader with the built-in roles; in the leader's
\* tree or a worktree of their own.  What becomes of the leader's policy later
\* does not reach them.
Dispatched(k) ==
    UNION {LET p == Narrowed(open[k], r) IN
           {[role |-> r, policy |-> p], [role |-> r, policy |-> Rerooted(p, "agent worktree")]}
               : r \in {open[k]} \cup RolesFor(k)}

SelectMode ==
    /\ \E m \in ceiling.modes :
          /\ here' = [here EXCEPT !.mode = m]
          /\ open' = IF current = None THEN open ELSE [open EXCEPT ![current].mode = m]
    /\ UNCHANGED <<ceiling, saved, granted, base, next, current, since, reloads>>

\* The policies of every conversation, changed.
Everywhere(gone, come) ==
    /\ base' = Rehosted(base, gone, come) /\ here' = Rehosted(here, gone, come)
    /\ open' = [k \in Conversations |->
                  IF open[k] = None THEN None ELSE Rehosted(open[k], gone, come)]
\* A reply grants a host to the project.
Grant ==
    /\ \E h \in Hosts :
          LET hosts == Restricted(granted \cup {h}, ceiling) IN
          /\ saved' = saved \cup {h} /\ granted' = hosts
          /\ Everywhere({}, hosts \ granted)
    /\ UNCHANGED <<ceiling, next, current, since, reloads>>
\* A grant is removed from the file.
Remove ==
    /\ \E h \in saved :
          LET hosts == Restricted(Configured \cup (saved \ {h}), ceiling) IN
          /\ saved' = saved \ {h} /\ granted' = hosts
          /\ Everywhere(granted, hosts)
    /\ UNCHANGED <<ceiling, next, current, since, reloads>>

Next ==
    \/ Reload \/ EndConversation \/ SelectMode \/ Grant \/ Remove
    \/ \E k \in Conversations :
          \/ Start(k) \/ Reopen(k) \/ Switch(k) \/ Close(k) \/ StartSpec(k)

Spec == Init /\ [][Next]_vars

-----------------------------------------------------------------------------
\* "The machine owner's agents.ceiling limits the conversation's writes, shell
\* commands, and fetches before it starts; all per-conversation and subagent
\* policies inherit those limits" (PROTOCOL.md:489): whatever is reloaded,
\* granted, selected, narrowed, moved to a worktree or set anew for a run of
\* the loop, neither a policy nor the person it asks allows what the ceiling
\* that was in force at the start excludes.
Admits(c, p) ==
    /\ \A x \in [tree : {p.tree}, dir : Dirs] :
          Write(p, x) # "deny" => c.scope = None \/ Covers(c.scope, x)
    /\ \A h \in Hosts : Fetch(p, h) # "deny" =>
          c.fetchOn # FALSE /\ (c.fetchList = None \/ h \in c.fetchList)
    /\ \A line \in Lines : Shell(p, line) # "deny" =>
          /\ c.shellOn # FALSE
          /\ c.shellList = None \/ Empty \in c.shellList \/ Plain(c.shellList, line)
LimitsHold ==
    \A k \in Conversations :
        open[k] # None => /\ Admits(since[k], open[k])
                          /\ \A a \in Dispatched(k) : Admits(since[k], a.policy)

\* "Return a new policy allowing only what both policies allow"
\* (permissions.py:634): what a subagent does without a question when it may,
\* its role may do as well, in the tree the subagent has.
MayDo(p, r) ==
    /\ \A x \in [tree : {p.tree}, dir : Dirs] : Write(p, x) = "allow" => Covers(r.scope, x)
    /\ \A h \in Hosts : Fetch(p, h) = "allow" => Fetch(r, h) = "allow"
    /\ \A line \in Lines : Shell(p, line) = "allow" => Shell(r, line) = "allow"
RolesHold ==
    \A k \in Conversations : open[k] # None =>
        \A a \in Dispatched(k) : a.policy.mode = "allow" =>
            MayDo(a.policy, Rerooted(a.role, a.policy.tree))

\* Until the extensions are loaded again, the conversations fetch from no host
\* without a question that is neither granted nor on the owner's list.
OnlyGranted(p) ==
    p.fetchList \subseteq granted \cup (IF ceiling.fetchList = None THEN {} ELSE ceiling.fetchList)
HostsAreGranted ==
    reloads = 0 => \A k \in Conversations : open[k] # None => OnlyGranted(open[k])

PoliciesHold == LimitsHold /\ RolesHold /\ HostsAreGranted

-----------------------------------------------------------------------------
(* Why PoliciesHold holds: the inductive invariant of the proof.            *)

\* The owner's limits of a policy are within a ceiling's.
Bounded(c, p) ==
    /\ c.scope # None => /\ p.ownScope # None
                         /\ \A x \in Places : Covers(p.ownScope, x) => Covers(c.scope, x)
    /\ c.shellOn = FALSE => p.ownShellOff
    /\ c.shellList # None =>
         /\ p.ownShellList # None /\ (Empty \in p.ownShellList => Empty \in c.shellList)
         /\ \A w \in Words : Begins(p.ownShellList, w) => Begins(c.shellList, w)
    /\ c.fetchOn = FALSE => p.ownFetchOff
    /\ c.fetchList # None => p.ownFetchList # None /\ p.ownFetchList \subseteq c.fetchList
Typing ==
    /\ ceiling \in Ceilings /\ saved \subseteq Hosts /\ granted \subseteq Hosts
    /\ {base, here} \subseteq PolicyRecords /\ next \in {None, Same} \cup PolicyRecords
    /\ open \in [Conversations -> {None} \cup PolicyRecords]
    /\ current \in {None} \cup Conversations /\ reloads \in Nat
    /\ \A k \in Conversations : open[k] # None => since[k] \in Ceilings
    /\ DOMAIN since = Conversations
\* Every policy is within the ceiling of its time: those that are copied to new
\* conversations within the one in force.  Before the first reload that is all.
IInv ==
    /\ Typing
    /\ current # None => open[current] # None
    /\ \A k \in Conversations : open[k] # None => Bounded(since[k], open[k])
    /\ Bounded(ceiling, base) /\ Bounded(ceiling, IF next = None THEN here ELSE Parted)
    /\ granted = Restricted(granted, ceiling)
    /\ next = None <=> reloads = 0
    /\ reloads = 0 => /\ OnlyGranted(base) /\ OnlyGranted(here) /\ HostsAreGranted
                      /\ \A k \in Conversations : open[k] # None => since[k] = ceiling
=============================================================================
