-------------------------- MODULE ApprovalsProofs --------------------------
(***************************************************************************)
(* Proofs about Approvals, for any number of calls, grants and removals:   *)
(* the accepted reply decides a call, once, and wakes it; what the file,   *)
(* the host and the brokers know of the grants comes to agree.             *)
(***************************************************************************)
EXTENDS Approvals, TLAPS

USE DEF Blocked, ReplySteps, RemovalSteps

\* What the records of the broker say of a call agrees with its thread.
CallAgrees(c) ==
    /\ c \in pending <=> pc[c] \in Blocked
    /\ pc[c] \notin Blocked \cup {"answered"} => decision[c] = "none" /\ ~woken[c]
    /\ pc[c] \in {"publishing", "waiting", "late"} => (woken[c] <=> decision[c] # "none")
    /\ said[c] # "none" => decision[c] = said[c]
    /\ decision[c] = "allow" => said[c] = "allow"
    /\ verdict[c] \in {"allow", "deny"} => verdict[c] = decision[c]

IInv == TypeOK /\ \A c \in Calls : CallAgrees(c)

-----------------------------------------------------------------------------
(* A step of one call leaves the others alone.                              *)
LEMMA CallSteps ==
    ASSUME IInv, NEW c \in Calls, CallStep(c)
    PROVE  IInv'
<1>1. TypeOK /\ CallAgrees(c)
  BY DEF IInv
<1>2. UNCHANGED <<said, session, project, known, file, reply, removal, removals, crossed>>
  BY DEF CallStep, Ask, Review, Register, Publish, Wake, TimeOut, DecideLate, Leave,
         grantVars, busyVars
<1>3. /\ \A d \in Calls \ {c} : /\ pc'[d] = pc[d] /\ decision'[d] = decision[d]
                                /\ woken'[d] = woken[d] /\ verdict'[d] = verdict[d]
                                /\ d \in pending' <=> d \in pending
      /\ pc' \in [Calls -> {"ready", "reviewing", "asking", "answered"} \cup Blocked]
      /\ pending' \subseteq Calls
      /\ decision' \in [Calls -> {"none", "allow", "deny"}]
      /\ woken' \in [Calls -> BOOLEAN]
      /\ verdict' \in [Calls -> {"none", "granted", "reviewed", "no_client", "allow", "deny"}]
      /\ CallAgrees(c)'
      /\ verdict'[c] = "none" <=> pc'[c] \notin {"leaving", "answered"}
  <2>1. CASE Ask(c)
    BY <1>1, <1>2, <2>1 DEF Ask, TypeOK, CallAgrees
  <2>2. CASE Review(c)
    BY <1>1, <1>2, <2>2 DEF Review, TypeOK, CallAgrees
  <2>3. CASE Register(c)
    <3>1. /\ pc[c] = "asking" /\ pc'[c] = "publishing" /\ c \in pending'
          /\ UNCHANGED <<decision, woken, verdict, said>>
      BY <1>1, <2>3 DEF Register, TypeOK
    <3>2. woken'[c] <=> decision'[c] # "none"
      BY <1>1, <3>1 DEF CallAgrees
    <3>3. CallAgrees(c)'
      BY <1>1, <3>1, <3>2 DEF CallAgrees
    <3> QED
      BY <1>1, <2>3, <3>1, <3>3 DEF Register, TypeOK
  <2>4. CASE Publish(c)
    BY <1>1, <1>2, <2>4 DEF Publish, TypeOK, CallAgrees
  <2>5. CASE Wake(c)
    BY <1>1, <1>2, <2>5 DEF Wake, TypeOK, CallAgrees
  <2>6. CASE TimeOut(c)
    BY <1>1, <1>2, <2>6 DEF TimeOut, TypeOK, CallAgrees
  <2>7. CASE DecideLate(c)
    BY <1>1, <1>2, <2>7 DEF DecideLate, TypeOK, CallAgrees
  <2>8. CASE Leave(c)
    BY <1>1, <1>2, <2>8 DEF Leave, TypeOK, CallAgrees
  <2> QED
    BY <2>1, <2>2, <2>3, <2>4, <2>5, <2>6, <2>7, <2>8 DEF CallStep
<1>4. \A d \in Calls \ {c} : CallAgrees(d)'
  BY <1>2, <1>3 DEF IInv, CallAgrees
<1>5. TypeOK'
  BY <1>1, <1>2, <1>3 DEF TypeOK
<1> QED
  BY <1>3, <1>4, <1>5 DEF IInv

\* The reply that decides an open call.
LEMMA ResolveStep ==
    ASSUME IInv, NEW c \in Calls, Open(c), NEW a \in {"allow", "deny"}, Resolve(c, a),
           UNCHANGED <<pc, pending, verdict>>
    PROVE  /\ \A d \in Calls : CallAgrees(d)'
           /\ decision' \in [Calls -> {"none", "allow", "deny"}]
           /\ woken' \in [Calls -> BOOLEAN]
           /\ said' \in [Calls -> {"none", "allow", "deny"}]
<1>1. /\ decision' \in [Calls -> {"none", "allow", "deny"}]
      /\ woken' \in [Calls -> BOOLEAN]
      /\ said' \in [Calls -> {"none", "allow", "deny"}]
      /\ decision'[c] = a /\ woken'[c] /\ said'[c] = a
      /\ \A d \in Calls \ {c} : decision'[d] = decision[d] /\ woken'[d] = woken[d] /\ said'[d] = said[d]
  BY DEF Resolve, IInv, TypeOK
<1>2. c \in pending /\ decision[c] = "none" /\ pc[c] \in Blocked
  BY DEF Open, IInv, CallAgrees
<1>3. verdict[c] \notin {"allow", "deny"}
  BY <1>2 DEF IInv, CallAgrees
<1>4. CallAgrees(c)'
  BY <1>1, <1>2, <1>3 DEF CallAgrees
<1>5. \A d \in Calls \ {c} : CallAgrees(d)'
  BY <1>1 DEF IInv, CallAgrees
<1> QED
  BY <1>1, <1>4, <1>5

LEMMA ReplyingSteps ==
    ASSUME IInv, Person \/ ReplyGoesOn
    PROVE  IInv'
<1>1. TypeOK /\ \A c \in Calls : CallAgrees(c) /\ Key[c] \subseteq Grants
  BY ApprovalAssumption DEF IInv
<1>2. ASSUME NEW c \in Calls, Reply(c)
      PROVE  IInv'
  <2>1. /\ Open(c) /\ \E a \in {"allow", "deny"} : Resolve(c, a)
        /\ session' \in {session, session \cup Key[c]}
        /\ UNCHANGED <<pc, pending, verdict, project, known, file, reply, removal, removals, crossed>>
    BY <1>2 DEF Reply, busyVars
  <2>2. /\ \A d \in Calls : CallAgrees(d)'
        /\ decision' \in [Calls -> {"none", "allow", "deny"}]
        /\ woken' \in [Calls -> BOOLEAN]
        /\ said' \in [Calls -> {"none", "allow", "deny"}]
    BY <2>1, ResolveStep
  <2> QED
    BY <1>1, <2>1, <2>2 DEF IInv, TypeOK
<1>3. ASSUME UNCHANGED callVars, UNCHANGED session, UNCHANGED <<removal, removals>>,
             project' \subseteq Grants, known' \subseteq Grants, file' \subseteq Grants,
             reply' \in [step : ReplySteps, call : Calls, seen : SUBSET Grants],
             crossed' \in BOOLEAN
      PROVE  IInv'
  BY <1>1, <1>3 DEF IInv, TypeOK, CallAgrees, callVars
<1>4. ASSUME NEW c \in Calls, ReplyForProject(c)
      PROVE  IInv'
  <2>1. reply' \in [step : ReplySteps, call : Calls, seen : SUBSET Grants]
    BY <1>4 DEF ReplyForProject
  <2> QED
    BY <1>1, <1>3, <1>4, <2>1 DEF ReplyForProject, grantVars, TypeOK
<1>5. ASSUME reply.step # "none"
      PROVE  reply \in [step : ReplySteps, call : Calls, seen : SUBSET Grants]
  BY <1>1, <1>5 DEF TypeOK, Nothing
<1>6. CASE ReplyLoads \/ ReplySaves \/ ReplyKnown \/ ReplyShared
  <2>1. /\ reply.call \in Calls /\ reply.seen \subseteq Grants
        /\ reply \in [step : ReplySteps, call : Calls, seen : SUBSET Grants]
    BY <1>5, <1>6 DEF ReplyLoads, ReplySaves, ReplyKnown, ReplyShared
  <2>2. Key[reply.call] \subseteq Grants
    BY <1>1, <2>1
  <2>3. reply' \in [step : ReplySteps, call : Calls, seen : SUBSET Grants]
    <3>1. file \subseteq Grants
      BY <1>1 DEF TypeOK
    <3>2. CASE ReplyLoads
      BY <2>1, <3>1, <3>2 DEF ReplyLoads
    <3>3. CASE ReplySaves \/ ReplyShared
      BY <2>1, <3>3 DEF ReplySaves, ReplyShared
    <3>4. CASE ReplyKnown
      BY <2>1, <2>2, <3>4 DEF ReplyKnown
    <3> QED
      BY <1>6, <3>2, <3>3, <3>4
  <2>4. project' \subseteq Grants /\ known' \subseteq Grants /\ file' \subseteq Grants
    BY <1>1, <1>6, <2>1, <2>2 DEF ReplyLoads, ReplySaves, ReplyKnown, ReplyShared, TypeOK, grantVars
  <2> QED
    BY <1>1, <1>3, <1>6, <2>3, <2>4
       DEF ReplyLoads, ReplySaves, ReplyKnown, ReplyShared, TypeOK, grantVars
<1>7. CASE ReplyResolves
  <2>1. /\ reply.call \in Calls /\ reply' = Nothing /\ crossed' \in BOOLEAN
        /\ UNCHANGED <<pc, pending, verdict, session, project, known, file, removal, removals>>
    BY <1>5, <1>7 DEF ReplyResolves, grantVars
  <2>2. CASE Open(reply.call)
    <3>1. Resolve(reply.call, "allow")
      BY <1>7, <2>2 DEF ReplyResolves
    <3>2. /\ \A d \in Calls : CallAgrees(d)'
          /\ decision' \in [Calls -> {"none", "allow", "deny"}]
          /\ woken' \in [Calls -> BOOLEAN]
          /\ said' \in [Calls -> {"none", "allow", "deny"}]
      BY <2>1, <2>2, <3>1, ResolveStep
    <3> QED
      BY <1>1, <2>1, <3>2 DEF IInv, TypeOK
  <2>3. CASE ~Open(reply.call)
    <3>1. UNCHANGED <<decision, woken, said>>
      BY <1>7, <2>3 DEF ReplyResolves
    <3> QED
      BY <1>1, <2>1, <3>1 DEF IInv, TypeOK, CallAgrees
  <2> QED
    BY <2>2, <2>3
<1> QED
  BY <1>2, <1>4, <1>6, <1>7 DEF Person, ReplyGoesOn

LEMMA OtherSteps ==
    ASSUME IInv, CancelAll \/ ClearGrants \/ RemovalLoads \/ RemovalGoesOn
    PROVE  IInv'
<1>1. TypeOK /\ \A c \in Calls : CallAgrees(c)
  BY DEF IInv
<1>2. CASE CancelAll
  <2>1. /\ UNCHANGED <<pc, pending, verdict, said>> /\ UNCHANGED grantVars /\ UNCHANGED busyVars
        /\ \A c \in Calls : /\ decision'[c] = IF Open(c) THEN "deny" ELSE decision[c]
                            /\ woken'[c] <=> Open(c) \/ woken[c]
    BY <1>2 DEF CancelAll
  <2>2. /\ decision' \in [Calls -> {"none", "allow", "deny"}]
        /\ woken' \in [Calls -> BOOLEAN]
    BY <1>1, <1>2 DEF CancelAll, TypeOK
  <2>3. \A c \in Calls : CallAgrees(c)'
    BY <1>1, <2>1 DEF CallAgrees, Open
  <2> QED
    BY <1>1, <2>1, <2>2, <2>3 DEF IInv, TypeOK, grantVars, busyVars
<1>3. ASSUME UNCHANGED callVars, UNCHANGED <<reply>>,
             session' \subseteq Grants, project' \subseteq Grants,
             known' \subseteq Grants, file' \subseteq Grants,
             \/ removal' = Nothing
             \/ removal' \in [step : RemovalSteps, grant : Grants, seen : SUBSET Grants],
             removals' \in 0 .. MaxRemovals, crossed' \in BOOLEAN
      PROVE  IInv'
  BY <1>1, <1>3 DEF IInv, TypeOK, CallAgrees, callVars
<1>4. CASE ClearGrants
  BY <1>1, <1>3, <1>4 DEF ClearGrants, TypeOK, busyVars
<1>5. CASE RemovalLoads
  <2>1. removal' \in [step : RemovalSteps, grant : Grants, seen : SUBSET Grants]
    BY <1>1, <1>5 DEF RemovalLoads, TypeOK
  <2>2. removals' \in 0 .. MaxRemovals
    BY <1>1, <1>5, ApprovalAssumption DEF RemovalLoads, TypeOK
  <2> QED
    BY <1>1, <1>3, <1>5, <2>1, <2>2 DEF RemovalLoads, TypeOK, grantVars
<1>6. CASE RemovalGoesOn
  <2>1. removal \in [step : RemovalSteps, grant : Grants, seen : SUBSET Grants]
    BY <1>1, <1>6 DEF RemovalGoesOn, RemovalSaves, RemovalFails, RemovalKnown, RemovalShared,
                      TypeOK, Nothing
  <2>2. \/ removal' = Nothing
        \/ removal' \in [step : RemovalSteps, grant : Grants, seen : SUBSET Grants]
    BY <1>6, <2>1 DEF RemovalGoesOn, RemovalSaves, RemovalFails, RemovalKnown, RemovalShared
  <2>3. /\ session' \subseteq Grants /\ project' \subseteq Grants
        /\ known' \subseteq Grants /\ file' \subseteq Grants
    BY <1>1, <1>6, <2>1, ApprovalAssumption
       DEF RemovalGoesOn, RemovalSaves, RemovalFails, RemovalKnown, RemovalShared, TypeOK, grantVars
  <2> QED
    BY <1>1, <1>3, <1>6, <2>2, <2>3
       DEF RemovalGoesOn, RemovalSaves, RemovalFails, RemovalKnown, RemovalShared, TypeOK, grantVars
<1> QED
  BY <1>2, <1>4, <1>5, <1>6

LEMMA InitIInv == Init => IInv
<1> SUFFICES ASSUME Init PROVE IInv
  OBVIOUS
<1>1. \A c \in Calls : CallAgrees(c)
  BY DEF Init, CallAgrees
<1>2. 0 \in 0 .. MaxRemovals
  BY ApprovalAssumption
<1>3. TypeOK
  BY <1>2, ApprovalAssumption DEF Init, TypeOK
<1> QED
  BY <1>1, <1>3 DEF IInv

LEMMA NextStep == IInv /\ [Next]_vars => IInv'
<1> SUFFICES ASSUME IInv, [Next]_vars PROVE IInv'
  OBVIOUS
<1>1. CASE UNCHANGED vars
  BY <1>1 DEF vars, callVars, grantVars, busyVars, IInv, TypeOK, CallAgrees
<1>2. CASE Next
  BY <1>2, CallSteps, ReplyingSteps, OtherSteps DEF Next
<1> QED
  BY <1>1, <1>2

\* Whatever the order of replies, timeouts, stops and removals, the records of
\* the broker agree with the threads that wait.
THEOREM Inductive == Spec => []IInv
BY InitIInv, NextStep, PTL DEF Spec

\* The broker's and the host's records have their types; a call that is over
\* has a verdict, and only such a call.
THEOREM Typing == Spec => []TypeOK
<1>1. IInv => TypeOK
  BY DEF IInv
<1> QED
  BY <1>1, Inductive, PTL

\* A call is allowed by an accepted reply only, and an accepted reply is never
\* overruled by the timeout or a stop (request_interaction, resolve,
\* cancel_all).
THEOREM RepliesDecide == Spec => []ReplyDecides
<1>1. IInv => ReplyDecides
  BY DEF IInv, CallAgrees, ReplyDecides
<1> QED
  BY <1>1, Inductive, PTL

\* No decision is made without waking the thread that waits for it.
THEOREM DecisionsWake == Spec => []DecisionWakes
<1>1. IInv => DecisionWakes
  BY DEF IInv, CallAgrees, DecisionWakes
<1> QED
  BY <1>1, Inductive, PTL

\* pending() lists all that waits for a reply, and nothing that is over.
THEOREM WaitingIsListed == Spec => []ListsWhatWaits
<1>1. IInv => ListsWhatWaits
  BY DEF IInv, CallAgrees, ListsWhatWaits, Open
<1> QED
  BY <1>1, Inductive, PTL

\* At most one reply to an approval id is accepted (resolve's first test).
THEOREM RepliesAreSingle == Spec => SingleUse
<1>1. IInv /\ [Next]_vars => [\A c \in Calls : said[c] # "none" => said'[c] = said[c]]_vars
  <2> SUFFICES ASSUME IInv, Next
               PROVE  \A c \in Calls : said[c] # "none" => said'[c] = said[c]
    OBVIOUS
  <2>1. ASSUME NEW d, NEW a, Open(d), Resolve(d, a)
        PROVE  \A c \in Calls : said[c] # "none" => said'[c] = said[c]
    BY <2>1 DEF IInv, TypeOK, CallAgrees, Open, Resolve
  <2>2. CASE Person \/ ReplyResolves
    BY <2>1, <2>2 DEF Person, Reply, ReplyForProject, ReplyResolves, callVars
  <2>3. CASE UNCHANGED said
    BY <2>3
  <2>4. (\E c \in Calls : CallStep(c)) \/ CancelAll \/ ClearGrants \/ RemovalLoads
        \/ RemovalGoesOn \/ ReplyLoads \/ ReplySaves \/ ReplyKnown \/ ReplyShared
        => UNCHANGED said
    BY DEF CallStep, Ask, Review, Register, Publish, Wake, TimeOut, DecideLate, Leave,
           CancelAll, ClearGrants, RemovalLoads, RemovalGoesOn, RemovalSaves, RemovalFails,
           RemovalKnown, RemovalShared, ReplyLoads, ReplySaves, ReplyKnown, ReplyShared, callVars
  <2> QED
    BY <2>2, <2>3, <2>4 DEF Next, ReplyGoesOn
<1> QED
  BY <1>1, Inductive, PTL DEF Spec, SingleUse

-----------------------------------------------------------------------------
(* The grants.                                                              *)

Agreed == project = known /\ known = Configured \cup file

\* What a reply or a removal under way has done so far, while none of them
\* overlapped: the file first, then the host, then the brokers.
GrantsOnTheWay ==
    ~crossed =>
        /\ reply = Nothing \/ removal = Nothing
        /\ reply = Nothing /\ removal = Nothing => Agreed
        /\ reply # Nothing =>
             /\ reply.step \in {"found", "loaded", "shared"} => Agreed
             /\ reply.step = "loaded" => reply.seen = file
             /\ reply.step = "saved" => /\ project = known
                                        /\ known \cup Key[reply.call] = Configured \cup file
             /\ reply.step = "known" => /\ known = Configured \cup file
                                        /\ project \cup reply.seen = known
        /\ removal # Nothing =>
             /\ removal.step = "loaded" => Agreed /\ removal.seen = file
             /\ removal.step = "known" => known = Configured \cup file

LEMMA ReplyTypes ==
    ASSUME TypeOK
    PROVE  /\ reply # Nothing => /\ reply \in [step : ReplySteps, call : Calls, seen : SUBSET Grants]
                                 /\ reply.step \in ReplySteps
           /\ removal # Nothing => /\ removal \in [step : RemovalSteps, grant : Grants, seen : SUBSET Grants]
                                   /\ removal.step \in RemovalSteps
           /\ reply.step \in ReplySteps => reply # Nothing
           /\ removal.step \in RemovalSteps => removal # Nothing
BY DEF TypeOK, Nothing

LEMMA ReplyGrants ==
    ASSUME IInv, GrantsOnTheWay,
           ReplyGoesOn \/ (\E c \in Calls : ReplyForProject(c))
    PROVE  GrantsOnTheWay'
<1>1. TypeOK /\ removal' = removal
  BY DEF IInv, ReplyGoesOn, ReplyForProject, ReplyLoads, ReplySaves, ReplyKnown, ReplyShared, ReplyResolves
<1>2. CASE \E c \in Calls : ReplyForProject(c)
  <2>1. PICK c \in Calls : /\ reply = Nothing
                           /\ reply' = [step |-> "found", call |-> c, seen |-> {}]
                           /\ crossed' = (crossed \/ removal # Nothing)
                           /\ UNCHANGED <<project, known, file>>
    BY <1>2 DEF ReplyForProject, grantVars
  <2>2. reply' # Nothing /\ reply'.step = "found"
    BY <2>1 DEF Nothing
  <2> QED
    BY <1>1, <2>1, <2>2 DEF GrantsOnTheWay, Agreed
<1>3. CASE ReplyLoads
  <2>1. /\ reply # Nothing /\ reply.step = "found" /\ reply' # Nothing
        /\ reply'.step = "loaded" /\ reply'.seen = file
        /\ UNCHANGED <<project, known, file, crossed>>
    BY <1>1, <1>3, ReplyTypes DEF ReplyLoads, grantVars, Nothing
  <2> QED
    BY <1>1, <2>1 DEF GrantsOnTheWay, Agreed
<1>4. CASE ReplySaves
  <2>1. /\ reply # Nothing /\ reply.step = "loaded" /\ reply' # Nothing
        /\ reply'.step = "saved" /\ reply'.call = reply.call
        /\ file' = reply.seen \cup Key[reply.call]
        /\ UNCHANGED <<project, known, crossed>>
    BY <1>1, <1>4, ReplyTypes DEF ReplySaves, Nothing
  <2> QED
    BY <1>1, <2>1 DEF GrantsOnTheWay, Agreed
<1>5. CASE ReplyKnown
  <2>1. /\ reply # Nothing /\ reply.step = "saved" /\ reply' # Nothing
        /\ reply'.step = "known" /\ reply'.seen = Key[reply.call] \ known
        /\ known' = known \cup Key[reply.call]
        /\ UNCHANGED <<project, file, crossed>>
    BY <1>1, <1>5, ReplyTypes DEF ReplyKnown, Nothing
  <2> QED
    BY <1>1, <2>1 DEF GrantsOnTheWay, Agreed
<1>6. CASE ReplyShared
  <2>1. /\ reply # Nothing /\ reply.step = "known" /\ reply' # Nothing
        /\ reply'.step = "shared" /\ project' = project \cup reply.seen
        /\ UNCHANGED <<known, file, crossed>>
    BY <1>1, <1>6, ReplyTypes DEF ReplyShared, Nothing
  <2> QED
    BY <1>1, <2>1 DEF GrantsOnTheWay, Agreed
<1>7. CASE ReplyResolves
  <2>1. /\ reply # Nothing /\ reply.step \in {"found", "loaded", "saved", "shared"}
        /\ reply' = Nothing /\ crossed' = (crossed \/ reply.step = "saved")
        /\ UNCHANGED <<project, known, file>>
    BY <1>1, <1>7, ReplyTypes DEF ReplyResolves, Nothing, grantVars
  <2> QED
    BY <1>1, <2>1 DEF GrantsOnTheWay, Agreed
<1> QED
  BY <1>2, <1>3, <1>4, <1>5, <1>6, <1>7 DEF ReplyGoesOn

LEMMA RemovalGrants ==
    ASSUME IInv, GrantsOnTheWay, RemovalLoads \/ RemovalGoesOn
    PROVE  GrantsOnTheWay'
<1>1. TypeOK /\ reply' = reply
  BY DEF IInv, RemovalLoads, RemovalGoesOn, RemovalSaves, RemovalFails, RemovalKnown, RemovalShared
<1>2. CASE RemovalLoads
  <2>1. /\ removal = Nothing /\ removal' # Nothing
        /\ removal'.step = "loaded" /\ removal'.seen = file
        /\ crossed' = (crossed \/ reply # Nothing)
        /\ UNCHANGED <<project, known, file>>
    BY <1>2 DEF RemovalLoads, Nothing, grantVars
  <2> QED
    BY <1>1, <2>1 DEF GrantsOnTheWay, Agreed
<1>3. CASE RemovalSaves
  <2>1. /\ removal # Nothing /\ removal' # Nothing /\ removal'.step = "saved" /\ UNCHANGED crossed
    BY <1>1, <1>3, ReplyTypes DEF RemovalSaves, Nothing
  <2> QED
    BY <1>1, <2>1 DEF GrantsOnTheWay
<1>4. CASE RemovalFails
  <2>1. /\ removal # Nothing /\ removal.step \in {"loaded", "saved"} /\ removal' = Nothing
        /\ crossed' = (crossed \/ removal.step = "saved")
        /\ UNCHANGED <<project, known, file>>
    BY <1>1, <1>4, ReplyTypes DEF RemovalFails, grantVars
  <2> QED
    BY <1>1, <2>1 DEF GrantsOnTheWay, Agreed
<1>5. CASE RemovalKnown
  <2>1. /\ removal # Nothing /\ removal' # Nothing /\ removal'.step = "known"
        /\ known' = Configured \cup file /\ UNCHANGED <<file, crossed>>
    BY <1>1, <1>5, ReplyTypes DEF RemovalKnown, Nothing
  <2> QED
    BY <1>1, <2>1 DEF GrantsOnTheWay
<1>6. CASE RemovalShared
  <2>1. /\ removal # Nothing /\ removal.step = "known" /\ removal' = Nothing
        /\ project' = known /\ UNCHANGED <<known, file, crossed>>
    BY <1>1, <1>6, ReplyTypes DEF RemovalShared
  <2> QED
    BY <1>1, <2>1 DEF GrantsOnTheWay, Agreed
<1> QED
  BY <1>2, <1>3, <1>4, <1>5, <1>6 DEF RemovalGoesOn

\* Replies remembered for the project and removals leave the file, the host
\* and the brokers with the same grants (resolve_approval,
\* remove_project_permission_grant), unless they overlapped or the file could
\* not be read again.
THEOREM GrantsComeToAgree == Spec => []GrantsAgree
<1>1. Init => GrantsOnTheWay
  BY DEF Init, GrantsOnTheWay, Agreed
<1>2. IInv /\ GrantsOnTheWay /\ [Next]_vars => GrantsOnTheWay'
  <2> SUFFICES ASSUME IInv, GrantsOnTheWay, [Next]_vars PROVE GrantsOnTheWay'
    OBVIOUS
  <2>1. CASE UNCHANGED <<project, known, file, reply, removal, crossed>>
    BY <2>1 DEF GrantsOnTheWay, Agreed
  <2>2. (\E c \in Calls : CallStep(c) \/ Reply(c)) \/ CancelAll \/ ClearGrants \/ UNCHANGED vars
        => UNCHANGED <<project, known, file, reply, removal, crossed>>
    BY DEF CallStep, Ask, Review, Register, Publish, Wake, TimeOut, DecideLate, Leave, Reply,
           CancelAll, ClearGrants, vars, grantVars, busyVars
  <2> QED
    BY <2>1, <2>2, ReplyGrants, RemovalGrants DEF Next, Person
<1>3. GrantsOnTheWay => GrantsAgree
  BY DEF GrantsOnTheWay, GrantsAgree, Agreed
<1> QED
  BY <1>1, <1>2, <1>3, Inductive, PTL DEF Spec
=============================================================================
