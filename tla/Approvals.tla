----------------------------- MODULE Approvals -----------------------------
(***************************************************************************)
(* Approvals of one conversation (symphonai_host/approvals.py) and the     *)
(* project's permission grants (run.py): tool calls ask from threads of    *)
(* their own and block; a person replies, a timeout or a stop decides.     *)
(*                                                                         *)
(* A step of a call is what its thread does under the broker's lock, or    *)
(* between two uses of it.  resolve_approval holds host._lock throughout,  *)
(* so replies exclude one another, but no broker's lock from one broker    *)
(* call to the next.  Removing a grant holds neither.                      *)
(***************************************************************************)
EXTENDS Naturals, FiniteSets

CONSTANTS
    Calls,        \* requests, each with an approval id of its own
    Grants,       \* shell prefixes and fetch hosts
    Key,          \* what a reply to each of them may grant, {} for nothing
    Writing,      \* shell calls that write: no grant covers them
    Questions,    \* ask_user and plan proposals: always put to the person
    Configured,   \* grants of the configuration, which stay
    Stored,       \* grants in the project's file to begin with
    MaxRemovals   \* bound: removals of a grant

ASSUME ApprovalAssumption ==
    /\ Key \in [Calls -> SUBSET Grants]
    /\ Writing \subseteq Calls /\ Questions \subseteq Calls
    /\ \A c \in Questions : Key[c] = {}
    /\ Configured \subseteq Grants /\ Stored \subseteq Grants
    /\ MaxRemovals \in Nat

VARIABLES
    pc,        \* where the thread of each call is
    pending,   \* broker._pending
    decision,  \* _Pending.decision
    woken,     \* _Pending.event is set
    verdict,   \* what the callback returns to the tool
    said,      \* history: the reply that resolve accepted
    session,   \* broker._granted_*: remembered for the conversation
    project,   \* broker._project_*
    known,     \* host._project_*_grants
    file,      \* permissions file of the project
    reply,     \* a reply that is remembered for the project, under way
    removal,   \* a removal under way
    removals,
    crossed    \* history: a removal overlapped such a reply, or one of them
               \* could not read the file it had just written

callVars == <<pc, pending, decision, woken, verdict, said>>
grantVars == <<session, project, known, file>>
busyVars == <<reply, removal, removals, crossed>>
vars == <<callVars, grantVars, busyVars>>

Nothing == [step |-> "none"]
ReplySteps == {"found", "loaded", "saved", "known", "shared"}
RemovalSteps == {"loaded", "saved", "known"}
Blocked == {"publishing", "waiting", "late", "leaving"}

Init ==
    /\ pc = [c \in Calls |-> "ready"]
    /\ pending = {}
    /\ decision = [c \in Calls |-> "none"]
    /\ woken = [c \in Calls |-> FALSE]
    /\ verdict = [c \in Calls |-> "none"]
    /\ said = [c \in Calls |-> "none"]
    /\ session = {}
    /\ project = Configured \cup Stored /\ known = Configured \cup Stored
    /\ file = Stored
    /\ reply = Nothing /\ removal = Nothing
    /\ removals = 0 /\ crossed = FALSE

-----------------------------------------------------------------------------
(* The thread of a call: callback, request_interaction, ask_user.           *)

Covered(c) == c \notin Writing /\ Key[c] # {} /\ Key[c] \subseteq session \cup project

\* A call that is covered needs no reply; a question goes to the person.
Ask(c) ==
    /\ pc[c] = "ready"
    /\ IF c \in Questions THEN pc' = [pc EXCEPT ![c] = "asking"] /\ UNCHANGED verdict
       ELSE IF Covered(c) THEN pc' = [pc EXCEPT ![c] = "answered"]
                               /\ verdict' = [verdict EXCEPT ![c] = "granted"]
       ELSE pc' = [pc EXCEPT ![c] = "reviewing"] /\ UNCHANGED verdict
    /\ UNCHANGED <<pending, decision, woken, said, grantVars, busyVars>>

\* The automatic reviewer decides, or leaves it to the person.
Review(c) ==
    /\ pc[c] = "reviewing"
    /\ \/ pc' = [pc EXCEPT ![c] = "answered"] /\ verdict' = [verdict EXCEPT ![c] = "reviewed"]
       \/ pc' = [pc EXCEPT ![c] = "asking"] /\ UNCHANGED verdict
    /\ UNCHANGED <<pending, decision, woken, said, grantVars, busyVars>>

Register(c) ==
    /\ pc[c] = "asking"
    /\ pc' = [pc EXCEPT ![c] = "publishing"]
    /\ pending' = pending \cup {c}
    /\ UNCHANGED <<decision, woken, verdict, said, grantVars, busyVars>>

\* Without a client the call is denied.
Publish(c) ==
    /\ pc[c] = "publishing"
    /\ \/ pc' = [pc EXCEPT ![c] = "waiting"] /\ UNCHANGED verdict
       \/ pc' = [pc EXCEPT ![c] = "leaving"] /\ verdict' = [verdict EXCEPT ![c] = "no_client"]
    /\ UNCHANGED <<pending, decision, woken, said, grantVars, busyVars>>

Wake(c) ==
    /\ pc[c] = "waiting" /\ woken[c]
    /\ pc' = [pc EXCEPT ![c] = "leaving"]
    /\ verdict' = [verdict EXCEPT ![c] = decision[c]]
    /\ UNCHANGED <<pending, decision, woken, said, grantVars, busyVars>>

\* The wait is over; the lock is yet to be taken.
TimeOut(c) ==
    /\ pc[c] = "waiting" /\ ~woken[c]
    /\ pc' = [pc EXCEPT ![c] = "late"]
    /\ UNCHANGED <<pending, decision, woken, verdict, said, grantVars, busyVars>>

\* Mutants: what was decided in the meantime is overwritten; the wait starts
\* again.
DecideLateAlways(c) ==
    /\ pc[c] = "late"
    /\ pc' = [pc EXCEPT ![c] = "leaving"]
    /\ decision' = [decision EXCEPT ![c] = "deny"]
    /\ verdict' = [verdict EXCEPT ![c] = "deny"]
    /\ UNCHANGED <<pending, woken, said, grantVars, busyVars>>
DecideLateAgain(c) ==
    /\ pc[c] = "late"
    /\ pc' = [pc EXCEPT ![c] = "waiting"]
    /\ UNCHANGED <<pending, decision, woken, verdict, said, grantVars, busyVars>>

DecideLate(c) ==
    /\ pc[c] = "late"
    /\ pc' = [pc EXCEPT ![c] = "leaving"]
    /\ decision' = [decision EXCEPT ![c] = IF @ = "none" THEN "deny" ELSE @]
    /\ verdict' = [verdict EXCEPT ![c] = decision'[c]]
    /\ UNCHANGED <<pending, woken, said, grantVars, busyVars>>

\* Mutant: only a call that nobody answered is taken off the list.
LeaveUnanswered(c) ==
    /\ pc[c] = "leaving"
    /\ pc' = [pc EXCEPT ![c] = "answered"]
    /\ pending' = IF decision[c] = "none" THEN pending \ {c} ELSE pending
    /\ UNCHANGED <<decision, woken, verdict, said, grantVars, busyVars>>

Leave(c) ==
    /\ pc[c] = "leaving"
    /\ pc' = [pc EXCEPT ![c] = "answered"]
    /\ pending' = pending \ {c}
    /\ UNCHANGED <<decision, woken, verdict, said, grantVars, busyVars>>

-----------------------------------------------------------------------------
(* Replies and stops.                                                       *)

\* resolve and pending_grant refuse any other call.
Open(c) == c \in pending /\ decision[c] = "none"

\* resolve, of an open call.
Resolve(c, answer) ==
    /\ decision' = [decision EXCEPT ![c] = answer]
    /\ woken' = [woken EXCEPT ![c] = TRUE]
    /\ said' = [said EXCEPT ![c] = answer]

\* A reply for this call only, or remembered for the conversation.
Reply(c) ==
    /\ reply = Nothing
    /\ Open(c)
    /\ \/ Resolve(c, "deny") /\ UNCHANGED session
       \/ Resolve(c, "allow") /\ UNCHANGED session
       \/ Resolve(c, "allow") /\ session' = session \cup Key[c]
    /\ UNCHANGED <<pc, pending, verdict, project, known, file, busyVars>>

\* A stop, a cancelled or resumed loop, the end of the host.
CancelAll ==
    /\ decision' = [c \in Calls |-> IF Open(c) THEN "deny" ELSE decision[c]]
    /\ woken' = [c \in Calls |-> Open(c) \/ woken[c]]
    /\ UNCHANGED <<pc, pending, verdict, said, grantVars, busyVars>>

\* The end of the conversation.
ClearGrants ==
    /\ reply = Nothing
    /\ session' = {}
    /\ UNCHANGED <<callVars, project, known, file, busyVars>>

-----------------------------------------------------------------------------
(* A reply remembered for the project: resolve_approval.                    *)

ReplyForProject(c) ==
    /\ reply = Nothing
    /\ Open(c) /\ Key[c] # {}
    /\ reply' = [step |-> "found", call |-> c, seen |-> {}]
    /\ crossed' = (crossed \/ removal # Nothing)
    /\ UNCHANGED <<callVars, grantVars, removal, removals>>

ReplyLoads ==
    /\ reply.step = "found"
    /\ reply' = [reply EXCEPT !.step = "loaded", !.seen = file]
    /\ UNCHANGED <<callVars, grantVars, removal, removals, crossed>>

ReplySaves ==
    /\ reply.step = "loaded"
    /\ reply' = [reply EXCEPT !.step = "saved"]
    /\ file' = reply.seen \cup Key[reply.call]
    /\ UNCHANGED <<callVars, session, project, known, removal, removals, crossed>>

\* Mutant: the grant is not made known before the reply.
ReplyForgets ==
    /\ reply.step = "saved"
    /\ reply' = [reply EXCEPT !.step = "known"]
    /\ UNCHANGED <<callVars, grantVars, removal, removals, crossed>>

\* host._project_*_grants; what the ceiling of the configuration restricts is
\* left out.
ReplyKnown ==
    /\ reply.step = "saved"
    /\ known' = known \cup Key[reply.call]
    /\ reply' = [reply EXCEPT !.step = "known", !.seen = Key[reply.call] \ known]
    /\ UNCHANGED <<callVars, session, project, file, removal, removals, crossed>>

ReplyShared ==
    /\ reply.step = "known"
    /\ project' = project \cup reply.seen
    /\ reply' = [reply EXCEPT !.step = "shared"]
    /\ UNCHANGED <<callVars, session, known, file, removal, removals, crossed>>

\* The call is allowed at last, unless it was decided meanwhile; so too when
\* the file could not be read, written or read again.
ReplyResolves ==
    /\ reply.step \in {"found", "loaded", "saved", "shared"}
    /\ reply' = Nothing
    /\ crossed' = (crossed \/ reply.step = "saved")
    /\ IF Open(reply.call) THEN Resolve(reply.call, "allow")
                           ELSE UNCHANGED <<decision, woken, said>>
    /\ UNCHANGED <<pc, pending, verdict, grantVars, removal, removals>>

-----------------------------------------------------------------------------
(* Removing a grant of the project: remove_project_permission_grant.        *)

\* The file is read; a grant that it lacks is not removed.
RemovalLoads ==
    /\ removal = Nothing /\ removals < MaxRemovals
    /\ \E g \in file : removal' = [step |-> "loaded", grant |-> g, seen |-> file]
    /\ removals' = removals + 1
    /\ crossed' = (crossed \/ reply # Nothing)
    /\ UNCHANGED <<callVars, grantVars, reply>>

\* Mutant: the grant stays in the memory of the host.
RemovalSavesOnly ==
    /\ removal.step = "loaded"
    /\ file' = removal.seen \ {removal.grant}
    /\ removal' = Nothing
    /\ UNCHANGED <<callVars, session, project, known, reply, removals, crossed>>

RemovalSaves ==
    /\ removal.step = "loaded"
    /\ file' = removal.seen \ {removal.grant}
    /\ removal' = [removal EXCEPT !.step = "saved"]
    /\ UNCHANGED <<callVars, session, project, known, reply, removals, crossed>>

\* The file cannot be written, or not be read again.
RemovalFails ==
    /\ removal.step \in {"loaded", "saved"}
    /\ removal' = Nothing
    /\ crossed' = (crossed \/ removal.step = "saved")
    /\ UNCHANGED <<callVars, grantVars, reply, removals>>

RemovalKnown ==
    /\ removal.step = "saved"
    /\ known' = Configured \cup file
    /\ removal' = [removal EXCEPT !.step = "known"]
    /\ UNCHANGED <<callVars, session, project, file, reply, removals, crossed>>

RemovalShared ==
    /\ removal.step = "known"
    /\ project' = known
    /\ removal' = Nothing
    /\ UNCHANGED <<callVars, session, known, file, reply, removals, crossed>>

-----------------------------------------------------------------------------
CallStep(c) == Ask(c) \/ Review(c) \/ Register(c) \/ Publish(c)
               \/ Wake(c) \/ TimeOut(c) \/ DecideLate(c) \/ Leave(c)
Person == \E c \in Calls : Reply(c) \/ ReplyForProject(c)
ReplyGoesOn == ReplyLoads \/ ReplySaves \/ ReplyKnown \/ ReplyShared \/ ReplyResolves
RemovalGoesOn == RemovalSaves \/ RemovalFails \/ RemovalKnown \/ RemovalShared

Next == \/ \E c \in Calls : CallStep(c)
        \/ Person \/ CancelAll \/ ClearGrants
        \/ ReplyGoesOn \/ RemovalLoads \/ RemovalGoesOn

\* Threads run; a wait ends at its timeout.  Nothing is assumed of the person.
Fairness == \A c \in Calls : WF_vars(CallStep(c))

Spec == Init /\ [][Next]_vars
FairSpec == Spec /\ Fairness

-----------------------------------------------------------------------------
TypeOK ==
    /\ pc \in [Calls -> {"ready", "reviewing", "asking", "answered"} \cup Blocked]
    /\ pending \subseteq Calls
    /\ decision \in [Calls -> {"none", "allow", "deny"}]
    /\ woken \in [Calls -> BOOLEAN]
    /\ verdict \in [Calls -> {"none", "granted", "reviewed", "no_client", "allow", "deny"}]
    /\ said \in [Calls -> {"none", "allow", "deny"}]
    /\ \A c \in Calls : verdict[c] = "none" <=> pc[c] \notin {"leaving", "answered"}
    /\ session \subseteq Grants /\ project \subseteq Grants /\ known \subseteq Grants
    /\ file \subseteq Grants
    /\ \/ reply = Nothing
       \/ reply \in [step : ReplySteps, call : Calls, seen : SUBSET Grants]
    /\ \/ removal = Nothing
       \/ removal \in [step : RemovalSteps, grant : Grants, seen : SUBSET Grants]
    /\ removals \in 0 .. MaxRemovals
    /\ crossed \in BOOLEAN

\* However a reply races the timeout and a stop: a call whose waiting ended is
\* allowed only by a reply that was accepted, and no accepted reply is
\* overruled.
ReplyDecides ==
    \A c \in Calls : verdict[c] \in {"allow", "deny"} =>
        /\ verdict[c] = "allow" => said[c] = "allow"
        /\ said[c] # "none" => verdict[c] = said[c]

\* "An approval id is single-use" (PROTOCOL.md:174), for replies of every kind.
SingleUse == [][\A c \in Calls : said[c] # "none" => said'[c] = said[c]]_vars

\* Whoever decides a call wakes the thread that waits for it.
DecisionWakes == \A c \in Calls : pc[c] = "waiting" /\ decision[c] # "none" => woken[c]

\* GET /approvals shows every call that still waits for a reply, and no call
\* stays listed that has got its answer.
ListsWhatWaits ==
    \A c \in Calls : /\ pc[c] = "waiting" /\ decision[c] = "none" => Open(c)
                     /\ c \in pending => pc[c] \in Blocked

\* Between requests the broker, the host and the file agree about the grants
\* of the project, if no removal overlapped a reply and the file could be read
\* again once it was written.
GrantsAgree ==
    reply = Nothing /\ removal = Nothing /\ ~crossed =>
        project = known /\ known = Configured \cup file

\* Every call gets an answer, whether anybody replies or not.
EveryCallAnswered == \A c \in Calls : (pc[c] # "ready") ~> (pc[c] = "answered")
=============================================================================
