------------------------------ MODULE SpecLoop ------------------------------
(***************************************************************************)
(* The spec loop of the host (symphonai_host/spec_loop.py, run.py): a plan *)
(* of cards, executed in lanes by implementer conversations, reviewed,     *)
(* integrated into the loop branch, validated together and committed.      *)
(*                                                                         *)
(* A step is what one thread does while it holds host._lock.  Where the    *)
(* code lets the lock go in the middle of an operation (the end of a turn, *)
(* the planner's callback, cancelling, validation) the operation is        *)
(* several steps, and other threads run between them.                      *)
(*                                                                         *)
(* lstate, stage, st, cause and the existence of follow-ups are loop.json; *)
(* rv is the "review" entry of the implementer session's meta.json; im,    *)
(* pl, val, cl, stale and others live in the process and die with it.      *)
(***************************************************************************)
EXTENDS Integers, FiniteSets

CONSTANTS
    Plan,         \* positions of the cards of plan.json, in list order
    Lane,         \* card.lane of each of them
    After,        \* card.after of each of them
    FollowUps,    \* follow-up rounds a review may ask for (2 in the code)
    MaxRounds,    \* Goal.max_rounds of an implementer (5 in the code)
    MaxActive,    \* MAX_ACTIVE_CONVERSATIONS (4 in the code)
    MaxOthers,    \* bound: conversations of the person or of another loop
    MaxRestarts   \* bound: restarts of the host

ASSUME PlanAssumption ==
    /\ Plan \subseteq Nat /\ IsFiniteSet(Plan) /\ Plan # {}
    /\ Lane \in [Plan -> Nat]
    /\ After \in [Plan -> SUBSET Plan]
    /\ \E depth \in [Plan -> Plan] : \A c \in Plan : \A d \in After[c] : depth[d] < depth[c]

ASSUME BoundAssumption ==
    /\ FollowUps \in Nat
    /\ MaxRounds \in Nat \ {0}
    /\ MaxActive \in Nat \ {0}
    /\ MaxOthers \in Nat
    /\ MaxRestarts \in Nat

VARIABLES
    lstate,    \* Loop.state
    stage,     \* Loop.failure_stage, as far as resume_loop reads it
    st,        \* Card.state, "absent" for a follow-up not in Loop.cards
    cause,     \* Card.failure is set
    im,        \* the implementer conversation of Card.session_id
    round,     \* Goal.rounds of that conversation
    rv,        \* the review of that conversation
    merged,    \* cards whose patch is committed on the loop branch
    pl,        \* the planner conversation and its callback
    val,       \* the validation thread registered for the loop
    cl,        \* a cancel_loop call between its two locked parts
    branch,    \* the git branch of the loop exists (and Loop.branch names it)
    stale,     \* active reviews of sessions their card has given up
    others,    \* active conversations that are not the loop's
    restarts

cardVars == <<st, cause, im, round, rv>>
hostVars == <<pl, val, cl, stale, others, restarts>>
vars == <<lstate, stage, merged, branch, cardVars, hostVars>>

-----------------------------------------------------------------------------
LoopStates == {"planning", "awaiting_plan", "running", "validating",
               "awaiting_commit", "needs_attention", "done", "cancelled"}
Terminal == {"done", "cancelled"}
CardStates == {"planned", "running", "review", "done", "failed", "dropped"}

\* <<c, 0>> is card c of the plan, <<c, 1>> its follow-up "cF", <<c, 2>> "cF2".
Cards == Plan \X (0 .. FollowUps)
FollowUp(x) == <<x[1], x[2] + 1>>
LaneOf(x) == Lane[x[1]]

\* A plan card waits for the cards plan.json names, a follow-up for the card
\* whose review asked for it.
AfterOf(x) == IF x[2] = 0 THEN {<<d, 0>> : d \in After[x[1]]} ELSE {<<x[1], x[2] - 1>>}

Has(s, x) == x \in Cards /\ s[x] # "absent"

\* The cards in list order: the plan's, then follow-ups as reviews append them.
\* The model leaves the order of two follow-ups open.
Before(x, y) == x[2] = 0 /\ (y[2] > 0 \/ x[1] < y[1])
Initial(T, S) == T \subseteq S /\ \A x \in S, y \in T : Before(x, y) => x \in T

Live == {"turn", "blocked", "popped", "check"}

\* len(host._active_by_session): o conversations beside those of the cards.
ActiveIn(i, r, o) == o + Cardinality({x \in Cards : i[x] \in {"turn", "blocked"}})
                       + Cardinality({x \in Cards : r[x] = "active"})
NotCards == others + stale + (IF pl = "active" THEN 1 ELSE 0)
Active == ActiveIn(im, rv, NotCards)

\* Mutant: the follow-ups of a dependency are not waited for.
DependencyDoneShallow(s, x, asking) == s[x] \in {"done", "failed"}

\* A card is settled when it is done, or failed and replaced by a follow-up; a
\* dependency is done when it and every follow-up down its chain are settled,
\* the chain being cut at the card that asks.
Settled(s, x) == s[x] = "done" \/ (s[x] = "failed" /\ Has(s, FollowUp(x)))
DependencyDone(s, x, asking) ==
    \A n \in x[2] .. FollowUps :
        (\A m \in (x[2] + 1) .. n : Has(s, <<x[1], m>>) /\ <<x[1], m>> # asking)
            => Settled(s, <<x[1], n>>)

Ready(s, x) == s[x] = "planned" /\ \A d \in AfterOf(x) : DependencyDone(s, d, x)
Nobody == <<>>
\* Mutant: cards that were never started count as finished.
AllDoneStarted(s) == LET kept == {x \in Cards : Has(s, x) /\ s[x] \notin {"dropped", "planned"}}
                     IN  kept # {} /\ \A x \in kept : DependencyDone(s, x, Nobody)
AllDone(s) == LET kept == {x \in Cards : Has(s, x) /\ s[x] # "dropped"}
              IN  kept # {} /\ \A x \in kept : DependencyDone(s, x, Nobody)

\* Mutants: a card in review leaves its lane free; a failed one blocks it.
BusyRunning(s, l) == \E x \in Cards : LaneOf(x) = l /\ s[x] = "running"
BusyFailed(s, l) == \E x \in Cards : LaneOf(x) = l /\ s[x] \in {"running", "review", "failed"}
Busy(s, l) == \E x \in Cards : LaneOf(x) = l /\ s[x] \in {"running", "review"}
\* The first ready card of every lane with nothing running.
FirstReady(s) ==
    LET ready == {x \in Cards : Ready(s, x) /\ ~Busy(s, LaneOf(x))}
    IN  {F \in SUBSET ready :
           /\ \A x \in ready : \E y \in F : LaneOf(y) = LaneOf(x) /\ ~Before(x, y)
           /\ \A x, y \in F : LaneOf(x) = LaneOf(y) => x = y}
\* Mutant: starting a card does not count against the slots.
LanesBeforeUncounted(F, x) == {}
LanesBefore(F, x) == {y \in F : LaneOf(y) < LaneOf(x)}

-----------------------------------------------------------------------------
\* _start_loop_validation: nothing happens while a thread v is registered.
StartValidation(v) == val' = IF v = "none" THEN "running" ELSE v

\* _loop_attention.  card.state may only become "failed" where STATE_RULES
\* allows it, which is where the callers are.
Attention(ls) == IF ls = "running" THEN "needs_attention" ELSE ls

\* The reviews _advance_loop starts.  It takes the unreviewed cards in list
\* order and stops at the slot limit, or at a card whose implementer is still
\* active (start_spec_review raises RunActiveError).
FirstReviews(s, i, r, o) ==
    LET waiting == {x \in Cards : s[x] = "review" /\ r[x] = "none"}
        free == MaxActive - ActiveIn(i, r, o)
    IN  {R \in SUBSET {x \in waiting : i[x] = "over"} :
           /\ Initial(R, waiting)
           /\ R = {} \/ Cardinality(R) <= free
           /\ \/ Cardinality(R) >= free
              \/ R = waiting
              \/ \E y \in waiting \ R : i[y] # "over" /\ Initial(R \cup {y}, waiting)}

\* Goal.rounds: 1 for the sessions of B, which start, 0 without a session.
Rounds(i, B) ==
    [x \in Cards |-> IF x \in B THEN 1 ELSE IF i[x] = "none" THEN 0 ELSE round[x]]

Reviewing(r, R) == [x \in Cards |-> IF x \in R THEN "active" ELSE r[x]]
Running(s, B) == [x \in Cards |-> IF x \in B THEN "running" ELSE s[x]]
Turning(i, B) == [x \in Cards |-> IF x \in B THEN "turn" ELSE i[x]]

\* The cards of B start; card x could not, or could not be reviewed, which
\* ends _advance_loop; or everything went well.
CannotStart(s, i, B, x, v) ==
    /\ st' = [Running(s, B) EXCEPT ![x] = "failed"]
    /\ im' = Turning(i, B)
    /\ round' = Rounds(i, B)
    /\ lstate' = Attention("running")
    /\ val' = v

AllStart(s, i, B, v) ==
    /\ st' = Running(s, B)
    /\ im' = Turning(i, B)
    /\ round' = Rounds(i, B)
    /\ IF AllDone(Running(s, B))
       THEN lstate' = "validating" /\ StartValidation(v)
       ELSE lstate' = "running" /\ val' = v

\* _advance_loop, applied to the loop as the caller has just saved it: state
\* ls, cards s, their sessions i and reviews r, a validation thread v, and o
\* active conversations that are not the cards'.
Advance(ls, s, i, r, v, o) ==
    \/ /\ ls # "running"
       /\ lstate' = ls /\ st' = s /\ im' = i /\ rv' = r
       /\ round' = Rounds(i, {})
       /\ IF ls = "validating" THEN StartValidation(v) ELSE val' = v
    \/ /\ ls = "running"
       /\ \E R \in FirstReviews(s, i, r, o) :
          \* the last of the reviews could not start
          \/ \E x \in R :
               /\ \A y \in R : ~Before(x, y)
               /\ rv' = Reviewing(r, R \ {x})
               /\ CannotStart(s, i, {}, x, v)
          \/ /\ rv' = Reviewing(r, R)
             /\ \E F \in FirstReady(s) :
                LET free == MaxActive - ActiveIn(i, Reviewing(r, R), o)
                    begun == {x \in F : Cardinality(LanesBefore(F, x)) < free}
                IN  \/ \E x \in begun : CannotStart(s, i, LanesBefore(F, x), x, v)
                    \/ AllStart(s, i, begun, v)

-----------------------------------------------------------------------------
NewCards(s) == [x \in Cards |-> IF x[2] = 0 THEN s ELSE "absent"]

\* start_loop: the planner starts, or the loop is created needing attention.
Init ==
    /\ \/ lstate = "planning" /\ pl = "active" /\ stage = "none"
       \/ lstate = "needs_attention" /\ pl = "none" /\ stage = "planning"
    /\ st = [x \in Cards |-> "absent"]
    /\ cause = [x \in Cards |-> FALSE]
    /\ im = [x \in Cards |-> "none"]
    /\ round = [x \in Cards |-> 0]
    /\ rv = [x \in Cards |-> "none"]
    /\ merged = {}
    /\ val = "none" /\ cl = "none" /\ branch = FALSE
    /\ stale = 0 /\ others = 0 /\ restarts = 0

-----------------------------------------------------------------------------
(* The planner: _run pops it from the active conversations, then calls    *)
(* _finish_loop_plan, which takes no lock: it reads loop.json and later    *)
(* writes back the record it read.                                         *)

PlannerEnds ==
    /\ pl = "active"
    /\ pl' = "popped"
    /\ UNCHANGED <<lstate, stage, merged, branch, cardVars, val, cl, stale, others, restarts>>

LoadPlan ==
    /\ pl = "popped"
    /\ pl' = IF lstate = "planning" THEN "loaded" ELSE "none"
    /\ UNCHANGED <<lstate, stage, merged, branch, cardVars, val, cl, stale, others, restarts>>

SavePlan ==
    /\ pl = "loaded"
    /\ pl' = "none"
    /\ \/ /\ lstate' = "awaiting_plan"
          /\ stage' = "none"
          /\ st' = NewCards("planned")
          /\ cause' = [x \in Cards |-> FALSE]
          /\ im' = [x \in Cards |-> "none"]
          /\ round' = [x \in Cards |-> 0]
          /\ rv' = [x \in Cards |-> "none"]
       \/ /\ lstate' = "needs_attention"
          /\ stage' = "planning"
          /\ UNCHANGED cardVars
    /\ UNCHANGED <<merged, branch, val, cl, stale, others, restarts>>

-----------------------------------------------------------------------------
(* The person: /loop/plan, /loop/cancel, /loop/commit, /loop/resume.       *)

ApprovePlan ==
    /\ lstate = "awaiting_plan"
    /\ \E x \in Cards : Has(st, x) /\ st[x] # "dropped"
    /\ branch' = TRUE
    /\ merged' = {}
    /\ Advance("running", st, im, rv, val, NotCards)
    /\ UNCHANGED <<stage, cause, pl, cl, stale, others, restarts>>

DropCards ==
    /\ lstate = "awaiting_plan"
    /\ \E D \in SUBSET {x \in Cards : Has(st, x)} :
         /\ \A x \in Cards \ D : Has(st, x) => AfterOf(x) \cap D = {}
         /\ st' = [x \in Cards |-> IF x \in D THEN "dropped" ELSE st[x]]
    /\ UNCHANGED <<lstate, stage, cause, im, round, rv, merged, branch, hostVars>>

RevisePlan ==
    /\ lstate = "awaiting_plan"
    /\ Active < MaxActive
    /\ lstate' = "planning"
    /\ pl' = "active"
    /\ UNCHANGED <<stage, merged, branch, cardVars, val, cl, stale, others, restarts>>

\* cancel_loop, first locked part.  Turns, reviews and goal checks are told to
\* stop; the model lets any of them end at any time, told or not.
CancelBegin ==
    /\ cl = "none"
    /\ lstate \notin Terminal
    /\ cl' = IF branch THEN "branch" ELSE "no_branch"
    /\ lstate' = IF lstate \in {"running", "validating"} THEN "needs_attention" ELSE lstate
    /\ val' = IF val = "running" THEN "cancelled" ELSE val
    /\ UNCHANGED <<stage, merged, branch, cardVars, pl, stale, others, restarts>>

\* The unlocked part: waits of at most five seconds, then worktrees and the
\* branch named by the record that the first part loaded are removed.
CancelTearDown ==
    /\ cl \in {"branch", "no_branch"}
    /\ cl' = "torn"
    /\ branch' = (branch /\ cl # "branch")
    /\ UNCHANGED <<lstate, stage, merged, cardVars, pl, val, stale, others, restarts>>

\* Removing a worktree or the branch fails: loop.reason says so.
CancelFails ==
    /\ cl \in {"branch", "no_branch"}
    /\ cl' = "none"
    /\ UNCHANGED <<lstate, stage, merged, branch, cardVars, pl, val, stale, others, restarts>>

\* Mutant: the state is written without asking STATE_RULES.
CancelFinishUnchecked ==
    /\ cl = "torn"
    /\ cl' = "none" /\ lstate' = "cancelled" /\ stage' = "none"
    /\ UNCHANGED <<merged, branch, cardVars, pl, val, stale, others, restarts>>

\* The second locked part; set_state refuses when the loop has ended meanwhile.
CancelFinish ==
    /\ cl = "torn"
    /\ cl' = "none"
    /\ lstate' = IF lstate \in Terminal THEN lstate ELSE "cancelled"
    /\ stage' = IF lstate \in Terminal THEN stage ELSE "none"
    /\ UNCHANGED <<merged, branch, cardVars, pl, val, stale, others, restarts>>

CommitLoop ==
    /\ lstate = "awaiting_commit"
    /\ \/ lstate' = "done" /\ UNCHANGED branch
       \/ lstate' = "cancelled" /\ branch' = FALSE
    /\ UNCHANGED <<stage, merged, cardVars, hostVars>>

\* resume_loop when the plan is to blame: plan again.
ResumePlanning ==
    /\ lstate = "needs_attention"
    /\ stage = "planning" \/ \A x \in Cards : ~Has(st, x)
    /\ IF Active < MaxActive
       THEN lstate' = "planning" /\ stage' = "none" /\ pl' = "active"
       ELSE stage' = "planning" /\ UNCHANGED <<lstate, pl>>
    /\ UNCHANGED <<merged, branch, cardVars, val, cl, stale, others, restarts>>

\* _reset_card for the cards of Z: planned again, without a session.
Reset(f, Z, value) == [x \in Cards |-> IF x \in Z THEN value ELSE f[x]]

\* resume_loop otherwise: failed cards that no follow-up replaces are planned
\* again (a review of theirs still active is cancelled and left behind).
ResumeCards ==
    /\ lstate = "needs_attention"
    /\ stage # "planning"
    /\ \E x \in Cards : Has(st, x)
    /\ LET retried == {x \in Cards : st[x] = "failed" /\ ~Has(st, FollowUp(x))}
       IN  /\ stale' = stale + Cardinality({x \in retried : rv[x] = "active"})
           /\ Advance(IF stage = "validation" THEN "validating" ELSE "running",
                      Reset(st, retried, "planned"), Reset(im, retried, "none"),
                      Reset(rv, retried, "none"), val, NotCards - stale + stale')
    /\ stage' = "none"
    /\ UNCHANGED <<cause, merged, branch, pl, cl, others, restarts>>

-----------------------------------------------------------------------------
(* An implementer conversation: rounds of a goal, each a turn of the agent *)
(* and, when the turn ends with an answer, a run of the goal's check.      *)

\* _finish_spec_run and _finish_loop_card_run: the card goes to review, with
\* the cause when the run did not finish; i is im as the caller leaves it.
FinishRun(x, finished, i) ==
    IF lstate = "cancelled"
    THEN im' = i /\ UNCHANGED <<lstate, st, cause, rv, round, val>>
    ELSE /\ cause' = [cause EXCEPT ![x] = ~finished]
         /\ Advance(lstate, [st EXCEPT ![x] = "review"], i, rv, val, NotCards)

\* _close_idle_conversations_locked, which every ending thread runs: it drops
\* the goals of conversations that are neither active nor being checked, so
\* that a popped implementer finds no goal and ends there.
CloseIdle(i) == [x \in Cards |-> IF i[x] = "popped" THEN "over" ELSE i[x]]

\* Mutant: the goal stays active, so the end of the turn acts on it again.
BlockGoalActive(x) ==
    /\ im[x] = "turn"
    /\ FinishRun(x, FALSE, im)
    /\ UNCHANGED <<stage, merged, branch, pl, cl, stale, others, restarts>>

\* update_goal("blocked") in the middle of a turn, which goes on.
BlockGoal(x) ==
    /\ im[x] = "turn"
    /\ FinishRun(x, FALSE, [im EXCEPT ![x] = "blocked"])
    /\ UNCHANGED <<stage, merged, branch, pl, cl, stale, others, restarts>>

\* _run, first lock: the conversation is no longer active.  After the second
\* lock of a blocked goal's turn nothing is left to do.
TurnEnds(x) ==
    /\ im[x] \in {"turn", "blocked"}
    /\ im' = IF im[x] = "turn" THEN [im EXCEPT ![x] = "popped"]
              ELSE CloseIdle([im EXCEPT ![x] = "over"])
    /\ UNCHANGED <<lstate, stage, st, cause, round, rv, merged, branch, hostVars>>

\* _run, second lock: an answer is followed by the check, anything else
\* (cancelled, failed, out of turns) pauses the goal and finishes the run.
AfterTurn(x) ==
    /\ im[x] = "popped"
    /\ \/ /\ im' = [im EXCEPT ![x] = "check"]
          /\ UNCHANGED <<lstate, st, cause, round, rv, val>>
       \/ FinishRun(x, FALSE, CloseIdle(im))
    /\ UNCHANGED <<stage, merged, branch, pl, cl, stale, others, restarts>>

\* _perform_goal_check: the check passed, or the goal is paused, or blocked
\* because the rounds are used up; the thread then closes idle conversations.
CheckFinishes(x) ==
    /\ im[x] = "check"
    /\ \E finished \in BOOLEAN :
         FinishRun(x, finished, CloseIdle([im EXCEPT ![x] = "over"]))
    /\ UNCHANGED <<stage, merged, branch, pl, cl, stale, others, restarts>>

\* The check failed with rounds left.  The next round needs a slot; without
\* one the goal is paused, and _finish_spec_run is not called.
CheckFails(x) ==
    /\ im[x] = "check"
    /\ round[x] < MaxRounds
    /\ IF Active < MaxActive
       THEN /\ im' = CloseIdle([im EXCEPT ![x] = "turn"])
            /\ round' = [round EXCEPT ![x] = @ + 1]
       ELSE im' = CloseIdle([im EXCEPT ![x] = "over"]) /\ UNCHANGED round
    /\ UNCHANGED <<lstate, stage, st, cause, rv, merged, branch, hostVars>>

-----------------------------------------------------------------------------
(* A review: a conversation with one turn, whose thread then runs          *)
(* _finish_spec_review, _finish_loop_card_review and closes idle ones.     *)

ReviewEnds(x) ==
    /\ rv[x] = "active"
    /\ rv' = [rv EXCEPT ![x] = "popped"]
    /\ UNCHANGED <<lstate, stage, st, cause, im, round, merged, branch, hostVars>>

\* The callback of a review whose card has a new session returns early.
StaleReviewEnds ==
    /\ stale > 0
    /\ stale' = stale - 1
    /\ im' = CloseIdle(im)
    /\ UNCHANGED <<lstate, stage, st, cause, round, rv, merged, branch, pl, val, cl, others, restarts>>

\* The callback does nothing for a cancelled loop, for a card in another
\* state, or for a failed card's review while the loop needs attention.
Obsolete(x) == \/ lstate = "cancelled"
               \/ st[x] \notin {"review", "failed"}
               \/ cause[x] /\ lstate = "needs_attention"

ReviewIgnored(x) ==
    /\ rv[x] = "popped"
    /\ Obsolete(x)
    /\ rv' = [rv EXCEPT ![x] = "over"]
    /\ im' = CloseIdle(im)
    /\ UNCHANGED <<lstate, stage, st, cause, round, merged, branch, hostVars>>

\* No usable verdict: the tree changed, no specs for the follow-ups, a failed
\* card passed.
ReviewRejected(x) ==
    /\ rv[x] = "popped"
    /\ ~Obsolete(x)
    /\ rv' = [rv EXCEPT ![x] = "over"]
    /\ im' = CloseIdle(im)
    /\ st' = [st EXCEPT ![x] = "failed"]
    /\ lstate' = Attention(lstate)
    /\ UNCHANGED <<stage, cause, round, merged, branch, hostVars>>

\* Passed or with follow-ups, the patch does not reach the branch: refused
\* before it was checked, or rolled back after, which needs attention.  A
\* review of the failure starts, if it can.
IntegrationFails(x) ==
    /\ rv[x] = "popped"
    /\ ~Obsolete(x) /\ ~cause[x]
    /\ cause' = [cause EXCEPT ![x] = TRUE]
    /\ \E rolledBack, startFails \in BOOLEAN :
         LET started == Active < MaxActive /\ ~startFails
             failed == rolledBack \/ ~started
         IN  Advance(IF failed THEN Attention(lstate) ELSE lstate,
                     IF failed THEN [st EXCEPT ![x] = "failed"] ELSE st,
                     CloseIdle(im),
                     [rv EXCEPT ![x] = IF started THEN "active" ELSE "over"],
                     val, NotCards)
    /\ UNCHANGED <<stage, merged, branch, pl, cl, stale, others, restarts>>

\* integrate commits the patch of a card whose run finished.
\* Mutant: of any reviewed card.
IntegratedAlways(x) == {x}
Integrated(x) == IF cause[x] THEN {} ELSE {x}

\* The card is done and on the branch, or failed and to be replaced.
ReviewAccepted(x) ==
    /\ rv[x] = "popped"
    /\ ~Obsolete(x)
    /\ LET closed == [st EXCEPT ![x] = IF cause[x] THEN "failed" ELSE "done"]
           reviews == [rv EXCEPT ![x] = "over"]
       IN  \/ ~cause[x] /\ Advance(lstate, closed, CloseIdle(im), reviews, val, NotCards)
           \/ /\ x[2] < FollowUps
              /\ Advance(lstate, [closed EXCEPT ![FollowUp(x)] = "planned"],
                         CloseIdle(im), reviews, val, NotCards)
           \* still findings after the last round
           \/ /\ x[2] = FollowUps
              /\ lstate' = Attention(lstate)
              /\ st' = closed /\ rv' = reviews /\ im' = CloseIdle(im)
              /\ UNCHANGED <<round, val>>
    /\ merged' = merged \cup Integrated(x)
    /\ UNCHANGED <<stage, cause, branch, pl, cl, stale, others, restarts>>

-----------------------------------------------------------------------------
(* Combined validation: a thread of its own, registered until it has ended. *)

\* Mutant: a failed validation is not recorded.
ValidationDecidesQuietly ==
    /\ val = "running"
    /\ val' = "ending"
    /\ \/ lstate = "validating" /\ lstate' = "awaiting_commit" /\ stage' = "none"
       \/ UNCHANGED <<lstate, stage>>
    /\ UNCHANGED <<merged, branch, cardVars, pl, cl, stale, others, restarts>>

ValidationDecides ==
    /\ val = "running"
    /\ val' = "ending"
    /\ IF lstate = "validating"
       THEN \/ lstate' = "awaiting_commit" /\ stage' = "none"
            \/ lstate' = "needs_attention" /\ stage' = "validation"
       ELSE UNCHANGED <<lstate, stage>>
    /\ UNCHANGED <<merged, branch, cardVars, pl, cl, stale, others, restarts>>

ValidationCancelled ==
    /\ val = "cancelled"
    /\ val' = "ending"
    /\ UNCHANGED <<lstate, stage, merged, branch, cardVars, pl, cl, stale, others, restarts>>

ValidationGone ==
    /\ val = "ending"
    /\ val' = "none"
    /\ UNCHANGED <<lstate, stage, merged, branch, cardVars, pl, cl, stale, others, restarts>>

-----------------------------------------------------------------------------
(* Other conversations share the slots; the host restarts.                 *)

OtherStarts ==
    /\ others < MaxOthers
    /\ Active < MaxActive
    /\ others' = others + 1
    /\ UNCHANGED <<lstate, stage, merged, branch, cardVars, pl, val, cl, stale, restarts>>

OtherEnds ==
    /\ others > 0
    /\ others' = others - 1
    /\ im' = CloseIdle(im)
    /\ UNCHANGED <<lstate, stage, st, cause, round, rv, merged, branch, pl, val, cl, stale, restarts>>

\* The process dies between two steps and a new one runs recover_loops: no
\* conversation is active, so a running loop's running and reviewed cards are
\* planned again.
Restart ==
    /\ restarts < MaxRestarts
    /\ restarts' = restarts + 1
    /\ pl' = "none" /\ cl' = "none" /\ stale' = 0 /\ others' = 0
    /\ stage' = IF lstate = "planning" THEN "planning" ELSE stage
    /\ LET lost == IF lstate = "running"
                   THEN {x \in Cards : st[x] \in {"running", "review"}} ELSE {}
           Dead(f) == [x \in Cards |-> IF x \in lost \/ f[x] = "none" THEN "none" ELSE "over"]
       IN  Advance(IF lstate = "planning" THEN "needs_attention" ELSE lstate,
                   Reset(st, lost, "planned"), Dead(im), Dead(rv), "none", 0)
    /\ UNCHANGED <<cause, merged, branch>>

-----------------------------------------------------------------------------
ReviewDone(x) ==
    ReviewIgnored(x) \/ ReviewRejected(x) \/ IntegrationFails(x) \/ ReviewAccepted(x)

CardStep(x) ==
    \/ BlockGoal(x) \/ TurnEnds(x) \/ AfterTurn(x) \/ CheckFinishes(x) \/ CheckFails(x)
    \/ ReviewEnds(x) \/ ReviewDone(x)

Planning == PlannerEnds \/ LoadPlan \/ SavePlan
Validation == ValidationDecides \/ ValidationCancelled \/ ValidationGone
Cancelling == CancelTearDown \/ CancelFails \/ CancelFinish
Person == ApprovePlan \/ DropCards \/ RevisePlan \/ CancelBegin \/ CommitLoop
          \/ ResumePlanning \/ ResumeCards

Next ==
    \/ Planning \/ Person \/ Cancelling \/ Validation
    \/ \E x \in Cards : CardStep(x)
    \/ StaleReviewEnds \/ OtherStarts \/ OtherEnds \/ Restart

\* A turn is bounded by its turn limit, a check by its timeout, the waits of a
\* cancel by deadlines: what a thread of the host has begun comes to its end.
\* Nothing is assumed of the person, of restarts or of other conversations.
Fairness ==
    /\ WF_vars(Planning) /\ WF_vars(Validation) /\ WF_vars(Cancelling)
    /\ WF_vars(StaleReviewEnds)
    /\ \A x \in Cards : /\ WF_vars(TurnEnds(x)) /\ WF_vars(AfterTurn(x))
                        /\ WF_vars(CheckFinishes(x) \/ CheckFails(x))
                        /\ WF_vars(ReviewEnds(x)) /\ WF_vars(ReviewDone(x))

Spec == Init /\ [][Next]_vars
FairSpec == Spec /\ Fairness

-----------------------------------------------------------------------------
TypeOK ==
    /\ lstate \in LoopStates
    /\ stage \in {"none", "planning", "validation"}
    /\ st \in [Cards -> CardStates \cup {"absent"}]
    /\ cause \in [Cards -> BOOLEAN]
    /\ im \in [Cards -> {"none", "over"} \cup Live]
    /\ round \in [Cards -> 0 .. MaxRounds]
    /\ rv \in [Cards -> {"none", "active", "popped", "over"}]
    /\ merged \subseteq Cards
    /\ pl \in {"none", "active", "popped", "loaded"}
    /\ val \in {"none", "running", "cancelled", "ending"}
    /\ cl \in {"none", "branch", "no_branch", "torn"}
    /\ branch \in BOOLEAN
    /\ stale \in Nat
    /\ others \in 0 .. MaxOthers
    /\ restarts \in 0 .. MaxRestarts

Working(x) == im[x] \in Live \/ rv[x] \in {"active", "popped"}

\* Two agents never work in one lane at the same time: neither a retry, nor a
\* follow-up, nor the review of a failed card overlaps the lane's next card
\* ("one active card per lane", PROTOCOL.md:236).
OneAgentPerLane ==
    \A x, y \in Cards : Working(x) /\ Working(y) /\ LaneOf(x) = LaneOf(y) => x = y

\* However planners, lanes, reviews, retries and chats compete, no more than
\* MAX_ACTIVE_CONVERSATIONS are active.
SlotLimit == Active <= MaxActive

\* A card of the plan that has been started has every dependency concluded:
\* the last follow-up in the dependency's chain is done.  No retry, late review
\* or restart undoes that while the card is in progress.
Concluded(d) ==
    \E n \in 0 .. FollowUps : /\ st[<<d, n>>] = "done"
                              /\ \A m \in (n + 1) .. FollowUps : ~Has(st, <<d, m>>)
DependenciesFirst ==
    \A c \in Plan : st[<<c, 0>>] \in {"running", "review", "done", "failed"} =>
        \A d \in After[c] : Concluded(d)

\* The callbacks of a run and of a review carry no token of the card's state:
\* they still find the card where the session left it, so that the transition
\* they make is one STATE_RULES allows.
CallbackFindsItsCard ==
    \A x \in Cards :
        /\ im[x] \in {"turn", "popped", "check"} => st[x] = "running"
        /\ rv[x] \in {"active", "popped"} => st[x] \in {"review", "failed"}

\* Combined validation, and what follows it, sees the finished tree: no card
\* is left to run, and no agent is still working.
ValidatesFinishedWork ==
    lstate \in {"validating", "awaiting_commit", "done"} =>
        \A x \in Cards :
            /\ ~Working(x)
            /\ Has(st, x) => \/ st[x] \in {"done", "dropped"}
                             \/ st[x] = "failed" /\ Has(st, FollowUp(x))

\* The loop branch holds the patches of the done cards and no others: not of a
\* card that failed, was rolled back or was left to a follow-up.
BranchHoldsDoneCards ==
    lstate \in {"running", "validating", "awaiting_commit", "needs_attention", "done"}
        => merged = {x \in Cards : st[x] = "done"}

\* A cancelled or finished loop changes no more, but for a planner callback
\* that had read loop.json before.
EndedUnlessPlanLoaded == [][(lstate \in Terminal /\ pl # "loaded") => UNCHANGED lstate]_vars

\* As long as the slots never run out, a running loop leaves that state (its
\* cards done, or for the person to look at), unless a card was abandoned: in
\* progress with nobody working for it.
Abandoned(x) == st[x] \in {"running", "review"} /\ ~Working(x)
LoopProgresses ==
    [](Active < MaxActive) =>
        (lstate = "running" ~> (lstate # "running" \/ \E x \in Cards : Abandoned(x)))

\* A validation that runs for a loop in validating decides it.
ValidationEnds == (lstate = "validating" /\ val = "running") ~> lstate # "validating"

-----------------------------------------------------------------------------
(* What the documentation says, and the code does not keep.                *)

\* "Approval keeps the loop branch and finishes the loop" (PROTOCOL.md:252).
DoneKeepsBranch == lstate = "done" => branch
=============================================================================
