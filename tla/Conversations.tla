---------------------------- MODULE Conversations ----------------------------
(***************************************************************************)
(* The conversations of a project and their goals (run.py, goal.py): turns *)
(* and goal rounds run in threads of their own, a check runs between two   *)
(* rounds, and the person sends prompts, sets, pauses, resumes and clears  *)
(* goals, and opens, forks, ends and deletes conversations meanwhile.      *)
(*                                                                         *)
(* A step is what one thread does while it holds host._lock.  A goal is an *)
(* object that several places refer to, so that two places may hold        *)
(* different goals for one conversation; `goal` is the heap.               *)
(***************************************************************************)
EXTENDS Integers, FiniteSets

CONSTANTS
  Sessions,
  Checked,    \* conversations whose goals have a check
  MaxRounds,  \* Goal.max_rounds
  MaxActive,  \* MAX_ACTIVE_CONVERSATIONS
  MaxGoals,   \* bound: goals made
  Threads,    \* as many as run at a time
  None

\* None is no conversation, thread, goal or payload.
ASSUME ConversationAssumption ==
  /\ MaxGoals \in Nat
  /\ None \notin Sessions \cup Threads \cup (1 .. MaxGoals)
  /\ None \notin [phase : {"active", "halted", "complete"}, rounds : Nat]

VARIABLES
  stored,   \* the session's directory: "none" yet, "stored" or "deleted"
  open,     \* _open_conversations, with its policy and its approvals
  current,  \* _conversation; _active is active[current]
  leaving,  \* conversations end_conversation has yet to close
  active,   \* _active_by_session: the thread of the turn
  checks,   \* _goal_checks_by_session: the thread of the check
  goals,    \* _goals_by_session
  mine,     \* _goal, which is the current conversation's if there is one
  saved,    \* the goal in the session's metadata
  goal,     \* what the goals are
  thread    \* what the threads do, in _run and _perform_goal_check

vars == <<stored, open, current, leaving, active, checks, goals, mine, saved, goal, thread>>

\* Every guard treats "paused" and "blocked" alike: they are "halted".
Phases  == {"active", "halted", "complete"}
Payload == [phase : Phases, rounds : 0 .. MaxRounds + Cardinality(Threads)]

\* A thread that has ended, or was not started.
Over == [at |-> "over", of |-> None, round |-> FALSE, last |-> "none", goal |-> None,
         cut |-> FALSE, cleared |-> FALSE]

Turn(s, round) == [Over EXCEPT !.at = "turn", !.of = s, !.round = round]

NewGoal == [phase |-> "active", rounds |-> 1]
NoGoal  == [phase |-> "complete", rounds |-> 0]
Goals   == 1 .. MaxGoals

Init ==
  /\ stored = [s \in Sessions |-> "none"]
  /\ open = {} /\ leaving = {} 
  /\ current = None /\ mine = None
  /\ active = [s \in Sessions |-> None] /\ checks = [s \in Sessions |-> None]
  /\ goals = [s \in Sessions |-> None]
  /\ saved = [s \in Sessions |-> None]
  /\ goal = [g \in Goals |-> NoGoal]
  /\ thread = [t \in Threads |-> Over]

-----------------------------------------------------------------------------
Active  == IF current = None THEN None ELSE active[current]
HasSlot == Cardinality({s \in Sessions : active[s] # None}) < MaxActive
Unused  == {s \in Sessions : stored[s] = "none"}

\* The conversation has a goal, and it is active.
Pursued(s) == goals[s] # None /\ goal[goals[s]].phase = "active"

\* The next goal that is made, and threads that do not run.
FreeGoal   == {Cardinality({g \in Goals : goal[g] # NoGoal}) + 1} \cap Goals
FreeThread == {t \in Threads : thread[t] = Over}

\* Mutant: a goal's check does not keep its conversation open.
CloseIdleInCheck(o, c, a, k, gs) ==
  \E jobs \in SUBSET o :
    LET gone == {s \in o \ jobs : s # c /\ a[s] = None}
    IN  /\ open' = o \ gone
        /\ goals' = [s \in Sessions |-> IF s \in gone THEN None ELSE gs[s]]

\* _close_idle_conversations_locked, once the conversations are o, with current
\* one c, turns a, checks k and goals gs.  Those with a background job stay.
CloseIdle(o, c, a, k, gs) ==
  \E jobs \in SUBSET o :
    LET gone == {s \in o \ jobs : s # c /\ a[s] = None /\ k[s] = None}
    IN  /\ open' = o \ gone
        /\ goals' = [s \in Sessions |-> IF s \in gone THEN None ELSE gs[s]]

\* _save_goal: the metadata of a session that was deleted cannot be written.
Save(s, payload) == [saved EXCEPT ![s] = IF stored[s] = "stored" THEN payload ELSE @]

\* A goal check of s, if there is one, is to end as a pause.
Cut(s) == [t \in Threads |-> IF t = checks[s] THEN [thread[t] EXCEPT !.cut = TRUE]
                                              ELSE thread[t]]

\* Bound: the person waits for the answer to end_conversation.
Waits == leaving = {}

-----------------------------------------------------------------------------
(* start() *)

\* The conversation a prompt goes to: the current one, or a new one.
Addressed == IF current = None THEN Unused ELSE {current}

\* A command of the person (run_user_command) may run for a conversation without
\* a turn, and a start is refused until it has ended: prompts are sent later, and
\* for a start by the host, or a resume, being refused is always possible.
MayPrompt == Waits /\ Active = None /\ HasSlot

\* The parts of start() common to prompts and goals: s becomes current, t its turn.
TurnStarts(s, t, round, threads) ==
  /\ stored' = [stored EXCEPT ![s] = "stored"]
  /\ open' = IF current = None THEN open \cup {s} ELSE open
  /\ current' = s
  /\ active' = [active EXCEPT ![s] = t]
  /\ thread' = [threads EXCEPT ![t] = Turn(s, round)]
  /\ UNCHANGED <<leaving, checks>>

Prompt ==
  /\ MayPrompt
  /\ \E s \in Addressed, t \in FreeThread : TurnStarts(s, t, FALSE, Cut(s))
  /\ UNCHANGED <<goals, mine, saved, goal>>

\* start_goal
SetGoal ==
  /\ MayPrompt
  /\ \E s \in Addressed, t \in FreeThread, g \in FreeGoal :
       /\ checks[s] = None
       /\ TurnStarts(s, t, TRUE, thread)
       /\ goal' = [goal EXCEPT ![g] = NewGoal]
       /\ goals' = [goals EXCEPT ![s] = g] /\ mine' = g
       /\ saved' = [saved EXCEPT ![s] = NewGoal]

\* A conversation of its own policy, which a loop starts: it is never current.
StartDetached(round) ==
  /\ HasSlot
  /\ \E s \in Unused, t \in FreeThread, g \in FreeGoal :
       /\ round => s \in Checked
       /\ stored' = [stored EXCEPT ![s] = "stored"] /\ open' = open \cup {s}
       /\ active' = [active EXCEPT ![s] = t]
       /\ thread' = [thread EXCEPT ![t] = Turn(s, round)]
       /\ IF round
          THEN /\ goal' = [goal EXCEPT ![g] = NewGoal]
               /\ goals' = [goals EXCEPT ![s] = g]
               /\ saved' = [saved EXCEPT ![s] = NewGoal]
          ELSE UNCHANGED <<goal, goals, saved>>
  /\ UNCHANGED <<current, leaving, checks, mine>>

\* _start_for_session: the next round of the goal of s, which is whatever goal
\* the conversation has by now.
MayStartRound(s) == s \in open /\ active[s] = None /\ HasSlot

\* Mutant: the new round is not saved.
RoundStartsUnsaved(s, t, threads, heap, gs) ==
  /\ active' = [active EXCEPT ![s] = t]
  /\ thread' = [threads EXCEPT ![t] = Turn(s, TRUE)]
  /\ goals' = gs
  /\ goal' = IF gs[s] = None THEN heap ELSE [heap EXCEPT ![gs[s]].rounds = @ + 1]
  /\ mine' = IF s = current THEN gs[s] ELSE mine
  /\ UNCHANGED saved

RoundStarts(s, t, threads, heap, gs) ==
  LET g == gs[s]
      h == [heap EXCEPT ![g].rounds = @ + 1]
  IN  /\ active' = [active EXCEPT ![s] = t]
      /\ thread' = [threads EXCEPT ![t] = Turn(s, TRUE)]
      /\ goals' = gs
      /\ goal' = IF g = None THEN heap ELSE h
      /\ saved' = IF g = None THEN saved ELSE Save(s, h[g])
      /\ mine' = IF s = current THEN g ELSE mine

-----------------------------------------------------------------------------
(* _run, after the turn *)

At(t, place) == thread[t].at = place
To(t, place) == [thread EXCEPT ![t].at = place]
Leaves(t)    == [thread EXCEPT ![t] = Over]

\* The first lock: the conversation is not active any more.
TurnEnds(t, last) ==
  LET s == thread[t].of
  IN  /\ At(t, "turn")
      /\ active' = [active EXCEPT ![s] = None]
      /\ thread' = IF thread[t].round
                   THEN [thread EXCEPT ![t].at = "popped", ![t].last = last]
                   ELSE Leaves(t)
      /\ UNCHANGED <<stored, open, current, leaving, checks, goals, mine, saved, goal>>

\* The last lock of a thread, at any time after its turn or its check.
Leave ==
  /\ CloseIdle(open, current, active, checks, goals)
  /\ UNCHANGED <<stored, current, leaving, active, checks, mine, saved, goal, thread>>

\* The second lock of a goal round.  The goal has been cleared, or is not active.
RoundIsLast(t) ==
  /\ At(t, "popped") /\ ~Pursued(thread[t].of)
  /\ thread' = Leaves(t)
  /\ CloseIdle(open, current, active, checks, goals)
  /\ UNCHANGED <<stored, current, leaving, active, checks, mine, saved, goal>>

\* The goal as its phase becomes `phase`, in memory and in the metadata.
Becomes(s, g, phase, heap) ==
  /\ goal' = [heap EXCEPT ![g].phase = phase]
  /\ saved' = Save(s, [heap[g] EXCEPT !.phase = phase])

RoundDecides(t) ==
  LET s == thread[t].of
      g == goals[s]
      final == thread[t].last = "final"
  IN  /\ At(t, "popped") /\ Pursued(s)
      /\ \/ /\ final /\ s \in Checked
            /\ checks' = [checks EXCEPT ![s] = t]
            /\ thread' = [thread EXCEPT ![t].at = "check", ![t].goal = g]
            /\ UNCHANGED <<goal, saved>>
         \/ /\ final /\ s \notin Checked /\ goal[g].rounds < MaxRounds
            /\ thread' = [thread EXCEPT ![t].at = "next", ![t].goal = g]
            /\ UNCHANGED <<checks, goal, saved>>
         \/ /\ ~final \/ (s \notin Checked /\ goal[g].rounds >= MaxRounds)
            /\ Becomes(s, g, "halted", goal)
            /\ thread' = Leaves(t)
            /\ UNCHANGED checks
      /\ UNCHANGED <<stored, open, current, leaving, active, goals, mine>>

\* Mutant: a refused start is not noticed.
NextRoundUnnoticed(t) ==
  LET s == thread[t].of
  IN  /\ At(t, "next")
      /\ IF MayStartRound(s)
         THEN \E u \in FreeThread : RoundStarts(s, u, Leaves(t), goal, goals)
         ELSE thread' = Leaves(t) /\ UNCHANGED <<active, goals, mine, goal, saved>>
      /\ UNCHANGED <<stored, open, current, leaving, checks>>

\* Without any lock held, the next round is started, or refused.
NextRound(t) ==
  LET s == thread[t].of
  IN  /\ At(t, "next")
      /\ \/ /\ MayStartRound(s)
            /\ \E u \in FreeThread : RoundStarts(s, u, Leaves(t), goal, goals)
         \/ /\ Becomes(s, thread[t].goal, "halted", goal)
            /\ thread' = Leaves(t)
            /\ UNCHANGED <<active, goals, mine>>
      /\ UNCHANGED <<stored, open, current, leaving, checks>>

-----------------------------------------------------------------------------
(* _perform_goal_check *)

\* It looks the conversation's policy up without a lock; if that is gone, its
\* thread ends with the check still registered.
CheckBegins(t) ==
  /\ At(t, "check")
  /\ thread' = To(t, IF thread[t].of \in open THEN "checking" ELSE "lost")
  /\ UNCHANGED <<stored, open, current, leaving, active, checks, goals, mine, saved, goal>>

CheckEnds(t, ok) ==
  LET s == thread[t].of
      g == thread[t].goal
      phase == IF ok THEN "complete"
               ELSE IF ~thread[t].cut /\ goal[g].phase = "active" /\ goal[g].rounds < MaxRounds
                    THEN "active"
               ELSE "halted"
      unchecked == [checks EXCEPT ![s] = None]
  IN  /\ At(t, "checking")
      /\ checks' = unchecked
      /\ IF thread[t].cleared
         THEN /\ thread' = Leaves(t)
              /\ CloseIdle(open, current, active, unchecked, goals)
              /\ UNCHANGED <<active, saved, goal, mine>>
         ELSE /\ UNCHANGED open
              /\ \/ /\ phase = "active" /\ MayStartRound(s)
                    /\ \E u \in FreeThread :
                         RoundStarts(s, u, Leaves(t), goal, [goals EXCEPT ![s] = g])
                 \/ /\ Becomes(s, g, IF phase = "active" THEN "halted" ELSE phase, goal)
                    /\ goals' = [goals EXCEPT ![s] = g]
                    /\ thread' = Leaves(t)
                    /\ UNCHANGED <<active, mine>>
      /\ UNCHANGED <<stored, current, leaving>>

-----------------------------------------------------------------------------
(* The tool update_goal, in a turn of the leader *)

\* A checked goal is completed by its check alone.
UpdateGoal(s, phase) ==
  LET g == goals[s]
  IN  /\ active[s] # None /\ Pursued(s)
      /\ phase = "complete" => s \notin Checked
      /\ Becomes(s, g, phase, goal)
      /\ mine' = IF s = current /\ mine # None THEN g ELSE mine
      /\ UNCHANGED <<stored, open, current, leaving, active, checks, goals, thread>>

-----------------------------------------------------------------------------
(* The person: goal_state, stop, conversations *)

\* The check of the current conversation, if it is a check of this goal.
CheckOfMine == {t \in Threads : t = checks[current] /\ thread[t].goal = mine}

Pause ==
  /\ Waits /\ mine # None
  /\ Becomes(current, mine, "halted", goal)
  /\ thread' = [t \in Threads |-> IF t \in CheckOfMine THEN [thread[t] EXCEPT !.cut = TRUE]
                                                       ELSE thread[t]]
  /\ UNCHANGED <<stored, open, current, leaving, active, checks, goals, mine>>

Clear ==
  /\ Waits /\ mine # None
  /\ saved' = [saved EXCEPT ![current] = None]
  /\ thread' = [t \in Threads |-> IF t \in CheckOfMine THEN [thread[t] EXCEPT !.cleared = TRUE]
                                                       ELSE thread[t]]
  /\ mine' = None /\ goals' = [goals EXCEPT ![current] = None]
  /\ UNCHANGED <<stored, open, current, leaving, active, checks, goal>>

MayResume ==
  Waits /\ mine # None /\ checks[current] = None /\ goal[mine].phase \notin {"active", "complete"}

\* During a goal round, the end of that round goes on with the goal.
ResumeInRound ==
  /\ MayResume /\ Active # None /\ thread[Active].round /\ current \in open
  /\ Becomes(current, mine, "active", goal)
  /\ UNCHANGED <<stored, open, current, leaving, active, checks, goals, mine, thread>>

\* Otherwise the check is run, or the next round started.
ResumeCheck ==
  /\ MayResume /\ Active = None /\ current \in Checked /\ current \in open
  /\ Becomes(current, mine, "active", goal)
  /\ \E t \in FreeThread :
       /\ checks' = [checks EXCEPT ![current] = t]
       /\ thread' = [thread EXCEPT ![t] = [Over EXCEPT !.at = "check", !.of = current, !.goal = mine]]
  /\ UNCHANGED <<stored, open, current, leaving, active, goals, mine>>

Resumes == MayResume /\ Active = None /\ current \notin Checked

ResumeExhausted ==
  /\ Resumes /\ goal[mine].rounds >= MaxRounds
  /\ Becomes(current, mine, "halted", goal)
  /\ UNCHANGED <<stored, open, current, leaving, active, checks, goals, mine, thread>>

ResumeRound ==
  /\ Resumes /\ goal[mine].rounds < MaxRounds /\ MayStartRound(current)
  /\ \E t \in FreeThread :
       RoundStarts(current, t, thread, [goal EXCEPT ![mine].phase = "active"], goals)
  /\ UNCHANGED <<stored, open, current, leaving, checks>>

\* The start is refused, with an exception, after the goal was made active.
ResumeRefused ==
  /\ Resumes /\ goal[mine].rounds < MaxRounds
  /\ Becomes(current, mine, "active", goal)
  /\ UNCHANGED <<stored, open, current, leaving, active, checks, goals, mine, thread>>

\* stop() makes a goal check end as a pause; a turn it cancels ends in TurnEnds.
Stop ==
  /\ Waits /\ current # None /\ checks[current] # None
  /\ thread' = Cut(current)
  /\ UNCHANGED <<stored, open, current, leaving, active, checks, goals, mine, saved, goal>>

\* end_conversation: under the lock, and then, if no turn runs, without it.
End ==
  /\ Waits /\ current # None
  /\ thread' = Cut(current)
  /\ leaving' = IF Active = None THEN leaving \cup {current} ELSE leaving
  /\ current' = None /\ mine' = None
  /\ UNCHANGED <<stored, open, active, checks, goals, saved, goal>>

EndCloses(s) ==
  /\ s \in leaving
  /\ leaving' = leaving \ {s} /\ open' = open \ {s}
  /\ UNCHANGED <<stored, current, active, checks, goals, mine, saved, goal, thread>>

\* open_session of a conversation that is open: it becomes the current one.
OpenAgain(s) ==
  /\ Waits /\ s \in open
  /\ current' = s
  /\ IF goals[s] # None \/ saved[s] = None
     THEN mine' = goals[s] /\ CloseIdle(open, s, active, checks, goals) /\ UNCHANGED goal
     ELSE \E g \in FreeGoal :
            /\ goal' = [goal EXCEPT ![g] = saved[s]] /\ mine' = g
            /\ CloseIdle(open, s, active, checks, [goals EXCEPT ![s] = g])
  /\ UNCHANGED <<stored, leaving, active, checks, saved, thread>>

\* open_session of a stored conversation; a goal that was active is paused.
Reopened(payload) ==
  IF payload.phase = "active" THEN [payload EXCEPT !.phase = "halted"] ELSE payload

OpenStored(s) ==
  /\ Waits /\ stored[s] = "stored" /\ s \notin open
  /\ current' = s
  /\ IF saved[s] = None
     THEN /\ mine' = None /\ CloseIdle(open \cup {s}, s, active, checks, goals)
          /\ UNCHANGED <<goal, saved>>
     ELSE \E g \in FreeGoal :
            /\ goal' = [goal EXCEPT ![g] = Reopened(saved[s])] /\ mine' = g
            /\ saved' = [saved EXCEPT ![s] = Reopened(saved[s])]
            /\ CloseIdle(open \cup {s}, s, active, checks, [goals EXCEPT ![s] = g])
  /\ UNCHANGED <<stored, leaving, active, checks, thread>>

\* fork_session: a new conversation, without a goal, is opened.
Fork(s) ==
  /\ Waits /\ stored[s] = "stored" /\ active[s] = None
  /\ \E n \in Unused :
       /\ stored' = [stored EXCEPT ![n] = "stored"]
       /\ current' = n /\ mine' = None
       /\ CloseIdle(open \cup {n}, n, active, checks, goals)
  /\ UNCHANGED <<leaving, active, checks, saved, goal, thread>>

\* delete_session
Delete(s) ==
  /\ Waits /\ stored[s] = "stored" /\ active[s] = None /\ checks[s] = None
  /\ stored' = [stored EXCEPT ![s] = "deleted"]
  /\ open' = open \ {s} /\ goals' = [goals EXCEPT ![s] = None] /\ saved' = [saved EXCEPT ![s] = None]
  /\ IF s = current THEN current' = None /\ mine' = None ELSE UNCHANGED <<current, mine>>
  /\ UNCHANGED <<leaving, active, checks, goal, thread>>

\* compact() is a turn that takes no slot.
Compact ==
  /\ Waits /\ current # None /\ Active = None
  /\ \E t \in FreeThread :
       /\ active' = [active EXCEPT ![current] = t]
       /\ thread' = [thread EXCEPT ![t] = Turn(current, FALSE)]
  /\ UNCHANGED <<stored, open, current, leaving, checks, goals, mine, saved, goal>>

-----------------------------------------------------------------------------
Person ==
  \/ Prompt \/ SetGoal \/ Pause \/ Clear \/ Stop \/ End \/ Compact
  \/ ResumeInRound \/ ResumeCheck \/ ResumeExhausted \/ ResumeRound \/ ResumeRefused
  \/ \E s \in Sessions : OpenAgain(s) \/ OpenStored(s) \/ Fork(s) \/ Delete(s)

Host ==
  \/ Leave
  \/ \E round \in BOOLEAN : StartDetached(round)
  \/ \E s \in Sessions : EndCloses(s) \/ \E phase \in {"halted", "complete"} : UpdateGoal(s, phase)
  \/ \E t \in Threads :
       \/ RoundIsLast(t) \/ RoundDecides(t) \/ NextRound(t)
       \/ CheckBegins(t)
       \/ \E last \in {"final", "other"} : TurnEnds(t, last)
       \/ \E ok \in BOOLEAN : CheckEnds(t, ok)

Next == Person \/ Host

Spec == Init /\ [][Next]_vars

-----------------------------------------------------------------------------
TypeOK ==
  /\ stored \in [Sessions -> {"none", "stored", "deleted"}]
  /\ open \subseteq Sessions /\ leaving \subseteq Sessions
  /\ current \in Sessions \cup {None}
  /\ active \in [Sessions -> {None} \cup Threads] /\ checks \in [Sessions -> {None} \cup Threads]
  /\ goals \in [Sessions -> {None} \cup Goals] /\ mine \in {None} \cup Goals
  /\ saved \in [Sessions -> Payload \cup {None}] /\ goal \in [Goals -> Payload]
  /\ thread \in [Threads -> [at : {"over", "turn", "popped", "next", "check", "checking", "lost"},
                             of : Sessions \cup {None}, round : BOOLEAN,
                             last : {"none", "final", "other"},
                             goal : {None} \cup Goals, cut : BOOLEAN, cleared : BOOLEAN]]

\* Somebody works for the goal of s, or is about to.
Worked(s) ==
  \E t \in Threads :
    /\ thread[t].of = s
    /\ \/ thread[t].at = "turn" /\ thread[t].round
       \/ thread[t].at = "popped"
       \/ thread[t].at \in {"next", "check", "checking"} /\ thread[t].goal = goals[s]

Stalled(s) == s \in open /\ Pursued(s) /\ ~Worked(s)

\* A goal of an open conversation that is active is worked for: a turn, a check
\* or a thread between the two is there.  Only a resume that start() refuses
\* (run.py:1005-1018, where the phase is set first) leaves one that nobody takes up.
GoalsAreWorkedFor ==
  [][\A s \in Sessions : Stalled(s)' => Stalled(s) \/ (s = current /\ ResumeRefused)]_vars

\* Whatever closes conversations (run.py:1902), one with a turn or a goal check
\* stays; only the unlocked end of end_conversation does not look.
WorkKeepsConversation ==
  [][\A s \in open : s \notin open' => s \in leaving \/ (active'[s] = None /\ checks'[s] = None)]_vars

\* What the metadata and the person's view say of a goal.
Agrees(s) ==
  goals[s] # None =>
    saved[s] = goal[goals[s]] /\ (s = current => mine = goals[s])

\* The places a goal is kept in come apart only through a thread that still
\* holds a goal which is not the conversation's any more.
GoalsAgree ==
  [][\A s \in Sessions :
       s \in open' /\ ~Agrees(s)' =>
         \/ s \notin open \/ ~Agrees(s)
         \/ \E t \in Threads : thread[t].of = s /\ thread[t].goal \notin {None, goals[s]}]_vars

\* A goal that the person resumed, and that is not refused, is worked for
\* (PROTOCOL.md:574-576).
ResumedGoalsRun == \A s \in Sessions : ~Stalled(s)
=============================================================================
