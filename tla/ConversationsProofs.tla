------------------------- MODULE ConversationsProofs -------------------------
(***************************************************************************)
(* Proofs about Conversations, for any conversations, threads, slots,      *)
(* goals and rounds.                                                       *)
(*                                                                         *)
(* The invariant Inv has five parts.  Types: what each variable holds.     *)
(* Works: the tables of turns and of checks agree with what the threads    *)
(* do.  Stores: what the metadata, the goal and the current conversation   *)
(* say of one conversation fits together.  Heap: the goals made are the    *)
(* first ones, and whatever refers to a goal refers to it for one          *)
(* conversation only, so that a step on one conversation disturbs no       *)
(* other.  ChecksAttend: the active goal of an open conversation with a    *)
(* check has a thread at it whose check was not cleared.                   *)
(*                                                                         *)
(* A lemma for each action proves Kept of it: the invariant, and what the  *)
(* three action properties say of the step.                                *)
(***************************************************************************)
EXTENDS Conversations, FiniteSetTheorems, TLAPS

Payloads == [phase : Phases, rounds : Nat]
Places == {"over", "turn", "popped", "next", "check", "checking", "lost"}
Tasks == [at : Places, of : Sessions \cup {None}, round : BOOLEAN,
          last : {"none", "final", "other"},
          goal : {None} \cup Goals, cut : BOOLEAN, cleared : BOOLEAN]

\* The model's types, but for a bound on the rounds.
Types ==
  /\ stored \in [Sessions -> {"none", "stored", "deleted"}]
  /\ open \subseteq Sessions /\ leaving \subseteq Sessions
  /\ current \in Sessions \cup {None}
  /\ active \in [Sessions -> {None} \cup Threads]
  /\ checks \in [Sessions -> {None} \cup Threads]
  /\ goals \in [Sessions -> {None} \cup Goals] /\ mine \in {None} \cup Goals
  /\ saved \in [Sessions -> Payloads \cup {None}] /\ goal \in [Goals -> Payloads]
  /\ thread \in [Threads -> Tasks]

\* A turn and a thread that has ended are tasks.
LEMMA TaskFacts ==
  /\ Over \in Tasks /\ Over.at = "over" /\ Over.of = None /\ Over.goal = None
  /\ \A s \in Sessions, round \in BOOLEAN :
       /\ Turn(s, round) \in Tasks /\ Turn(s, round).at = "turn" /\ Turn(s, round).of = s
       /\ Turn(s, round).round = round /\ Turn(s, round).goal = None
       /\ Turn(s, round).cleared = FALSE
BY DEF Over, Tasks, Places, Turn

\* Every change of a goal leaves a payload.
LEMMA PayloadFacts ==
  /\ NewGoal \in Payloads /\ NoGoal \in Payloads
  /\ \A p \in Payloads, phase \in Phases : [p EXCEPT !.phase = phase] \in Payloads
  /\ \A p \in Payloads : [p EXCEPT !.rounds = @ + 1] \in Payloads
  /\ \A p \in Payloads : Reopened(p) \in Payloads
BY DEF NewGoal, NoGoal, Payloads, Phases, Reopened

\* Two tasks that differ in nothing but whether the check was cut.
Alike(a, b) ==
  /\ a.at = b.at /\ a.of = b.of /\ a.round = b.round /\ a.goal = b.goal
  /\ a.cleared = b.cleared

\* Cutting a check disturbs no thread otherwise.
LEMMA CutFacts ==
  ASSUME Types, NEW s \in Sessions
  PROVE  Cut(s) \in [Threads -> Tasks] /\ \A t \in Threads : Alike(Cut(s)[t], thread[t])
<1>1. \A t \in Threads : thread[t] \in Tasks
  BY DEF Types
<1>2. \A k \in Tasks : [k EXCEPT !.cut = TRUE] \in Tasks /\ Alike([k EXCEPT !.cut = TRUE], k)
  BY DEF Tasks, Alike
<1> QED
  BY <1>1, <1>2 DEF Cut, Alike

\* Threads that leave or move on stay tasks.
LEMMA MoveFacts ==
  ASSUME Types, NEW t \in Threads
  PROVE  /\ Leaves(t) = [thread EXCEPT ![t] = Over] /\ Leaves(t) \in [Threads -> Tasks]
         /\ \A place \in Places : To(t, place) \in [Threads -> Tasks]
BY TaskFacts DEF Types, Leaves, To, Tasks

\* What is saved is a payload.
LEMMA SaveFacts ==
  ASSUME Types, NEW s \in Sessions, NEW p \in Payloads \cup {None}
  PROVE  Save(s, p) \in [Sessions -> Payloads \cup {None}]
BY DEF Types, Save

\* The change of a phase keeps the types.
LEMMA BecomesTyped ==
  ASSUME Types, NEW s \in Sessions, NEW g \in Goals, NEW phase \in Phases,
         NEW heap \in [Goals -> Payloads], Becomes(s, g, phase, heap)
  PROVE  saved' \in [Sessions -> Payloads \cup {None}] /\ goal' \in [Goals -> Payloads]
<1>1. [heap[g] EXCEPT !.phase = phase] \in Payloads
  BY PayloadFacts
<1>2. [heap EXCEPT ![g].phase = phase] = [heap EXCEPT ![g] = [heap[g] EXCEPT !.phase = phase]]
  OBVIOUS
<1> QED
  BY <1>1, <1>2, SaveFacts DEF Becomes

\* The start of a round keeps the types.
LEMMA RoundStartsTyped ==
  ASSUME Types, NEW s \in Sessions, NEW t \in Threads, NEW threads \in [Threads -> Tasks],
         NEW heap \in [Goals -> Payloads], NEW gs \in [Sessions -> Goals \cup {None}],
         RoundStarts(s, t, threads, heap, gs)
  PROVE  /\ active' \in [Sessions -> {None} \cup Threads] /\ thread' \in [Threads -> Tasks]
         /\ goals' \in [Sessions -> {None} \cup Goals] /\ mine' \in {None} \cup Goals
         /\ saved' \in [Sessions -> Payloads \cup {None}] /\ goal' \in [Goals -> Payloads]
<1> DEFINE g == gs[s]
           h == [heap EXCEPT ![g].rounds = @ + 1]
<1>1. g = None \/ (g \in Goals /\ h \in [Goals -> Payloads] /\ h[g] \in Payloads)
  BY PayloadFacts DEF Payloads
<1>2. /\ active' = [active EXCEPT ![s] = t] /\ thread' = [threads EXCEPT ![t] = Turn(s, TRUE)]
      /\ goals' = gs /\ goal' = (IF g = None THEN heap ELSE h)
      /\ saved' = (IF g = None THEN saved ELSE Save(s, h[g]))
      /\ mine' = (IF s = current THEN g ELSE mine)
  BY DEF RoundStarts
<1>3. g # None => Save(s, h[g]) \in [Sessions -> Payloads \cup {None}]
  BY <1>1, SaveFacts
<1> HIDE DEF g, h
<1>4. saved' \in [Sessions -> Payloads \cup {None}] /\ goal' \in [Goals -> Payloads]
  BY <1>1, <1>2, <1>3 DEF Types
<1>5. thread' \in [Threads -> Tasks]
  BY <1>2, TaskFacts
<1> QED
  BY <1>1, <1>2, <1>4, <1>5 DEF Types

\* The closing of idle conversations keeps the types.
LEMMA CloseIdleTyped ==
  ASSUME NEW o \in SUBSET Sessions, NEW c, NEW a, NEW k,
         NEW gs \in [Sessions -> Goals \cup {None}], CloseIdle(o, c, a, k, gs)
  PROVE  open' \subseteq Sessions /\ goals' \in [Sessions -> Goals \cup {None}]
BY DEF CloseIdle

\* The start of a turn keeps the types.
LEMMA TurnStartsTyped ==
  ASSUME Types, NEW s \in Sessions, NEW t \in Threads, NEW round \in BOOLEAN,
         NEW threads \in [Threads -> Tasks], TurnStarts(s, t, round, threads)
  PROVE  /\ stored' \in [Sessions -> {"none", "stored", "deleted"}]
         /\ open' \subseteq Sessions /\ leaving' \subseteq Sessions
         /\ current' \in Sessions \cup {None}
         /\ active' \in [Sessions -> {None} \cup Threads]
         /\ checks' \in [Sessions -> {None} \cup Threads]
         /\ thread' \in [Threads -> Tasks]
BY TaskFacts DEF Types, TurnStarts

-----------------------------------------------------------------------------
\* The tables of turns and checks, and the threads.
Works ==
  /\ \A t \in Threads : thread[t].at # "over" =>
       thread[t].of \in Sessions /\ stored[thread[t].of] # "none"
  /\ \A t \in Threads : thread[t].at = "turn" => active[thread[t].of] = t
  /\ \A s \in Sessions : active[s] # None =>
       thread[active[s]].at = "turn" /\ thread[active[s]].of = s
  /\ \A s \in Sessions : checks[s] # None =>
       thread[checks[s]].at \in {"check", "checking", "lost"} /\ thread[checks[s]].of = s
  /\ \A t \in Threads :
       /\ thread[t].at \in {"next", "check", "checking"} => thread[t].goal # None
       /\ thread[t].at \in {"turn", "popped", "next"} => ~thread[t].cleared
       /\ thread[t].at \in {"check", "checking", "lost"} => thread[t].of \in Checked
       /\ thread[t].at = "over" => thread[t].goal = None /\ thread[t].of = None

\* What is kept of one conversation.
Stores ==
  /\ \A s \in Sessions :
       /\ stored[s] = "none" => goals[s] = None /\ saved[s] = None
       /\ goals[s] # None /\ stored[s] = "stored" => saved[s] # None
       /\ s \in open => stored[s] = "stored"
       /\ s \in open /\ goals[s] = None /\ saved[s] # None => saved[s].phase # "active"
  /\ current # None => stored[current] = "stored"
  /\ mine # None => current # None /\ goals[current] # None

\* The goals something refers to for s, and those made so far.
Held(s) ==
  {g \in Goals : \/ goals[s] = g
                 \/ current = s /\ mine = g
                 \/ \E t \in Threads : thread[t].of = s /\ thread[t].goal = g}
Made == {g \in Goals : goal[g] # NoGoal}

Heap ==
  /\ \E k \in 0 .. MaxGoals : Made = 1 .. k
  /\ \A g \in Made : goal[g].rounds > 0
  /\ \A s \in Sessions : saved[s] # None => saved[s].rounds > 0
  /\ \A s \in Sessions : Held(s) \subseteq Made
  /\ \A s, r \in Sessions : s # r => Held(s) \cap Held(r) = {}

\* The thread t works for the goal of s, or is about to.
Attends(t, s) ==
  /\ thread[t].of = s
  /\ \/ thread[t].at = "turn" /\ thread[t].round
     \/ thread[t].at = "popped"
     \/ /\ thread[t].at \in {"next", "check", "checking"}
        /\ thread[t].goal = goals[s] /\ ~thread[t].cleared
Attended(s) == \E t \in Threads : Attends(t, s)

ChecksAttend == \A s \in Sessions \cap Checked : s \in open /\ Pursued(s) => Attended(s)

Inv == Types /\ Works /\ Stores /\ Heap /\ ChecksAttend

\* What the three action properties say of a step.
AttendStep ==
  \A s \in Sessions : s \in open' /\ Pursued(s)' /\ ~Attended(s)' =>
    (s \in open /\ Pursued(s) /\ ~Attended(s)) \/ (s = current /\ ResumeRefused)
KeepStep ==
  \A s \in open : s \notin open' => s \in leaving \/ (active'[s] = None /\ checks'[s] = None)
AgreeStep ==
  \A s \in Sessions :
    s \in open' /\ ~Agrees(s)' =>
      \/ s \notin open \/ ~Agrees(s)
      \/ \E t \in Threads : thread[t].of = s /\ thread[t].goal \notin {None, goals[s]}

Kept == Types' /\ Works' /\ Stores' /\ Heap' /\ AttendStep /\ KeepStep /\ AgreeStep

\* None is nothing else.
LEMMA NoneFacts ==
  /\ MaxGoals \in Nat
  /\ None \notin Sessions /\ None \notin Threads /\ None \notin Goals
  /\ None \notin Payloads
BY ConversationAssumption DEF Goals, Payloads, Phases

\* Threads as they were, but for a check that is cut.
LEMMA WorksStay ==
  ASSUME Types, Works, UNCHANGED <<active, checks>>,
         \A t \in Threads : Alike(thread'[t], thread[t]),
         \A s \in Sessions : stored[s] # "none" => stored'[s] # "none"
  PROVE  Works'
BY NoneFacts DEF Works, Types, Alike

\* A turn of s in thread t; another thread may have ended.
LEMMA TurnWorks ==
  ASSUME Types, Works, NEW s \in Sessions, NEW t \in Threads, NEW round \in BOOLEAN,
         NEW threads \in [Threads -> Tasks], active[s] = None, thread[t].at = "over",
         \A u \in Threads : \/ Alike(threads[u], thread[u])
                            \/ /\ threads[u] = Over /\ thread[u].at # "turn"
                               /\ \A r \in Sessions : checks'[r] # u,
         \A r \in Sessions : checks'[r] \in {checks[r], None},
         active' = [active EXCEPT ![s] = t],
         thread' = [threads EXCEPT ![t] = Turn(s, round)],
         \A r \in Sessions : stored[r] # "none" => stored'[r] # "none",
         stored'[s] # "none"
  PROVE  Works'
<1>1. /\ thread'[t].at = "turn" /\ thread'[t].of = s /\ thread'[t].goal = None
      /\ thread'[t].cleared = FALSE /\ thread'[t].round = round
  BY TaskFacts
<1>2. \A u \in Threads : u # t => \/ Alike(thread'[u], thread[u])
                                  \/ /\ thread'[u] = Over /\ thread[u].at # "turn"
                                     /\ \A r \in Sessions : checks'[r] # u
  OBVIOUS
<1>3. Over.at = "over" /\ Over.goal = None /\ Over.of = None
  BY TaskFacts
<1>4. \A r \in Sessions : active'[r] = (IF r = s THEN t ELSE active[r])
  BY DEF Types
<1>5. \A r \in Sessions : checks'[r] # None => checks'[r] \in Threads /\ checks'[r] # t
  BY NoneFacts DEF Types, Works
<1>6. \A u \in Threads : u # t /\ thread[u].at = "turn" => thread[u].of # s
  BY NoneFacts DEF Types, Works
<1>7. \A r \in Sessions : r # s /\ active[r] # None => active[r] \in Threads /\ active[r] # t
  BY NoneFacts DEF Types, Works
<1>8. \A u \in Threads : thread'[u].at # "over" =>
        thread'[u].of \in Sessions /\ stored'[thread'[u].of] # "none"
  BY <1>1, <1>2, <1>3 DEF Works, Alike
<1>9. \A u \in Threads : thread'[u].at = "turn" => active'[thread'[u].of] = u
  BY <1>1, <1>2, <1>3, <1>4, <1>6 DEF Works, Alike
<1>10. \A r \in Sessions : active'[r] # None =>
         thread'[active'[r]].at = "turn" /\ thread'[active'[r]].of = r
  BY <1>1, <1>2, <1>4, <1>7 DEF Works, Alike
<1>11. \A r \in Sessions : checks'[r] # None =>
         /\ thread'[checks'[r]].at \in {"check", "checking", "lost"}
         /\ thread'[checks'[r]].of = r
  BY <1>2, <1>5 DEF Works, Alike
<1>12. \A u \in Threads :
         /\ thread'[u].at \in {"next", "check", "checking"} => thread'[u].goal # None
         /\ thread'[u].at \in {"turn", "popped", "next"} => ~thread'[u].cleared
         /\ thread'[u].at \in {"check", "checking", "lost"} => thread'[u].of \in Checked
         /\ thread'[u].at = "over" => thread'[u].goal = None /\ thread'[u].of = None
  BY <1>1, <1>2, <1>3 DEF Works, Alike
<1> QED
  BY <1>8, <1>9, <1>10, <1>11, <1>12 DEF Works

\* The references of a conversation stay its own; n is a new goal of s, if any.
LEMMA HeapKept ==
  ASSUME Types, Heap, Types', NEW s \in Sessions \cup {None}, NEW n \in FreeGoal \cup {None},
         \A t \in Threads : thread'[t].of \in Sessions =>
           thread'[t].goal \in Held(thread'[t].of) \cup {None},
         \A r \in Sessions : goals'[r] \in Held(r) \cup {None} \/ (r = s /\ goals'[r] = n),
         current' # None =>
           mine' \in Held(current') \cup {None} \/ (current' = s /\ mine' = n),
         \A g \in Goals : goal'[g] = goal[g] \/ ((g \in Made \/ g = n) /\ goal'[g].rounds > 0),
         n # None => goal'[n].rounds > 0,
         \A r \in Sessions : saved'[r] \in {saved[r], None} \/ saved'[r].rounds > 0
  PROVE  Heap'
<1>1. PICK k \in 0 .. MaxGoals : Made = 1 .. k
  BY DEF Heap
<1>2. n = None \/ (n = k + 1 /\ n \in Goals)
  <2>1. k \in Nat /\ Cardinality(1 .. k) = k
    BY FS_Interval, NoneFacts
  <2> QED
    BY <1>1, <2>1 DEF FreeGoal, Made
<1>3. NoGoal.rounds = 0 /\ NoGoal \in Payloads
  BY PayloadFacts DEF NoGoal
<1>4. Made' = Made \cup ({n} \ {None})
  BY <1>2, <1>3, NoneFacts DEF Made, Types, Heap, Payloads
<1>5. \E j \in 0 .. MaxGoals : Made' = 1 .. j
  <2>1. CASE n = None
    BY <2>1, <1>1, <1>4
  <2>2. CASE n # None
    <3>1. n = k + 1 /\ n \in 1 .. MaxGoals
      BY <2>2, <1>2 DEF Goals
    <3>2. 1 .. n = (1 .. k) \cup {n}
      BY <3>1, <1>1, NoneFacts
    <3> QED
      BY <3>1, <3>2, <1>1, <1>4, <2>2, NoneFacts
  <2> QED
    BY <2>1, <2>2
<1>6. \A r \in Sessions : Held(r)' \subseteq Held(r) \cup (IF r = s /\ n # None THEN {n} ELSE {})
  <2> SUFFICES ASSUME NEW r \in Sessions, NEW g \in Held(r)'
               PROVE  g \in Held(r) \/ (r = s /\ n # None /\ g = n)
    OBVIOUS
  <2>1. g # None
    BY NoneFacts DEF Held
  <2>2. CASE goals'[r] = g
    BY <2>1, <2>2
  <2>3. CASE current' = r /\ mine' = g
    BY <2>1, <2>3, NoneFacts
  <2>4. CASE \E t \in Threads : thread'[t].of = r /\ thread'[t].goal = g
    BY <2>1, <2>4
  <2> QED
    BY <2>2, <2>3, <2>4 DEF Held
<1>7. n = None \/ n \notin Made
  BY <1>1, <1>2
<1>8. \A g \in Made' : goal'[g].rounds > 0
  BY <1>4, NoneFacts DEF Heap, Made
<1>9. \A r \in Sessions : saved'[r] # None => saved'[r].rounds > 0
  BY DEF Heap
<1>10. \A r \in Sessions : Held(r)' \subseteq Made'
  BY <1>4, <1>6 DEF Heap
<1>11. \A r, q \in Sessions : r # q => Held(r)' \cap Held(q)' = {}
  BY <1>6, <1>7, NoneFacts DEF Heap
<1> QED
  BY <1>5, <1>8, <1>9, <1>10, <1>11 DEF Heap

\* The same for a conversation and a goal that is new to it.
RefersOwn(s, n) ==
  /\ \A t \in Threads : thread'[t].goal \in Held(thread'[t].of) \cup {None}
  /\ \A r \in Sessions : goals'[r] \in Held(r) \cup {None} \/ (r = s /\ goals'[r] = n)
  /\ current' # None =>
       mine' \in Held(current') \cup {None} \/ (current' = s /\ mine' = n)
PayloadsStay(n) ==
  /\ \A g \in Goals : goal'[g] = goal[g] \/ ((g \in Made \/ g = n) /\ goal'[g].rounds > 0)
  /\ goal'[n].rounds > 0
  /\ \A r \in Sessions : saved'[r] \in {saved[r], None} \/ saved'[r].rounds > 0

\* A step that makes the goal n for s keeps the references of each conversation
\* its own.
LEMMA HeapGrows ==
  ASSUME Types, Heap, Types', NEW s \in Sessions, NEW n \in FreeGoal,
         RefersOwn(s, n), PayloadsStay(n)
  PROVE  Heap'
BY HeapKept DEF RefersOwn, PayloadsStay

\* The next goal to be made is not made yet.
LEMMA FreeGoalUnmade ==
  ASSUME Heap, NEW n \in FreeGoal
  PROVE  n \notin Made /\ n \in Goals
<1>1. PICK k \in 0 .. MaxGoals : Made = 1 .. k
  BY DEF Heap
<1>2. k \in Nat /\ Cardinality(1 .. k) = k
  BY FS_Interval, NoneFacts
<1>3. FreeGoal = {k + 1} \cap Goals
  BY <1>1, <1>2 DEF FreeGoal, Made
<1> QED
  BY <1>1, <1>2, <1>3

\* Whatever refers to a goal holds it for its conversation.
LEMMA OwnHeld ==
  ASSUME Types
  PROVE  /\ \A t \in Threads : thread[t].goal \in Held(thread[t].of) \cup {None}
         /\ \A s \in Sessions : goals[s] \in Held(s) \cup {None}
         /\ mine \in Held(current) \cup {None}
BY DEF Types, Tasks, Held

\* Nothing is kept of a conversation that was never stored.
LEMMA UnusedFacts ==
  ASSUME Types, Works, Stores, NEW s \in Sessions, stored[s] = "none"
  PROVE  /\ active[s] = None /\ checks[s] = None /\ goals[s] = None /\ saved[s] = None
         /\ s \notin open /\ s # current /\ \A t \in Threads : thread[t].of # s
BY NoneFacts DEF Types, Works, Stores

\* A conversation and a thread for a turn.
LEMMA AddressedFacts ==
  ASSUME Inv, MayPrompt, NEW s \in Addressed, NEW t \in FreeThread
  PROVE  /\ s \in Sessions /\ t \in Threads /\ thread[t] = Over /\ active[s] = None
         /\ s = current \/ (current = None /\ stored[s] = "none")
BY UnusedFacts DEF Inv, MayPrompt, Addressed, FreeThread, Unused, Active, Types

LEMMA PromptKeeps ==
  ASSUME Inv, Prompt
  PROVE  Kept
<1>1. PICK s \in Addressed, t \in FreeThread : TurnStarts(s, t, FALSE, Cut(s))
  BY DEF Prompt
<1>2. /\ s \in Sessions /\ t \in Threads /\ thread[t] = Over /\ active[s] = None
      /\ s = current \/ (current = None /\ stored[s] = "none")
  BY <1>1, AddressedFacts DEF Prompt
<1>3. UNCHANGED <<goals, mine, saved, goal, leaving, checks>>
  BY <1>1 DEF Prompt, TurnStarts
<1>4. Cut(s) \in [Threads -> Tasks] /\ \A u \in Threads : Alike(Cut(s)[u], thread[u])
  BY <1>2, CutFacts DEF Inv
<1>5. /\ stored' = [stored EXCEPT ![s] = "stored"]
      /\ open' = (IF current = None THEN open \cup {s} ELSE open) /\ current' = s
      /\ active' = [active EXCEPT ![s] = t]
      /\ thread' = [Cut(s) EXCEPT ![t] = Turn(s, FALSE)]
  BY <1>1 DEF TurnStarts
<1>6. Types'
  BY <1>1, <1>2, <1>3, <1>4, TurnStartsTyped DEF Inv, Types
<1>7. \A r \in Sessions : stored'[r] = (IF r = s THEN "stored" ELSE stored[r])
  BY <1>5 DEF Inv, Types
<1>8. Works'
  <2>1. thread[t].at = "over" /\ FALSE \in BOOLEAN
    BY <1>2, TaskFacts
  <2>2. /\ \A r \in Sessions : checks'[r] \in {checks[r], None}
        /\ \A r \in Sessions : stored[r] # "none" => stored'[r] # "none"
        /\ stored'[s] # "none"
    BY <1>2, <1>3, <1>7
  <2> QED
    BY <1>2, <1>4, <1>5, <2>1, <2>2, TurnWorks DEF Inv
<1>9. stored[s] = "none" => goals[s] = None /\ saved[s] = None /\ s \notin open
  BY <1>2, UnusedFacts DEF Inv
<1>10. Stores'
  BY <1>2, <1>3, <1>5, <1>7, <1>9, NoneFacts DEF Inv, Stores, Types
<1>11. \A u \in Threads : thread'[u] = Turn(s, FALSE) \/ Alike(thread'[u], thread[u])
  BY <1>4, <1>5
<1>12. Heap'
  <2>1. \A u \in Threads : thread'[u].goal \in Held(thread'[u].of) \cup {None}
    <3>1. \A u \in Threads : thread[u].goal \in Held(thread[u].of) \cup {None}
      BY OwnHeld DEF Inv
    <3>2. Turn(s, FALSE).goal = None
      BY <1>2, TaskFacts
    <3> QED
      BY <1>11, <3>1, <3>2 DEF Alike
  <2>2. current' # None => mine' \in Held(current') \cup {None}
    BY <1>2, <1>3, <1>5, OwnHeld DEF Inv, Stores
  <2> QED
    BY <1>3, <1>6, <2>1, <2>2, OwnHeld, HeapKept DEF Inv
<1>13. AttendStep
  <2>1. \A r \in Sessions, u \in Threads : Attends(u, r) => Attends(u, r)'
    BY <1>2, <1>3, <1>4, <1>5, TaskFacts DEF Attends, Alike
  <2> QED
    BY <2>1, <1>2, <1>3, <1>5, <1>9, NoneFacts DEF AttendStep, Attended, Pursued
<1>14. KeepStep
  BY <1>5 DEF KeepStep
<1>15. AgreeStep
  BY <1>2, <1>3, <1>5, <1>9 DEF AgreeStep, Agrees
<1> QED
  BY <1>6, <1>8, <1>10, <1>12, <1>13, <1>14, <1>15 DEF Kept

-----------------------------------------------------------------------------
(* The person pauses, stops, resumes and leaves. *)

\* A goal is held for one conversation.
LEMMA HeldApart ==
  ASSUME Inv, NEW s \in Sessions, NEW r \in Sessions, NEW g \in Held(s),
         g \in Held(r)
  PROVE  s = r /\ g \in Made
BY DEF Inv, Heap

\* A conversation's goal was made, and is its own.
LEMMA GoalsHeld ==
  ASSUME Inv, NEW s \in Sessions, goals[s] # None
  PROVE  goals[s] \in Goals /\ goals[s] \in Held(s) /\ goals[s] \in Made
BY NoneFacts DEF Inv, Types, Held, Heap

\* The person's goal was made, and is the current conversation's own.
LEMMA MineHeld ==
  ASSUME Inv, mine # None
  PROVE  /\ current \in Sessions /\ stored[current] = "stored" /\ goals[current] # None
         /\ mine \in Goals /\ mine \in Held(current) /\ mine \in Made
BY NoneFacts DEF Inv, Types, Stores, Held, Heap

\* What the change of a phase does to the goals and the metadata.
LEMMA BecomesFacts ==
  ASSUME Inv, NEW s \in Sessions, NEW g \in Held(s), NEW phase \in Phases,
         Becomes(s, g, phase, goal)
  PROVE  /\ goal' = [goal EXCEPT ![g] = [goal[g] EXCEPT !.phase = phase]]
         /\ \A h \in Goals : h # g => goal'[h] = goal[h]
         /\ g \in Goals /\ goal'[g].phase = phase /\ goal'[g].rounds = goal[g].rounds
         /\ goal'[g].rounds > 0 /\ g \in Made
         /\ \A r \in Sessions : r # s => saved'[r] = saved[r]
         /\ saved'[s] = (IF stored[s] = "stored" THEN goal'[g] ELSE saved[s])
         /\ saved' \in [Sessions -> Payloads \cup {None}] /\ goal' \in [Goals -> Payloads]
<1>1. g \in Goals /\ g \in Made /\ goal[g].rounds > 0
  BY DEF Inv, Heap, Held
<1>2. goal \in [Goals -> Payloads] /\ saved \in [Sessions -> Payloads \cup {None}]
  BY DEF Inv, Types
<1>3. [goal EXCEPT ![g].phase = phase] = [goal EXCEPT ![g] = [goal[g] EXCEPT !.phase = phase]]
  OBVIOUS
<1>4. /\ [goal[g] EXCEPT !.phase = phase].phase = phase
      /\ [goal[g] EXCEPT !.phase = phase].rounds = goal[g].rounds
  BY <1>1, <1>2 DEF Payloads
<1>5. /\ goal' = [goal EXCEPT ![g] = [goal[g] EXCEPT !.phase = phase]]
      /\ saved' = Save(s, [goal[g] EXCEPT !.phase = phase])
  BY <1>3 DEF Becomes
<1>6. /\ saved' \in [Sessions -> Payloads \cup {None}] /\ goal' \in [Goals -> Payloads]
  BY <1>1, BecomesTyped, <1>2 DEF Inv
<1>7. goal'[g] = [goal[g] EXCEPT !.phase = phase] /\ \A h \in Goals : h # g => goal'[h] = goal[h]
  BY <1>1, <1>2, <1>5
<1>8. /\ \A r \in Sessions : r # s => saved'[r] = saved[r]
      /\ saved'[s] = (IF stored[s] = "stored" THEN [goal[g] EXCEPT !.phase = phase] ELSE saved[s])
  BY <1>2, <1>5 DEF Save
<1> QED
  BY <1>1, <1>4, <1>5, <1>6, <1>7, <1>8

\* Threads that are alike work for the same goals.
LEMMA AlikeAttended ==
  ASSUME NEW s \in Sessions, \A t \in Threads : Alike(thread'[t], thread[t]), goals'[s] = goals[s]
  PROVE  Attended(s)' <=> Attended(s)
BY DEF Attended, Attends, Alike

\* Threads that are alike hold the same goals.
LEMMA AlikeHeld ==
  ASSUME Types, \A t \in Threads : Alike(thread'[t], thread[t])
  PROVE  \A t \in Threads : thread'[t].goal \in Held(thread'[t].of) \cup {None}
<1>1. \A t \in Threads : thread[t].goal \in Held(thread[t].of) \cup {None}
  BY OwnHeld
<1> QED
  BY <1>1 DEF Alike

\* A phase of the person's goal is set; it is made active only for somebody.
LEMMA MineBecomes ==
  ASSUME Inv, mine # None, NEW phase \in Phases, Becomes(current, mine, phase, goal),
         UNCHANGED <<stored, open, current, leaving, active, checks, goals, mine>>,
         thread' \in [Threads -> Tasks], \A t \in Threads : Alike(thread'[t], thread[t]),
         phase = "active" => ResumeRefused \/ Attended(current)
  PROVE  Kept
<1>1. /\ current \in Sessions /\ stored[current] = "stored" /\ goals[current] # None
      /\ mine \in Goals /\ mine \in Held(current) /\ mine \in Made
  BY MineHeld
<1>2. /\ \A h \in Goals : h # mine => goal'[h] = goal[h]
      /\ goal'[mine].phase = phase /\ goal'[mine].rounds > 0
      /\ \A r \in Sessions : r # current => saved'[r] = saved[r]
      /\ saved'[current] = goal'[mine]
      /\ saved' \in [Sessions -> Payloads \cup {None}] /\ goal' \in [Goals -> Payloads]
  BY <1>1, BecomesFacts
<1>3. Types'
  BY <1>2 DEF Inv, Types
<1>4. Works'
  BY WorksStay DEF Inv
<1>5. saved'[current] # None
  BY <1>1, <1>2, NoneFacts
<1>6. Stores'
  BY <1>1, <1>2, <1>5 DEF Inv, Stores
<1>7. Heap'
  <2>1. \A t \in Threads : thread'[t].goal \in Held(thread'[t].of) \cup {None}
    BY AlikeHeld DEF Inv
  <2>2. \A g \in Goals : goal'[g] = goal[g] \/ (g \in Made /\ goal'[g].rounds > 0)
    BY <1>1, <1>2
  <2>3. \A r \in Sessions : saved'[r] = saved[r] \/ saved'[r].rounds > 0
    BY <1>2
  <2> QED
    BY <1>3, <2>1, <2>2, <2>3, OwnHeld, HeapKept DEF Inv
<1>8. \A r \in Sessions : goals[r] = mine => r = current
  BY <1>1, HeldApart, GoalsHeld, NoneFacts
<1>9. \A r \in Sessions : goals[r] # None /\ r # current => goal'[goals[r]] = goal[goals[r]]
  BY <1>2, <1>8, GoalsHeld
<1>10. AttendStep
  <2>1. \A r \in Sessions : Attended(r)' <=> Attended(r)
    BY AlikeAttended
  <2>2. \A r \in Sessions : Pursued(r)' => Pursued(r) \/ (r = current /\ phase = "active")
    BY <1>1, <1>2, <1>9, GoalsHeld DEF Pursued
  <2> QED
    BY <2>1, <2>2 DEF AttendStep
<1>11. KeepStep
  BY DEF KeepStep
<1>12. AgreeStep
  BY <1>1, <1>2, <1>9 DEF AgreeStep, Agrees
<1> QED
  BY <1>3, <1>4, <1>6, <1>7, <1>10, <1>11, <1>12 DEF Kept

LEMMA PauseKeeps ==
  ASSUME Inv, Pause
  PROVE  Kept
<1>1. \A k \in Tasks : [k EXCEPT !.cut = TRUE] \in Tasks /\ Alike([k EXCEPT !.cut = TRUE], k)
  BY DEF Tasks, Alike
<1>2. thread' \in [Threads -> Tasks] /\ \A t \in Threads : Alike(thread'[t], thread[t])
  BY <1>1 DEF Pause, Inv, Types, Alike
<1> QED
  BY <1>2, MineBecomes DEF Pause, Phases

LEMMA ResumeInRoundKeeps ==
  ASSUME Inv, ResumeInRound
  PROVE  Kept
<1>1. mine # None /\ current \in Sessions
  BY MineHeld DEF ResumeInRound, MayResume
<1>2. Active # None /\ thread[Active].round /\ Active = active[current]
  BY <1>1, NoneFacts DEF ResumeInRound, Active
<1>3. Attended(current)
  BY <1>1, <1>2 DEF Inv, Types, Works, Attended, Attends
<1> QED
  BY <1>1, <1>3, MineBecomes DEF ResumeInRound, Phases, Inv, Types, Alike

LEMMA ResumeExhaustedKeeps ==
  ASSUME Inv, ResumeExhausted
  PROVE  Kept
BY MineBecomes DEF ResumeExhausted, Resumes, MayResume, Phases, Inv, Types, Alike

LEMMA ResumeRefusedKeeps ==
  ASSUME Inv, ResumeRefused
  PROVE  Kept
<1>1. /\ mine # None /\ Becomes(current, mine, "active", goal)
      /\ UNCHANGED <<stored, open, current, leaving, active, checks, goals, mine, thread>>
  BY DEF ResumeRefused, Resumes, MayResume
<1> QED
  BY <1>1, MineBecomes DEF Phases, Inv, Types, Alike

LEMMA StopKeeps ==
  ASSUME Inv, Stop
  PROVE  Kept
<1>1. current \in Sessions
  BY DEF Stop, Inv, Types
<1>2. Cut(current) \in [Threads -> Tasks] /\ \A t \in Threads : Alike(thread'[t], thread[t])
  BY <1>1, CutFacts DEF Stop, Inv
<1>3. UNCHANGED <<stored, open, current, leaving, active, checks, goals, mine, saved, goal>>
  BY DEF Stop
<1>4. Types' /\ Stores'
  BY <1>2, <1>3 DEF Stop, Inv, Types, Stores
<1>5. Works'
  BY <1>2, <1>3, WorksStay DEF Inv
<1>6. Heap'
  <2>1. \A t \in Threads : thread'[t].goal \in Held(thread'[t].of) \cup {None}
    BY <1>2, AlikeHeld DEF Inv
  <2> QED
    BY <1>3, <1>4, <2>1, OwnHeld, HeapKept DEF Inv
<1>7. \A s \in Sessions : Attended(s)' <=> Attended(s)
  BY <1>2, <1>3, AlikeAttended
<1> QED
  BY <1>3, <1>4, <1>5, <1>6, <1>7 DEF Kept, AttendStep, KeepStep, AgreeStep, Pursued, Agrees

LEMMA EndKeeps ==
  ASSUME Inv, End
  PROVE  Kept
<1>1. current \in Sessions
  BY DEF End, Inv, Types
<1>2. Cut(current) \in [Threads -> Tasks] /\ \A t \in Threads : Alike(thread'[t], thread[t])
  BY <1>1, CutFacts DEF End, Inv
<1>3. /\ UNCHANGED <<stored, open, active, checks, goals, saved, goal>>
      /\ current' = None /\ mine' = None /\ leaving' \subseteq Sessions
  BY <1>1 DEF End, Inv, Types
<1>4. Types' /\ Stores'
  BY <1>2, <1>3 DEF End, Inv, Types, Stores
<1>5. Works'
  BY <1>2, <1>3, WorksStay DEF Inv
<1>6. Heap'
  <2>1. \A t \in Threads : thread'[t].goal \in Held(thread'[t].of) \cup {None}
    BY <1>2, AlikeHeld DEF Inv
  <2> QED
    BY <1>3, <1>4, <2>1, OwnHeld, HeapKept DEF Inv
<1>7. \A s \in Sessions : Attended(s)' <=> Attended(s)
  BY <1>2, <1>3, AlikeAttended
<1> QED
  BY <1>3, <1>4, <1>5, <1>6, <1>7, NoneFacts
     DEF Kept, AttendStep, KeepStep, AgreeStep, Pursued, Agrees

LEMMA EndClosesKeeps ==
  ASSUME Inv, NEW s \in Sessions, EndCloses(s)
  PROVE  Kept
<1>1. /\ UNCHANGED <<stored, current, active, checks, goals, mine, saved, goal, thread>>
      /\ s \in leaving /\ leaving' = leaving \ {s} /\ open' = open \ {s}
  BY DEF EndCloses
<1>2. \A t \in Threads : Alike(thread'[t], thread[t])
  BY <1>1 DEF Alike
<1>3. Types' /\ Stores'
  BY <1>1 DEF Inv, Types, Stores
<1>4. Works'
  BY <1>1, <1>2, WorksStay DEF Inv
<1>5. Heap'
  BY <1>1, <1>3, OwnHeld, HeapKept DEF Inv
<1>6. \A r \in Sessions : Attended(r)' <=> Attended(r)
  BY <1>1, <1>2, AlikeAttended
<1> QED
  BY <1>1, <1>3, <1>4, <1>5, <1>6 DEF Kept, AttendStep, KeepStep, AgreeStep, Pursued, Agrees

LEMMA ClearKeeps ==
  ASSUME Inv, Clear
  PROVE  Kept
<1>1. current \in Sessions /\ mine # None
  BY MineHeld DEF Clear
<1>2. /\ UNCHANGED <<stored, open, current, leaving, active, checks, goal>>
      /\ mine' = None /\ goals' = [goals EXCEPT ![current] = None]
      /\ saved' = [saved EXCEPT ![current] = None]
      /\ thread' = [t \in Threads |-> IF t \in CheckOfMine
                                      THEN [thread[t] EXCEPT !.cleared = TRUE] ELSE thread[t]]
  BY DEF Clear
<1>3. \A k \in Tasks : /\ [k EXCEPT !.cleared = TRUE] \in Tasks
                       /\ [k EXCEPT !.cleared = TRUE].at = k.at
                       /\ [k EXCEPT !.cleared = TRUE].of = k.of
                       /\ [k EXCEPT !.cleared = TRUE].goal = k.goal
                       /\ [k EXCEPT !.cleared = TRUE].round = k.round
  BY DEF Tasks
<1>4. /\ thread' \in [Threads -> Tasks]
      /\ \A t \in Threads : /\ thread'[t].at = thread[t].at /\ thread'[t].of = thread[t].of
                            /\ thread'[t].goal = thread[t].goal
                            /\ thread'[t].round = thread[t].round
                            /\ t \notin CheckOfMine => thread'[t] = thread[t]
  BY <1>2, <1>3 DEF Inv, Types
<1>5. \A t \in CheckOfMine :
        t \in Threads /\ thread[t].at \in {"check", "checking", "lost"} /\ thread[t].of = current
  BY <1>1, NoneFacts DEF CheckOfMine, Inv, Works
<1>6. Types'
  BY <1>1, <1>2, <1>4 DEF Inv, Types
<1>7. Works'
  BY <1>2, <1>4, <1>5, NoneFacts DEF Inv, Works, Types
<1>8. /\ goals'[current] = None /\ saved'[current] = None
      /\ \A s \in Sessions : s # current => goals'[s] = goals[s] /\ saved'[s] = saved[s]
  BY <1>1, <1>2 DEF Inv, Types
<1>9. Stores'
  BY <1>2, <1>8 DEF Inv, Stores
<1>10. Heap'
  <2>1. \A t \in Threads : thread'[t].goal \in Held(thread'[t].of) \cup {None}
    <3>1. \A t \in Threads : thread[t].goal \in Held(thread[t].of) \cup {None}
      BY OwnHeld DEF Inv
    <3> QED
      BY <1>4, <3>1
  <2>2. \A s \in Sessions : goals'[s] \in Held(s) \cup {None}
    BY <1>8, OwnHeld DEF Inv
  <2>3. \A s \in Sessions : saved'[s] \in {saved[s], None}
    BY <1>8
  <2> QED
    BY <1>2, <1>6, <2>1, <2>2, <2>3, HeapKept DEF Inv
<1>11. AttendStep
  <2>1. \A s \in Sessions, t \in Threads : s # current /\ Attends(t, s) => Attends(t, s)'
    BY <1>4, <1>5, <1>8 DEF Attends
  <2> QED
    BY <1>2, <1>8, <2>1 DEF AttendStep, Attended, Pursued
<1>12. KeepStep /\ AgreeStep
  BY <1>2, <1>8 DEF KeepStep, AgreeStep, Agrees
<1> QED
  BY <1>6, <1>7, <1>9, <1>10, <1>11, <1>12 DEF Kept

LEMMA UpdateGoalKeeps ==
  ASSUME Inv, NEW s \in Sessions, NEW phase \in {"halted", "complete"}, UpdateGoal(s, phase)
  PROVE  Kept
<1>1. PICK g : g = goals[s]
  OBVIOUS
<1>2. /\ UNCHANGED <<stored, open, current, leaving, active, checks, goals, thread>>
      /\ g # None /\ Becomes(s, g, phase, goal)
      /\ mine' = (IF s = current /\ mine # None THEN g ELSE mine)
  BY <1>1 DEF UpdateGoal, Pursued
<1>3. g \in Goals /\ g \in Held(s) /\ g \in Made /\ phase \in Phases
  BY <1>1, <1>2, GoalsHeld DEF Phases
<1>4. /\ \A h \in Goals : h # g => goal'[h] = goal[h]
      /\ goal'[g].phase = phase /\ goal'[g].rounds > 0
      /\ \A r \in Sessions : r # s => saved'[r] = saved[r]
      /\ saved'[s] = (IF stored[s] = "stored" THEN goal'[g] ELSE saved[s])
      /\ saved' \in [Sessions -> Payloads \cup {None}] /\ goal' \in [Goals -> Payloads]
  BY <1>2, <1>3, BecomesFacts
<1>5. Types'
  BY <1>2, <1>3, <1>4 DEF Inv, Types
<1>6. \A t \in Threads : Alike(thread'[t], thread[t])
  BY <1>2 DEF Alike
<1>7. Works'
  BY <1>2, <1>6, WorksStay DEF Inv
<1>8. goal'[g] # None
  BY <1>3, <1>4, NoneFacts
<1>9. Stores'
  BY <1>1, <1>2, <1>4, <1>8 DEF Inv, Stores
<1>10. Heap'
  <2>1. current' # None => mine' \in Held(current') \cup {None}
    BY <1>2, <1>3, OwnHeld DEF Inv
  <2>2. \A h \in Goals : goal'[h] = goal[h] \/ (h \in Made /\ goal'[h].rounds > 0)
    BY <1>3, <1>4
  <2>3. \A r \in Sessions : saved'[r] = saved[r] \/ saved'[r].rounds > 0
    BY <1>4
  <2>4. \A t \in Threads : thread'[t].goal \in Held(thread'[t].of) \cup {None}
    BY <1>6, AlikeHeld DEF Inv
  <2>5. \A r \in Sessions : goals'[r] \in Held(r) \cup {None}
    BY <1>2, OwnHeld DEF Inv
  <2> QED
    BY <1>5, <2>1, <2>2, <2>3, <2>4, <2>5, HeapKept DEF Inv
<1>11. \A r \in Sessions : goals[r] = g => r = s
  BY <1>3, HeldApart, GoalsHeld, NoneFacts
<1>12. \A r \in Sessions : goals[r] # None /\ r # s => goal'[goals[r]] = goal[goals[r]]
  BY <1>4, <1>11, GoalsHeld
<1>13. AttendStep
  <2>1. \A r \in Sessions : Attended(r)' <=> Attended(r)
    BY <1>2, <1>6, AlikeAttended
  <2>2. \A r \in Sessions : Pursued(r)' => Pursued(r)
    BY <1>1, <1>2, <1>4, <1>12 DEF Pursued
  <2> QED
    BY <1>2, <2>1, <2>2 DEF AttendStep
<1>14. KeepStep
  BY <1>2 DEF KeepStep
<1>15. AgreeStep
  BY <1>1, <1>2, <1>4, <1>12 DEF AgreeStep, Agrees, Inv, Stores
<1> QED
  BY <1>5, <1>7, <1>9, <1>10, <1>13, <1>14, <1>15 DEF Kept

-----------------------------------------------------------------------------
(* Conversations are opened, closed, forked and deleted. *)

\* What a closing of idle conversations does.
LEMMA IdleFacts ==
  ASSUME NEW o \in SUBSET Sessions, NEW c, NEW a, NEW k,
         NEW gs \in [Sessions -> Goals \cup {None}], CloseIdle(o, c, a, k, gs)
  PROVE  \E gone \in SUBSET o :
           /\ open' = o \ gone /\ c \notin gone
           /\ \A s \in gone : a[s] = None /\ k[s] = None
           /\ \A s \in Sessions : goals'[s] = (IF s \in gone THEN None ELSE gs[s])
           /\ goals' \in [Sessions -> Goals \cup {None}]
<1>1. PICK jobs \in SUBSET o :
        LET gone == {s \in o \ jobs : s # c /\ a[s] = None /\ k[s] = None}
        IN  /\ open' = o \ gone
            /\ goals' = [s \in Sessions |-> IF s \in gone THEN None ELSE gs[s]]
  BY DEF CloseIdle
<1> DEFINE gone == {s \in o \ jobs : s # c /\ a[s] = None /\ k[s] = None}
<1>2. gone \in SUBSET o /\ c \notin gone /\ \A s \in gone : a[s] = None /\ k[s] = None
  OBVIOUS
<1>3. open' = o \ gone /\ goals' = [s \in Sessions |-> IF s \in gone THEN None ELSE gs[s]]
  BY <1>1
<1> HIDE DEF gone
<1> QED
  BY <1>2, <1>3

LEMMA LeaveKeeps ==
  ASSUME Inv, Leave
  PROVE  Kept
<1>1. /\ UNCHANGED <<stored, current, leaving, active, checks, mine, saved, goal, thread>>
      /\ CloseIdle(open, current, active, checks, goals)
  BY DEF Leave
<1>2. open \in SUBSET Sessions /\ goals \in [Sessions -> Goals \cup {None}]
  BY DEF Inv, Types
<1>3. PICK gone \in SUBSET open :
        /\ open' = open \ gone /\ current \notin gone
        /\ \A s \in gone : active[s] = None /\ checks[s] = None
        /\ \A s \in Sessions : goals'[s] = (IF s \in gone THEN None ELSE goals[s])
        /\ goals' \in [Sessions -> Goals \cup {None}]
  BY <1>1, <1>2, IdleFacts
<1>4. Types'
  BY <1>1, <1>3 DEF Inv, Types
<1>5. \A t \in Threads : Alike(thread'[t], thread[t])
  BY <1>1 DEF Alike
<1>6. Works'
  BY <1>1, <1>5, WorksStay DEF Inv
<1>7. Stores'
  BY <1>1, <1>3, NoneFacts DEF Inv, Stores, Types
<1>8. Heap'
  <2>1. \A s \in Sessions : goals'[s] \in Held(s) \cup {None}
    BY <1>3, OwnHeld DEF Inv
  <2>2. \A t \in Threads : thread'[t].goal \in Held(thread'[t].of) \cup {None}
    BY <1>5, AlikeHeld DEF Inv
  <2> QED
    BY <1>1, <1>4, <2>1, <2>2, OwnHeld, HeapKept DEF Inv
<1>9. \A s \in Sessions : goals'[s] = goals[s] => (Attended(s)' <=> Attended(s))
  BY <1>5, AlikeAttended
<1>10. AttendStep
  BY <1>1, <1>3, <1>9 DEF AttendStep, Pursued
<1>11. KeepStep /\ AgreeStep
  BY <1>1, <1>3 DEF KeepStep, AgreeStep, Agrees
<1> QED
  BY <1>4, <1>6, <1>7, <1>8, <1>10, <1>11 DEF Kept

\* s becomes the current conversation, with the goal g, new if it was not there;
\* others may be closed.
LEMMA Opened ==
  ASSUME Inv, NEW s \in Sessions, NEW g \in Goals \cup {None}, NEW n \in FreeGoal \cup {None},
         UNCHANGED <<leaving, active, checks, thread>>, s \notin leaving,
         current' = s, mine' = g,
         stored' = [stored EXCEPT ![s] = "stored"],
         CloseIdle(open \cup {s}, s, active, checks, [goals EXCEPT ![s] = g]),
         goal' \in [Goals -> Payloads], saved' \in [Sessions -> Payloads \cup {None}],
         \A h \in Goals : h # n => goal'[h] = goal[h],
         \A r \in Sessions : r # s => saved'[r] = saved[r],
         n # None => /\ g = n /\ saved'[s] = goal'[n] /\ goal'[n].rounds > 0
                     /\ goal'[n].phase # "active",
         n = None => /\ g = goals[s] /\ saved'[s] = saved[s]
                     /\ s \notin open => saved[s] = None /\ g = None
  PROVE  Kept
<1> DEFINE gs == [goals EXCEPT ![s] = g]
<1>1. open \cup {s} \in SUBSET Sessions /\ gs \in [Sessions -> Goals \cup {None}]
  BY DEF Inv, Types
<1>2. PICK gone \in SUBSET (open \cup {s}) :
        /\ open' = (open \cup {s}) \ gone /\ s \notin gone
        /\ \A r \in gone : active[r] = None /\ checks[r] = None
        /\ \A r \in Sessions : goals'[r] = (IF r \in gone THEN None ELSE gs[r])
        /\ goals' \in [Sessions -> Goals \cup {None}]
  BY <1>1, IdleFacts
<1>3. goals'[s] = g /\ \A r \in Sessions : r # s => goals'[r] = goals[r] \/ (r \in gone /\ goals'[r] = None)
  BY <1>2 DEF Inv, Types
<1>4. \A r \in Sessions : stored'[r] = (IF r = s THEN "stored" ELSE stored[r])
  BY DEF Inv, Types
<1>5. Types'
  BY <1>2 DEF Inv, Types
<1>6. \A t \in Threads : Alike(thread'[t], thread[t])
  BY DEF Alike
<1>7. Works'
  BY <1>4, <1>6, WorksStay DEF Inv
<1>8. n # None => goal'[n] \in Payloads /\ goal'[n] # None
  BY NoneFacts DEF FreeGoal
<1>9. Stores'
  <2>1. s \in open => stored[s] = "stored"
    BY DEF Inv, Stores
  <2>2. n = None => /\ g # None => saved'[s] # None
                    /\ g = None /\ saved'[s] # None => saved'[s].phase # "active"
    BY <2>1 DEF Inv, Stores
  <2>3. n # None => g # None /\ saved'[s] # None
    BY <1>8
  <2>4. \A r \in Sessions : r # s =>
          /\ stored'[r] = "none" => goals'[r] = None /\ saved'[r] = None
          /\ goals'[r] # None /\ stored'[r] = "stored" => saved'[r] # None
          /\ r \in open' => stored'[r] = "stored"
          /\ r \in open' /\ goals'[r] = None /\ saved'[r] # None => saved'[r].phase # "active"
    BY <1>2, <1>3, <1>4 DEF Inv, Stores
  <2> QED
    BY <1>3, <1>4, <2>2, <2>3, <2>4, NoneFacts DEF Stores
<1>10. Heap'
  <2>1. \A t \in Threads : thread'[t].goal \in Held(thread'[t].of) \cup {None}
    BY <1>6, AlikeHeld DEF Inv
  <2>2. \A r \in Sessions : goals'[r] \in Held(r) \cup {None} \/ (r = s /\ goals'[r] = n)
    BY <1>3, OwnHeld DEF Inv
  <2>3. mine' \in Held(current') \cup {None} \/ mine' = n
    BY OwnHeld DEF Inv
  <2>4. \A r \in Sessions : saved'[r] \in {saved[r], None} \/ saved'[r].rounds > 0
    OBVIOUS
  <2>5. \A h \in Goals : goal'[h] = goal[h] \/ ((h \in Made \/ h = n) /\ goal'[h].rounds > 0)
    BY NoneFacts
  <2> QED
    BY <1>5, <2>1, <2>2, <2>3, <2>4, <2>5, HeapKept DEF Inv
<1>11. n = None \/ \A r \in Sessions : goals[r] # n
  <2>1. n = None \/ n \notin Made
    BY FreeGoalUnmade DEF Inv
  <2> QED
    BY <2>1, GoalsHeld
<1>12. \A r \in Sessions : goals[r] # None => goals[r] \in Goals /\ goal'[goals[r]] = goal[goals[r]]
  BY <1>11, GoalsHeld
<1>13. AttendStep
  <2>1. \A r \in Sessions : goals'[r] = goals[r] => (Attended(r)' <=> Attended(r))
    BY <1>6, AlikeAttended
  <2>2. Pursued(s)' => s \in open /\ Pursued(s) /\ goals'[s] = goals[s]
    BY <1>3, <1>12 DEF Pursued
  <2>3. \A r \in Sessions : r # s /\ r \in open' /\ Pursued(r)' =>
          r \in open /\ Pursued(r) /\ goals'[r] = goals[r]
    BY <1>2, <1>3, <1>12 DEF Pursued
  <2> QED
    BY <2>1, <2>2, <2>3 DEF AttendStep
<1>14. KeepStep
  BY <1>2 DEF KeepStep
<1>15. AgreeStep
  <2>1. n # None => Agrees(s)'
    BY <1>3 DEF Agrees
  <2>2. n = None /\ s \in open /\ Agrees(s) => Agrees(s)'
    BY <1>3, <1>12 DEF Agrees
  <2>3. n = None /\ s \notin open => Agrees(s)'
    BY <1>3 DEF Agrees
  <2>4. \A r \in Sessions : r # s /\ Agrees(r) => Agrees(r)'
    BY <1>3, <1>12 DEF Agrees
  <2> QED
    BY <1>2, <2>1, <2>2, <2>3, <2>4 DEF AgreeStep
<1> QED
  BY <1>5, <1>7, <1>9, <1>10, <1>13, <1>14, <1>15 DEF Kept

LEMMA OpenAgainKeeps ==
  ASSUME Inv, NEW s \in Sessions, OpenAgain(s)
  PROVE  Kept
<1>1. /\ Waits /\ s \in open /\ current' = s /\ stored[s] = "stored"
      /\ UNCHANGED <<stored, leaving, active, checks, saved, thread>>
  BY DEF OpenAgain, Inv, Stores
<1>2. /\ open \cup {s} = open /\ [goals EXCEPT ![s] = goals[s]] = goals
      /\ [stored EXCEPT ![s] = "stored"] = stored
      /\ saved \in [Sessions -> Payloads \cup {None}] /\ goal \in [Goals -> Payloads]
      /\ s \notin leaving
  BY <1>1 DEF Inv, Types, Waits
<1>3. CASE goals[s] # None \/ saved[s] = None
  <2>1. mine' = goals[s] /\ CloseIdle(open, s, active, checks, goals) /\ goal' = goal
    BY <1>3 DEF OpenAgain
  <2>2. goals[s] \in Goals \cup {None} /\ None \in FreeGoal \cup {None} /\ saved' = saved
    BY <1>1 DEF Inv, Types
  <2>3. /\ UNCHANGED <<leaving, active, checks, thread>>
        /\ stored' = [stored EXCEPT ![s] = "stored"]
        /\ CloseIdle(open \cup {s}, s, active, checks, [goals EXCEPT ![s] = goals[s]])
    BY <1>1, <1>2, <2>1
  <2> QED
    BY <1>1, <1>2, <2>1, <2>2, <2>3, Opened
<1>4. CASE goals[s] = None /\ saved[s] # None
  <2>1. PICK g \in FreeGoal :
          /\ goal' = [goal EXCEPT ![g] = saved[s]] /\ mine' = g
          /\ CloseIdle(open, s, active, checks, [goals EXCEPT ![s] = g])
    BY <1>4 DEF OpenAgain
  <2>2. g \in Goals /\ saved[s] \in Payloads /\ saved[s].rounds > 0 /\ saved[s].phase # "active"
    BY <1>1, <1>2, <1>4, FreeGoalUnmade DEF Inv, Heap, Stores
  <2>3. /\ goal' \in [Goals -> Payloads] /\ goal'[g] = saved[s]
        /\ \A h \in Goals : h # g => goal'[h] = goal[h]
    BY <1>2, <2>1, <2>2
  <2>4. g # None
    BY <2>2, NoneFacts
  <2> QED
    BY <1>1, <1>2, <2>1, <2>2, <2>3, <2>4, Opened
<1> QED
  BY <1>3, <1>4

LEMMA OpenStoredKeeps ==
  ASSUME Inv, NEW s \in Sessions, OpenStored(s)
  PROVE  Kept
<1>1. /\ Waits /\ stored[s] = "stored" /\ s \notin open /\ current' = s
      /\ UNCHANGED <<stored, leaving, active, checks, thread>>
  BY DEF OpenStored
<1>2. /\ [goals EXCEPT ![s] = goals[s]] = goals /\ [stored EXCEPT ![s] = "stored"] = stored
      /\ saved \in [Sessions -> Payloads \cup {None}] /\ goal \in [Goals -> Payloads]
      /\ s \notin leaving
  BY <1>1 DEF Inv, Types, Waits
<1>3. CASE saved[s] = None
  <2>1. /\ mine' = None /\ CloseIdle(open \cup {s}, s, active, checks, goals)
        /\ goal' = goal /\ saved' = saved
    BY <1>3 DEF OpenStored
  <2>2. goals[s] = None
    BY <1>1, <1>3 DEF Inv, Stores
  <2> QED
    BY <1>1, <1>2, <1>3, <2>1, <2>2, Opened
<1>4. CASE saved[s] # None
  <2>1. PICK g \in FreeGoal :
          /\ goal' = [goal EXCEPT ![g] = Reopened(saved[s])] /\ mine' = g
          /\ saved' = [saved EXCEPT ![s] = Reopened(saved[s])]
          /\ CloseIdle(open \cup {s}, s, active, checks, [goals EXCEPT ![s] = g])
    BY <1>4 DEF OpenStored
  <2>2. g \in Goals /\ saved[s] \in Payloads /\ saved[s].rounds > 0
    BY <1>1, <1>2, <1>4, FreeGoalUnmade DEF Inv, Heap
  <2>3. PICK p : p = Reopened(saved[s])
    OBVIOUS
  <2>4. p \in Payloads /\ p.rounds > 0 /\ p.phase # "active"
    BY <2>2, <2>3 DEF Reopened, Payloads, Phases
  <2>5. /\ goal' \in [Goals -> Payloads] /\ goal'[g] = p
        /\ saved' \in [Sessions -> Payloads \cup {None}] /\ saved'[s] = p
        /\ \A h \in Goals : h # g => goal'[h] = goal[h]
        /\ \A r \in Sessions : r # s => saved'[r] = saved[r]
    BY <1>2, <2>1, <2>2, <2>3, <2>4
  <2>6. g # None
    BY <2>2, NoneFacts
  <2> QED
    BY <1>1, <1>2, <2>1, <2>2, <2>4, <2>5, <2>6, Opened
<1> QED
  BY <1>3, <1>4

LEMMA ForkKeeps ==
  ASSUME Inv, NEW s \in Sessions, Fork(s)
  PROVE  Kept
<1>1. PICK n \in Unused :
        /\ stored' = [stored EXCEPT ![n] = "stored"]
        /\ current' = n /\ mine' = None
        /\ CloseIdle(open \cup {n}, n, active, checks, goals)
  BY DEF Fork
<1>2. UNCHANGED <<leaving, active, checks, saved, goal, thread>> /\ Waits
  BY DEF Fork
<1>3. n \in Sessions /\ goals[n] = None /\ saved[n] = None /\ n \notin open
  BY <1>1, UnusedFacts DEF Unused, Inv
<1>4. /\ [goals EXCEPT ![n] = None] = goals /\ n \notin leaving
      /\ saved \in [Sessions -> Payloads \cup {None}] /\ goal \in [Goals -> Payloads]
  BY <1>2, <1>3 DEF Inv, Types, Waits
<1> QED
  BY <1>1, <1>2, <1>3, <1>4, Opened

LEMMA DeleteKeeps ==
  ASSUME Inv, NEW s \in Sessions, Delete(s)
  PROVE  Kept
<1>1. /\ stored[s] = "stored" /\ active[s] = None /\ checks[s] = None
      /\ stored' = [stored EXCEPT ![s] = "deleted"] /\ open' = open \ {s}
      /\ goals' = [goals EXCEPT ![s] = None] /\ saved' = [saved EXCEPT ![s] = None]
      /\ UNCHANGED <<leaving, active, checks, goal, thread>>
      /\ current' = (IF s = current THEN None ELSE current)
      /\ mine' = (IF s = current THEN None ELSE mine)
  BY DEF Delete
<1>2. \A r \in Sessions : /\ stored'[r] = (IF r = s THEN "deleted" ELSE stored[r])
                          /\ goals'[r] = (IF r = s THEN None ELSE goals[r])
                          /\ saved'[r] = (IF r = s THEN None ELSE saved[r])
  BY <1>1 DEF Inv, Types
<1>3. Types'
  BY <1>1 DEF Inv, Types
<1>4. \A t \in Threads : Alike(thread'[t], thread[t])
  BY <1>1 DEF Alike
<1>5. Works'
  BY <1>1, <1>2, <1>4, WorksStay DEF Inv
<1>6. Stores'
  BY <1>1, <1>2 DEF Inv, Stores, Types
<1>7. Heap'
  <2>1. \A r \in Sessions : goals'[r] \in Held(r) \cup {None}
    BY <1>2, OwnHeld DEF Inv
  <2>2. \A t \in Threads : thread'[t].goal \in Held(thread'[t].of) \cup {None}
    BY <1>4, AlikeHeld DEF Inv
  <2>3. current' # None => mine' \in Held(current') \cup {None}
    BY <1>1, OwnHeld DEF Inv
  <2>4. \A r \in Sessions : saved'[r] \in {saved[r], None}
    BY <1>2
  <2> QED
    BY <1>1, <1>3, <2>1, <2>2, <2>3, <2>4, HeapKept DEF Inv
<1>8. \A r \in Sessions : goals'[r] = goals[r] => (Attended(r)' <=> Attended(r))
  BY <1>4, AlikeAttended
<1>9. AttendStep
  BY <1>1, <1>2, <1>8 DEF AttendStep, Pursued
<1>10. KeepStep /\ AgreeStep
  BY <1>1, <1>2, NoneFacts DEF KeepStep, AgreeStep, Agrees
<1> QED
  BY <1>3, <1>5, <1>6, <1>7, <1>9, <1>10 DEF Kept

-----------------------------------------------------------------------------
(* Turns start. *)

\* A round works for the goal of its conversation.
LEMMA TurnAttends ==
  ASSUME NEW s \in Sessions, NEW t \in Threads, thread'[t] = Turn(s, TRUE)
  PROVE  Attended(s)'
BY TaskFacts DEF Attended, Attends

LEMMA CompactKeeps ==
  ASSUME Inv, Compact
  PROVE  Kept
<1>1. PICK t \in FreeThread :
        /\ active' = [active EXCEPT ![current] = t]
        /\ thread' = [thread EXCEPT ![t] = Turn(current, FALSE)]
  BY DEF Compact
<1>2. UNCHANGED <<stored, open, current, leaving, checks, goals, mine, saved, goal>>
  BY DEF Compact
<1>3. /\ current \in Sessions /\ active[current] = None /\ stored[current] = "stored"
      /\ t \in Threads /\ thread[t] = Over
  BY <1>1 DEF Compact, Inv, Types, Active, FreeThread, Stores
<1>4. Types'
  BY <1>1, <1>2, <1>3, TaskFacts DEF Inv, Types
<1>5. Works'
  <2>1. thread[t].at = "over" /\ FALSE \in BOOLEAN /\ thread \in [Threads -> Tasks]
    BY <1>3, TaskFacts DEF Inv, Types
  <2>2. /\ \A r \in Sessions : checks'[r] \in {checks[r], None}
        /\ \A r \in Sessions : stored[r] # "none" => stored'[r] # "none"
        /\ stored'[current] # "none"
    BY <1>2, <1>3
  <2>3. \A u \in Threads : Alike(thread[u], thread[u])
    BY DEF Alike
  <2> QED
    BY <1>1, <1>3, <2>1, <2>2, <2>3, TurnWorks DEF Inv
<1>6. Stores'
  BY <1>2 DEF Inv, Stores
<1>7. Heap'
  <2>1. \A u \in Threads : thread'[u].goal \in Held(thread'[u].of) \cup {None}
    <3>1. \A u \in Threads : thread[u].goal \in Held(thread[u].of) \cup {None}
      BY OwnHeld DEF Inv
    <3>2. Turn(current, FALSE).goal = None
      BY <1>3, TaskFacts
    <3> QED
      BY <1>1, <1>3, <3>1, <3>2 DEF Inv, Types
  <2> QED
    BY <1>2, <1>4, <2>1, OwnHeld, HeapKept DEF Inv
<1>8. AttendStep
  <2>1. \A r \in Sessions, u \in Threads : Attends(u, r) => Attends(u, r)'
    BY <1>1, <1>2, <1>3, TaskFacts DEF Attends, Inv, Types
  <2> QED
    BY <1>2, <2>1 DEF AttendStep, Attended, Pursued
<1>9. KeepStep /\ AgreeStep
  BY <1>2 DEF KeepStep, AgreeStep, Agrees
<1> QED
  BY <1>4, <1>5, <1>6, <1>7, <1>8, <1>9 DEF Kept

\* A first round, with a new goal.
LEMMA GoalStarts ==
  ASSUME Inv, NEW s \in Sessions, NEW t \in FreeThread, NEW n \in FreeGoal,
         active[s] = None, UNCHANGED <<leaving, checks>>,
         stored' = [stored EXCEPT ![s] = "stored"], open' \in {open, open \cup {s}},
         s \in open => stored[s] = "stored",
         active' = [active EXCEPT ![s] = t], thread' = [thread EXCEPT ![t] = Turn(s, TRUE)],
         goal' = [goal EXCEPT ![n] = NewGoal], goals' = [goals EXCEPT ![s] = n],
         saved' = [saved EXCEPT ![s] = NewGoal],
         (current' = s /\ mine' = n) \/ (UNCHANGED <<current, mine>> /\ s # current)
  PROVE  Kept
<1>1. /\ t \in Threads /\ thread[t] = Over /\ n \in Goals /\ n \notin Made /\ n # None
      /\ NewGoal \in Payloads /\ NewGoal.rounds = 1 /\ NewGoal # None
  BY FreeGoalUnmade, PayloadFacts, NoneFacts DEF FreeThread, Inv, NewGoal
<1>2. \A r \in Sessions : /\ stored'[r] = (IF r = s THEN "stored" ELSE stored[r])
                          /\ goals'[r] = (IF r = s THEN n ELSE goals[r])
                          /\ saved'[r] = (IF r = s THEN NewGoal ELSE saved[r])
  BY DEF Inv, Types
<1>3. goal'[n] = NewGoal /\ \A h \in Goals : h # n => goal'[h] = goal[h]
  BY <1>1 DEF Inv, Types
<1>4. Types'
  BY <1>1, TaskFacts DEF Inv, Types
<1>5. Works'
  <2>1. thread[t].at = "over" /\ TRUE \in BOOLEAN /\ thread \in [Threads -> Tasks]
    BY <1>1, TaskFacts DEF Inv, Types
  <2>2. /\ \A r \in Sessions : checks'[r] \in {checks[r], None}
        /\ \A r \in Sessions : stored[r] # "none" => stored'[r] # "none"
        /\ stored'[s] # "none"
    BY <1>2
  <2>3. \A u \in Threads : Alike(thread[u], thread[u])
    BY DEF Alike
  <2> QED
    BY <1>1, <2>1, <2>2, <2>3, TurnWorks DEF Inv
<1>6. Stores'
  <2>1. \A r \in Sessions : r # s =>
          /\ stored'[r] = "none" => goals'[r] = None /\ saved'[r] = None
          /\ goals'[r] # None /\ stored'[r] = "stored" => saved'[r] # None
          /\ r \in open' => stored'[r] = "stored"
          /\ r \in open' /\ goals'[r] = None /\ saved'[r] # None => saved'[r].phase # "active"
    BY <1>2 DEF Inv, Stores
  <2>2. stored'[s] = "stored" /\ goals'[s] # None /\ saved'[s] # None
    BY <1>1, <1>2
  <2>3. current' # None => current' \in Sessions /\ stored'[current'] = "stored"
    BY <1>2 DEF Inv, Stores, Types
  <2>4. mine' # None => current' # None /\ goals'[current'] # None
    BY <1>1, <1>2, NoneFacts DEF Inv, Stores, Types
  <2> QED
    BY <2>1, <2>2, <2>3, <2>4 DEF Stores
<1>7. Heap'
  <2>1. \A u \in Threads : thread'[u].goal \in Held(thread'[u].of) \cup {None}
    <3>1. \A u \in Threads : thread[u].goal \in Held(thread[u].of) \cup {None}
      BY OwnHeld DEF Inv
    <3>2. Turn(s, TRUE).goal = None
      BY TaskFacts
    <3> QED
      BY <1>1, <3>1, <3>2 DEF Inv, Types
  <2>2. \A r \in Sessions : goals'[r] \in Held(r) \cup {None} \/ (r = s /\ goals'[r] = n)
    BY <1>2, OwnHeld DEF Inv
  <2>3. current' # None => mine' \in Held(current') \cup {None} \/ (current' = s /\ mine' = n)
    BY OwnHeld DEF Inv
  <2>4. \A h \in Goals : goal'[h] = goal[h] \/ ((h \in Made \/ h = n) /\ goal'[h].rounds > 0)
    BY <1>1, <1>3
  <2>5. \A r \in Sessions : saved'[r] \in {saved[r], None} \/ saved'[r].rounds > 0
    BY <1>1, <1>2
  <2>6. goal'[n].rounds > 0
    BY <1>1, <1>3
  <2>7. RefersOwn(s, n)
    BY <2>1, <2>2, <2>3 DEF RefersOwn
  <2>8. PayloadsStay(n)
    BY <2>4, <2>5, <2>6 DEF PayloadsStay
  <2> QED
    BY <1>4, <2>7, <2>8, HeapGrows DEF Inv
<1>8. \A r \in Sessions : r # s /\ goals[r] # None =>
        goals[r] \in Goals /\ goal'[goals[r]] = goal[goals[r]]
  BY <1>1, <1>3, GoalsHeld
<1>9. AttendStep
  <2>1. Attended(s)'
    BY <1>1, TurnAttends DEF Inv, Types
  <2>2. \A r \in Sessions, u \in Threads : r # s /\ Attends(u, r) => Attends(u, r)'
    <3>1. \A u \in Threads : u # t => thread'[u] = thread[u]
      BY <1>1 DEF Inv, Types
    <3>2. \A r \in Sessions : ~Attends(t, r)
      BY <1>1, TaskFacts DEF Attends
    <3>3. \A r \in Sessions : r # s => goals'[r] = goals[r]
      BY <1>2
    <3>4. \A r \in Sessions, u \in Threads : Attends(u, r) => thread'[u] = thread[u]
      BY <3>1, <3>2
    <3> QED
      BY <3>3, <3>4 DEF Attends
  <2>3. \A r \in Sessions : r # s /\ Pursued(r)' => Pursued(r)
    BY <1>2, <1>8 DEF Pursued
  <2> QED
    BY <2>1, <2>2, <2>3 DEF AttendStep, Attended
<1>10. KeepStep
  BY DEF KeepStep
<1>11. AgreeStep
  BY <1>1, <1>2, <1>3, <1>8 DEF AgreeStep, Agrees
<1> QED
  BY <1>4, <1>5, <1>6, <1>7, <1>9, <1>10, <1>11 DEF Kept

LEMMA SetGoalKeeps ==
  ASSUME Inv, SetGoal
  PROVE  Kept
<1>1. PICK s \in Addressed, t \in FreeThread, n \in FreeGoal :
        /\ TurnStarts(s, t, TRUE, thread)
        /\ goal' = [goal EXCEPT ![n] = NewGoal]
        /\ goals' = [goals EXCEPT ![s] = n] /\ mine' = n
        /\ saved' = [saved EXCEPT ![s] = NewGoal]
  BY DEF SetGoal
<1>2. /\ s \in Sessions /\ active[s] = None
      /\ s = current \/ (current = None /\ stored[s] = "none")
  BY <1>1, AddressedFacts DEF SetGoal
<1>3. s \in open => stored[s] = "stored"
  BY <1>2 DEF Inv, Stores
<1> QED
  BY <1>1, <1>2, <1>3, GoalStarts DEF TurnStarts

LEMMA StartDetachedKeeps ==
  ASSUME Inv, NEW round \in BOOLEAN, StartDetached(round)
  PROVE  Kept
<1>1. PICK s \in Unused, t \in FreeThread, n \in FreeGoal :
        /\ stored' = [stored EXCEPT ![s] = "stored"] /\ open' = open \cup {s}
        /\ active' = [active EXCEPT ![s] = t]
        /\ thread' = [thread EXCEPT ![t] = Turn(s, round)]
        /\ IF round
           THEN /\ goal' = [goal EXCEPT ![n] = NewGoal]
                /\ goals' = [goals EXCEPT ![s] = n]
                /\ saved' = [saved EXCEPT ![s] = NewGoal]
           ELSE UNCHANGED <<goal, goals, saved>>
  BY DEF StartDetached
<1>2. UNCHANGED <<current, leaving, checks, mine>>
  BY DEF StartDetached
<1>3. /\ s \in Sessions /\ active[s] = None /\ goals[s] = None /\ saved[s] = None
      /\ s \notin open /\ s # current /\ t \in Threads /\ thread[t] = Over
  BY <1>1, UnusedFacts DEF Unused, FreeThread, Inv
<1>4. CASE round
  BY <1>1, <1>2, <1>3, <1>4, GoalStarts
<1>5. CASE ~round
  <2>1. UNCHANGED <<goal, goals, saved>> /\ round = FALSE
    BY <1>1, <1>5
  <2>2. \A r \in Sessions : stored'[r] = (IF r = s THEN "stored" ELSE stored[r])
    BY <1>1 DEF Inv, Types
  <2>3. Types'
    BY <1>1, <1>2, <1>3, <2>1, TaskFacts DEF Inv, Types
  <2>4. Works'
    <3>1. thread[t].at = "over" /\ thread \in [Threads -> Tasks]
      BY <1>3, TaskFacts DEF Inv, Types
    <3>2. /\ \A r \in Sessions : checks'[r] \in {checks[r], None}
          /\ \A r \in Sessions : stored[r] # "none" => stored'[r] # "none"
          /\ stored'[s] # "none"
      BY <1>2, <1>3, <2>2
    <3>3. \A u \in Threads : Alike(thread[u], thread[u])
      BY DEF Alike
    <3> QED
      BY <1>1, <1>3, <3>1, <3>2, <3>3, TurnWorks DEF Inv
  <2>5. Stores'
    BY <1>1, <1>2, <1>3, <2>1, <2>2 DEF Inv, Stores
  <2>6. Heap'
    <3>1. \A u \in Threads : thread'[u].goal \in Held(thread'[u].of) \cup {None}
      <4>1. \A u \in Threads : thread[u].goal \in Held(thread[u].of) \cup {None}
        BY OwnHeld DEF Inv
      <4>2. Turn(s, round).goal = None
        BY <1>3, TaskFacts
      <4> QED
        BY <1>1, <1>3, <4>1, <4>2 DEF Inv, Types
    <3> QED
      BY <1>2, <2>1, <2>3, <3>1, OwnHeld, HeapKept DEF Inv
  <2>7. AttendStep
    <3>1. \A r \in Sessions, u \in Threads : Attends(u, r) => Attends(u, r)'
      BY <1>1, <1>3, <2>1, TaskFacts DEF Attends, Inv, Types
    <3> QED
      BY <1>1, <1>2, <1>3, <2>1, <3>1 DEF AttendStep, Attended, Pursued
  <2>8. KeepStep /\ AgreeStep
    BY <1>1, <1>2, <1>3, <2>1 DEF KeepStep, AgreeStep, Agrees
  <2> QED
    BY <2>3, <2>4, <2>5, <2>6, <2>7, <2>8 DEF Kept
<1> QED
  BY <1>4, <1>5

\* What the thread that decides on the next round of s has changed already.
RoundFollows(s, threads, heap) ==
  /\ \A u \in Threads : \/ Alike(threads[u], thread[u])
                         \/ /\ threads[u] = Over /\ thread[u].at # "turn"
                            /\ thread[u].of = s
                            /\ \A r \in Sessions : checks'[r] # u
  /\ \A h \in Goals : heap[h] = goal[h] \/ (h \in Held(s) /\ heap[h].rounds > 0)
  /\ \A r \in Sessions : checks'[r] \in {checks[r], None}
  /\ checks' \in [Sessions -> {None} \cup Threads]
  /\ UNCHANGED <<stored, open, current, leaving>>

\* The next round of s, with the goal g, begins in thread t; the thread that
\* decided so has ended.
LEMMA RoundKeeps ==
  ASSUME Inv, NEW s \in open, NEW t \in FreeThread, NEW threads \in [Threads -> Tasks],
         NEW g \in Held(s) \cup {None}, g # None \/ goals[s] = None,
         NEW heap \in [Goals -> Payloads], active[s] = None,
         RoundStarts(s, t, threads, heap, [goals EXCEPT ![s] = g]),
         RoundFollows(s, threads, heap)
  PROVE  Kept
<1>a. /\ \A u \in Threads : \/ Alike(threads[u], thread[u])
                            \/ /\ threads[u] = Over /\ thread[u].at # "turn"
                               /\ thread[u].of = s
                               /\ \A r \in Sessions : checks'[r] # u
      /\ \A h \in Goals : heap[h] = goal[h] \/ (h \in Held(s) /\ heap[h].rounds > 0)
      /\ \A r \in Sessions : checks'[r] \in {checks[r], None}
      /\ checks' \in [Sessions -> {None} \cup Threads]
      /\ UNCHANGED <<stored, open, current, leaving>>
  BY DEF RoundFollows
<1> USE <1>a
<1> DEFINE gs == [goals EXCEPT ![s] = g]
           k == [heap EXCEPT ![g].rounds = @ + 1]
<1>1. /\ s \in Sessions /\ t \in Threads /\ thread[t] = Over /\ stored[s] = "stored"
      /\ g = None \/ g \in Goals
      /\ gs \in [Sessions -> {None} \cup Goals] /\ gs[s] = g
      /\ \A r \in Sessions : r # s => gs[r] = goals[r]
  BY DEF Inv, Types, FreeThread, Stores, Held
<1>2. /\ active' = [active EXCEPT ![s] = t] /\ thread' = [threads EXCEPT ![t] = Turn(s, TRUE)]
      /\ goals' = gs /\ goal' = (IF g = None THEN heap ELSE k)
      /\ saved' = (IF g = None THEN saved ELSE Save(s, k[g]))
      /\ mine' = (IF s = current THEN g ELSE mine)
  BY <1>1 DEF RoundStarts
<1>3. g # None => /\ k[g] = [heap[g] EXCEPT !.rounds = @ + 1]
                  /\ \A h \in Goals : h # g => k[h] = heap[h]
  BY <1>1
<1>4. g # None => k[g].rounds > 0 /\ k[g] \in Payloads
  BY <1>1, <1>3 DEF Payloads
<1>5. /\ g # None => goal'[g] = k[g]
      /\ \A h \in Goals : h # g => goal'[h] = heap[h]
      /\ g # None => saved'[s] = goal'[g]
      /\ g = None => saved'[s] = saved[s]
      /\ \A r \in Sessions : r # s => saved'[r] = saved[r]
  BY <1>1, <1>2, <1>3, <1>4 DEF Save, Inv, Types
<1>6. /\ goals'[s] = g /\ \A r \in Sessions : r # s => goals'[r] = goals[r]
      /\ mine' = (IF s = current THEN g ELSE mine)
      /\ thread' = [threads EXCEPT ![t] = Turn(s, TRUE)]
      /\ active' = [active EXCEPT ![s] = t]
  BY <1>1, <1>2
<1>7. g # None => goal'[g].rounds > 0 /\ goal'[g] \in Payloads /\ goal'[g] # None
  BY <1>4, <1>5, NoneFacts
<1> HIDE DEF gs, k
<1>8. Types'
  <2>1. gs \in [Sessions -> Goals \cup {None}] /\ RoundStarts(s, t, threads, heap, gs)
    BY <1>1 DEF gs
  <2>2. /\ active' \in [Sessions -> {None} \cup Threads] /\ thread' \in [Threads -> Tasks]
        /\ goals' \in [Sessions -> {None} \cup Goals] /\ mine' \in {None} \cup Goals
        /\ saved' \in [Sessions -> Payloads \cup {None}] /\ goal' \in [Goals -> Payloads]
    BY <1>1, <2>1, RoundStartsTyped DEF Inv
  <2> QED
    BY <2>2 DEF Inv, Types
<1>9. Works'
  <2>1. thread[t].at = "over" /\ TRUE \in BOOLEAN /\ stored'[s] # "none"
    BY <1>1, TaskFacts
  <2>2. \A r \in Sessions : stored[r] # "none" => stored'[r] # "none"
    OBVIOUS
  <2>3. \A u \in Threads : \/ Alike(threads[u], thread[u])
                            \/ /\ threads[u] = Over /\ thread[u].at # "turn"
                               /\ \A r \in Sessions : checks'[r] # u
    OBVIOUS
  <2> HIDE <1>a
  <2>4. \A r \in Sessions : checks'[r] \in {checks[r], None}
    BY <1>a
  <2> QED
    BY <1>1, <1>6, <2>1, <2>2, <2>3, <2>4, TurnWorks DEF Inv
<1>10. Stores'
  <2>1. \A r \in Sessions : r # s =>
          /\ stored'[r] = "none" => goals'[r] = None /\ saved'[r] = None
          /\ goals'[r] # None /\ stored'[r] = "stored" => saved'[r] # None
          /\ r \in open' => stored'[r] = "stored"
          /\ r \in open' /\ goals'[r] = None /\ saved'[r] # None => saved'[r].phase # "active"
    BY <1>5, <1>6 DEF Inv, Stores
  <2>2. /\ stored'[s] = "stored" /\ goals'[s] # None => saved'[s] # None
        /\ goals'[s] = None /\ saved'[s] # None => saved'[s].phase # "active"
    BY <1>1, <1>5, <1>6, <1>7 DEF Inv, Stores
  <2>3. current' # None => stored'[current'] = "stored"
    BY DEF Inv, Stores
  <2>4. mine' # None => current' # None /\ goals'[current'] # None
    BY <1>1, <1>6, NoneFacts DEF Inv, Stores, Types
  <2> QED
    BY <2>1, <2>2, <2>3, <2>4, <1>1 DEF Stores
<1>11. Heap'
  <2>1. \A u \in Threads : thread'[u].goal \in Held(thread'[u].of) \cup {None}
    <3>1. \A u \in Threads : thread[u].goal \in Held(thread[u].of) \cup {None}
      BY OwnHeld DEF Inv
    <3>2. Turn(s, TRUE).goal = None /\ Over.goal = None
      BY <1>1, TaskFacts
    <3>3. \A u \in Threads : Alike(threads[u], thread[u]) \/ threads[u] = Over
      OBVIOUS
    <3> QED
      BY <1>1, <1>6, <3>1, <3>2, <3>3 DEF Alike
  <2>2. \A r \in Sessions : goals'[r] \in Held(r) \cup {None}
    BY <1>6, OwnHeld DEF Inv
  <2>3. current' # None => mine' \in Held(current') \cup {None}
    BY <1>6, OwnHeld DEF Inv
  <2>4. \A h \in Goals : goal'[h] = goal[h] \/ (h \in Made /\ goal'[h].rounds > 0)
    BY <1>1, <1>5, <1>7, NoneFacts DEF Inv, Heap
  <2>5. \A r \in Sessions : saved'[r] = saved[r] \/ saved'[r].rounds > 0
    BY <1>5, <1>7
  <2> QED
    BY <1>8, <2>1, <2>2, <2>3, <2>4, <2>5, HeapKept DEF Inv
<1>12. \A r \in Sessions : r # s /\ goals[r] # None =>
         goals[r] \in Goals /\ goal'[goals[r]] = goal[goals[r]]
  <2>1. \A r \in Sessions : r # s /\ goals[r] # None => goals[r] \notin Held(s) /\ goals[r] # g
    BY <1>1, HeldApart, GoalsHeld
  <2> QED
    BY <1>5, <2>1, GoalsHeld
<1>13. AttendStep
  <2>1. Attended(s)'
    BY <1>1, <1>6, TurnAttends
  <2>2. \A r \in Sessions, u \in Threads : r # s /\ Attends(u, r) => Attends(u, r)'
    <3>1. \A u \in Threads : u # t => thread'[u] = threads[u]
      BY <1>6
    <3>2. \A r \in Sessions : ~Attends(t, r)
      BY <1>1, TaskFacts DEF Attends
    <3>3. \A u \in Threads : thread[u].of # s => Alike(threads[u], thread[u])
      OBVIOUS
    <3>4. \A u \in Threads : u # t /\ thread[u].of # s => Alike(thread'[u], thread[u])
      BY <3>1, <3>3
    <3>5. \A r \in Sessions : r # s => goals'[r] = goals[r]
      BY <1>6
    <3>6. \A r \in Sessions, u \in Threads :
            r # s /\ Attends(u, r) => u # t /\ thread[u].of # s /\ thread[u].of = r
      BY <3>2 DEF Attends
    <3> HIDE <1>a
    <3> QED
      BY <3>4, <3>5, <3>6 DEF Attends, Alike
  <2>3. \A r \in Sessions : r # s /\ Pursued(r)' => Pursued(r)
    BY <1>6, <1>12 DEF Pursued
  <2> QED
    BY <2>1, <2>2, <2>3 DEF AttendStep, Attended
<1>14. KeepStep
  BY DEF KeepStep
<1>15. AgreeStep
  BY <1>1, <1>5, <1>6, <1>12 DEF AgreeStep, Agrees
<1> QED
  BY <1>8, <1>9, <1>10, <1>11, <1>13, <1>14, <1>15 DEF Kept

LEMMA ResumeRoundKeeps ==
  ASSUME Inv, ResumeRound
  PROVE  Kept
<1>1. PICK t \in FreeThread :
        RoundStarts(current, t, thread, [goal EXCEPT ![mine].phase = "active"], goals)
  BY DEF ResumeRound
<1>2. /\ UNCHANGED <<stored, open, current, leaving, checks>>
      /\ current \in open /\ active[current] = None /\ mine # None
  BY DEF ResumeRound, Resumes, MayResume, MayStartRound
<1>3. /\ current \in Sessions /\ mine \in Goals /\ mine \in Held(current) /\ mine \in Made
      /\ goals[current] # None
  BY <1>2, MineHeld
<1>4. PICK heap : heap = [goal EXCEPT ![mine].phase = "active"]
  OBVIOUS
<1>5. goal \in [Goals -> Payloads] /\ goal[mine].rounds > 0
  BY <1>3 DEF Inv, Types, Heap
<1>6. /\ heap \in [Goals -> Payloads]
      /\ \A h \in Goals : heap[h] = goal[h] \/ (h \in Held(current) /\ heap[h].rounds > 0)
  BY <1>3, <1>4, <1>5 DEF Payloads, Phases
<1>7. /\ [goals EXCEPT ![current] = goals[current]] = goals
      /\ goals[current] \in Held(current) \cup {None} /\ thread \in [Threads -> Tasks]
      /\ checks' \in [Sessions -> {None} \cup Threads]
  BY <1>2, <1>3, GoalsHeld DEF Inv, Types
<1>8. \A u \in Threads : Alike(thread[u], thread[u])
  BY DEF Alike
<1>9. \A r \in Sessions : checks'[r] \in {checks[r], None}
  BY <1>2
<1>10. RoundFollows(current, thread, heap)
  BY <1>2, <1>6, <1>7, <1>8, <1>9 DEF RoundFollows
<1>11. RoundStarts(current, t, thread, heap, [goals EXCEPT ![current] = goals[current]])
  BY <1>1, <1>4, <1>7
<1> QED
  BY <1>1, <1>2, <1>3, <1>6, <1>7, <1>10, <1>11, RoundKeeps

-----------------------------------------------------------------------------
(* Threads go on after their turns. *)

\* The thread t ends, or becomes k.
LEMMA MoveWorks ==
  ASSUME Types, Works, NEW t \in Threads, NEW k \in Tasks, thread[t].at # "over",
         thread' = [thread EXCEPT ![t] = k],
         k = Over \/ (k.of = thread[t].of /\ k.at \notin {"over", "turn"}),
         k.at \in {"next", "check", "checking"} => k.goal # None,
         k.at \in {"popped", "next"} => ~k.cleared,
         k.at \in {"check", "checking", "lost"} => thread[t].of \in Checked,
         active' = IF thread[t].at = "turn" THEN [active EXCEPT ![thread[t].of] = None]
                                            ELSE active,
         checks' \in [Sessions -> {None} \cup Threads],
         \A r \in Sessions : checks'[r] \in {checks[r], None, t},
         \A r \in Sessions : checks'[r] = t =>
           r = thread[t].of /\ k.at \in {"check", "checking", "lost"},
         UNCHANGED stored
  PROVE  Works'
<1>1. /\ thread'[t] = k /\ \A u \in Threads : u # t => thread'[u] = thread[u]
      /\ thread[t].of \in Sessions /\ stored[thread[t].of] # "none"
  BY DEF Types, Works
<1>2. Over.at = "over" /\ Over.of = None /\ Over.goal = None
  BY TaskFacts
<1>3. \A u \in Threads : thread'[u].at # "over" =>
        thread'[u].of \in Sessions /\ stored'[thread'[u].of] # "none"
  BY <1>1, <1>2 DEF Works
<1>4. \A u \in Threads : thread'[u].at = "turn" => active'[thread'[u].of] = u
  <2>1. \A u \in Threads : thread'[u].at = "turn" =>
          u # t /\ active[thread[u].of] = u /\ thread[u].of \in Sessions
    BY <1>1, <1>2 DEF Works
  <2>2. thread[t].at = "turn" => active[thread[t].of] = t
    BY DEF Works
  <2> QED
    BY <1>1, <2>1, <2>2 DEF Types
<1>5. \A r \in Sessions : active'[r] # None =>
        thread'[active'[r]].at = "turn" /\ thread'[active'[r]].of = r
  <2>1. \A r \in Sessions : active'[r] # None => active'[r] = active[r] /\ active[r] # t
    BY <1>1 DEF Works, Types
  <2> QED
    BY <1>1, <2>1 DEF Works, Types
<1>6. \A r \in Sessions : checks'[r] # None =>
        /\ thread'[checks'[r]].at \in {"check", "checking", "lost"}
        /\ thread'[checks'[r]].of = r
  BY <1>1, <1>2 DEF Works, Types
<1>7. \A u \in Threads :
        /\ thread'[u].at \in {"next", "check", "checking"} => thread'[u].goal # None
        /\ thread'[u].at \in {"turn", "popped", "next"} => ~thread'[u].cleared
        /\ thread'[u].at \in {"check", "checking", "lost"} => thread'[u].of \in Checked
        /\ thread'[u].at = "over" => thread'[u].goal = None /\ thread'[u].of = None
  BY <1>1, <1>2 DEF Works
<1> QED
  BY <1>3, <1>4, <1>5, <1>6, <1>7 DEF Works

\* t becomes a task of its conversation, or ends; its goal is one it holds.
LEMMA MoveHeld ==
  ASSUME Types, NEW t \in Threads, NEW k \in Tasks, thread' = [thread EXCEPT ![t] = k],
         k.goal = None \/ (k.of = thread[t].of /\ k.goal \in Held(k.of))
  PROVE  \A u \in Threads : thread'[u].goal \in Held(thread'[u].of) \cup {None}
<1>1. \A u \in Threads : thread[u].goal \in Held(thread[u].of) \cup {None}
  BY OwnHeld
<1> QED
  BY <1>1 DEF Types

\* The other threads work on as they did.
LEMMA MoveAttends ==
  ASSUME Types, NEW t \in Threads, NEW k, thread' = [thread EXCEPT ![t] = k],
         NEW r \in Sessions, NEW u \in Threads, u # t, Attends(u, r), goals'[r] = goals[r]
  PROVE  Attends(u, r)'
BY DEF Types, Attends

LEMMA TurnEndsKeeps ==
  ASSUME Inv, NEW t \in Threads, NEW last \in {"final", "other"}, TurnEnds(t, last)
  PROVE  Kept
<1>1. PICK s : s = thread[t].of
  OBVIOUS
<1>2. /\ thread[t].at = "turn" /\ active' = [active EXCEPT ![s] = None]
      /\ thread' = (IF thread[t].round
                    THEN [thread EXCEPT ![t].at = "popped", ![t].last = last]
                    ELSE Leaves(t))
      /\ UNCHANGED <<stored, open, current, leaving, checks, goals, mine, saved, goal>>
  BY <1>1 DEF TurnEnds, At
<1>3. thread[t] \in Tasks /\ s \in Sessions /\ thread[t].cleared = FALSE
  BY <1>1, <1>2 DEF Inv, Types, Works, Tasks
<1>4. PICK k \in Tasks :
        /\ thread' = [thread EXCEPT ![t] = k]
        /\ IF thread[t].round
           THEN /\ k.at = "popped" /\ k.of = s /\ k.goal = thread[t].goal
                /\ k.cleared = thread[t].cleared
           ELSE k = Over
  <2>1. CASE thread[t].round
    <3> DEFINE k == [thread[t] EXCEPT !.at = "popped", !.last = last]
    <3>1. k \in Tasks /\ k.at = "popped" /\ k.of = s /\ k.goal = thread[t].goal /\ k.cleared = thread[t].cleared
      BY <1>1, <1>3 DEF Tasks, Places
    <3>2. thread' = [thread EXCEPT ![t] = k]
      BY <1>2, <2>1
    <3> HIDE DEF k
    <3> QED
      BY <2>1, <3>1, <3>2
  <2>2. CASE ~thread[t].round
    BY <1>2, <2>2, TaskFacts DEF Leaves
  <2> QED
    BY <2>1, <2>2
<1>5. /\ k = Over \/ (k.of = thread[t].of /\ k.at \notin {"over", "turn"})
      /\ k.at \notin {"next", "check", "checking", "lost"}
      /\ k.at \in {"popped", "next"} => ~k.cleared
  BY <1>1, <1>3, <1>4, TaskFacts
<1>6. Types'
  <2>1. /\ active' = [active EXCEPT ![s] = None]
        /\ UNCHANGED <<stored, open, current, leaving, checks, goals, mine, saved, goal>>
    BY <1>2
  <2>2. thread' \in [Threads -> Tasks]
    BY <1>4 DEF Inv, Types
  <2> QED
    BY <1>3, <2>1, <2>2 DEF Inv, Types
<1>7. Works'
  <2>1. \A r \in Sessions : checks[r] # t
    BY <1>2, NoneFacts DEF Inv, Works, Types
  <2>2. /\ \A r \in Sessions : checks'[r] \in {checks[r], None, t} /\ checks'[r] # t
        /\ checks' \in [Sessions -> {None} \cup Threads]
    BY <1>2, <2>1 DEF Inv, Types
  <2>3. active' = IF thread[t].at = "turn" THEN [active EXCEPT ![thread[t].of] = None] ELSE active
    BY <1>1, <1>2
  <2>4. thread' = [thread EXCEPT ![t] = k] /\ thread[t].at # "over" /\ UNCHANGED stored
    BY <1>2, <1>4
  <2> QED
    BY <1>5, <2>2, <2>3, <2>4, MoveWorks DEF Inv
<1>8. Stores'
  BY <1>2 DEF Inv, Stores
<1>9. Heap'
  <2>1. k.goal = None \/ (k.of = thread[t].of /\ k.goal \in Held(k.of))
    BY <1>1, <1>4, OwnHeld, TaskFacts DEF Inv
  <2>2. \A u \in Threads : thread'[u].goal \in Held(thread'[u].of) \cup {None}
    BY <1>4, <2>1, MoveHeld DEF Inv
  <2> QED
    BY <1>2, <1>6, <2>2, OwnHeld, HeapKept DEF Inv
<1>10. AttendStep
  <2>1. thread'[t] = k
    BY <1>3, <1>4 DEF Inv, Types
  <2>2. \A r \in Sessions : Attends(t, r) => Attends(t, r)'
    BY <1>1, <1>2, <1>4, <2>1 DEF Attends
  <2>3. \A r \in Sessions, u \in Threads : u # t /\ Attends(u, r) => Attends(u, r)'
    BY <1>2, <1>4, MoveAttends DEF Inv
  <2> QED
    BY <1>2, <2>2, <2>3 DEF AttendStep, Attended, Pursued
<1>11. KeepStep /\ AgreeStep
  BY <1>2 DEF KeepStep, AgreeStep, Agrees
<1> QED
  BY <1>6, <1>7, <1>8, <1>9, <1>10, <1>11 DEF Kept

\* The thread t ends, working for no goal, and closes idle conversations.
LEMMA Ends ==
  ASSUME Inv, NEW t \in Threads, thread[t].at \notin {"over", "turn"}, thread' = Leaves(t),
         CloseIdle(open, current, active, checks', goals),
         checks' \in [Sessions -> {None} \cup Threads],
         \A s \in Sessions : checks'[s] \in {checks[s], None} /\ checks'[s] # t,
         UNCHANGED <<stored, current, leaving, active, mine, saved, goal>>,
         \A s \in Sessions : Attends(t, s) => ~Pursued(s)
  PROVE  Kept
<1>1. open \in SUBSET Sessions /\ goals \in [Sessions -> Goals \cup {None}]
  BY DEF Inv, Types
<1>2. PICK gone \in SUBSET open :
        /\ open' = open \ gone /\ current \notin gone
        /\ \A s \in gone : active[s] = None /\ checks'[s] = None
        /\ \A s \in Sessions : goals'[s] = (IF s \in gone THEN None ELSE goals[s])
        /\ goals' \in [Sessions -> Goals \cup {None}]
  BY <1>1, IdleFacts
<1>3. thread' = [thread EXCEPT ![t] = Over] /\ Over \in Tasks /\ Over.at = "over" /\ Over.goal = None
  BY TaskFacts, MoveFacts DEF Inv
<1>4. Types'
  BY <1>2, <1>3 DEF Inv, Types
<1>5. Works'
  <2>1. active' = IF thread[t].at = "turn" THEN [active EXCEPT ![thread[t].of] = None] ELSE active
    OBVIOUS
  <2>2. \A s \in Sessions : checks'[s] \in {checks[s], None, t} /\ checks'[s] # t
    OBVIOUS
  <2> QED
    BY <1>3, <2>1, <2>2, MoveWorks DEF Inv
<1>6. Stores'
  BY <1>2, NoneFacts DEF Inv, Stores, Types
<1>7. Heap'
  <2>1. \A s \in Sessions : goals'[s] \in Held(s) \cup {None}
    BY <1>2, OwnHeld DEF Inv
  <2>2. \A u \in Threads : thread'[u].goal \in Held(thread'[u].of) \cup {None}
    BY <1>3, MoveHeld DEF Inv
  <2> QED
    BY <1>4, <2>1, <2>2, OwnHeld, HeapKept DEF Inv
<1>8. AttendStep
  <2>1. \A s \in Sessions, u \in Threads : u # t /\ Attends(u, s) /\ goals'[s] = goals[s] => Attends(u, s)'
    BY <1>3, MoveAttends DEF Inv
  <2>2. \A s \in Sessions : s \in open' /\ Pursued(s)' => s \in open /\ Pursued(s) /\ goals'[s] = goals[s]
    BY <1>2 DEF Pursued
  <2> QED
    BY <2>1, <2>2 DEF AttendStep, Attended
<1>9. KeepStep /\ AgreeStep
  BY <1>2 DEF KeepStep, AgreeStep, Agrees
<1> QED
  BY <1>4, <1>5, <1>6, <1>7, <1>8, <1>9 DEF Kept

LEMMA RoundIsLastKeeps ==
  ASSUME Inv, NEW t \in Threads, RoundIsLast(t)
  PROVE  Kept
<1>1. /\ thread[t].at = "popped" /\ ~Pursued(thread[t].of) /\ thread' = Leaves(t)
      /\ CloseIdle(open, current, active, checks, goals)
      /\ UNCHANGED <<stored, current, leaving, active, checks, mine, saved, goal>>
  BY DEF RoundIsLast, At
<1>2. \A s \in Sessions : checks'[s] \in {checks[s], None} /\ checks'[s] # t
  BY <1>1, NoneFacts DEF Inv, Works, Types
<1>3. /\ checks' \in [Sessions -> {None} \cup Threads] /\ checks' = checks
      /\ \A s \in Sessions : Attends(t, s) => ~Pursued(s)
  BY <1>1 DEF Inv, Types, Attends
<1> QED
  BY <1>1, <1>2, <1>3, Ends

LEMMA CheckBeginsKeeps ==
  ASSUME Inv, NEW t \in Threads, CheckBegins(t)
  PROVE  Kept
<1>1. PICK s : s = thread[t].of
  OBVIOUS
<1>2. PICK place : place = IF s \in open THEN "checking" ELSE "lost"
  OBVIOUS
<1>3. /\ thread[t].at = "check" /\ thread' = To(t, place)
      /\ UNCHANGED <<stored, open, current, leaving, active, checks, goals, mine, saved, goal>>
  BY <1>1, <1>2 DEF CheckBegins, At
<1>4. thread[t] \in Tasks /\ s \in Sessions /\ s \in Checked /\ thread[t].goal # None
  BY <1>1, <1>3 DEF Inv, Types, Works
<1>5. PICK k : k = [thread[t] EXCEPT !.at = place]
  OBVIOUS
<1>6. /\ k \in Tasks /\ k.at = place /\ k.of = s /\ k.goal = thread[t].goal
      /\ k.cleared = thread[t].cleared
  BY <1>1, <1>2, <1>4, <1>5 DEF Tasks, Places
<1>7. thread' = [thread EXCEPT ![t] = k]
  BY <1>3, <1>5 DEF To
<1>8. Types'
  BY <1>3, <1>6, <1>7 DEF Inv, Types
<1>9. Works'
  <2>1. active' = IF thread[t].at = "turn" THEN [active EXCEPT ![thread[t].of] = None] ELSE active
    BY <1>3
  <2>2. \A r \in Sessions : checks[r] = t => r = s
    BY <1>1, NoneFacts DEF Inv, Works, Types
  <2>3. /\ checks' \in [Sessions -> {None} \cup Threads]
        /\ \A r \in Sessions : checks'[r] \in {checks[r], None, t}
        /\ \A r \in Sessions : checks'[r] = t =>
             r = thread[t].of /\ k.at \in {"check", "checking", "lost"}
    BY <1>1, <1>2, <1>3, <1>6, <2>2 DEF Inv, Types
  <2>4. /\ k.of = thread[t].of /\ k.at \notin {"over", "turn"} /\ k.at \notin {"popped", "next"}
        /\ k.goal # None /\ thread[t].of \in Checked
    BY <1>1, <1>2, <1>4, <1>6
  <2> QED
    BY <1>3, <1>6, <1>7, <2>1, <2>3, <2>4, MoveWorks DEF Inv
<1>10. Stores'
  BY <1>3 DEF Inv, Stores
<1>11. Heap'
  <2>1. k.of = thread[t].of /\ k.goal \in Held(k.of) \cup {None}
    BY <1>1, <1>6, OwnHeld DEF Inv
  <2>2. \A u \in Threads : thread'[u].goal \in Held(thread'[u].of) \cup {None}
    BY <1>6, <1>7, <2>1, MoveHeld DEF Inv
  <2> QED
    BY <1>3, <1>8, <2>2, OwnHeld, HeapKept DEF Inv
<1>12. AttendStep
  <2>1. thread'[t] = k
    BY <1>7 DEF Inv, Types
  <2>2. \A r \in Sessions : Attends(t, r) /\ r \in open => Attends(t, r)'
    BY <1>1, <1>2, <1>3, <1>6, <2>1 DEF Attends
  <2>3. \A r \in Sessions, u \in Threads : u # t /\ Attends(u, r) => Attends(u, r)'
    BY <1>3, <1>7, MoveAttends DEF Inv
  <2> QED
    BY <1>3, <2>2, <2>3 DEF AttendStep, Attended, Pursued
<1>13. KeepStep /\ AgreeStep
  BY <1>3 DEF KeepStep, AgreeStep, Agrees
<1> QED
  BY <1>8, <1>9, <1>10, <1>11, <1>12, <1>13 DEF Kept

LEMMA ResumeCheckKeeps ==
  ASSUME Inv, ResumeCheck
  PROVE  Kept
<1>1. PICK t \in FreeThread :
        /\ checks' = [checks EXCEPT ![current] = t]
        /\ thread' = [thread EXCEPT ![t] = [Over EXCEPT !.at = "check", !.of = current, !.goal = mine]]
  BY DEF ResumeCheck
<1>2. /\ UNCHANGED <<stored, open, current, leaving, active, goals, mine>>
      /\ Becomes(current, mine, "active", goal) /\ mine # None /\ current \in Checked
  BY DEF ResumeCheck, MayResume
<1>3. /\ current \in Sessions /\ stored[current] = "stored" /\ goals[current] # None
      /\ mine \in Goals /\ mine \in Held(current) /\ mine \in Made
      /\ t \in Threads /\ thread[t] = Over /\ mine # None
  BY <1>1, <1>2, MineHeld DEF FreeThread
<1>4. PICK k : k = [Over EXCEPT !.at = "check", !.of = current, !.goal = mine]
  OBVIOUS
<1>5. /\ k \in Tasks /\ k.at = "check" /\ k.of = current /\ k.goal = mine
      /\ k.cleared = FALSE
  BY <1>3, <1>4 DEF Over, Tasks, Places
<1>6. /\ thread' = [thread EXCEPT ![t] = k] /\ thread'[t] = k
      /\ \A u \in Threads : u # t => thread'[u] = thread[u]
  BY <1>1, <1>3, <1>4 DEF Inv, Types
<1>7. /\ \A h \in Goals : h # mine => goal'[h] = goal[h]
      /\ goal'[mine].phase = "active" /\ goal'[mine].rounds > 0
      /\ \A r \in Sessions : r # current => saved'[r] = saved[r]
      /\ saved'[current] = goal'[mine]
      /\ saved' \in [Sessions -> Payloads \cup {None}] /\ goal' \in [Goals -> Payloads]
  BY <1>2, <1>3, BecomesFacts DEF Phases
<1>8. Types'
  BY <1>1, <1>2, <1>3, <1>5, <1>6, <1>7 DEF Inv, Types
<1>9. Works'
  <2>1. Over.at = "over"
    BY <1>3, TaskFacts
  <2>2. \A r \in Sessions : /\ checks'[r] = (IF r = current THEN t ELSE checks[r])
                            /\ checks[r] # t /\ active[r] # t
    BY <1>1, <1>3, <2>1, NoneFacts DEF Inv, Types, Works
  <2> QED
    BY <1>2, <1>3, <1>5, <1>6, <2>1, <2>2, NoneFacts DEF Inv, Works, Types
<1>10. saved'[current] # None
  BY <1>3, <1>7, NoneFacts
<1>11. Stores'
  BY <1>2, <1>3, <1>7, <1>10 DEF Inv, Stores
<1>12. Heap'
  <2>1. \A u \in Threads : thread'[u].goal \in Held(thread'[u].of) \cup {None}
    <3>1. \A u \in Threads : thread[u].goal \in Held(thread[u].of) \cup {None}
      BY OwnHeld DEF Inv
    <3> QED
      BY <1>3, <1>5, <1>6, <3>1
  <2>2. \A g \in Goals : goal'[g] = goal[g] \/ (g \in Made /\ goal'[g].rounds > 0)
    BY <1>3, <1>7
  <2>3. \A r \in Sessions : saved'[r] = saved[r] \/ saved'[r].rounds > 0
    BY <1>7
  <2> QED
    BY <1>2, <1>8, <2>1, <2>2, <2>3, OwnHeld, HeapKept DEF Inv
<1>13. \A r \in Sessions : goals[r] # None /\ goals[r] # mine => goal'[goals[r]] = goal[goals[r]]
  BY <1>7, GoalsHeld
<1>14. AttendStep
  <2>1. goals[current] = mine => Attended(current)'
    BY <1>2, <1>3, <1>5, <1>6 DEF Attended, Attends
  <2>2. \A r \in Sessions : goals[r] = mine => r = current
    BY <1>3, HeldApart, GoalsHeld, NoneFacts
  <2>3. \A r \in Sessions, u \in Threads : Attends(u, r) => Attends(u, r)'
    BY <1>2, <1>3, <1>6, TaskFacts DEF Attends
  <2>4. \A r \in Sessions : Pursued(r)' /\ goals[r] # mine => Pursued(r)
    BY <1>2, <1>13 DEF Pursued
  <2> QED
    BY <1>2, <2>1, <2>2, <2>3, <2>4 DEF AttendStep, Attended
<1>15. KeepStep
  BY <1>2 DEF KeepStep
<1>16. AgreeStep
  <2>1. \A r \in Sessions : goals[r] = mine => r = current
    BY <1>3, HeldApart, GoalsHeld, NoneFacts
  <2> QED
    BY <1>2, <1>3, <1>7, <1>13, <2>1 DEF AgreeStep, Agrees
<1> QED
  BY <1>8, <1>9, <1>11, <1>12, <1>14, <1>15, <1>16 DEF Kept

\* The thread t ends and sets a goal of its conversation to rest.
LEMMA Halts ==
  ASSUME Inv, NEW t \in Threads, thread[t].at \notin {"over", "turn"}, thread' = Leaves(t),
         NEW s \in Sessions, s = thread[t].of, NEW g \in Held(s),
         g = goals[s] \/ (g = thread[t].goal /\ thread[t].at # "popped"),
         NEW phase \in {"halted", "complete"}, Becomes(s, g, phase, goal),
         goals' \in {goals, [goals EXCEPT ![s] = g]},
         checks' \in [Sessions -> {None} \cup Threads],
         \A r \in Sessions : checks'[r] \in {checks[r], None} /\ checks'[r] # t,
         UNCHANGED <<stored, open, current, leaving, active, mine>>
  PROVE  Kept
<1>1. thread' = [thread EXCEPT ![t] = Over] /\ Over \in Tasks /\ Over.at = "over" /\ Over.goal = None
  BY TaskFacts, MoveFacts DEF Inv
<1>2. /\ \A h \in Goals : h # g => goal'[h] = goal[h]
      /\ g \in Goals /\ g \in Made /\ goal'[g].phase = phase /\ goal'[g].rounds > 0
      /\ \A r \in Sessions : r # s => saved'[r] = saved[r]
      /\ saved'[s] = (IF stored[s] = "stored" THEN goal'[g] ELSE saved[s])
      /\ saved' \in [Sessions -> Payloads \cup {None}] /\ goal' \in [Goals -> Payloads]
  BY BecomesFacts DEF Phases
<1>3. /\ goals' \in [Sessions -> {None} \cup Goals]
      /\ goals'[s] \in {goals[s], g} /\ \A r \in Sessions : r # s => goals'[r] = goals[r]
  BY <1>2 DEF Inv, Types
<1>4. g # None /\ goal'[g] # None /\ stored[s] # "none"
  BY <1>2, NoneFacts DEF Inv, Works
<1>5. Types'
  BY <1>1, <1>2, <1>3 DEF Inv, Types
<1>6. Works'
  <2>1. active' = IF thread[t].at = "turn" THEN [active EXCEPT ![thread[t].of] = None] ELSE active
    OBVIOUS
  <2>2. /\ \A r \in Sessions : checks'[r] \in {checks[r], None, t}
        /\ \A r \in Sessions : checks'[r] # t
    OBVIOUS
  <2>3. thread[t].at # "over" /\ checks' \in [Sessions -> {None} \cup Threads] /\ UNCHANGED stored
    OBVIOUS
  <2>4. Over.at \notin {"popped", "next", "check", "checking", "lost"}
    BY <1>1
  <2>5. Types /\ Works
    BY DEF Inv
  <2>6. PICK k \in Tasks : k = Over
    BY <1>1
  <2>7. /\ k = Over \/ (k.of = thread[t].of /\ k.at \notin {"over", "turn"})
        /\ k.at \in {"next", "check", "checking"} => k.goal # None
        /\ k.at \in {"popped", "next"} => ~k.cleared
        /\ k.at \in {"check", "checking", "lost"} => thread[t].of \in Checked
        /\ thread' = [thread EXCEPT ![t] = k]
    BY <1>1, <2>4, <2>6
  <2>8. \A r \in Sessions : checks'[r] = t =>
          r = thread[t].of /\ k.at \in {"check", "checking", "lost"}
    BY <2>2
  <2>9. \A r \in Sessions : checks'[r] \in {checks[r], None, t}
    BY <2>2
  <2> QED
    BY <2>1, <2>3, <2>5, <2>7, <2>8, <2>9, MoveWorks
<1>7. Stores'
  <2>1. \A r \in Sessions : r # s =>
          /\ stored'[r] = "none" => goals'[r] = None /\ saved'[r] = None
          /\ goals'[r] # None /\ stored'[r] = "stored" => saved'[r] # None
          /\ r \in open' => stored'[r] = "stored"
          /\ r \in open' /\ goals'[r] = None /\ saved'[r] # None => saved'[r].phase # "active"
    BY <1>2, <1>3 DEF Inv, Stores
  <2>2. /\ s \in open => stored[s] = "stored" /\ saved'[s] # None /\ saved'[s].phase # "active"
        /\ stored'[s] = "stored" => saved'[s] # None
    BY <1>2, <1>4 DEF Inv, Stores
  <2>3. current' # None => stored'[current'] = "stored"
    BY DEF Inv, Stores
  <2>4. mine' # None => current' # None /\ goals'[current'] # None
    BY <1>3, <1>4 DEF Inv, Stores, Types
  <2> QED
    BY <1>4, <2>1, <2>2, <2>3, <2>4 DEF Stores
<1>8. Heap'
  <2>1. \A r \in Sessions : goals'[r] \in Held(r) \cup {None}
    BY <1>3, OwnHeld DEF Inv
  <2>2. \A u \in Threads : thread'[u].goal \in Held(thread'[u].of) \cup {None}
    BY <1>1, MoveHeld DEF Inv
  <2>3. \A h \in Goals : goal'[h] = goal[h] \/ (h \in Made /\ goal'[h].rounds > 0)
    BY <1>2
  <2>4. \A r \in Sessions : saved'[r] = saved[r] \/ saved'[r].rounds > 0
    BY <1>2
  <2> QED
    BY <1>5, <2>1, <2>2, <2>3, <2>4, OwnHeld, HeapKept DEF Inv
<1>9. \A r \in Sessions : goals[r] # None /\ goals[r] # g => goal'[goals[r]] = goal[goals[r]]
  BY <1>2, GoalsHeld
<1>10. \A r \in Sessions : goals[r] = g => r = s
  BY <1>2, HeldApart, GoalsHeld, NoneFacts
<1>11. AttendStep
  <2>1. \A r \in Sessions, u \in Threads : u # t /\ Attends(u, r) /\ goals'[r] = goals[r] => Attends(u, r)'
    BY <1>1, MoveAttends DEF Inv
  <2>2. \A r \in Sessions : Pursued(r)' => goals'[r] # g
    BY <1>2 DEF Pursued
  <2>3. \A r \in Sessions : Pursued(r)' => goals'[r] = goals[r] /\ goals[r] # g /\ Pursued(r)
    BY <1>3, <1>9, <2>2 DEF Pursued
  <2>4. \A r \in Sessions : Attends(t, r) /\ goals[r] # g => FALSE
    BY DEF Attends
  <2> QED
    BY <2>1, <2>3, <2>4 DEF AttendStep, Attended
<1>12. KeepStep
  BY DEF KeepStep
<1>13. AgreeStep
  <2>1. \A r \in Sessions : r # s /\ Agrees(r) => Agrees(r)'
    BY <1>2, <1>3, <1>9, <1>10 DEF Agrees
  <2>2. s \in open => stored[s] = "stored"
    BY DEF Inv, Stores
  <2>3. g = goals[s] /\ s \in open /\ Agrees(s) => Agrees(s)'
    BY <1>2, <1>3, <2>2 DEF Agrees
  <2> QED
    BY <1>4, <2>1, <2>3 DEF AgreeStep
<1> QED
  BY <1>5, <1>6, <1>7, <1>8, <1>11, <1>12, <1>13 DEF Kept

\* The thread t goes on, with the goal g of its conversation.
LEMMA Decides ==
  ASSUME Inv, NEW t \in Threads, thread[t].at = "popped", NEW place \in {"next", "check"},
         NEW s \in Sessions, s = thread[t].of, goals[s] # None,
         thread' = [thread EXCEPT ![t].at = place, ![t].goal = goals[s]],
         place = "check" => s \in Checked,
         checks' = IF place = "check" THEN [checks EXCEPT ![s] = t] ELSE checks,
         UNCHANGED <<stored, open, current, leaving, active, goals, mine, goal, saved>>
  PROVE  Kept
<1>1. PICK k : k = [thread[t] EXCEPT !.at = place, !.goal = goals[s]]
  OBVIOUS
<1>2. thread[t] \in Tasks /\ goals[s] \in Goals /\ goals[s] \in Held(s) /\ ~thread[t].cleared
  BY GoalsHeld DEF Inv, Types, Works
<1>3. /\ k \in Tasks /\ k.at = place /\ k.of = s /\ k.goal = goals[s]
      /\ k.cleared = thread[t].cleared
  BY <1>1, <1>2 DEF Tasks, Places
<1>4. thread' = [thread EXCEPT ![t] = k]
  BY <1>1
<1>5. thread'[t] = k
  BY <1>4 DEF Inv, Types
<1>6. /\ checks' \in [Sessions -> {None} \cup Threads]
      /\ \A r \in Sessions : checks'[r] \in {checks[r], t}
      /\ \A r \in Sessions : checks'[r] = t => r = s /\ place = "check"
  BY NoneFacts DEF Inv, Works, Types
<1>7. Types'
  <2>1. thread' \in [Threads -> Tasks]
    BY <1>3, <1>4 DEF Inv, Types
  <2>2. UNCHANGED <<stored, open, current, leaving, active, goals, mine, goal, saved>>
    OBVIOUS
  <2>3. Types
    BY DEF Inv
  <2> QED
    BY <1>6, <2>1, <2>2, <2>3 DEF Types
<1>8. Works'
  <2>1. active' = IF thread[t].at = "turn" THEN [active EXCEPT ![thread[t].of] = None] ELSE active
    OBVIOUS
  <2>2. \A r \in Sessions : checks'[r] \in {checks[r], None, t}
    BY <1>6
  <2>3. \A r \in Sessions : checks'[r] = t =>
          r = thread[t].of /\ k.at \in {"check", "checking", "lost"}
    BY <1>3, <1>6
  <2>4. /\ k.of = thread[t].of /\ k.at \notin {"over", "turn"} /\ k.goal # None /\ ~k.cleared
        /\ k.at \in {"check", "checking", "lost"} => thread[t].of \in Checked
    BY <1>2, <1>3
  <2> QED
    BY <1>3, <1>4, <1>6, <2>1, <2>2, <2>3, <2>4, MoveWorks DEF Inv
<1>9. Stores'
  BY DEF Inv, Stores
<1>10. Heap'
  <2>1. \A u \in Threads : thread'[u].goal \in Held(thread'[u].of) \cup {None}
    <3>1. k \in Tasks /\ k.of = thread[t].of /\ k.goal \in Held(k.of)
      BY <1>2, <1>3
    <3>2. Types
      BY DEF Inv
    <3> QED
      BY <1>4, <3>1, <3>2, MoveHeld
  <2> QED
    BY <1>7, <2>1, OwnHeld, HeapKept DEF Inv
<1>11. AttendStep
  <2>1. \A r \in Sessions : Attends(t, r) => Attends(t, r)'
    BY <1>2, <1>3, <1>5 DEF Attends
  <2>2. \A r \in Sessions, u \in Threads : u # t /\ Attends(u, r) => Attends(u, r)'
    BY <1>4, MoveAttends DEF Inv
  <2> QED
    BY <2>1, <2>2 DEF AttendStep, Attended, Pursued
<1>12. KeepStep /\ AgreeStep
  BY DEF KeepStep, AgreeStep, Agrees
<1> QED
  BY <1>7, <1>8, <1>9, <1>10, <1>11, <1>12 DEF Kept

LEMMA RoundDecidesKeeps ==
  ASSUME Inv, NEW t \in Threads, RoundDecides(t)
  PROVE  Kept
<1>1. PICK s : s = thread[t].of
  OBVIOUS
<1>2. /\ thread[t].at = "popped" /\ Pursued(s)
      /\ UNCHANGED <<stored, open, current, leaving, active, goals, mine>>
  BY <1>1 DEF RoundDecides, At
<1>3. s \in Sessions /\ goals[s] # None /\ goals[s] \in Held(s)
  BY <1>1, <1>2, GoalsHeld DEF Inv, Works, Pursued
<1>4. CASE /\ s \in Checked /\ checks' = [checks EXCEPT ![s] = t]
           /\ thread' = [thread EXCEPT ![t].at = "check", ![t].goal = goals[s]]
           /\ UNCHANGED <<goal, saved>>
  BY <1>1, <1>2, <1>3, <1>4, Decides
<1>5. CASE /\ thread' = [thread EXCEPT ![t].at = "next", ![t].goal = goals[s]]
           /\ UNCHANGED <<checks, goal, saved>>
  BY <1>1, <1>2, <1>3, <1>5, Decides
<1>6. CASE Becomes(s, goals[s], "halted", goal) /\ thread' = Leaves(t) /\ UNCHANGED checks
  <2>1. /\ checks' \in [Sessions -> {None} \cup Threads]
        /\ \A r \in Sessions : checks'[r] \in {checks[r], None} /\ checks'[r] # t
    BY <1>2, <1>6, NoneFacts DEF Inv, Works, Types
  <2> QED
    BY <1>1, <1>2, <1>3, <1>6, <2>1, Halts
<1> QED
  BY <1>1, <1>4, <1>5, <1>6 DEF RoundDecides

LEMMA NextRoundKeeps ==
  ASSUME Inv, NEW t \in Threads, NextRound(t)
  PROVE  Kept
<1>1. PICK s : s = thread[t].of
  OBVIOUS
<1>2. thread[t].at = "next" /\ UNCHANGED <<stored, open, current, leaving, checks>>
  BY DEF NextRound, At
<1>3. /\ s \in Sessions /\ thread[t].goal # None /\ thread[t].goal \in Held(s)
      /\ goals[s] \in Held(s) \cup {None}
  BY <1>1, <1>2, OwnHeld DEF Inv, Works
<1>4. /\ checks' \in [Sessions -> {None} \cup Threads]
      /\ \A r \in Sessions : checks'[r] \in {checks[r], None} /\ checks'[r] # t
  BY <1>2, NoneFacts DEF Inv, Works, Types
<1>5. CASE MayStartRound(s) /\ \E u \in FreeThread : RoundStarts(s, u, Leaves(t), goal, goals)
  <2>1. PICK u \in FreeThread : RoundStarts(s, u, Leaves(t), goal, goals)
    BY <1>5
  <2>2. s \in open /\ active[s] = None
    BY <1>5 DEF MayStartRound
  <2>3. /\ Leaves(t) = [thread EXCEPT ![t] = Over] /\ Leaves(t) \in [Threads -> Tasks]
        /\ goal \in [Goals -> Payloads] /\ [goals EXCEPT ![s] = goals[s]] = goals
    BY MoveFacts DEF Inv, Types
  <2>4. RoundFollows(s, Leaves(t), goal)
    <3>1. \A v \in Threads : \/ Alike(Leaves(t)[v], thread[v])
                             \/ /\ Leaves(t)[v] = Over /\ thread[v].at # "turn"
                                /\ thread[v].of = s
                                /\ \A r \in Sessions : checks'[r] # v
      BY <1>1, <1>2, <1>4, <2>3 DEF Alike, Inv, Types
    <3> QED
      BY <1>2, <1>4, <3>1 DEF RoundFollows
  <2>5. RoundStarts(s, u, Leaves(t), goal, [goals EXCEPT ![s] = goals[s]])
    BY <2>1, <2>3
  <2> QED
    BY <1>3, <2>1, <2>2, <2>3, <2>4, <2>5, RoundKeeps
<1>6. CASE /\ Becomes(s, thread[t].goal, "halted", goal) /\ thread' = Leaves(t)
           /\ UNCHANGED <<active, goals, mine>>
  BY <1>1, <1>2, <1>3, <1>4, <1>6, Halts
<1> QED
  BY <1>1, <1>5, <1>6 DEF NextRound

LEMMA CheckEndsKeeps ==
  ASSUME Inv, NEW t \in Threads, NEW ok \in BOOLEAN, CheckEnds(t, ok)
  PROVE  Kept
<1>1. PICK s, g : s = thread[t].of /\ g = thread[t].goal
  OBVIOUS
<1>2. /\ thread[t].at = "checking" /\ checks' = [checks EXCEPT ![s] = None]
      /\ UNCHANGED <<stored, current, leaving>>
  BY <1>1 DEF CheckEnds, At
<1>3. s \in Sessions /\ g # None /\ g \in Held(s) /\ g \in Goals
  BY <1>1, <1>2, OwnHeld DEF Inv, Works, Held
<1>4. /\ checks' \in [Sessions -> {None} \cup Threads]
      /\ \A r \in Sessions : checks'[r] \in {checks[r], None} /\ checks'[r] # t
  BY <1>1, <1>2, <1>3, NoneFacts DEF Inv, Works, Types
<1>5. CASE thread[t].cleared
  <2>1. /\ thread' = Leaves(t) /\ CloseIdle(open, current, active, checks', goals)
        /\ UNCHANGED <<active, saved, goal, mine>>
    BY <1>1, <1>2, <1>5 DEF CheckEnds
  <2>2. \A r \in Sessions : ~Attends(t, r)
    BY <1>2, <1>5 DEF Attends
  <2> QED
    BY <1>2, <1>4, <2>1, <2>2, Ends
<1>6. CASE ~thread[t].cleared
  <2>1. /\ UNCHANGED open
        /\ \/ /\ MayStartRound(s)
              /\ \E u \in FreeThread :
                   RoundStarts(s, u, Leaves(t), goal, [goals EXCEPT ![s] = g])
           \/ /\ \E phase \in {"halted", "complete"} : Becomes(s, g, phase, goal)
              /\ goals' = [goals EXCEPT ![s] = g]
              /\ thread' = Leaves(t)
              /\ UNCHANGED <<active, mine>>
    BY <1>1, <1>6 DEF CheckEnds
  <2>2. CASE MayStartRound(s) /\ \E u \in FreeThread :
               RoundStarts(s, u, Leaves(t), goal, [goals EXCEPT ![s] = g])
    <3>1. PICK u \in FreeThread :
            RoundStarts(s, u, Leaves(t), goal, [goals EXCEPT ![s] = g])
      BY <2>2
    <3>2. s \in open /\ active[s] = None
      BY <2>2 DEF MayStartRound
    <3>3. /\ Leaves(t) = [thread EXCEPT ![t] = Over] /\ Leaves(t) \in [Threads -> Tasks]
          /\ goal \in [Goals -> Payloads]
      BY MoveFacts DEF Inv, Types
    <3>4. RoundFollows(s, Leaves(t), goal)
      <4>1. \A v \in Threads : \/ Alike(Leaves(t)[v], thread[v])
                               \/ /\ Leaves(t)[v] = Over /\ thread[v].at # "turn"
                                  /\ thread[v].of = s
                                  /\ \A r \in Sessions : checks'[r] # v
        BY <1>1, <1>2, <1>4, <3>3 DEF Alike, Inv, Types
      <4> QED
        BY <1>2, <1>4, <2>1, <4>1 DEF RoundFollows
    <3> QED
      BY <1>3, <3>1, <3>2, <3>3, <3>4, RoundKeeps
  <2>3. CASE /\ \E phase \in {"halted", "complete"} : Becomes(s, g, phase, goal)
             /\ goals' = [goals EXCEPT ![s] = g]
             /\ thread' = Leaves(t)
             /\ UNCHANGED <<active, mine>>
    <3>1. PICK phase \in {"halted", "complete"} : Becomes(s, g, phase, goal)
      BY <2>3
    <3>2. /\ thread[t].at \notin {"over", "turn"} /\ thread[t].at # "popped"
          /\ thread' = Leaves(t) /\ goals' \in {goals, [goals EXCEPT ![s] = g]}
      BY <1>2, <2>3
    <3>3. UNCHANGED <<stored, open, current, leaving, active, mine>>
      BY <1>2, <2>1, <2>3
    <3> QED
      BY <1>1, <1>3, <1>4, <3>1, <3>2, <3>3, Halts
  <2> QED
    BY <2>1, <2>2, <2>3
<1> QED
  BY <1>5, <1>6

-----------------------------------------------------------------------------
\* Every step keeps the invariant and does what the properties say.
LEMMA NextKeeps ==
  ASSUME Inv, Next
  PROVE  Kept
<1>1. CASE Person
  <2>1. CASE Prompt
    BY <2>1, PromptKeeps
  <2>2. CASE SetGoal
    BY <2>2, SetGoalKeeps
  <2>3. CASE Pause
    BY <2>3, PauseKeeps
  <2>4. CASE Clear
    BY <2>4, ClearKeeps
  <2>5. CASE Stop
    BY <2>5, StopKeeps
  <2>6. CASE End
    BY <2>6, EndKeeps
  <2>7. CASE Compact
    BY <2>7, CompactKeeps
  <2>8. CASE ResumeInRound
    BY <2>8, ResumeInRoundKeeps
  <2>9. CASE ResumeCheck
    BY <2>9, ResumeCheckKeeps
  <2>10. CASE ResumeExhausted
    BY <2>10, ResumeExhaustedKeeps
  <2>11. CASE ResumeRound
    BY <2>11, ResumeRoundKeeps
  <2>12. CASE ResumeRefused
    BY <2>12, ResumeRefusedKeeps
  <2>13. CASE \E s \in Sessions : OpenAgain(s)
    BY <2>13, OpenAgainKeeps
  <2>14. CASE \E s \in Sessions : OpenStored(s)
    BY <2>14, OpenStoredKeeps
  <2>15. CASE \E s \in Sessions : Fork(s)
    BY <2>15, ForkKeeps
  <2>16. CASE \E s \in Sessions : Delete(s)
    BY <2>16, DeleteKeeps
  <2> QED
    BY <1>1, <2>1, <2>2, <2>3, <2>4, <2>5, <2>6, <2>7, <2>8, <2>9, <2>10, <2>11, <2>12,
       <2>13, <2>14, <2>15, <2>16 DEF Person
<1>2. CASE Host
  <2>1. CASE Leave
    BY <2>1, LeaveKeeps
  <2>2. CASE \E round \in BOOLEAN : StartDetached(round)
    BY <2>2, StartDetachedKeeps
  <2>3. CASE \E s \in Sessions : EndCloses(s)
    BY <2>3, EndClosesKeeps
  <2>4. CASE \E s \in Sessions, phase \in {"halted", "complete"} : UpdateGoal(s, phase)
    BY <2>4, UpdateGoalKeeps
  <2>5. CASE \E t \in Threads : RoundIsLast(t)
    BY <2>5, RoundIsLastKeeps
  <2>6. CASE \E t \in Threads : RoundDecides(t)
    BY <2>6, RoundDecidesKeeps
  <2>7. CASE \E t \in Threads : NextRound(t)
    BY <2>7, NextRoundKeeps
  <2>8. CASE \E t \in Threads : CheckBegins(t)
    BY <2>8, CheckBeginsKeeps
  <2>9. CASE \E t \in Threads, last \in {"final", "other"} : TurnEnds(t, last)
    BY <2>9, TurnEndsKeeps
  <2>10. CASE \E t \in Threads, ok \in BOOLEAN : CheckEnds(t, ok)
    BY <2>10, CheckEndsKeeps
  <2> QED
    BY <1>2, <2>1, <2>2, <2>3, <2>4, <2>5, <2>6, <2>7, <2>8, <2>9, <2>10 DEF Host
<1> QED
  BY <1>1, <1>2 DEF Next

\* A resume that is refused is of a conversation without a check.
LEMMA ChecksStillAttend ==
  ASSUME Inv, Next, Kept
  PROVE  ChecksAttend'
<1>1. ResumeRefused => current \notin Checked
  BY DEF ResumeRefused, Resumes
<1> QED
  BY <1>1 DEF Inv, Kept, AttendStep, ChecksAttend

\* The host starts with nothing.
LEMMA InitiallyInv == Init => Inv
<1> SUFFICES ASSUME Init PROVE Inv
  OBVIOUS
<1>1. Types
  BY TaskFacts, PayloadFacts DEF Init, Types
<1>2. Works
  BY TaskFacts DEF Init, Works
<1>3. Stores
  BY DEF Init, Stores
<1>4. Heap
  <2>1. Made = {}
    BY DEF Init, Made
  <2>2. \A s \in Sessions : Held(s) = {}
    BY TaskFacts, NoneFacts DEF Init, Held
  <2>3. 0 \in 0 .. MaxGoals /\ 1 .. 0 = {}
    BY NoneFacts
  <2>4. \A s \in Sessions : saved[s] = None
    BY DEF Init
  <2> QED
    BY <2>1, <2>2, <2>3, <2>4 DEF Heap
<1>5. ChecksAttend
  BY DEF Init, ChecksAttend
<1> QED
  BY <1>1, <1>2, <1>3, <1>4, <1>5 DEF Inv

\* The invariant is about the variables alone.
LEMMA StutterKeeps ==
  ASSUME Inv, UNCHANGED vars
  PROVE  Inv'
BY DEF vars, Inv, Types, Works, Stores, Heap, Held, Made, ChecksAttend, Attended, Attends, Pursued

\* The invariant holds always, whatever threads, person and host interleave.
THEOREM Inductive == Spec => []Inv
<1>1. Inv /\ [Next]_vars => Inv'
  BY NextKeeps, ChecksStillAttend, StutterKeeps DEF Inv, Kept
<1> QED
  BY <1>1, InitiallyInv, PTL DEF Spec

\* Attends differs from Worked in a check that was cleared, which only a
\* conversation with a check has.
LEMMA AttendedIsWorked ==
  ASSUME NEW s \in Sessions
  PROVE  /\ Attended(s) => Worked(s)
         /\ Works /\ s \notin Checked => (Worked(s) => Attended(s))
BY DEF Attended, Attends, Worked, Works

\* A goal of an open conversation that is active is worked for: no end of a turn, no
\* check, pause, clear, stop, opening, closing or deletion leaves one that nobody takes
\* up, other than a resume whose start is refused.
THEOREM ActiveGoalsAreWorkedFor == Spec => GoalsAreWorkedFor
<1> DEFINE Step == \A s \in Sessions : Stalled(s)' => Stalled(s) \/ (s = current /\ ResumeRefused)
<1>1. Inv /\ [Next]_vars => [Step]_vars
  <2> SUFFICES ASSUME Inv, Next, NEW s \in Sessions, Stalled(s)'
               PROVE  Stalled(s) \/ (s = current /\ ResumeRefused)
    OBVIOUS
  <2>1. Kept
    BY NextKeeps
  <2>2. ~Attended(s)' /\ s \in open' /\ Pursued(s)'
    BY AttendedIsWorked DEF Stalled, Attended, Attends, Worked
  <2>3. s \notin Checked
    BY <2>1, <2>2, ChecksStillAttend DEF ChecksAttend
  <2> QED
    BY <2>1, <2>2, <2>3, AttendedIsWorked DEF Kept, AttendStep, Stalled, Inv
<1> QED
  BY <1>1, Inductive, PTL DEF Spec, GoalsAreWorkedFor

\* What closes idle conversations never closes one with a turn or a goal check.
THEOREM WorkKeepsConversations == Spec => WorkKeepsConversation
<1>1. Inv /\ [Next]_vars => [KeepStep]_vars
  BY NextKeeps DEF Kept
<1> QED
  BY <1>1, Inductive, PTL DEF Spec, WorkKeepsConversation, KeepStep

\* The goal in the metadata, in memory and in the person's view come apart only through
\* a thread that still holds a goal the conversation has no more.
THEOREM CopiesOfGoalsAgree == Spec => GoalsAgree
<1>1. Inv /\ [Next]_vars => [AgreeStep]_vars
  BY NextKeeps DEF Kept
<1> QED
  BY <1>1, Inductive, PTL DEF Spec, GoalsAgree, AgreeStep
==============================================================================
