---------------------------- MODULE LoopRunners ----------------------------
(***************************************************************************)
(* One loop worked on by two processes: the app's host and a headless      *)
(* runner.  They share loop.json and a lock file, each has its own runs,   *)
(* and either may die.  What happens inside a card is SpecLoop's; here a   *)
(* card's implementation and review are one piece of work.                 *)
(*                                                                         *)
(* A handler reads and saves loop.json under its host's lock, which the    *)
(* other process does not take: a handler is one step here, except the     *)
(* runner's poll, which acts on what it read before.                       *)
(***************************************************************************)
EXTENDS Naturals, FiniteSets

CONSTANTS Cards,         \* the cards of the plan, in lane order
          MaxWorks,      \* runs ever started
          MaxRunners,    \* headless commands ever given
          MaxDeaths,     \* processes that die
          Plan, Validation, \* the work that is no card's
          None

\* A plan has cards, in an order; None, the plan and the validation are no cards.
LoopAssumption ==
  /\ Cards \subseteq Nat /\ IsFiniteSet(Cards) /\ Cards # {}
  /\ MaxWorks \in Nat /\ None \notin Nat /\ None \notin {"planner", "validation"}
  /\ Plan \notin Cards /\ Validation \notin Cards /\ Plan # Validation

VARIABLES record,        \* loop.json
          works,         \* the runs at work, in both processes
          made,          \* the number of runs started
          validating,    \* the processes that run the combined validation
          app,           \* whether the app's host is up
          runner,        \* the headless command: where it is and what it knows
          runners, deaths,
          lost,          \* cards, or the plan or validation, left with nobody
          exempt         \* departures that have happened

loopVars == <<record, works, made, validating>>
processVars == <<app, runner, runners, deaths>>
runnerVars == <<loopVars, processVars, lost, exempt>>

Processes == {"app", "runner"}
Stages == {"planner", "implementer", "reviewer", "other"}
Settled == {"awaiting_commit", "needs_attention", "cancelled", "done"}
InProgress(r) == {c \in Cards : r.cards[c] \in {"running", "review"}}

Alive(p) == IF p = "app" THEN app = "up" ELSE runner.pc \in {"polls", "acts"}
Locked == runner.holds
WorkOn(c) == {w \in works : w.on = c}
Of(p) == {w \in works : w.by = p}

Attention(r, stage, c) == [r EXCEPT !.state = "needs_attention", !.stage = stage, !.card = c]
State(r, s) == [r EXCEPT !.state = s, !.stage = None, !.card = None]

NoRecord == [state |-> "none", stage |-> None, card |-> None, locked |-> FALSE,
             cards |-> [c \in Cards |-> "none"], worker |-> [c \in Cards |-> None]]

OutOfIt == [pc |-> "out", seen |-> NoRecord, approved |-> FALSE, asked |-> FALSE, retried |-> {}, holds |-> FALSE]

Init ==
  /\ record = NoRecord
  /\ works = {} /\ made = 0 /\ validating = {}
  /\ app \in {"up", "down"}
  /\ runner = OutOfIt
  /\ runners = 0 /\ deaths = 0
  /\ lost = {} /\ exempt = {}

-----------------------------------------------------------------------------
\* What a handler leaves: the record, the runs and who validates.

Work(p, on, n) == [by |-> p, on |-> on, id |-> n]

\* _start_loop_planner: a run that plans, or its start fails.
Plans(p, r) ==
  \/ /\ made < MaxWorks
     /\ made' = made + 1
     /\ works' = works \cup {Work(p, Plan, made + 1)}
     /\ record' = State(r, "planning")
  \/ /\ record' = Attention(r, "planner", None)
     /\ UNCHANGED <<works, made>>

\* What _advance_loop starts: the planned cards, and the reviews no one began.
Due(r) == {c \in Cards : \/ r.cards[c] = "planned"
                         \/ r.cards[c] = "review" /\ r.worker[c] = None}
Number(c, S) == Cardinality({d \in S : d <= c})

\* In lane order, up to one whose start fails.
Startable(r, failed) == IF failed = None THEN Due(r) ELSE {c \in Due(r) : c < failed}
Started(r, S) ==
  [r EXCEPT !.cards = [c \in Cards |-> IF c \in S THEN "running" ELSE r.cards[c]],
            !.worker = [c \in Cards |-> IF c \in S THEN made + Number(c, S) ELSE r.worker[c]]]

Advances(p, r, ws) ==
  IF r.state # "running"
  THEN /\ record' = r /\ works' = ws /\ made' = made
       /\ validating' = IF r.state = "validating" THEN validating \cup {p} ELSE validating
  ELSE IF \A c \in Cards : r.cards[c] = "done"
  THEN /\ record' = State(r, "validating")
       /\ works' = ws /\ made' = made /\ validating' = validating \cup {p}
  ELSE \E failed \in Due(r) \cup {None} :
         LET S == Startable(r, failed)
             r1 == Started(r, S)
         IN /\ made + Cardinality(S) <= MaxWorks
            /\ made' = made + Cardinality(S)
            /\ works' = ws \cup {Work(p, c, made + Number(c, S)) : c \in S}
            /\ record' = IF failed = None THEN r1
                         ELSE [Attention(r1, "implementer", failed) EXCEPT !.cards[failed] = "failed"]
            /\ validating' = validating

\* resume_loop, once the caller may: the plan again, or the failed cards and
\* the validation.
TriedAgain(r) ==
  [r EXCEPT !.cards = [c \in Cards |-> IF r.cards[c] = "failed" THEN "planned" ELSE r.cards[c]],
            !.worker = [c \in Cards |-> IF r.cards[c] = "failed" THEN None ELSE r.worker[c]]]

Resumes(p, r) ==
  IF r.stage = "planner" \/ \A c \in Cards : r.cards[c] = "none"
  THEN Plans(p, r) /\ validating' = validating
  ELSE Advances(p, State(TriedAgain(r), IF r.stage = "validation" THEN "validating" ELSE "running"), works)

Departs(x) == exempt' = exempt \cup {x}

-----------------------------------------------------------------------------
\* The headless command.

RunnerVars == <<app, runners, deaths, lost, exempt>>
Enters == [OutOfIt EXCEPT !.pc = "polls", !.holds = TRUE]

\* loop <goal>: the loop is made, locked and planned for.
RunnerStarts ==
  /\ runner.pc = "out" /\ runners < MaxRunners /\ record.state = "none"
  /\ Plans("runner", [record EXCEPT !.locked = TRUE])
  /\ runner' = Enters /\ runners' = runners + 1
  /\ UNCHANGED <<validating, app, deaths, lost, exempt>>

\* loop --resume: only a loop that needs attention, and only with the lock.  A
\* planner that cannot start leaves the command.
RunnerResumes ==
  /\ runner.pc = "out" /\ runners < MaxRunners /\ record.state = "needs_attention" /\ ~Locked
  /\ Resumes("runner", [record EXCEPT !.locked = TRUE])
  /\ runner' = IF record'.stage = "planner" THEN runner ELSE Enters
  /\ runners' = runners + 1
  /\ UNCHANGED <<app, deaths, lost, exempt>>

RunnerPolls ==
  /\ runner.pc = "polls"
  /\ runner' = [runner EXCEPT !.pc = "acts", !.seen = record]
  /\ UNCHANGED <<loopVars, RunnerVars>>

Key(r) == IF r.stage = "planner" THEN <<"planner", None>> ELSE <<"card", r.card>>
Retries(r) == /\ r.state = "needs_attention" /\ ~runner.asked
              /\ r.stage \in {"planner", "implementer", "reviewer"} /\ Key(r) \notin runner.retried
Approves(r) == r.state = "awaiting_plan" /\ ~runner.approved
Leaves(r) == r.state \in Settled /\ ~Retries(r)

RunnerWaits ==
  /\ runner.pc = "acts" /\ ~Retries(runner.seen) /\ ~Approves(runner.seen) /\ ~Leaves(runner.seen)
  /\ runner' = [runner EXCEPT !.pc = "polls", !.seen = NoRecord]
  /\ UNCHANGED <<loopVars, RunnerVars>>

\* The plan is approved as it stands; refused, because someone else has, the
\* command leaves.
RunnerApproves ==
  /\ runner.pc = "acts" /\ Approves(runner.seen)
  /\ IF record.state = "awaiting_plan"
     THEN /\ Advances("runner", State(record, "running"), works)
          /\ runner' = [runner EXCEPT !.pc = "polls", !.seen = NoRecord, !.approved = TRUE]
     ELSE /\ runner' = [runner EXCEPT !.pc = "leaves", !.seen = NoRecord, !.approved = TRUE]
          /\ UNCHANGED loopVars
  /\ UNCHANGED RunnerVars

\* A stage is tried once more.  A planner's retry saves the record it has read
\* before, whatever has become of the loop since.
RunnerRetries ==
  /\ runner.pc = "acts" /\ Retries(runner.seen)
  /\ LET retried == runner.retried \cup {Key(runner.seen)} IN
     \/ /\ runner.seen.stage = "planner"
        /\ Plans("runner", runner.seen) /\ UNCHANGED validating
        /\ runner' = [runner EXCEPT !.pc = "polls", !.seen = NoRecord, !.retried = retried]
        /\ IF record = runner.seen THEN exempt' = exempt ELSE Departs("overwritten")
     \/ /\ runner.seen.stage # "planner" /\ record.state = "needs_attention"
        /\ Resumes("runner", record)
        /\ runner' = [runner EXCEPT !.pc = "polls", !.seen = NoRecord, !.retried = retried]
        /\ exempt' = exempt
     \/ /\ runner.seen.stage # "planner" /\ record.state # "needs_attention"
        /\ runner' = [runner EXCEPT !.pc = "leaves", !.seen = NoRecord, !.retried = retried]
        /\ UNCHANGED <<loopVars, exempt>>
  /\ UNCHANGED <<app, runners, deaths, lost>>

RunnerLeaves ==
  /\ runner.pc = "acts" /\ Leaves(runner.seen)
  /\ runner' = [runner EXCEPT !.pc = "leaves", !.seen = NoRecord]
  /\ UNCHANGED <<loopVars, RunnerVars>>

\* Ctrl-C cancels the loop.
RunnerInterrupted ==
  /\ runner.pc = "polls" /\ record.state \notin {"cancelled", "done"}
  /\ record' = State(record, "cancelled")
  /\ works' = works \ Of("runner") /\ validating' = validating \ {"runner"}
  /\ runner' = [runner EXCEPT !.pc = "leaves", !.seen = NoRecord]
  /\ UNCHANGED <<made, RunnerVars>>

\* The runtime closes: its runs are cancelled.  Those that end in time say so,
\* the others, and a validation, leave the loop with nobody.
Closed(r, ended) ==
  [r EXCEPT !.cards = [c \in Cards |-> IF c \in ended THEN "review" ELSE @[c]],
            !.worker = [c \in Cards |-> IF c \in ended /\ r.state # "running" THEN None ELSE @[c]]]

RunnerCloses ==
  /\ runner.pc = "leaves"
  /\ LET mine == {w.on : w \in {v \in Of("runner") : v.on \in Cards /\ record.worker[v.on] = v.id}}
         planning == record.state = "planning" /\ \E w \in Of("runner") : w.on = Plan IN
     \E ended \in SUBSET mine :
       /\ record' = IF record.state = "cancelled" THEN record
                    ELSE IF planning THEN Attention(record, "planner", None)
                    ELSE Closed(record, ended)
       /\ lost' = IF record.state = "cancelled" THEN lost
                  ELSE lost \cup (IF record.state = "running" THEN mine ELSE mine \ ended)
                            \cup (IF "runner" \in validating THEN {Validation} ELSE {})
  /\ works' = works \ Of("runner") /\ validating' = validating \ {"runner"}
  /\ runner' = OutOfIt
  /\ UNCHANGED <<made, app, runners, deaths, exempt>>

-----------------------------------------------------------------------------
\* The app.

AppStartsLoop ==
  /\ app = "up" /\ record.state = "none"
  /\ Plans("app", record)
  /\ UNCHANGED <<validating, processVars, lost, exempt>>

AppApproves ==
  /\ app = "up" /\ record.state = "awaiting_plan"
  /\ Advances("app", State(record, "running"), works)
  /\ UNCHANGED <<processVars, lost, exempt>>

AppResumes ==
  /\ app = "up" /\ record.state = "needs_attention"
  /\ Resumes("app", record)
  /\ lost' = lost \ {Validation, Plan}
  /\ UNCHANGED <<processVars, exempt>>

\* Only the app's own runs can be cancelled by it; the runner's end unheard.
AppCancels ==
  /\ app = "up" /\ record.state \notin {"none", "cancelled", "done"}
  /\ record' = State(record, "cancelled")
  /\ works' = works \ Of("app") /\ validating' = validating \ {"app"}
  /\ UNCHANGED <<made, processVars, lost, exempt>>

AppCommits ==
  /\ app = "up" /\ record.state = "awaiting_commit"
  /\ \E s \in {"done", "cancelled"} : record' = State(record, s)
  /\ UNCHANGED <<works, made, validating, processVars, lost, exempt>>

\* recover_loops, as the app's host comes up with no runs of its own.  Only a
\* running loop is left to the holder of its lock.
RunningAgain(r) ==
  [r EXCEPT !.cards = [c \in Cards |-> IF c \in InProgress(r) THEN "planned" ELSE @[c]],
            !.worker = [c \in Cards |-> IF c \in InProgress(r) THEN None ELSE @[c]]]

\* Mutant: recovery does not look at the lock.
LeftToRunnerNever == FALSE

LeftToRunner == record.state = "running" /\ record.locked /\ Locked

AppStarts ==
  /\ app = "down" /\ app' = "up"
  /\ \/ /\ record.state = "planning"
        /\ record' = Attention(record, "planner", None)
        /\ lost' = lost \ {Plan}
        /\ IF WorkOn(Plan) # {} THEN Departs(Plan) ELSE exempt' = exempt
        /\ UNCHANGED <<works, made, validating>>
     \/ /\ record.state = "validating"
        /\ validating' = validating \cup {"app"}
        /\ lost' = lost \ {Validation}
        /\ IF "runner" \in validating THEN Departs(Validation) ELSE exempt' = exempt
        /\ UNCHANGED <<record, works, made>>
     \/ /\ record.state = "running" /\ ~LeftToRunner
        /\ Advances("app", RunningAgain(record), works)
        /\ lost' = {} /\ exempt' = exempt
     \/ /\ record.state \notin {"planning", "validating", "running"} \/ LeftToRunner
        /\ UNCHANGED <<loopVars, lost, exempt>>
  /\ UNCHANGED <<runner, runners, deaths>>

-----------------------------------------------------------------------------
\* The runs end.

\* _finish_loop_plan does not ask which planner has ended.
PlanEnds(w) ==
  /\ w \in works /\ w.on = Plan /\ Alive(w.by)
  /\ works' = works \ {w}
  /\ IF record.state # "planning" THEN UNCHANGED <<record, lost>>
     ELSE \/ record' = Attention(record, "planner", None) /\ lost' = lost
          \/ /\ record' = [State(record, "awaiting_plan") EXCEPT !.cards = [c \in Cards |-> "planned"],
                                                                 !.worker = [c \in Cards |-> None]]
             /\ lost' = lost \ Cards
  /\ UNCHANGED <<made, validating, processVars, exempt>>

\* _loop_attention: a card fails; only a running loop takes the reason's state.
Failed(r, stage, c) ==
  LET r1 == [r EXCEPT !.cards[c] = "failed"] IN
  IF r.state = "running" THEN Attention(r1, stage, c) ELSE [r1 EXCEPT !.stage = stage, !.card = c]

CardEnds(w) ==
  /\ w \in works /\ w.on \in Cards /\ Alive(w.by)
  /\ IF record.state = "cancelled" \/ record.worker[w.on] # w.id
     THEN UNCHANGED <<record, made, validating>> /\ works' = works \ {w}
     ELSE \/ /\ record.state # "needs_attention"
             /\ Advances(w.by, [record EXCEPT !.cards[w.on] = "done"], works \ {w})
          \/ /\ record.state = "needs_attention"
             /\ record' = [record EXCEPT !.cards[w.on] = "done"]
             /\ works' = works \ {w} /\ UNCHANGED <<made, validating>>
          \/ /\ \E stage \in {"implementer", "reviewer", "other"} : record' = Failed(record, stage, w.on)
             /\ works' = works \ {w} /\ UNCHANGED <<made, validating>>
  /\ UNCHANGED <<processVars, lost, exempt>>

\* A failed card's review asks what to do; there is nobody at a runner to ask,
\* and its question is why the loop stops.
CardAsks(w) ==
  /\ w \in Of("runner") /\ w.on \in Cards /\ Alive("runner")
  /\ record.worker[w.on] = w.id /\ record.state = "running"
  /\ record' = Attention(record, "other", None)
  /\ works' = works \ {w}
  /\ runner' = [runner EXCEPT !.asked = TRUE]
  /\ lost' = lost \cup {w.on}
  /\ UNCHANGED <<made, validating, app, runners, deaths, exempt>>

ValidationEnds(p) ==
  /\ p \in validating /\ Alive(p)
  /\ validating' = validating \ {p}
  /\ IF record.state # "validating" THEN UNCHANGED record
     ELSE \/ record' = State(record, "awaiting_commit")
          \/ record' = Attention(record, "validation", None)
  /\ UNCHANGED <<works, made, processVars, lost, exempt>>

\* A process dies: its runs, its validation and its lock are gone.
Dies(p) ==
  /\ Alive(p) /\ deaths < MaxDeaths /\ deaths' = deaths + 1
  /\ works' = works \ Of(p) /\ validating' = validating \ {p}
  /\ lost' = lost \cup {w.on : w \in {v \in Of(p) : v.on = Plan \/ (v.on \in Cards /\ record.worker[v.on] = v.id)}}
                  \cup (IF p \in validating THEN {Validation} ELSE {})
  /\ app' = IF p = "app" THEN "down" ELSE app
  /\ runner' = IF p = "runner" THEN OutOfIt ELSE runner
  /\ UNCHANGED <<record, made, runners, exempt>>

RunnerNext ==
  \/ RunnerStarts \/ RunnerResumes \/ RunnerPolls \/ RunnerWaits \/ RunnerApproves
  \/ RunnerRetries \/ RunnerLeaves \/ RunnerInterrupted \/ RunnerCloses
AppNext == AppStartsLoop \/ AppApproves \/ AppResumes \/ AppCancels \/ AppCommits \/ AppStarts
EndNext == \/ \E w \in works : PlanEnds(w) \/ CardEnds(w) \/ CardAsks(w)
           \/ \E p \in Processes : ValidationEnds(p) \/ Dies(p)

Next == RunnerNext \/ AppNext \/ EndNext
Spec == Init /\ [][Next]_runnerVars

-----------------------------------------------------------------------------
States == {"none", "planning", "awaiting_plan", "running", "validating", "awaiting_commit",
           "needs_attention", "cancelled", "done"}
Records ==
  [state : States, stage : Stages \cup {"validation", None}, card : Cards \cup {None},
   locked : BOOLEAN,
   cards : [Cards -> {"none", "planned", "running", "review", "failed", "done"}],
   worker : [Cards -> Nat \cup {None}]]
Runners ==
  [pc : {"out", "polls", "acts", "leaves"}, seen : Records, approved : BOOLEAN, asked : BOOLEAN,
   retried : SUBSET ({"planner", "card"} \X (Cards \cup {None})), holds : BOOLEAN]
Works == [by : Processes, on : Cards \cup {Plan}, id : Nat]

TypeOK ==
  /\ record \in Records /\ works \subseteq Works
  /\ made \in 0..MaxWorks /\ validating \subseteq Processes
  /\ app \in {"up", "down"}
  /\ runner \in Runners

\* A card is worked on by one run of one process, and so are the plan and the
\* validation: the host that comes up does not start again what a live runner
\* is doing.
NothingIsTakenOver ==
  /\ \A c \in Cards : Cardinality(WorkOn(c)) <= 1
  /\ Plan \in exempt \/ Cardinality(WorkOn(Plan)) <= 1
  /\ Validation \in exempt \/ Cardinality(validating) <= 1

\* What the record says is being worked on, someone is working on, unless it
\* was left with nobody since the app's host last looked.
NothingIsForgotten ==
  /\ record.state = "running" => \A c \in InProgress(record) \ lost : WorkOn(c) # {}
  /\ record.state = "planning" => Plan \in lost \/ WorkOn(Plan) # {}
  /\ record.state = "validating" => Validation \in lost \/ validating # {}

\* A runner that polls waits for something: a run, a validation, or a state it
\* acts on.
RunnerIsAnswered ==
  runner.pc = "polls" /\ lost = {} =>
    \/ works # {} \/ validating # {}
    \/ record.state \in Settled
    \/ record.state = "awaiting_plan" /\ ~runner.approved

\* A loop is worked on once and by someone, whoever started it and whoever
\* dies.
LoopsAreKept ==
  "overwritten" \in exempt \/ (NothingIsTakenOver /\ NothingIsForgotten /\ RunnerIsAnswered)

-----------------------------------------------------------------------------
\* What keeps it so, of a record r, the works ws, the processes val that
\* validate, and what has been left (lo) or has departed (ex).

Blank(r) == \A c \in Cards : r.cards[c] = "none"
Planned(r) == \A c \in Cards : r.cards[c] # "none"

\* A run on a card is the one the record names, and the only one.
WorksFit(r, ws) ==
  /\ \A w \in ws : w.on \in Cards => r.cards[w.on] = "running" /\ r.worker[w.on] = w.id
  /\ \A w, v \in ws : w.on = v.on /\ w.on \in Cards => w = v

\* A card in progress has its run, or is left, or is about to be reviewed again.
WorksGoOn(r, ws, lo) ==
  \A c \in InProgress(r) \ lo :
    (\E w \in ws : w.on = c) \/ (r.cards[c] = "review" /\ r.worker[c] = None)

\* The states agree with the runs.
StatesFit(r, ws) ==
  /\ r.state # "needs_attention" => r.stage = None
  /\ r.state \in {"none", "planning"} \/ r.stage = "planner" => Blank(r)
  /\ Blank(r) \/ Planned(r)
  /\ r.state \in {"awaiting_plan", "running"} => Planned(r) /\ \A c \in Cards : r.cards[c] # "failed"
  /\ r.state = "running" => Due(r) = {} /\ \E c \in Cards : r.cards[c] # "done"
  /\ \A w \in ws : w.on \in Cards =>
       r.state \in {"running", "needs_attention", "cancelled"} /\ r.stage \notin {"planner", "validation"}
  /\ r.state = "none" => ws = {}

OnePlanner(r, ws, ex) ==
  Plan \in ex \/ \A w, v \in ws : w.on = Plan /\ v.on = Plan =>
                    w = v /\ r.state \in {"planning", "cancelled"}

OneValidates(r, val, ex) ==
  Validation \in ex \/ \A p, q \in val : p = q /\ r.state \in {"validating", "cancelled"}

SomeoneWorks(r, ws, val, lo) ==
  /\ r.state # "cancelled" => WorksGoOn(r, ws, lo)
  /\ r.state = "planning" => Plan \in lo \/ \E w \in ws : w.on = Plan
  /\ r.state = "validating" => Validation \in lo \/ val # {}

LoopFits(r, ws, val, lo, ex) ==
  /\ WorksFit(r, ws) /\ StatesFit(r, ws) /\ OnePlanner(r, ws, ex)
  /\ OneValidates(r, val, ex) /\ SomeoneWorks(r, ws, val, lo)

\* A process that is gone does nothing, and a runner holds the lock of a loop
\* whose plan it approves once.
ProcessesFit ==
  /\ runner.pc = "out" <=> ~runner.holds
  /\ ~runner.holds => Of("runner") = {} /\ "runner" \notin validating
  /\ runner.holds => record.locked /\ record.state # "none"
  /\ app = "down" => Of("app") = {} /\ "app" \notin validating
  /\ runner.pc \in {"polls", "acts"} /\ runner.approved =>
       record.state # "awaiting_plan" /\ Planned(record)

IInv ==
  \/ "overwritten" \in exempt
  \/ TypeOK /\ LoopFits(record, works, validating, lost, exempt) /\ ProcessesFit
=============================================================================
