----------------------------- MODULE MCClients -----------------------------
(***************************************************************************)
(* What clients of the host keep and show, in one instance: the desktop    *)
(* app's windows and cards, the terminals, headless commands, the loops both *)
(* of them run, and the projects of the host.  A behaviour is one of the   *)
(* component `part`, and the others stay as they start.                    *)
(***************************************************************************)
EXTENDS Integers, Sequences, FiniteSets, TLC

CONSTANTS Paths, MaxPrompts, MaxSteps, MaxOpens,
          MaxWritten, MaxTurns, MaxGaps,
          Approvals,
          Terminals, Limit, MaxOutput, MaxPending, MaxKept, MaxLosses,
          Cards, MaxWorks, MaxRunners, MaxDeaths, Plan, Validation,
          Roots, Requests, Closers, MaxRuntimes,
          QueueLimit, MaxEvents, MaxSaid,
          None

VARIABLES part,
  turns, running, content, frames, undone, window, doubled, opens,
  state, active, inFlight, queue, requests, asked, chatConnected, chatFrames, hostRun,
  announced, chatRuns, taken, written, returned, unheard, crossed, astray, lagging,
  chatGaps,
  pending, settled, approvalFrames, connected, holds, held, cards, answers, sync,
  forgotten, approvalLosses,
  shell, listed, stopping, host, terminalFrames, view, early, loading, closes,
  terminalLosses, holes, ghosts,
  record, works, madeWorks, validating, app, runner, runners, deaths, lostWorks, exempt,
  runtimes, current, root, made, open, busy, request, closer, hostClosed, strays,
  run, messages, before, eventQueue, lost, published, said, wait, interrupted, closing,
  schema, result

Card     == INSTANCE TurnCards
Chat     == INSTANCE ChatWindow WITH frames <- chatFrames, connected <- chatConnected,
                                     gaps <- chatGaps, runs <- chatRuns,
                                     left <- lagging, MaxMessages <- MaxWritten,
                                     MaxRuns <- MaxTurns
Approval == INSTANCE ApprovalCards WITH frames <- approvalFrames,
                                        losses <- approvalLosses, MaxLosses <- MaxGaps
Terminal == INSTANCE Terminals WITH frames <- terminalFrames, losses <- terminalLosses
Loop     == INSTANCE LoopRunners WITH made <- madeWorks, lost <- lostWorks
Project  == INSTANCE ProjectHost WITH closed <- hostClosed
Command  == INSTANCE HeadlessRun WITH queue <- eventQueue, stopping <- closing

ASSUME ProjectParameters == Project!ProjectAssumption
ASSUME LoopParameters == Loop!LoopAssumption
ASSUME CommandParameters == Command!CommandAssumption

turnVars == <<turns, running, content, frames, undone, window, doubled, opens>>
chatVars == <<state, active, inFlight, queue, requests, asked, chatConnected,
              chatFrames, hostRun, announced, chatRuns, taken, written, returned,
              unheard, crossed, astray, lagging, chatGaps>>
approvalVars == <<pending, settled, approvalFrames, connected, holds, held, cards,
                  answers, sync, forgotten, approvalLosses>>
terminalVars == <<shell, listed, stopping, host, terminalFrames, view, early, loading,
                  closes, terminalLosses, holes, ghosts>>
loopVars == <<record, works, madeWorks, validating, app, runner, runners, deaths,
              lostWorks, exempt>>
projectVars == <<runtimes, current, root, made, open, busy, request, closer,
                 hostClosed, strays>>
commandVars == <<run, messages, before, eventQueue, lost, published, said, wait,
                 interrupted, closing, schema, result>>
vars == <<part, turnVars, chatVars, approvalVars, terminalVars, loopVars, projectVars,
          commandVars>>

Init ==
  /\ part \in {"turns", "chat", "approvals", "terminals", "loops", "projects", "command"}
  /\ Card!Init /\ Chat!Init /\ Approval!Init /\ Terminal!Init /\ Loop!Init
  /\ Project!Init /\ Command!Init
  /\ part # "loops" => app = "up"
  /\ part # "command" => messages = <<>> /\ schema

CardSteps ==
  /\ part = "turns" /\ Card!Next
  /\ UNCHANGED <<part, chatVars, approvalVars, terminalVars, loopVars, projectVars,
                 commandVars>>
ChatSteps ==
  /\ part = "chat" /\ Chat!Next
  /\ UNCHANGED <<part, turnVars, approvalVars, terminalVars, loopVars, projectVars,
                 commandVars>>
ApprovalSteps ==
  /\ part = "approvals" /\ Approval!Next
  /\ UNCHANGED <<part, turnVars, chatVars, terminalVars, loopVars, projectVars,
                 commandVars>>
TerminalSteps ==
  /\ part = "terminals" /\ Terminal!Next
  /\ UNCHANGED <<part, turnVars, chatVars, approvalVars, loopVars, projectVars,
                 commandVars>>
LoopSteps ==
  /\ part = "loops" /\ Loop!Next
  /\ UNCHANGED <<part, turnVars, chatVars, approvalVars, terminalVars, projectVars,
                 commandVars>>
ProjectSteps ==
  /\ part = "projects" /\ Project!Next
  /\ UNCHANGED <<part, turnVars, chatVars, approvalVars, terminalVars, loopVars,
                 commandVars>>
CommandSteps ==
  /\ part = "command" /\ Command!Next
  /\ UNCHANGED <<part, turnVars, chatVars, approvalVars, terminalVars, loopVars,
                 projectVars>>

Next == CardSteps \/ ChatSteps \/ ApprovalSteps \/ TerminalSteps \/ LoopSteps \/
        ProjectSteps \/ CommandSteps

Spec == Init /\ [][Next]_vars

\* The properties of the components, stated where the components are; those
\* that do not move keep what they start with.

\* The app's windows agree with the host: a conversation's cards with its
\* transcript and its files, its messages with the turns they became, the
\* approvals that ask with those that wait, the terminals with what they print.
WindowsAgree ==
  /\ part = "turns" => Card!CardsHold
  /\ part = "chat" => Chat!MessagesHold
  /\ part = "approvals" => Approval!CardsFollow
  /\ part = "terminals" => Terminal!TerminalsShow
\* A loop has one process that runs it, and a command says what its turn came to.
CommandsHold ==
  /\ part = "loops" => Loop!LoopsAreKept
  /\ part = "command" => Command!CommandTells
\* The projects that are open are those the host knows.
ProjectsAreKept == part = "projects" => Project!ProjectsAreKept

\* The terminals differ in nothing.
Symmetry == Permutations(Terminals)
=============================================================================
