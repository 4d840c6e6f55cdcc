----------------------------- MODULE MCRuntime -----------------------------
(***************************************************************************)
(* Components of the runtime and the host that do not touch each       *)
(* other's state, in one instance: a behaviour is one of the component      *)
(* `part`, and the others stay as they start.                               *)
(***************************************************************************)
EXTENDS Integers, Sequences, FiniteSets, TLC

CONSTANTS Chain, MaxAttempts, Background, Parameters,
          Jobs, MaxRunning,
          Tokens, Root, Parent, Deadlines,
          Publishers, Terminals, Subscribers, QueueLimit, TerminalLimit, MaxEvents,
          Files, Writers, MaxKeys, MaxContents,
          Callers, MaxClients, MaxRequests, MaxFrames,
          Dirs, Top, Words, Empty, Below, Lines, ReadOnly, Hosts, Preapproved, Configured,
          Stored, Ceilings, Roles, Folders, Conversations, MaxReloads, Same,
          Names, MaxBackground, MaxDispatches, MaxRuns, MaxQuestions, None

VARIABLES part,
  state, model, attempt, late, output, held, shown, parts, dropped, stop,
  jobsClosed, toClose, status, stopped, process, holder, pipe, reader, jobsTold, stopping,
  tokenStage, reason, callbacks, linked, timer, pending,
  streamClosed, peers, sub, sent, rest, closing, stage, got, told, offered,
  disk, contents, theirs, keys, entries, lastWritten, backups, edit, atKey, disturbed,
  poolOpen, current, starter, made, mcpProcess, ready, lastId, cancelled, frames, asked,
  locked, call, strayed,
  ceiling, saved, granted, base, next, here, chat, open, since, reloads,
  at, again, answered, run, queue, accepts, names, pool, record, live, closes, questions,
  resultsTold

\* The round of a dispatch of a run.
ParentOf == [t \in {"dispatch", "round"} |-> IF t = "round" THEN "dispatch" ELSE "run"]

\* A directory, commands and hosts; an owner who limits everything, or runs no
\* commands; roles that write to a folder, and that only ask.
BelowOf == [x \in {"top", "docs", "src", "", "git", "git status", "make"} |->
            CASE x = "top" -> {"top", "docs", "src"}
              [] x = "" -> {"", "git", "git status", "make"}
              [] x = "git" -> {"git", "git status"}
              [] OTHER -> {x}]
Plain(w) == [argv |-> w, writes |-> FALSE]
SomeLines == {{Plain("git")}, {Plain("make")}, {Plain("git status"), Plain("make")},
               {Plain("git status"), Plain("git")}, {[argv |-> "git", writes |-> TRUE]}}
Place(d) == {[tree |-> "repo", dir |-> d]}
SomeCeilings ==
  {[scope |-> Place("docs"), shellOn |-> None, shellList |-> {"git"}, fetchOn |-> None,
    fetchList |-> {"listed"}, modes |-> {"ask", "allow"}],
   [scope |-> None, shellOn |-> FALSE, shellList |-> None, fetchOn |-> FALSE,
    fetchList |-> None, modes |-> {"ask", "plan"}]}
Role == [tree |-> "repo", mode |-> "allow", scope |-> Place("top"), ownScope |-> None,
         shellOn |-> TRUE, shellOff |-> FALSE, shellList |-> {""}, ownShellOff |-> FALSE,
         ownShellList |-> None, fetchOn |-> TRUE, fetchOff |-> FALSE, fetchList |-> {},
         ownFetchOff |-> FALSE, ownFetchList |-> None]
SomeRoles ==
  {Role, [Role EXCEPT !.scope = Place("docs"), !.shellList = {"git status"},
                      !.fetchList = {"listed"}, !.fetchOn = FALSE],
   [Role EXCEPT !.scope = {}, !.shellOn = FALSE, !.shellOff = TRUE, !.shellList = {},
                !.fetchOn = FALSE, !.fetchOff = TRUE, !.mode = "ask"]}

Request == INSTANCE ModelRequest
Job     == INSTANCE BackgroundJobs WITH closed <- jobsClosed, told <- jobsTold
Token   == INSTANCE CancelTokens WITH stage <- tokenStage
Stream  == INSTANCE EventStream WITH closed <- streamClosed
Edit    == INSTANCE FileEdits
Mcp     == INSTANCE McpServer WITH process <- mcpProcess
Policy  == INSTANCE Policies WITH current <- chat
Notice  == INSTANCE SubagentNotices WITH toClose <- closes, told <- resultsTold

ASSUME TokenParameters == Token!TokenAssumption
ASSUME StreamParameters == Stream!StreamAssumption
ASSUME McpParameters == Mcp!McpAssumption
ASSUME PolicyParameters == Policy!PolicyAssumption
ASSUME NoticeParameters == Notice!NoticeAssumption

requestVars == <<state, model, attempt, late, output, held, shown, parts, dropped, stop>>
jobVars == <<jobsClosed, toClose, status, stopped, process, holder, pipe, reader, jobsTold,
             stopping>>
tokenVars == <<tokenStage, reason, callbacks, linked, timer, pending>>
streamVars == <<streamClosed, peers, sub, sent, rest, closing, stage, got, told, offered>>
editVars == <<disk, contents, theirs, keys, entries, lastWritten, backups, edit, atKey,
              disturbed>>
mcpVars == <<poolOpen, current, starter, made, mcpProcess, ready, lastId, cancelled, frames,
             asked, locked, call, strayed>>
policyVars == <<ceiling, saved, granted, base, next, here, chat, open, since, reloads>>
noticeVars == <<at, again, answered, run, queue, accepts, names, pool, record, live, closes,
                questions, resultsTold>>
vars == <<part, requestVars, jobVars, tokenVars, streamVars, editVars, mcpVars, policyVars,
          noticeVars>>

Init ==
  /\ part \in {"request", "jobs", "tokens", "stream", "edits", "mcp", "policies", "notices"}
  /\ Request!Init /\ Job!Init /\ Token!Init /\ Stream!Init /\ Edit!Init /\ Mcp!Init
  /\ Policy!Init /\ Notice!Init
  /\ part # "edits" => disk = [f \in Files |-> 0]
  /\ part # "mcp" => ready = {1}
  /\ part # "policies" => ceiling.shellOn = FALSE

RequestSteps ==
  /\ part = "request" /\ Request!Next
  /\ UNCHANGED <<part, jobVars, tokenVars, streamVars, editVars, mcpVars, policyVars,
                 noticeVars>>
JobSteps ==
  /\ part = "jobs" /\ Job!Next
  /\ UNCHANGED <<part, requestVars, tokenVars, streamVars, editVars, mcpVars, policyVars,
                 noticeVars>>
TokenSteps ==
  /\ part = "tokens" /\ Token!Next
  /\ UNCHANGED <<part, requestVars, jobVars, streamVars, editVars, mcpVars, policyVars,
                 noticeVars>>
StreamSteps ==
  /\ part = "stream" /\ Stream!Next
  /\ UNCHANGED <<part, requestVars, jobVars, tokenVars, editVars, mcpVars, policyVars,
                 noticeVars>>
EditSteps ==
  /\ part = "edits" /\ Edit!Next
  /\ UNCHANGED <<part, requestVars, jobVars, tokenVars, streamVars, mcpVars, policyVars,
                 noticeVars>>
McpSteps ==
  /\ part = "mcp" /\ Mcp!Next
  /\ UNCHANGED <<part, requestVars, jobVars, tokenVars, streamVars, editVars, policyVars,
                 noticeVars>>
PolicySteps ==
  /\ part = "policies" /\ Policy!Next
  /\ UNCHANGED <<part, requestVars, jobVars, tokenVars, streamVars, editVars, mcpVars,
                 noticeVars>>
NoticeSteps ==
  /\ part = "notices" /\ Notice!Next
  /\ UNCHANGED <<part, requestVars, jobVars, tokenVars, streamVars, editVars, mcpVars,
                 policyVars>>

Next == RequestSteps \/ JobSteps \/ TokenSteps \/ StreamSteps \/ EditSteps \/ McpSteps
        \/ PolicySteps \/ NoticeSteps

Spec == Init /\ [][Next]_vars

\* The properties of the components, stated where the components are; those
\* that do not move keep what they start with.
OneVoice      == part = "request" => Request!OneVoice
JobsAreKnown  == part = "jobs" => Job!JobsAreKnown
CancelReaches == part = "tokens" => Token!CancelReaches
LossesAreTold == part = "stream" => Stream!LossesAreTold
RestoresExactly == Edit!RestoresExactly
ServerIsKept    == part = "mcp" => Mcp!ServerIsKept
PoliciesHold    == part = "policies" => Policy!PoliciesHold
NoticesArrive   == part = "notices" => Notice!NoticesArrive

\* The writers of files differ in nothing.
Symmetry == Permutations(Writers)
=============================================================================
