--------------------------- MODULE BackgroundJobs ---------------------------
(***************************************************************************)
(* The background jobs of one conversation (jobs.py) and the process       *)
(* groups they run in (process.py): the thread that reads a job, the       *)
(* threads that stop it, the closing of the manager and the processes      *)
(* themselves interleave.                                                  *)
(***************************************************************************)
EXTENDS Integers, FiniteSets

CONSTANTS
  Jobs,      \* bound: the jobs ever started
  MaxRunning \* MAX_RUNNING_JOBS

\* Those that call JobManager.stop: a tool or the host, and close.
Stoppers == {"tool", "close"}

VARIABLES
  closed,    \* JobManager._closed
  toClose,   \* running jobs close has still to stop, or none yet
  status,    \* BackgroundJob.status; "none" before it is started
  stopped,   \* BackgroundJob.stopped
  process,   \* its process: "none", "alive", "dying" once killed, "dead"
  holder,    \* a descendant that left the group keeps the pipe open
  pipe,      \* the manager's end of the pipe
  reader,    \* the thread of _read_job
  told,      \* the status the last notification showed
  stopping   \* per stopper: its step and its job

jobVars == <<closed, toClose, status, stopped, process, holder, pipe, reader, told, stopping>>

NoJob == "no job"
Idle == [at |-> "idle", job |-> NoJob]

Running == {j \in Jobs : status[j] = "running"}

Init ==
  /\ closed = FALSE /\ toClose = {}
  /\ status = [j \in Jobs |-> "none"] /\ told = status
  /\ stopped = [j \in Jobs |-> FALSE]
  /\ process = [j \in Jobs |-> "none"]
  /\ holder = [j \in Jobs |-> FALSE] /\ pipe = [j \in Jobs |-> "none"]
  /\ reader = [j \in Jobs |-> "none"]
  /\ stopping = [s \in Stoppers |-> Idle]

-----------------------------------------------------------------------------
(* JobManager.start, under the manager's lock *)

Starts(j) ==
  /\ status[j] = "none" /\ ~closed
  /\ Cardinality(Running) < MaxRunning

Start(j) ==
  /\ Starts(j)
  /\ status'  = [status EXCEPT ![j] = "running"]
  /\ told'    = [told EXCEPT ![j] = "running"]
  /\ process' = [process EXCEPT ![j] = "alive"]
  /\ pipe'    = [pipe EXCEPT ![j] = "open"]
  /\ reader'  = [reader EXCEPT ![j] = "reading"]
  /\ \E h \in BOOLEAN : holder' = [holder EXCEPT ![j] = h]
  /\ UNCHANGED <<closed, toClose, stopped, stopping>>

StartFails(j) ==
  /\ Starts(j)
  /\ status' = [status EXCEPT ![j] = "failed"]
  /\ told'   = [told EXCEPT ![j] = "failed"]
  /\ UNCHANGED <<closed, toClose, stopped, process, holder, pipe, reader, stopping>>

-----------------------------------------------------------------------------
(* The processes *)

\* The process ends by itself or from the signal.
Dies(j) ==
  /\ process[j] \in {"alive", "dying"}
  /\ process' = [process EXCEPT ![j] = "dead"]
  /\ UNCHANGED <<closed, toClose, status, stopped, holder, pipe, reader, told, stopping>>

HolderEnds(j) ==
  /\ holder[j]
  /\ holder' = [holder EXCEPT ![j] = FALSE]
  /\ UNCHANGED <<closed, toClose, status, stopped, process, pipe, reader, told, stopping>>

-----------------------------------------------------------------------------
(* _read_job *)

\* The end of the output: nobody holds the other end, or the process closed it.
ReadsEnd(j) ==
  /\ reader[j] = "reading" /\ ~holder[j]
  /\ reader' = [reader EXCEPT ![j] = "waiting"]
  /\ UNCHANGED <<closed, toClose, status, stopped, process, holder, pipe, told, stopping>>

\* The pipe was closed under the read: OSError, or, where fileno() is asked of
\* the closed file, ValueError, which nothing catches.
ReadFails(j) ==
  /\ reader[j] = "reading" /\ pipe[j] = "closed"
  /\ status' = [status EXCEPT ![j] = "failed"]
  /\ reader' = [reader EXCEPT ![j] = "waiting"]
  /\ UNCHANGED <<closed, toClose, stopped, process, holder, pipe, told, stopping>>

ReadRaises(j) ==
  /\ reader[j] = "reading" /\ pipe[j] = "closed"
  /\ reader' = [reader EXCEPT ![j] = "over"]
  /\ UNCHANGED <<closed, toClose, status, stopped, process, holder, pipe, told, stopping>>

\* process.wait() returns.
Ends(j) ==
  /\ reader[j] = "waiting" /\ process[j] = "dead"
  /\ status' = [status EXCEPT ![j] = IF @ = "failed" THEN @
                                     ELSE IF stopped[j] THEN "stopped" ELSE "exited"]
  /\ reader' = [reader EXCEPT ![j] = "telling"]
  /\ UNCHANGED <<closed, toClose, stopped, process, holder, pipe, told, stopping>>

\* Mutant: the thread of a job that was stopped leaves the telling to the stop.
ReaderTellsOwn(j) ==
  /\ reader[j] = "telling"
  /\ told'   = IF stopped[j] THEN told ELSE [told EXCEPT ![j] = status[j]]
  /\ reader' = [reader EXCEPT ![j] = "over"]
  /\ UNCHANGED <<closed, toClose, status, stopped, process, holder, pipe, stopping>>

ReaderTells(j) ==
  /\ reader[j] = "telling"
  /\ told'   = [told EXCEPT ![j] = status[j]]
  /\ reader' = [reader EXCEPT ![j] = "over"]
  /\ UNCHANGED <<closed, toClose, status, stopped, process, holder, pipe, stopping>>

-----------------------------------------------------------------------------
(* JobManager.stop *)

Steps(s, at) == stopping' = [stopping EXCEPT ![s].at = at]

\* stop_process_group: the group dies of SIGKILL, soon or after the bounded wait.
Killed(j) == [process EXCEPT ![j] = IF @ = "alive" THEN "dying" ELSE @]

\* A job that no longer runs is only waited for.
StopBegins(s, j) ==
  /\ stopping[s] = Idle /\ status[j] # "none"
  /\ stopped' = [stopped EXCEPT ![j] = @ \/ status[j] = "running"]
  /\ stopping' = [stopping EXCEPT ![s] =
       IF status[j] = "running" THEN [at |-> "kill", job |-> j] ELSE @]

Stop(j) ==
  /\ StopBegins("tool", j)
  /\ UNCHANGED <<closed, toClose, status, process, holder, pipe, reader, told>>

Kill(s) ==
  /\ stopping[s].at = "kill" /\ Steps(s, "join")
  /\ process' = Killed(stopping[s].job)
  /\ UNCHANGED <<closed, toClose, status, stopped, holder, pipe, reader, told>>

\* The reader has ended, or the wait for it; the pipe is closed all the same.
KillAgain(s) ==
  LET j == stopping[s].job IN
  /\ stopping[s].at = "join" /\ Steps(s, "settle")
  /\ process' = Killed(j)
  /\ pipe' = [pipe EXCEPT ![j] = "closed"]
  /\ UNCHANGED <<closed, toClose, status, stopped, holder, reader, told>>

Settle(s) ==
  /\ stopping[s].at = "settle" /\ Steps(s, "tell")
  /\ status' = [status EXCEPT ![stopping[s].job] = "stopped"]
  /\ UNCHANGED <<closed, toClose, stopped, process, holder, pipe, reader, told>>

Tell(s) ==
  LET j == stopping[s].job IN
  /\ stopping[s].at = "tell"
  /\ told' = [told EXCEPT ![j] = status[j]]
  /\ stopping' = [stopping EXCEPT ![s] = Idle]
  /\ UNCHANGED <<closed, toClose, status, stopped, process, holder, pipe, reader>>

-----------------------------------------------------------------------------
(* JobManager.close *)

Close ==
  /\ ~closed /\ closed' = TRUE
  /\ toClose' = Running
  /\ UNCHANGED <<status, stopped, process, holder, pipe, reader, told, stopping>>

CloseStops(j) ==
  /\ j \in toClose /\ toClose' = toClose \ {j}
  /\ StopBegins("close", j)
  /\ UNCHANGED <<closed, status, process, holder, pipe, reader, told>>

-----------------------------------------------------------------------------
Next ==
  \/ Close
  \/ \E j \in Jobs : \/ Start(j) \/ StartFails(j) \/ Dies(j) \/ HolderEnds(j)
                     \/ ReadsEnd(j) \/ ReadFails(j) \/ ReadRaises(j)
                     \/ Ends(j) \/ ReaderTells(j) \/ Stop(j) \/ CloseStops(j)
  \/ \E s \in Stoppers : Kill(s) \/ KillAgain(s) \/ Settle(s) \/ Tell(s)

Spec == Init /\ [][Next]_jobVars

-----------------------------------------------------------------------------
TypeOK ==
  /\ closed \in BOOLEAN /\ toClose \subseteq Jobs
  /\ status \in [Jobs -> {"none", "running", "exited", "stopped", "failed"}]
  /\ told \in [Jobs -> {"none", "running", "exited", "stopped", "failed"}]
  /\ {stopped, holder} \subseteq [Jobs -> BOOLEAN]
  /\ process \in [Jobs -> {"none", "alive", "dying", "dead"}]
  /\ pipe \in [Jobs -> {"none", "open", "closed"}]
  /\ reader \in [Jobs -> {"none", "reading", "waiting", "telling", "over"}]
  /\ stopping \in [Stoppers -> [at : {"idle", "kill", "join", "settle", "tell"},
                                job : Jobs \cup {NoJob}]]

\* Those that still have something to tell of a job.
Busy(j) ==
  \/ reader[j] \in {"reading", "waiting", "telling"}
  \/ \E s \in Stoppers : stopping[s].job = j

\* The person's list of jobs, which follows the notifications, ends with the
\* state the manager holds, whichever of reader and stop came last; and no
\* process escapes the limit or the closing of the conversation, though both go
\* by the status of the jobs and not by their processes.
JobsAreKnown ==
  /\ \A j \in Jobs : ~Busy(j) => told[j] = status[j] /\ status[j] # "running"
  /\ \A j \in Jobs : process[j] = "alive" => status[j] = "running"
  /\ closed /\ toClose = {} /\ stopping["close"] = Idle =>
       \A j \in Jobs : process[j] # "alive"

\* Those that stop a job.
Stopping(j) == {s \in Stoppers : stopping[s].at # "idle" /\ stopping[s].job = j}

\* Why: a stop kills the process before it closes the pipe, closes the pipe
\* before it settles the status, and tells after it has settled; a reader
\* that fails on the closed pipe without telling leaves a status that was told.
IInv ==
  /\ TypeOK
  /\ \A s \in Stoppers :
       IF stopping[s].at = "idle" THEN stopping[s] = Idle
       ELSE LET j == stopping[s].job IN
            /\ j \in Jobs /\ status[j] # "none"
            /\ stopping[s].at # "kill" => process[j] # "alive"
            /\ stopping[s].at \in {"settle", "tell"} => pipe[j] = "closed"
            /\ stopping[s].at = "tell" => status[j] # "running"
  /\ \A j \in Jobs :
       /\ status[j] = "none" => /\ reader[j] = "none" /\ process[j] = "none"
                                /\ pipe[j] = "none" /\ told[j] = "none"
       /\ process[j] = "alive" => status[j] = "running"
       /\ pipe[j] = "closed" => process[j] # "alive"
       /\ reader[j] = "telling" => status[j] # "running"
       /\ \/ Stopping(j) # {}
          \/ reader[j] \in {"waiting", "telling"}
          \/ reader[j] = "reading" /\ pipe[j] # "closed"
          \/ told[j] = status[j] /\ status[j] # "running"
       /\ closed /\ process[j] = "alive" =>
            j \in toClose \/ (stopping["close"].at = "kill" /\ stopping["close"].job = j)
=============================================================================
