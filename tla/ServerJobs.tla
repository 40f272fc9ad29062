----------------------------- MODULE ServerJobs -----------------------------
(***************************************************************************)
(* The job subsystem: the in-memory JobManager (src/src/jobs.ts), the      *)
(* executors the tools hand it, the job_* tools                            *)
(* (src/src/tools/escape/register.ts) and the two outside worlds they      *)
(* watch: Proxmox tasks, named by UPIDs, and remote commands.              *)
(*                                                                         *)
(* A node process is single-threaded, so one action is one run of the      *)
(* event loop from an awaited result to the next await, microtasks         *)
(* included.  Everything that happens elsewhere (a task ending, a command  *)
(* exiting, a request being answered) is an action of its own.             *)
(*                                                                         *)
(* Job ids come in three kinds.  A UPID job's id encodes the UPID of its   *)
(* Proxmox task (makeUpidJobId), so it means something without a record.   *)
(* An SSH or guest-agent job's id is a random string (makeId).             *)
(***************************************************************************)
EXTENDS Naturals

CONSTANTS
    UpidJobs,    \* ids of jobs that watch a Proxmox task
    SshJobs,     \* ids of process-run jobs over SSH
    AgentJobs,   \* ids of process-run jobs over the QEMU guest agent
    Calls,       \* concurrent MCP tool calls
    NoJob,       \* the job of a call that has none
    MaxLog,      \* bound on the lines a Proxmox task writes to its log
    Page         \* lines of a task's log Proxmox returns when no limit is given (50)

LocalJobs == SshJobs \cup AgentJobs
Jobs == UpidJobs \cup LocalJobs

ASSUME JobKindsDisjoint ==
    /\ UpidJobs \cap LocalJobs = {}
    /\ SshJobs \cap AgentJobs = {}
    /\ NoJob \notin Jobs

ASSUME MaxLogNat == MaxLog \in Nat

ASSUME PageNat == Page \in Nat

VARIABLES
    state,      \* JobManager.jobs: state of each record, "absent" without one
    signal,     \* JobManager.abortControllers: entry and its signal
    exec,       \* where the executor given to JobManager.run stands
    heard,      \* is an abort listener of the running SSH command registered?
    resultLog,  \* log lines in the record's result (UPID jobs)
    made,       \* ids handed out, by this process or an earlier one
    asked,      \* jobs whose abort controller was fired
    lost,       \* ids whose record went down with a process
    task,       \* Proxmox: the task behind each UPID
    taskLog,    \* Proxmox: lines written to the task's log
    command,    \* remote hosts: the command of a process-run job
    call        \* MCP tool calls in progress, and their last answer

server == <<state, signal, exec, heard, resultLog, made, asked, lost>>
proxmox == <<task, taskLog>>
vars == <<server, proxmox, command, call>>

-----------------------------------------------------------------------------
(* Types. *)

Verdicts == {"completed", "failed", "cancelled"}
JobStates == {"absent", "running"} \cup Verdicts
UpidPhases == {"status", "sleep", "log"}
SshPhases == {"prep", "conn", "repair", "reconn", "cmd"}
AgentPhases == {"prep", "post", "poll", "nap"}
ActivePhases == UpidPhases \cup SshPhases \cup AgentPhases
TaskEnds == {"ok", "aborted", "error"}

ToolOps == {"tool_deferred", "tool_wait", "tool_auto"}
WaitOps == {"wait", "wait_timed"}
Ops == ToolOps \cup WaitOps \cup {"none", "get", "cancel", "logs"}
CallPhases == {"free", "submit", "wait", "delete", "status", "log", "sleep", "done"}
Answers == JobStates \cup {"unknown", "error", "nojob"}

CallType == [pc : CallPhases, op : Ops, job : Jobs \cup {NoJob},
             state : Answers, via : {"none", "record", "proxmox"}, log : 0..MaxLog]

Call(pc, op, j, answer, via, log) ==
    [pc |-> pc, op |-> op, job |-> j, state |-> answer, via |-> via, log |-> log]

NoCall == Call("free", "none", NoJob, "absent", "none", 0)

TypeOK ==
    /\ state \in [Jobs -> JobStates]
    /\ signal \in [Jobs -> {"none", "live", "aborted"}]
    /\ exec \in [Jobs -> {"idle", "done"} \cup ActivePhases]
    /\ heard \in [Jobs -> BOOLEAN]
    /\ resultLog \in [Jobs -> 0..MaxLog]
    /\ made \in SUBSET Jobs
    /\ asked \in SUBSET Jobs
    /\ lost \in SUBSET Jobs
    /\ task \in [UpidJobs -> {"none", "running"} \cup TaskEnds]
    /\ taskLog \in [UpidJobs -> 0..MaxLog]
    /\ command \in [LocalJobs -> {"none", "running", "exited"}]
    /\ call \in [Calls -> CallType]

Init ==
    /\ state = [j \in Jobs |-> "absent"]
    /\ signal = [j \in Jobs |-> "none"]
    /\ exec = [j \in Jobs |-> "idle"]
    /\ heard = [j \in Jobs |-> FALSE]
    /\ resultLog = [j \in Jobs |-> 0]
    /\ made = {}
    /\ asked = {}
    /\ lost = {}
    /\ task = [j \in UpidJobs |-> "none"]
    /\ taskLog = [j \in UpidJobs |-> 0]
    /\ command = [j \in LocalJobs |-> "none"]
    /\ call = [c \in Calls |-> NoCall]

-----------------------------------------------------------------------------
(* JobManager. *)

\* create and the synchronous part of run: no await lies between the record,
\* its "running" state and its abort controller.
Run(j, phase) ==
    /\ state' = [state EXCEPT ![j] = "running"]
    /\ signal' = [signal EXCEPT ![j] = "live"]
    /\ exec' = [exec EXCEPT ![j] = phase]
    /\ made' = made \cup {j}
    /\ UNCHANGED <<heard, resultLog, asked, lost>>

\* Mutants: the finally block is missing; a settled record is evicted.
Settle_KeepsController(j, verdict) ==
    /\ state' = [state EXCEPT ![j] = verdict]
    /\ exec' = [exec EXCEPT ![j] = "done"]
    /\ UNCHANGED signal

Settle_Evicts(j, verdict) ==
    /\ state' = [state EXCEPT ![j] = "absent"]
    /\ signal' = [signal EXCEPT ![j] = "none"]
    /\ exec' = [exec EXCEPT ![j] = "done"]

\* The end of run: the try or the catch block sets the verdict and the
\* finally block deletes the controller in the same turn of the event loop.
Settle(j, verdict) ==
    /\ state' = [state EXCEPT ![j] = verdict]
    /\ signal' = [signal EXCEPT ![j] = "none"]
    /\ exec' = [exec EXCEPT ![j] = "done"]

\* Mutant: the catch block tests that there is a signal, not that it fired.
Thrown_AnySignal(j) == IF signal[j] # "none" THEN "cancelled" ELSE "failed"

\* The verdict of the catch block.
Thrown(j) == IF signal[j] = "aborted" THEN "cancelled" ELSE "failed"

Advance(j, phase) ==
    /\ exec' = [exec EXCEPT ![j] = phase]
    /\ UNCHANGED <<state, signal>>

\* A check of signal.aborted before the next step of an executor.
AdvanceUnlessAborted(j, phase) ==
    \/ signal[j] = "aborted" /\ Settle(j, "cancelled")
    \/ signal[j] # "aborted" /\ Advance(j, phase)

-----------------------------------------------------------------------------
(* Executor of a UPID job: ProxmoxService.waitForUpid. *)

\* Mutants: the loop ends after the first answer; only a task that ended well
\* ends it.
PollStatus_Once(j) ==
    /\ exec[j] = "status"
    /\ Advance(j, "log")
    /\ UNCHANGED <<heard, resultLog, made, asked, lost, proxmox, command, call>>

PollStatus_OnlyOk(j) ==
    /\ exec[j] = "status"
    /\ Advance(j, IF task[j] = "ok" THEN "log" ELSE "sleep")
    /\ UNCHANGED <<heard, resultLog, made, asked, lost, proxmox, command, call>>

\* The status request is answered: a stopped task ends the loop whatever its
\* exit status is.
PollStatus(j) ==
    /\ exec[j] = "status"
    /\ Advance(j, IF task[j] = "running" THEN "sleep" ELSE "log")
    /\ UNCHANGED <<heard, resultLog, made, asked, lost, proxmox, command, call>>

\* The pause is over; the head of the loop looks at the signal.
PollAgain(j) ==
    /\ exec[j] = "sleep"
    /\ AdvanceUnlessAborted(j, "status")
    /\ UNCHANGED <<heard, resultLog, made, asked, lost, proxmox, command, call>>

\* What Proxmox returns of a log of so many lines: both requests for a log name
\* no limit, so only its first lines come.  The 200 lines an answer is cut at
\* (completedJobResult, job_logs by default) are more than that.
Shown(lines) == IF lines <= Page THEN lines ELSE Page

\* The log request is answered and the executor returns {status, log}.
PollLog(j) ==
    /\ exec[j] = "log"
    /\ Settle(j, "completed")
    /\ resultLog' = [resultLog EXCEPT ![j] = Shown(taskLog[j])]
    /\ UNCHANGED <<heard, made, asked, lost, proxmox, command, call>>

\* A request fails, or the progress notification cannot be sent.
PollFails(j) ==
    /\ exec[j] \in {"status", "log"}
    /\ Settle(j, Thrown(j))
    /\ UNCHANGED <<heard, resultLog, made, asked, lost, proxmox, command, call>>

UpidStep(j) == PollStatus(j) \/ PollAgain(j) \/ PollLog(j) \/ PollFails(j)

-----------------------------------------------------------------------------
(* Executor of a process-run job over SSH: proxmoxCliRun, proxmoxShellRun  *)
(* or nodeTerminalRun, then runSshCommand and SshExecutor.exec.            *)

\* The policy refuses, the audit record or a lookup fails, or the credential
\* repair before the one retry is rejected.
SshPrepareFails(j) ==
    /\ exec[j] \in {"prep", "repair"}
    /\ Settle(j, Thrown(j))
    /\ UNCHANGED <<heard, resultLog, made, asked, lost, proxmox, command, call>>

\* Mutant: the retry is made without the signal.
SshConnect_RetryDeaf(j) ==
    /\ exec[j] \in {"prep", "repair"}
    /\ heard' = [heard EXCEPT ![j] = signal[j] = "live" /\ exec[j] = "prep"]
    /\ Advance(j, IF exec[j] = "prep" THEN "conn" ELSE "reconn")
    /\ UNCHANGED <<resultLog, made, asked, lost, proxmox, command, call>>

\* SshExecutor.exec registers its listener and connects.  A listener added to
\* a signal that is aborted already never fires.
SshConnect(j) ==
    /\ exec[j] \in {"prep", "repair"}
    /\ heard' = [heard EXCEPT ![j] = signal[j] = "live"]
    /\ Advance(j, IF exec[j] = "prep" THEN "conn" ELSE "reconn")
    /\ UNCHANGED <<resultLog, made, asked, lost, proxmox, command, call>>

\* "ready": the command is started on the host.
SshReady(j) ==
    /\ exec[j] \in {"conn", "reconn"}
    /\ Advance(j, "cmd")
    /\ command' = [command EXCEPT ![j] = "running"]
    /\ UNCHANGED <<heard, resultLog, made, asked, lost, proxmox, call>>

\* The login is refused on a managed cluster: repair, then one retry.
SshAuthFails(j) ==
    /\ exec[j] = "conn"
    /\ heard' = [heard EXCEPT ![j] = FALSE]
    /\ Advance(j, "repair")
    /\ UNCHANGED <<resultLog, made, asked, lost, proxmox, command, call>>

\* "error" on the connection.
SshFails(j) ==
    /\ exec[j] \in {"conn", "reconn", "cmd"}
    /\ Settle(j, Thrown(j))
    /\ heard' = [heard EXCEPT ![j] = FALSE]
    /\ UNCHANGED <<resultLog, made, asked, lost, proxmox, command, call>>

\* "close" on the stream: finish() resolves, with or without an exit event.
SshCloses(j) ==
    /\ exec[j] = "cmd"
    /\ Settle(j, "completed")
    /\ heard' = [heard EXCEPT ![j] = FALSE]
    /\ UNCHANGED <<resultLog, made, asked, lost, proxmox, command, call>>

SshStep(j) ==
    \/ SshPrepareFails(j) \/ SshConnect(j) \/ SshReady(j)
    \/ SshAuthFails(j) \/ SshFails(j) \/ SshCloses(j)

-----------------------------------------------------------------------------
(* Executor of a process-run job in a guest: runQemuGuestAgentCommand.     *)

AgentPrepare(j) ==
    /\ exec[j] = "prep"
    /\ \/ Advance(j, "post")
       \/ Settle(j, Thrown(j))
    /\ UNCHANGED <<heard, resultLog, made, asked, lost, proxmox, command, call>>

\* The exec request is answered with a pid; the loop's first test of the
\* signal comes after the command was started.
AgentStarted(j) ==
    /\ exec[j] = "post"
    /\ command' = [command EXCEPT ![j] = "running"]
    /\ AdvanceUnlessAborted(j, "poll")
    /\ UNCHANGED <<heard, resultLog, made, asked, lost, proxmox, call>>

AgentPoll(j) ==
    /\ exec[j] = "poll"
    /\ \/ command[j] = "exited" /\ Settle(j, "completed")
       \/ command[j] # "exited" /\ Advance(j, "nap")
    /\ UNCHANGED <<heard, resultLog, made, asked, lost, proxmox, command, call>>

\* Mutant: the head of the loop does not look at the signal.
AgentNap_Blind(j) ==
    /\ exec[j] = "nap"
    /\ Advance(j, "poll")
    /\ UNCHANGED <<heard, resultLog, made, asked, lost, proxmox, command, call>>

\* The one-second pause cannot be aborted; the head of the loop looks again.
AgentNap(j) ==
    /\ exec[j] = "nap"
    /\ AdvanceUnlessAborted(j, "poll")
    /\ UNCHANGED <<heard, resultLog, made, asked, lost, proxmox, command, call>>

\* A request fails; a failed exec request may have started the command.
AgentFails(j) ==
    /\ exec[j] \in {"post", "poll"}
    /\ Settle(j, Thrown(j))
    /\ \/ UNCHANGED command
       \/ exec[j] = "post" /\ command' = [command EXCEPT ![j] = "running"]
    /\ UNCHANGED <<heard, resultLog, made, asked, lost, proxmox, call>>

AgentStep(j) ==
    \/ AgentPrepare(j) \/ AgentStarted(j) \/ AgentPoll(j)
    \/ AgentNap(j) \/ AgentFails(j)

-----------------------------------------------------------------------------
(* Tool calls.  A call in phase "done" holds its answer until it is reused. *)

Available(c) == call[c].pc \in {"free", "done"}

\* completedJobResult of the registry's record.
FromRecord(op, j) ==
    Call("done", op, j, state[j], "record", IF op = "logs" THEN 0 ELSE resultLog[j])

\* A call that waits for something; its state and log are not known yet.
Pending(op, j, phase) == Call(phase, op, j, "absent", "none", 0)

\* jobHandleResult, given while the job runs.
Handle(op, j) == Call("done", op, j, "running", "record", 0)

Failed(op, j, why) == Call("done", op, j, why, "none", 0)

\* Deferred mode answers with the handle at once; the others wait.
settleJob(c, op, j) ==
    \/ op = "tool_deferred" /\ call' = [call EXCEPT ![c] = Handle(op, j)]
    \/ op # "tool_deferred" /\ call' = [call EXCEPT ![c] = Pending(op, j, "wait")]

\* An id without a record: a UPID job is looked up in Proxmox.
Rehydrate(c, op, j) ==
    /\ state[j] = "absent"
    /\ \/ j \in UpidJobs /\ call' = [call EXCEPT ![c] = Pending(op, j, "status")]
       \/ j \notin UpidJobs /\ call' = [call EXCEPT ![c] = Failed(op, j, "unknown")]

\* A typed or generic REST tool is called: its API request is on its way.
CallUpidTool(c, j, op) ==
    /\ Available(c)
    /\ task[j] = "none"
    /\ \A d \in Calls : ~(call[d].pc = "submit" /\ call[d].job = j)
    /\ call' = [call EXCEPT ![c] = Pending(op, j, "submit")]
    /\ UNCHANGED <<server, proxmox, command>>

\* Proxmox starts the task.
TaskStarts(c) ==
    /\ call[c].pc = "submit"
    /\ task[call[c].job] = "none"
    /\ task' = [task EXCEPT ![call[c].job] = "running"]
    /\ UNCHANGED <<server, taskLog, command, call>>

\* The UPID arrives: createUpidJob, run up to the first request, settleJob.
UpidArrives(c) ==
    LET j == call[c].job IN
    /\ call[c].pc = "submit"
    /\ task[j] # "none"
    /\ Run(j, "status")
    /\ settleJob(c, call[c].op, j)
    /\ UNCHANGED <<proxmox, command>>

\* The request is refused or its answer is lost, or the answer names no task:
\* no job is created, and a task that was started goes on unwatched.
SubmitEndsWithoutJob(c) ==
    /\ call[c].pc = "submit"
    /\ call' = [call EXCEPT ![c] = Failed(call[c].op, call[c].job, "nojob")]
    /\ UNCHANGED <<server, proxmox, command>>

\* proxmox_cli_run, proxmox_shell_run, proxmox_node_terminal_run or
\* proxmox_vm_guest_exec: create, run and settleJob.
CallProcessTool(c, j, op) ==
    /\ Available(c)
    /\ j \notin made
    /\ Run(j, "prep")
    /\ settleJob(c, op, j)
    /\ UNCHANGED <<proxmox, command>>

\* job_get, job_logs: the record when there is one, else the task, else an error.
CallRead(c, j, op) ==
    /\ Available(c)
    /\ \/ state[j] # "absent" /\ call' = [call EXCEPT ![c] = FromRecord(op, j)]
       \/ Rehydrate(c, op, j)
    /\ UNCHANGED <<server, proxmox, command>>

\* job_wait.
CallWait(c, j, op) ==
    /\ Available(c)
    /\ \/ state[j] # "absent" /\ call' = [call EXCEPT ![c] = Pending(op, j, "wait")]
       \/ Rehydrate(c, op, j)
    /\ UNCHANGED <<server, proxmox, command>>

\* JobManager.wait resolves with the settled record ...
WaitSettles(c) ==
    /\ call[c].pc = "wait"
    /\ state[call[c].job] \in Verdicts
    /\ call' = [call EXCEPT ![c] = FromRecord(call[c].op, call[c].job)]
    /\ UNCHANGED <<server, proxmox, command>>

\* Mutant: settleJob has no threshold in auto mode.
WaitTimesOut_NotAuto(c) ==
    /\ call[c].pc = "wait"
    /\ call[c].op \in {"wait_timed", "cancel"}
    /\ call' = [call EXCEPT ![c] = FromRecord(call[c].op, call[c].job)]
    /\ UNCHANGED <<server, proxmox, command>>

\* ... or its timer fires first: job_wait's timeoutMs, the 100 ms of cancel,
\* the one second of settleJob in auto mode.
WaitTimesOut(c) ==
    /\ call[c].pc = "wait"
    /\ call[c].op \in {"wait_timed", "cancel", "tool_auto"}
    /\ call' = [call EXCEPT ![c] = FromRecord(call[c].op, call[c].job)]
    /\ UNCHANGED <<server, proxmox, command>>

\* Firing the controller: a registered SSH listener rejects the command in the
\* same turn; every other executor only finds out when it looks.
Abort(j) ==
    IF signal[j] = "none"
    THEN UNCHANGED <<state, signal, exec, heard, asked>>
    ELSE /\ asked' = asked \cup {j}
         /\ IF heard[j]
            THEN Settle(j, "cancelled") /\ heard' = [heard EXCEPT ![j] = FALSE]
            ELSE /\ signal' = [signal EXCEPT ![j] = "aborted"]
                 /\ UNCHANGED <<state, exec, heard>>

\* job_cancel of a process-run job: JobManager.cancel.
CallCancelLocal(c, j) ==
    /\ Available(c)
    /\ Abort(j)
    /\ \/ state[j] # "absent" /\ call' = [call EXCEPT ![c] = Pending("cancel", j, "wait")]
       \/ state[j] = "absent" /\ call' = [call EXCEPT ![c] = Failed("cancel", j, "unknown")]
    /\ UNCHANGED <<resultLog, made, lost, proxmox, command>>

\* job_cancel of a UPID job: the task is to be stopped, the record is left alone.
CallCancelUpid(c, j) ==
    /\ Available(c)
    /\ call' = [call EXCEPT ![c] = Pending("cancel", j, "delete")]
    /\ UNCHANGED <<server, proxmox, command>>

\* cancelUpid is answered or fails; its errors are swallowed.
CancelUpidAnswered(c) ==
    LET j == call[c].job IN
    /\ call[c].pc = "delete"
    /\ \/ UNCHANGED task
       \/ task[j] = "running" /\ task' = [task EXCEPT ![j] = "aborted"]
    /\ call' = [call EXCEPT ![c] = Pending("cancel", j, "status")]
    /\ UNCHANGED <<server, taskLog, command>>

-----------------------------------------------------------------------------
(* readUpidJobSnapshot and waitForUpidJobSnapshot. *)

\* Mutant: the task's own word is passed on unclassified.
classifyUpidState_Raw(t) == t

classifyUpidState(t) ==
    CASE t = "ok"      -> "completed"
      [] t = "aborted" -> "cancelled"
      [] t = "error"   -> "failed"
      [] OTHER         -> "running"

SnapshotStatus(c) ==
    /\ call[c].pc = "status"
    /\ call' = [call EXCEPT ![c] =
           Call("log", call[c].op, call[c].job,
                classifyUpidState(task[call[c].job]), "none", 0)]
    /\ UNCHANGED <<server, proxmox, command>>

\* The snapshot a call is answered with.
Snapshot(c) ==
    Call("done", call[c].op, call[c].job, call[c].state, "proxmox",
         Shown(taskLog[call[c].job]))

\* The log arrives after the status; job_wait goes round while the task runs.
SnapshotLog(c) ==
    /\ call[c].pc = "log"
    /\ IF call[c].op \in WaitOps /\ call[c].state = "running"
       THEN call' = [call EXCEPT ![c] = Pending(call[c].op, call[c].job, "sleep")]
       ELSE call' = [call EXCEPT ![c] = Snapshot(c)]
    /\ UNCHANGED <<server, proxmox, command>>

\* The round of a timed job_wait that finds timeoutMs gone by.
SnapshotExpires(c) ==
    /\ call[c].pc = "log"
    /\ call[c].op = "wait_timed"
    /\ call[c].state = "running"
    /\ call' = [call EXCEPT ![c] = Snapshot(c)]
    /\ UNCHANGED <<server, proxmox, command>>

SnapshotAgain(c) ==
    /\ call[c].pc = "sleep"
    /\ call' = [call EXCEPT ![c] = Pending(call[c].op, call[c].job, "status")]
    /\ UNCHANGED <<server, proxmox, command>>

\* A read fails, or the client gives the waiting call up.
SnapshotFails(c) ==
    /\ call[c].pc \in {"status", "log", "sleep"}
    /\ call' = [call EXCEPT ![c] = Failed(call[c].op, call[c].job, "error")]
    /\ UNCHANGED <<server, proxmox, command>>

CallStep(c) ==
    \/ UpidArrives(c) \/ SubmitEndsWithoutJob(c)
    \/ WaitSettles(c) \/ WaitTimesOut(c) \/ CancelUpidAnswered(c)
    \/ SnapshotStatus(c) \/ SnapshotLog(c) \/ SnapshotExpires(c)
    \/ SnapshotAgain(c) \/ SnapshotFails(c)

-----------------------------------------------------------------------------
(* Proxmox, the remote hosts, and the server process. *)

TaskLogs(j) ==
    /\ task[j] = "running"
    /\ taskLog[j] < MaxLog
    /\ taskLog' = [taskLog EXCEPT ![j] = @ + 1]
    /\ UNCHANGED <<server, task, command, call>>

TaskStops(j) ==
    /\ task[j] = "running"
    /\ \E end \in TaskEnds : task' = [task EXCEPT ![j] = end]
    /\ UNCHANGED <<server, taskLog, command, call>>

CommandExits(j) ==
    /\ command[j] = "running"
    /\ command' = [command EXCEPT ![j] = "exited"]
    /\ UNCHANGED <<server, proxmox, call>>

\* The process ends and another one starts: every record, executor and pending
\* call is gone; tasks, commands and what clients were told are not.
Restart ==
    /\ state' = [j \in Jobs |-> "absent"]
    /\ signal' = [j \in Jobs |-> "none"]
    /\ exec' = [j \in Jobs |-> "idle"]
    /\ heard' = [j \in Jobs |-> FALSE]
    /\ resultLog' = [j \in Jobs |-> 0]
    /\ asked' = {}
    /\ lost' = lost \cup {j \in Jobs : state[j] # "absent"}
    /\ call' = [c \in Calls |-> IF call[c].pc = "done" THEN call[c] ELSE NoCall]
    /\ UNCHANGED <<made, proxmox, command>>

ToolCall(c) ==
    \/ \E op \in ToolOps :
          \/ \E j \in UpidJobs : CallUpidTool(c, j, op)
          \/ \E j \in LocalJobs : CallProcessTool(c, j, op)
    \/ \E j \in made :
          \/ \E op \in {"get", "logs"} : CallRead(c, j, op)
          \/ \E op \in WaitOps : CallWait(c, j, op)
          \/ j \in LocalJobs /\ CallCancelLocal(c, j)
          \/ j \in UpidJobs /\ CallCancelUpid(c, j)

Next ==
    \/ \E j \in UpidJobs : UpidStep(j) \/ TaskLogs(j) \/ TaskStops(j)
    \/ \E j \in SshJobs : SshStep(j)
    \/ \E j \in AgentJobs : AgentStep(j)
    \/ \E j \in LocalJobs : CommandExits(j)
    \/ \E c \in Calls : ToolCall(c) \/ TaskStarts(c) \/ CallStep(c)
    \/ Restart

Spec == Init /\ [][Next]_vars

\* Requests are answered or time out and timers fire, so executors that wait
\* for those and calls go on.  A round of a timed job_wait takes a second at
\* least, so one of them finds its time gone by.  Nothing bounds a task, a
\* command or an SSH session, and clients and the operator are free.  On a
\* managed cluster a request may also wait for a credential run, which is an
\* SSH session: there this holds as long as no such run hangs
\* (ManagedAuth!RequestsEnd).
Fairness ==
    /\ \A j \in UpidJobs : WF_vars(UpidStep(j))
    /\ \A j \in AgentJobs : WF_vars(AgentStep(j))
    /\ \A c \in Calls : WF_vars(CallStep(c)) /\ SF_vars(SnapshotExpires(c))

FairSpec == Spec /\ Fairness

-----------------------------------------------------------------------------
(* Properties. *)

\* A cancellation is heard at once whenever a session is being made or used, also
\* by the retry after a credential repair: an SSH job runs on with a fired signal
\* only if it was cancelled while no session existed (ssh.ts:66 adds its listener
\* without looking at the signal).
CancelHeard ==
    \A j \in SshJobs :
        exec[j] \in {"conn", "reconn", "cmd"} => (heard[j] <=> signal[j] = "live")

\* The three maps of JobManager agree with the executor: a record is
\* "running", and its abort controller is registered, exactly while the
\* executor given to run has not ended (jobs.ts run).
RegistryConsistent ==
    \A j \in Jobs :
        /\ state[j] = "running" <=> signal[j] # "none"
        /\ state[j] = "running" <=> exec[j] \in ActivePhases

\* A verdict a client was given stays true.  One taken from the record is the
\* record's verdict as long as the server lives; one read back from Proxmox
\* by readUpidJobSnapshot is the task's own, also across restarts.  Either
\* way the log it came with is that of the finished task, because both
\* waitForUpid and readUpidJobSnapshot read the status before the log: as much
\* of it as Proxmox shows by default, which for a log of more than Page lines
\* is its beginning, and nothing in the answer says so.
AnswersHold ==
    \A c \in Calls :
        LET j == call[c].job IN
        call[c].pc = "done" /\ call[c].state \in Verdicts =>
            \/ /\ call[c].via = "record"
               /\ state[j] \in {"absent", call[c].state}
               /\ (j \in UpidJobs /\ call[c].state = "completed" /\ call[c].op # "logs")
                      => call[c].log = Shown(taskLog[j]) /\ task[j] \in TaskEnds
            \/ /\ call[c].via = "proxmox"
               /\ call[c].state = classifyUpidState(task[j])
               /\ call[c].log = Shown(taskLog[j])

\* "Unknown job" is only ever the answer for a process-run job whose record a
\* restart has lost: an id the server handed out stays usable while the
\* server lives, and a UPID job's id for ever (job_get, job_wait, job_cancel).
UnknownMeansLost ==
    \A c \in Calls :
        call[c].pc = "done" /\ call[c].state = "unknown" =>
            call[c].job \in LocalJobs \cap lost

\* The registry keeps the promises of JobContract: ids are handed out once,
\* a verdict never changes, and "cancelled" is the verdict only of a
\* process-run job that job_cancel was called for while it ran.
Contract == INSTANCE JobContract WITH Cancellable <- LocalJobs
ContractKept == Contract!Spec

-----------------------------------------------------------------------------
(* The parts of the inductive invariant behind those properties. *)

\* A call that talks to Proxmox is about a UPID job, any other about some job.
CallsTyped ==
    \A c \in Calls :
        /\ call[c].pc \in {"submit", "delete", "status", "log", "sleep"}
              => call[c].job \in UpidJobs
        /\ call[c].pc \in {"wait", "done"} => call[c].job \in Jobs

\* Only job_cancel of a process-run job fires an abort controller.
AbortsAsked ==
    \A j \in Jobs : signal[j] = "aborted" => j \in asked /\ j \in LocalJobs

\* A record is kept for every id handed out until a restart loses it.
RecordsKept ==
    \A j \in Jobs :
        /\ state[j] # "absent" => j \in made
        /\ j \in made /\ state[j] = "absent" => j \in lost

\* A UPID names a task that was started and has at most one request to start
\* it, which has not been answered.
TasksStartedOnce ==
    /\ \A j \in UpidJobs : j \in made => task[j] # "none"
    /\ \A c \in Calls : call[c].pc = "submit" =>
          /\ call[c].job \notin made
          /\ \A d \in Calls : call[d].pc = "submit" /\ call[d].job = call[c].job => c = d

\* What the watch, and a snapshot in progress, know of the task is final.
WatchKnowsTask ==
    /\ \A j \in UpidJobs :
          /\ exec[j] = "log" => task[j] \in TaskEnds
          /\ state[j] = "completed" => task[j] \in TaskEnds /\ resultLog[j] = Shown(taskLog[j])
    /\ \A c \in Calls :
          call[c].pc = "log" /\ call[c].state \in Verdicts
              => call[c].state = classifyUpidState(task[call[c].job])

\* A call about a job's progress, and a verdict, are about an id handed out.
CallsAboutMadeJobs ==
    \A c \in Calls :
        \/ call[c].pc \in {"wait", "delete", "status", "log", "sleep"}
        \/ call[c].pc = "done" /\ call[c].state \in Verdicts
        => call[c].job \in made

-----------------------------------------------------------------------------
(* Liveness. *)

\* The watch of a UPID job ends once its task has stopped (waitForUpid).
WatchSettles ==
    \A j \in UpidJobs :
        (task[j] \in TaskEnds /\ state[j] = "running") ~> (state[j] # "running")

\* An aborted guest-agent job ends even if its command never does
\* (runQemuGuestAgentCommand looks at the signal in every round).
AgentCancelSettles ==
    \A j \in AgentJobs : (signal[j] = "aborted") ~> (signal[j] # "aborted")

\* Every call that does not ask to wait for a running job is answered, unless
\* the server goes down: job_get, job_logs, job_cancel, a timed job_wait, and
\* a tool in auto or deferred mode (settleJob).
CallsAnswered ==
    \A c \in Calls :
        (call[c].op \in {"get", "logs", "cancel", "wait_timed", "tool_auto", "tool_deferred"})
            ~> (call[c].pc \in {"free", "done"})
=============================================================================
