-------------------------- MODULE ServerJobsAnswers --------------------------
(***************************************************************************)
(* Proofs about what clients are told of a job, for any number of jobs,    *)
(* calls and log lines: an answer stays true, "unknown" means a record a   *)
(* restart has lost, and the registry implements JobContract.  They rest   *)
(* on the registry's invariants (ServerJobsProofs) and on two facts about  *)
(* ids and tasks: a task is started by one request at most, and what is    *)
(* known of a stopped task is final.                                       *)
(***************************************************************************)
EXTENDS ServerJobsProofs

\* What the watch of a UPID job knows of its task (the first half of
\* WatchKnowsTask).
RecordKnowsTask ==
    \A j \in UpidJobs :
        /\ exec[j] = "log" => task[j] \in TaskEnds
        /\ state[j] = "completed" => task[j] \in TaskEnds /\ resultLog[j] = Shown(taskLog[j])

\* What one call, in progress or answered, may say.
GoodCall(r) ==
    /\ r.pc \in {"wait", "delete", "status", "log", "sleep"} => r.job \in made
    /\ r.pc = "log" => r.state # "unknown"
    /\ r.pc = "log" /\ r.state \in Verdicts => r.state = classifyUpidState(task[r.job])
    /\ r.pc = "done" /\ r.state = "unknown" => r.job \in LocalJobs \cap lost
    /\ r.pc = "done" /\ r.state \in Verdicts =>
          /\ r.job \in made
          /\ \/ /\ r.via = "record"
                /\ state[r.job] \in {"absent", r.state}
                /\ (r.job \in UpidJobs /\ r.state = "completed" /\ r.op # "logs")
                      => r.log = Shown(taskLog[r.job]) /\ task[r.job] \in TaskEnds
             \/ /\ r.via = "proxmox"
                /\ r.job \in UpidJobs
                /\ r.state = classifyUpidState(task[r.job])
                /\ r.log = Shown(taskLog[r.job])

IdsInv == ServerInv /\ TasksStartedOnce /\ RecordKnowsTask

AnswersInv == IdsInv /\ \A c \in Calls : GoodCall(call[c])

-----------------------------------------------------------------------------
(* Calls change one at a time. *)

\* A step of call c leaves the other calls alone.
LEMMA CallFrame ==
    ASSUME NEW c \in Calls, TypeInv, ToolCall(c) \/ CallStep(c)
    PROVE  \A d \in Calls \ {c} : call'[d] = call[d]
BY ToolCallTyped, CallStepTyped DEF CallBecomes, TypeInv, TypeOK

\* A request to start a task is made by one action only.
LEMMA NoSubmit ==
    ASSUME NEW c \in Calls, TypeInv, ToolCall(c) \/ CallStep(c)
    PROVE  \/ call'[c].pc # "submit"
           \/ \E op \in ToolOps, j \in UpidJobs : CallUpidTool(c, j, op)
<1> USE DEF TypeInv, TypeOK, Pending, Handle, Failed, FromRecord, Call
<1>1. CASE CallStep(c)
  BY <1>1 DEF CallStep, UpidArrives, settleJob, SubmitEndsWithoutJob, WaitSettles,
     WaitTimesOut,
     CancelUpidAnswered, SnapshotStatus, SnapshotLog, SnapshotExpires, Snapshot,
     SnapshotAgain, SnapshotFails
<1>2. ASSUME NEW op \in ToolOps, NEW j \in LocalJobs, CallProcessTool(c, j, op)
      PROVE  call'[c].pc # "submit"
  BY <1>2 DEF CallProcessTool, settleJob
<1>3. ASSUME NEW j, NEW op, CallRead(c, j, op) \/ CallWait(c, j, op)
      PROVE  call'[c].pc # "submit"
  BY <1>3 DEF CallRead, CallWait, Rehydrate
<1>4. ASSUME NEW j, CallCancelLocal(c, j) \/ CallCancelUpid(c, j)
      PROVE  call'[c].pc # "submit"
  BY <1>4 DEF CallCancelLocal, CallCancelUpid
<1> HIDE DEF TypeInv, TypeOK, Pending, Handle, Failed, FromRecord, Call
<1> QED
  BY <1>1, <1>2, <1>3, <1>4 DEF ToolCall

-----------------------------------------------------------------------------
(* Tasks. *)

\* A started task stays started, and a stopped one changes no more.
TasksFinal ==
    \A j \in UpidJobs :
        /\ task[j] # "none" => task'[j] # "none"
        /\ task[j] \in TaskEnds => task'[j] = task[j] /\ taskLog'[j] = taskLog[j]

\* No step of the server, of Proxmox or of a host undoes the end of a task.
LEMMA TaskStep ==
    ASSUME TypeInv, [Next]_vars
    PROVE  TasksFinal
<1> USE DEF TasksFinal, TypeInv, TypeOK, TaskEnds, proxmox
<1>1. ASSUME NEW j \in UpidJobs, UpidStep(j) PROVE TasksFinal
  BY <1>1 DEF UpidStep, PollStatus, PollAgain, PollLog, PollFails
<1>2. ASSUME NEW j \in SshJobs, SshStep(j) PROVE TasksFinal
  BY <1>2 DEF SshStep, SshPrepareFails, SshConnect, SshReady, SshAuthFails, SshFails,
     SshCloses
<1>3. ASSUME NEW j \in AgentJobs, AgentStep(j) PROVE TasksFinal
  BY <1>3 DEF AgentStep, AgentPrepare, AgentStarted, AgentPoll, AgentNap, AgentFails
<1>4. ASSUME NEW j \in UpidJobs, TaskLogs(j) \/ TaskStops(j) PROVE TasksFinal
  BY <1>4 DEF TaskLogs, TaskStops
<1>5. ASSUME NEW c \in Calls, TaskStarts(c) PROVE TasksFinal
  BY <1>5 DEF TaskStarts
<1>6. ASSUME NEW c \in Calls, ToolCall(c) PROVE TasksFinal
  BY <1>6, ToolCallEffect DEF CallEffect
<1>7. ASSUME NEW c \in Calls, CallStep(c) PROVE TasksFinal
  BY <1>7 DEF CallStep, UpidArrives, SubmitEndsWithoutJob, WaitSettles, WaitTimesOut,
     CancelUpidAnswered,
     SnapshotStatus, SnapshotLog, SnapshotExpires, SnapshotAgain, SnapshotFails
<1>8. CASE UNCHANGED proxmox
  BY <1>8
<1> HIDE DEF TasksFinal
<1> QED
  BY <1>1, <1>2, <1>3, <1>4, <1>5, <1>6, <1>7, <1>8 DEF Next, CommandExits, Restart, vars

-----------------------------------------------------------------------------
(* A UPID is handed out once. *)

\* Every step keeps it true that one request at most can start a task.
LEMMA TasksStartedStep ==
    ASSUME ServerInv, TasksStartedOnce, [Next]_vars
    PROVE  TasksStartedOnce'
<1>0. TypeInv /\ TypeInv' /\ TasksFinal
  BY TypeStep, TaskStep DEF ServerInv
<1>1. CASE UNCHANGED <<made, call>>
  BY <1>0, <1>1 DEF TasksStartedOnce, TasksFinal
<1>2. ASSUME NEW c \in Calls, ToolCall(c) \/ CallStep(c), call'[c].pc # "submit"
      PROVE  TasksStartedOnce'
  <2>1. \A d \in Calls \ {c} : call'[d] = call[d]
    BY <1>0, <1>2, CallFrame
  <2>2. CallEffect(c)
    BY <1>0, <1>2, ToolCallEffect, CallStepEffect
  <2>3. CASE made' = made
    BY <1>0, <1>2, <2>1, <2>3 DEF TasksStartedOnce, TasksFinal
  <2>4. ASSUME NEW j \in LocalJobs, made' = made \cup {j}
        PROVE  TasksStartedOnce'
    <3>1. \A d \in Calls : call[d].pc = "submit" => call[d].job # j
      BY <1>0, JobKindsDisjoint DEF TypeInv, CallsTyped
    <3> QED
      BY <1>0, <1>2, <2>1, <2>4, <3>1, JobKindsDisjoint DEF TasksStartedOnce, TasksFinal
  <2>5. CASE call[c].pc = "submit" /\ task[call[c].job] # "none" /\ made' = made \cup {call[c].job}
    BY <1>0, <1>2, <2>1, <2>5 DEF TasksStartedOnce, TasksFinal
  <2> QED
    BY <2>2, <2>3, <2>4, <2>5 DEF CallEffect, Run
<1>3. ASSUME NEW c \in Calls, NEW j \in UpidJobs, NEW op \in ToolOps, CallUpidTool(c, j, op)
      PROVE  TasksStartedOnce'
  <2>1. call' = [call EXCEPT ![c] = Pending(op, j, "submit")] /\ made' = made /\ j \notin made
    BY <1>3 DEF CallUpidTool, server, TasksStartedOnce
  <2>2. Pending(op, j, "submit").job = j
    BY DEF Pending, Call
  <2>3. \A d \in Calls : call[d].pc = "submit" => call[d].job # j
    BY <1>3 DEF CallUpidTool
  <2> QED
    BY <1>0, <2>1, <2>2, <2>3 DEF TasksStartedOnce, TasksFinal, TypeInv, TypeOK
<1>4. CASE Restart
  BY <1>0, <1>4 DEF Restart, TasksStartedOnce, TasksFinal, NoCall, Call
<1>5. ASSUME NEW c \in Calls, ToolCall(c) \/ CallStep(c)
      PROVE  TasksStartedOnce'
  BY <1>0, <1>2, <1>3, <1>5, NoSubmit
<1>6. ASSUME NEW j \in Jobs, ExecutorEffect(j) PROVE TasksStartedOnce'
  BY <1>1, <1>6 DEF ExecutorEffect
<1> QED
  BY <1>0, <1>1, <1>4, <1>5, <1>6, UpidEffect, SshEffect, AgentEffect
     DEF Next, TaskLogs, TaskStops, CommandExits, TaskStarts, server, vars, Jobs, LocalJobs

-----------------------------------------------------------------------------
(* What a record says of its task. *)

\* Every step keeps what the watch of a UPID job knows of its task true.
LEMMA RecordKnowsStep ==
    ASSUME IdsInv, [Next]_vars
    PROVE  RecordKnowsTask'
<1>0. TypeInv /\ TypeInv' /\ TasksFinal /\ RecordKnowsTask /\ RegistryConsistent
  BY TypeStep, TaskStep DEF IdsInv, ServerInv
<1>1. CASE UNCHANGED <<state, exec, resultLog>>
  BY <1>0, <1>1 DEF RecordKnowsTask, TasksFinal
<1>2. ASSUME NEW j \in UpidJobs, UpidStep(j) PROVE RecordKnowsTask'
  <2>1. exec[j] \in ActivePhases => task[j] # "none"
    BY <1>0 DEF IdsInv, ServerInv, RegistryConsistent, RecordsKept, TasksStartedOnce, Jobs
  <2> USE <1>0 DEF RecordKnowsTask, TasksFinal, TypeInv, TypeOK, Jobs
  <2>2. CASE PollStatus(j)
    BY <2>1, <2>2 DEF PollStatus, Advance, ActivePhases, UpidPhases
  <2>3. CASE PollAgain(j)
    BY <2>3 DEF PollAgain, AdvanceUnlessAborted, Settle, Advance
  <2>4. CASE PollLog(j)
    BY <2>4 DEF PollLog, Settle
  <2>5. CASE PollFails(j)
    BY <2>5 DEF PollFails, Settle, Thrown
  <2> QED
    BY <1>2, <2>2, <2>3, <2>4, <2>5 DEF UpidStep
<1>3. ASSUME NEW j \in LocalJobs, ExecutorEffect(j), UNCHANGED resultLog
      PROVE  RecordKnowsTask'
  BY <1>0, <1>3, JobKindsDisjoint
     DEF ExecutorEffect, GoesOn, Ends, Settle, RecordKnowsTask, TasksFinal, TypeInv, TypeOK, Jobs
<1>4. ASSUME NEW j \in SshJobs, SshStep(j) PROVE RecordKnowsTask'
  <2>1. UNCHANGED resultLog
    BY <1>4 DEF SshStep, SshPrepareFails, SshConnect, SshReady, SshAuthFails, SshFails,
       SshCloses
  <2> QED
    BY <1>0, <1>3, <1>4, <2>1, SshEffect DEF LocalJobs
<1>5. ASSUME NEW j \in AgentJobs, AgentStep(j) PROVE RecordKnowsTask'
  <2>1. UNCHANGED resultLog
    BY <1>5 DEF AgentStep, AgentPrepare, AgentStarted, AgentPoll, AgentNap, AgentFails
  <2> QED
    BY <1>0, <1>3, <1>5, <2>1, AgentEffect DEF LocalJobs
<1>6. ASSUME NEW c \in Calls, CallEffect(c) PROVE RecordKnowsTask'
  <2> USE <1>0 DEF RecordKnowsTask, TasksFinal, TypeInv, TypeOK, Jobs
  <2>1. ASSUME NEW j \in LocalJobs, Abort(j), UNCHANGED resultLog PROVE RecordKnowsTask'
    BY <2>1, JobKindsDisjoint DEF Abort, Settle
  <2>2. ASSUME NEW j, NEW phase \in {"prep", "status"}, Run(j, phase) PROVE RecordKnowsTask'
    BY <2>2 DEF Run
  <2> QED
    BY <1>1, <1>6, <2>1, <2>2 DEF CallEffect
<1>7. CASE Restart
  BY <1>0, <1>7 DEF Restart, RecordKnowsTask, TasksFinal, Jobs
<1> QED
  BY <1>0, <1>1, <1>2, <1>4, <1>5, <1>6, <1>7, ToolCallEffect, CallStepEffect
     DEF Next, TaskLogs, TaskStops, CommandExits, TaskStarts, server, vars

\* Ids, tasks and records agree when the server starts.
LEMMA IdsInit == Init => IdsInv
BY ServerInit DEF Init, IdsInv, TasksStartedOnce, RecordKnowsTask, NoCall, Call, Jobs

\* They agree in every reachable state.
LEMMA IdsAlways == Spec => []IdsInv
<1>1. IdsInv /\ [Next]_vars => IdsInv'
  BY ServerStep, TasksStartedStep, RecordKnowsStep DEF IdsInv
<1> QED
  BY <1>1, IdsInit, PTL DEF Spec

-----------------------------------------------------------------------------
(* Answers. *)

\* Ids and losses only grow, and a settled or lost record does not come back.
RecordsFinal ==
    /\ made \subseteq made'
    /\ lost \subseteq lost'
    /\ \A j \in made : state[j] # "running" => state'[j] \in {"absent", state[j]}

\* No step gives an id a second run or a second verdict.
LEMMA RecordStep ==
    ASSUME IdsInv, [Next]_vars
    PROVE  RecordsFinal
<1>0. TypeInv /\ RegistryConsistent /\ made \subseteq Jobs
  BY DEF IdsInv, ServerInv, TypeInv, TypeOK
<1>1. CASE UNCHANGED <<state, made, lost>>
  BY <1>1 DEF RecordsFinal
<1>2. ASSUME NEW j \in Jobs, ExecutorEffect(j) PROVE RecordsFinal
  <2>1. state[j] = "running"
    BY <1>0, <1>2 DEF ExecutorEffect, RegistryConsistent
  <2> QED
    BY <1>0, <1>2, <2>1 DEF ExecutorEffect, GoesOn, Ends, Settle, RecordsFinal, TypeInv,
       TypeOK
<1>3. ASSUME NEW c \in Calls, CallEffect(c) PROVE RecordsFinal
  <2>1. ASSUME NEW j \in LocalJobs, Abort(j), UNCHANGED <<made, lost>> PROVE RecordsFinal
    BY <1>0, <2>1 DEF Abort, Settle, RecordsFinal, RegistryConsistent, TypeInv, TypeOK, Jobs
  <2>2. ASSUME NEW j \in Jobs, NEW phase, j \notin made, Run(j, phase) PROVE RecordsFinal
    BY <1>0, <2>2 DEF Run, RecordsFinal, TypeInv, TypeOK
  <2>3. call[c].pc = "submit" => call[c].job \in Jobs /\ call[c].job \notin made
    BY <1>0 DEF IdsInv, TasksStartedOnce, TypeInv, CallsTyped, Jobs
  <2> QED
    BY <1>1, <1>3, <2>1, <2>2, <2>3 DEF CallEffect, Jobs
<1>4. CASE Restart
  BY <1>0, <1>4 DEF Restart, RecordsFinal
<1> QED
  BY <1>0, <1>1, <1>2, <1>3, <1>4, UpidEffect, SshEffect, AgentEffect, ToolCallEffect,
     CallStepEffect
     DEF Next, TaskLogs, TaskStops, CommandExits, TaskStarts, server, vars, Jobs, LocalJobs

\* What a call may say now it may still say after the step.
LEMMA GoodCallStable ==
    ASSUME IdsInv, [Next]_vars, NEW r \in CallType,
           r.pc \in {"log", "delete", "status", "sleep"} => r.job \in UpidJobs,
           GoodCall(r)
    PROVE  GoodCall(r)'
<1>1. TasksFinal /\ RecordsFinal
  BY TaskStep, RecordStep DEF IdsInv, ServerInv
<1>2. \A t : classifyUpidState(t) \in Verdicts => t \in TaskEnds
  BY DEF classifyUpidState, Verdicts, TaskEnds
<1> QED
  BY <1>1, <1>2 DEF GoodCall, TasksFinal, RecordsFinal, Verdicts

\* A call that reads a record says what the record says.
LEMMA FromRecordGood ==
    ASSUME IdsInv, NEW op \in Ops, NEW j \in made
    PROVE  GoodCall(FromRecord(op, j))
BY DEF IdsInv, ServerInv, TypeInv, TypeOK, RecordKnowsTask, GoodCall, FromRecord, Call,
   JobStates, Verdicts

\* What a new tool call says is good.
LEMMA ToolCallGood ==
    ASSUME IdsInv, NEW c \in Calls, ToolCall(c)
    PROVE  GoodCall(call[c])'
<1> USE DEF GoodCall, Verdicts
<1>0. call \in [Calls -> CallType] /\ made \subseteq Jobs
  BY DEF IdsInv, ServerInv, TypeInv, TypeOK
<1>1. ASSUME NEW op \in ToolOps, NEW j \in UpidJobs, CallUpidTool(c, j, op)
      PROVE  GoodCall(call[c])'
  BY <1>0, <1>1 DEF CallUpidTool, Pending, Call
<1>2. ASSUME NEW op \in ToolOps, NEW j \in LocalJobs, CallProcessTool(c, j, op)
      PROVE  GoodCall(call[c])'
  BY <1>0, <1>2 DEF CallProcessTool, Run, settleJob, Pending, Handle, Call
<1>3. ASSUME NEW j \in made, state[j] = "absent", j \notin UpidJobs
      PROVE  j \in LocalJobs \cap lost
  BY <1>0, <1>3 DEF IdsInv, ServerInv, RecordsKept, Jobs
<1>4. ASSUME NEW j \in made, NEW op \in {"get", "logs"}, CallRead(c, j, op)
      PROVE  GoodCall(call[c])'
  <2>1. CASE call' = [call EXCEPT ![c] = FromRecord(op, j)]
    <3>1. GoodCall(FromRecord(op, j))
      BY FromRecordGood DEF Ops
    <3> QED
      BY <1>0, <1>4, <2>1, <3>1 DEF CallRead, server, proxmox
  <2>2. CASE Rehydrate(c, op, j)
    BY <1>0, <1>3, <1>4, <2>2 DEF CallRead, Rehydrate, Pending, Failed, Call, server
  <2> QED
    BY <1>4, <2>1, <2>2 DEF CallRead
<1>5. ASSUME NEW j \in made, NEW op \in WaitOps, CallWait(c, j, op)
      PROVE  GoodCall(call[c])'
  BY <1>0, <1>3, <1>5 DEF CallWait, Rehydrate, Pending, Failed, Call, server
<1>6. ASSUME NEW j \in made, j \in LocalJobs, CallCancelLocal(c, j)
      PROVE  GoodCall(call[c])'
  BY <1>0, <1>3, <1>6, JobKindsDisjoint DEF CallCancelLocal, Pending, Failed, Call
<1>7. ASSUME NEW j \in made, j \in UpidJobs, CallCancelUpid(c, j)
      PROVE  GoodCall(call[c])'
  BY <1>0, <1>7 DEF CallCancelUpid, Pending, Call, server
<1> HIDE DEF GoodCall
<1> QED
  BY <1>1, <1>2, <1>4, <1>5, <1>6, <1>7 DEF ToolCall

\* What a call says after a later step of its own is good.
LEMMA CallStepGood ==
    ASSUME IdsInv, NEW c \in Calls, GoodCall(call[c]), CallStep(c)
    PROVE  GoodCall(call[c])'
<1> DEFINE j == call[c].job
           op == call[c].op
<1> USE DEF GoodCall, Verdicts
<1>0. call \in [Calls -> CallType] /\ op \in Ops
  BY DEF IdsInv, ServerInv, TypeInv, TypeOK, CallType
<1>1. CASE UpidArrives(c)
  BY <1>0, <1>1 DEF UpidArrives, Run, settleJob, Pending, Handle, Call
<1>2. CASE SubmitEndsWithoutJob(c)
  BY <1>0, <1>2 DEF SubmitEndsWithoutJob, Failed, Call
<1>3. CASE WaitSettles(c) \/ WaitTimesOut(c)
  <2>1. j \in made
    BY <1>3 DEF WaitSettles, WaitTimesOut
  <2>2. GoodCall(FromRecord(op, j))
    BY <1>0, <2>1, FromRecordGood
  <2> QED
    BY <1>0, <1>3, <2>2 DEF WaitSettles, WaitTimesOut, server, proxmox
<1>4. CASE CancelUpidAnswered(c)
  BY <1>0, <1>4 DEF CancelUpidAnswered, Pending, Call, server
<1>5. CASE SnapshotStatus(c)
  <2>1. classifyUpidState(task[j]) # "unknown"
    BY DEF classifyUpidState
  <2> QED
    BY <1>0, <1>5, <2>1 DEF SnapshotStatus, Call, server, proxmox
<1>6. CASE SnapshotLog(c) \/ SnapshotExpires(c)
  <2>1. j \in UpidJobs
    BY <1>6 DEF SnapshotLog, SnapshotExpires, IdsInv, ServerInv, TypeInv, CallsTyped
  <2> QED
    BY <1>0, <1>6, <2>1
       DEF SnapshotLog, SnapshotExpires, Snapshot, Pending, Call, server, proxmox
<1>7. CASE SnapshotAgain(c) \/ SnapshotFails(c)
  BY <1>0, <1>7 DEF SnapshotAgain, SnapshotFails, Pending, Failed, Call, server
<1> HIDE DEF GoodCall
<1> QED
  BY <1>1, <1>2, <1>3, <1>4, <1>5, <1>6, <1>7 DEF CallStep

\* Every step keeps every answer good.
LEMMA AnswersStep == AnswersInv /\ [Next]_vars => AnswersInv'
<1> SUFFICES ASSUME AnswersInv, [Next]_vars
             PROVE  AnswersInv'
  OBVIOUS
<1>0. TypeInv /\ IdsInv /\ IdsInv'
  BY ServerStep, TasksStartedStep, RecordKnowsStep DEF AnswersInv, IdsInv, ServerInv
<1>1. ASSUME NEW c \in Calls, call'[c] = call[c] PROVE GoodCall(call[c])'
  <2>1. PICK r \in CallType : r = call[c]
    BY <1>0 DEF TypeInv, TypeOK
  <2>2. GoodCall(r)
    BY <2>1 DEF AnswersInv
  <2>3. r.pc \in {"log", "delete", "status", "sleep"} => r.job \in UpidJobs
    BY <1>0, <2>1 DEF TypeInv, CallsTyped
  <2>4. GoodCall(r)'
    BY <1>0, <2>2, <2>3, GoodCallStable
  <2> QED
    BY <1>1, <2>1, <2>4 DEF GoodCall
<1>2. ASSUME NEW c \in Calls, ToolCall(c) \/ CallStep(c)
      PROVE  \A d \in Calls : GoodCall(call[d])'
  <2>1. GoodCall(call[c])'
    BY <1>0, <1>2, ToolCallGood, CallStepGood DEF AnswersInv
  <2>2. ASSUME NEW d \in Calls \ {c} PROVE GoodCall(call[d])'
    BY <1>0, <1>1, <1>2, CallFrame
  <2> QED
    BY <2>1, <2>2
<1>3. CASE call' = call
  BY <1>0, <1>1, <1>3 DEF AnswersInv
<1>4. CASE Restart
  <2>1. ASSUME NEW c \in Calls, call'[c] = NoCall PROVE GoodCall(call[c])'
    BY <2>1 DEF GoodCall, NoCall, Call
  <2> QED
    BY <1>0, <1>1, <1>4, <2>1 DEF Restart, AnswersInv
<1>5. ASSUME NEW j \in Jobs, ExecutorEffect(j) PROVE AnswersInv'
  BY <1>3, <1>5 DEF ExecutorEffect
<1> QED
  BY <1>0, <1>2, <1>3, <1>4, <1>5, UpidEffect, SshEffect, AgentEffect
     DEF AnswersInv, Next, TaskLogs, TaskStops, CommandExits, TaskStarts, vars, Jobs, LocalJobs

\* Every answer is good in every reachable state.
LEMMA AnswersAlways == Spec => []AnswersInv
<1>1. Init => AnswersInv
  BY IdsInit DEF Init, AnswersInv, GoodCall, NoCall, Call
<1> QED
  BY <1>1, AnswersStep, PTL DEF Spec

\* A verdict given to a client stays true, whether it was taken from the
\* registry's record or read back from Proxmox, and the log it came with is what
\* Proxmox shows by default of the finished task's (job_get, job_wait,
\* job_cancel, settleJob).
THEOREM AnswersCorrect == Spec => []AnswersHold
<1>1. AnswersInv => AnswersHold
  BY DEF AnswersInv, GoodCall, AnswersHold
<1> QED
  BY <1>1, AnswersAlways, PTL

\* "Unknown job" is the answer only for a process-run job whose record a
\* restart has lost (job_get, job_wait, job_cancel, job_logs).
THEOREM UnknownCorrect == Spec => []UnknownMeansLost
<1>1. AnswersInv => UnknownMeansLost
  BY DEF AnswersInv, GoodCall, UnknownMeansLost
<1> QED
  BY <1>1, AnswersAlways, PTL

-----------------------------------------------------------------------------
(* The contract. *)

\* Every step of the server is a step of the contract or leaves it alone.
LEMMA ContractStep ==
    ASSUME IdsInv, [Next]_vars
    PROVE  [Contract!Next]_(Contract!vars)
<1>0. /\ TypeInv /\ RegistryConsistent /\ AbortsAsked /\ RecordsKept
      /\ state \in [Jobs -> JobStates]
  BY DEF IdsInv, ServerInv, TypeInv, TypeOK
<1>1. CASE UNCHANGED <<state, made, asked>>
  BY <1>1 DEF Contract!vars
<1>2. ASSUME NEW j \in Jobs, ExecutorEffect(j) PROVE [Contract!Next]_(Contract!vars)
  <2>1. state[j] = "running"
    BY <1>0, <1>2 DEF ExecutorEffect, RegistryConsistent
  <2>2. ASSUME NEW v \in Verdicts, Settle(j, v), v = "cancelled" => signal[j] = "aborted"
        PROVE  Contract!Settle(j, v)
    BY <1>0, <1>2, <2>1, <2>2 DEF ExecutorEffect, Settle, AbortsAsked, Contract!Settle
  <2>3. Contract!Verdicts = Verdicts
    BY DEF Contract!Verdicts, Verdicts
  <2> QED
    BY <1>1, <1>2, <2>2, <2>3 DEF ExecutorEffect, GoesOn, Ends, Contract!Next
<1>3. ASSUME NEW j \in LocalJobs, Abort(j), UNCHANGED made
      PROVE  [Contract!Next]_(Contract!vars)
  <2>1. j \in Jobs
    BY DEF Jobs
  <2>2. CASE signal[j] = "none"
    BY <1>1, <1>3, <2>2 DEF Abort
  <2>3. CASE signal[j] # "none" /\ heard[j]
    <3>1. Contract!Settle(j, "cancelled")
      BY <1>0, <1>3, <2>1, <2>3 DEF Abort, Settle, RegistryConsistent, Contract!Settle
    <3> QED
      BY <2>1, <3>1 DEF Contract!Next, Contract!Verdicts
  <2>4. CASE signal[j] # "none" /\ ~heard[j]
    <3>1. Contract!Ask(j)
      BY <1>0, <1>3, <2>1, <2>4 DEF Abort, RegistryConsistent, Contract!Ask
    <3> QED
      BY <2>1, <3>1 DEF Contract!Next
  <2> QED
    BY <2>2, <2>3, <2>4
<1>4. ASSUME NEW j \in Jobs, NEW phase, j \notin made, Run(j, phase)
      PROVE  [Contract!Next]_(Contract!vars)
  <2>1. Contract!Start(j)
    BY <1>0, <1>4 DEF Run, RecordsKept, Contract!Start
  <2> QED
    BY <2>1 DEF Contract!Next
<1>5. ASSUME NEW c \in Calls, CallEffect(c) PROVE [Contract!Next]_(Contract!vars)
  <2>1. call[c].pc = "submit" => call[c].job \in Jobs /\ call[c].job \notin made
    BY <1>0 DEF IdsInv, TasksStartedOnce, TypeInv, CallsTyped, Jobs
  <2> QED
    BY <1>1, <1>3, <1>4, <1>5, <2>1 DEF CallEffect, Jobs
<1>6. CASE Restart
  BY <1>6 DEF Restart, Contract!Next, Contract!Lose
<1> QED
  BY <1>0, <1>1, <1>2, <1>5, <1>6, UpidEffect, SshEffect, AgentEffect, ToolCallEffect,
     CallStepEffect
     DEF Next, TaskLogs, TaskStops, CommandExits, TaskStarts, server, vars, Jobs, LocalJobs

\* The server implements JobContract: an id is handed out once, its verdict
\* never changes while the server lives, and "cancelled" is the verdict only
\* of a process-run job that was asked to stop while it ran (JobManager).
THEOREM ContractCorrect == Spec => ContractKept
<1>1. Init => Contract!Init
  BY DEF Init, Contract!Init
<1> QED
  BY <1>1, IdsAlways, ContractStep, PTL DEF Spec, ContractKept, Contract!Spec
=============================================================================
