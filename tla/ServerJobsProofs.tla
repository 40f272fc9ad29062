-------------------------- MODULE ServerJobsProofs --------------------------
(***************************************************************************)
(* Proofs about the job subsystem for any number of jobs, calls and log    *)
(* lines.  The invariant is proved in layers, each one using the layers    *)
(* before it: types, the registry, aborts, ids and tasks, then what the    *)
(* watch and the calls know of a task, and from these the answers given to *)
(* clients and the contract of the registry.                               *)
(***************************************************************************)
EXTENDS ServerJobs, TLAPS

TypeInv == TypeOK /\ CallsTyped

ServerInv == TypeInv /\ RegistryConsistent /\ AbortsAsked /\ RecordsKept

-----------------------------------------------------------------------------
(* What the steps of an executor have in common. *)

\* Job j's executor goes on.
GoesOn(j) ==
    /\ \E phase \in ActivePhases : exec' = [exec EXCEPT ![j] = phase]
    /\ UNCHANGED <<state, signal>>

\* Job j's executor ends; it throws because of an abort only after one.
Ends(j) ==
    \E v \in Verdicts : Settle(j, v) /\ (v = "cancelled" => signal[j] = "aborted")

ExecutorEffect(j) ==
    /\ exec[j] \in ActivePhases
    /\ GoesOn(j) \/ Ends(j)
    /\ heard' \in [Jobs -> BOOLEAN]
    /\ resultLog' \in [Jobs -> 0..MaxLog]
    /\ command' \in [LocalJobs -> {"none", "running", "exited"}]
    /\ UNCHANGED <<made, asked, lost, proxmox, call>>

\* Proxmox shows no more lines of a log than there are.
LEMMA ShownTyped ==
    ASSUME NEW lines \in 0..MaxLog
    PROVE  Shown(lines) \in 0..MaxLog
BY MaxLogNat, PageNat DEF Shown

\* A step of the executor of a UPID job has that effect.
LEMMA UpidEffect ==
    ASSUME NEW j \in UpidJobs, TypeInv, UpidStep(j)
    PROVE  ExecutorEffect(j)
<1> USE DEF ExecutorEffect, GoesOn, Ends, TypeInv, TypeOK, ActivePhases, UpidPhases,
        Verdicts, proxmox, Jobs
<1>1. CASE PollStatus(j)
  BY <1>1 DEF PollStatus, Advance
<1>2. CASE PollAgain(j)
  BY <1>2 DEF PollAgain, AdvanceUnlessAborted, Settle, Advance
<1>3. CASE PollLog(j)
  BY <1>3, ShownTyped DEF PollLog, Settle
<1>4. CASE PollFails(j)
  BY <1>4 DEF PollFails, Settle, Thrown
<1> QED
  BY <1>1, <1>2, <1>3, <1>4 DEF UpidStep

\* So has a step of the executor of an SSH job.
LEMMA SshEffect ==
    ASSUME NEW j \in SshJobs, TypeInv, SshStep(j)
    PROVE  ExecutorEffect(j)
<1> USE DEF ExecutorEffect, GoesOn, Ends, TypeInv, TypeOK, ActivePhases, SshPhases,
        Verdicts, proxmox,
            Jobs, LocalJobs
<1>1. CASE SshPrepareFails(j)
  BY <1>1 DEF SshPrepareFails, Settle, Thrown
<1>2. CASE SshConnect(j)
  BY <1>2 DEF SshConnect, Advance
<1>3. CASE SshReady(j)
  BY <1>3 DEF SshReady, Advance
<1>4. CASE SshAuthFails(j)
  BY <1>4 DEF SshAuthFails, Advance
<1>5. CASE SshFails(j)
  BY <1>5 DEF SshFails, Settle, Thrown
<1>6. CASE SshCloses(j)
  BY <1>6 DEF SshCloses, Settle
<1> QED
  BY <1>1, <1>2, <1>3, <1>4, <1>5, <1>6 DEF SshStep

\* So has a step of the executor of a guest-agent job.
LEMMA AgentEffect ==
    ASSUME NEW j \in AgentJobs, TypeInv, AgentStep(j)
    PROVE  ExecutorEffect(j)
<1> USE DEF ExecutorEffect, GoesOn, Ends, TypeInv, TypeOK, ActivePhases, AgentPhases,
        Verdicts, proxmox,
            Jobs, LocalJobs
<1>1. CASE AgentPrepare(j)
  BY <1>1 DEF AgentPrepare, Settle, Advance, Thrown
<1>2. CASE AgentStarted(j)
  BY <1>2 DEF AgentStarted, AdvanceUnlessAborted, Settle, Advance
<1>3. CASE AgentPoll(j)
  BY <1>3 DEF AgentPoll, Settle, Advance
<1>4. CASE AgentNap(j)
  BY <1>4 DEF AgentNap, AdvanceUnlessAborted, Settle, Advance
<1>5. CASE AgentFails(j)
  BY <1>5 DEF AgentFails, Settle, Thrown
<1> QED
  BY <1>1, <1>2, <1>3, <1>4, <1>5 DEF AgentStep

-----------------------------------------------------------------------------
(* What the steps of a call do to the registry. *)

\* A call starts a job, aborts one, or leaves the registry alone.
CallEffect(c) ==
    /\ \/ UNCHANGED <<state, signal, exec, heard, asked, made>>
       \/ \E j \in LocalJobs : Abort(j) /\ UNCHANGED made
       \/ \E j \in LocalJobs : j \notin made /\ Run(j, "prep")
       \/ /\ call[c].pc = "submit" /\ task[call[c].job] # "none"
          /\ Run(call[c].job, "status")
    /\ UNCHANGED <<resultLog, lost, taskLog, command>>

\* Every new tool call has that effect.
LEMMA ToolCallEffect ==
    ASSUME NEW c \in Calls, TypeInv, ToolCall(c)
    PROVE  CallEffect(c) /\ UNCHANGED task
<1> USE DEF CallEffect, server, proxmox
<1>1. ASSUME NEW op \in ToolOps, NEW j \in UpidJobs, CallUpidTool(c, j, op)
      PROVE  CallEffect(c) /\ UNCHANGED task
  BY <1>1 DEF CallUpidTool
<1>2. ASSUME NEW op \in ToolOps, NEW j \in LocalJobs, CallProcessTool(c, j, op)
      PROVE  CallEffect(c) /\ UNCHANGED task
  BY <1>2 DEF CallProcessTool, Run
<1>3. ASSUME NEW j \in made, NEW op \in {"get", "logs"}, CallRead(c, j, op)
      PROVE  CallEffect(c) /\ UNCHANGED task
  BY <1>3 DEF CallRead
<1>4. ASSUME NEW j \in made, NEW op \in WaitOps, CallWait(c, j, op)
      PROVE  CallEffect(c) /\ UNCHANGED task
  BY <1>4 DEF CallWait
<1>5. ASSUME NEW j \in LocalJobs, CallCancelLocal(c, j)
      PROVE  CallEffect(c) /\ UNCHANGED task
  BY <1>5 DEF CallCancelLocal
<1>6. ASSUME NEW j \in UpidJobs, CallCancelUpid(c, j)
      PROVE  CallEffect(c) /\ UNCHANGED task
  BY <1>6 DEF CallCancelUpid
<1> QED
  BY <1>1, <1>2, <1>3, <1>4, <1>5, <1>6 DEF ToolCall

\* So has every later step of a call.
LEMMA CallStepEffect ==
    ASSUME NEW c \in Calls, TypeInv, CallStep(c)
    PROVE  CallEffect(c)
<1> USE DEF CallEffect, server, proxmox
<1>1. CASE UpidArrives(c)
  BY <1>1 DEF UpidArrives, Run
<1>2. CASE SubmitEndsWithoutJob(c)
  BY <1>2 DEF SubmitEndsWithoutJob
<1>3. CASE WaitSettles(c) \/ WaitTimesOut(c)
  BY <1>3 DEF WaitSettles, WaitTimesOut
<1>4. CASE CancelUpidAnswered(c)
  BY <1>4 DEF CancelUpidAnswered
<1>5. CASE \/ SnapshotStatus(c) \/ SnapshotLog(c) \/ SnapshotExpires(c)
           \/ SnapshotAgain(c) \/ SnapshotFails(c)
  BY <1>5 DEF SnapshotStatus, SnapshotLog, SnapshotExpires, SnapshotAgain, SnapshotFails
<1> QED
  BY <1>1, <1>2, <1>3, <1>4, <1>5 DEF CallStep

-----------------------------------------------------------------------------
(* Types. *)

\* The records the calls are made of have their types.
LEMMA CallRecords ==
    ASSUME TypeInv, NEW op \in Ops, NEW j \in Jobs
    PROVE  /\ FromRecord(op, j) \in CallType
           /\ FromRecord(op, j).pc = "done"
           /\ FromRecord(op, j).job = j
           /\ Handle(op, j) \in CallType
           /\ Handle(op, j).pc = "done"
           /\ Handle(op, j).job = j
           /\ \A phase \in CallPhases :
                 /\ Pending(op, j, phase) \in CallType
                 /\ Pending(op, j, phase).pc = phase
                 /\ Pending(op, j, phase).job = j
           /\ \A why \in Answers :
                 /\ Failed(op, j, why) \in CallType
                 /\ Failed(op, j, why).pc = "done"
                 /\ Failed(op, j, why).job = j
BY MaxLogNat DEF FromRecord, Handle, Pending, Failed, Call, CallType, CallPhases, TypeInv,
   TypeOK, Answers, JobStates

\* Call c becomes the record r, and r is typed.
CallBecomes(c, r) ==
    /\ r \in CallType
    /\ r.pc \in {"submit", "delete", "status", "log", "sleep"} => r.job \in UpidJobs
    /\ r.pc \in {"wait", "done"} => r.job \in Jobs
    /\ call' = [call EXCEPT ![c] = r]

\* After such a change the calls are typed.
LEMMA CallTyped ==
    ASSUME NEW c \in Calls, TypeInv, NEW r, CallBecomes(c, r)
    PROVE  (call \in [Calls -> CallType] /\ CallsTyped)'
BY DEF CallBecomes, TypeInv, TypeOK, CallsTyped

\* A new tool call leaves the calls typed.
LEMMA ToolCallTyped ==
    ASSUME NEW c \in Calls, TypeInv, ToolCall(c)
    PROVE  \E r : CallBecomes(c, r)
<1> USE DEF Ops, ToolOps, WaitOps, CallPhases, Answers, JobStates, CallBecomes
<1>1. ASSUME NEW op \in ToolOps, NEW j \in UpidJobs, CallUpidTool(c, j, op)
      PROVE  CallBecomes(c, Pending(op, j, "submit"))
  BY <1>1, CallRecords DEF CallUpidTool, Jobs
<1>2. ASSUME NEW op \in ToolOps, NEW j \in LocalJobs, CallProcessTool(c, j, op)
      PROVE  CallBecomes(c, Handle(op, j)) \/ CallBecomes(c, Pending(op, j, "wait"))
  BY <1>2, CallRecords DEF CallProcessTool, settleJob, Jobs
<1>3. ASSUME NEW j \in made, NEW op \in {"get", "logs"}, CallRead(c, j, op)
      PROVE  \/ CallBecomes(c, FromRecord(op, j))
             \/ CallBecomes(c, Pending(op, j, "status"))
             \/ CallBecomes(c, Failed(op, j, "unknown"))
  <2>1. j \in Jobs
    BY DEF TypeInv, TypeOK
  <2> QED
    BY <1>3, <2>1, CallRecords DEF CallRead, Rehydrate
<1>4. ASSUME NEW j \in made, NEW op \in WaitOps, CallWait(c, j, op)
      PROVE  \/ CallBecomes(c, Pending(op, j, "wait"))
             \/ CallBecomes(c, Pending(op, j, "status"))
             \/ CallBecomes(c, Failed(op, j, "unknown"))
  <2>1. j \in Jobs
    BY DEF TypeInv, TypeOK
  <2> QED
    BY <1>4, <2>1, CallRecords DEF CallWait, Rehydrate
<1>5. ASSUME NEW j \in LocalJobs, CallCancelLocal(c, j)
      PROVE  \/ CallBecomes(c, Pending("cancel", j, "wait"))
             \/ CallBecomes(c, Failed("cancel", j, "unknown"))
  BY <1>5, CallRecords DEF CallCancelLocal, Jobs
<1>6. ASSUME NEW j \in UpidJobs, CallCancelUpid(c, j)
      PROVE  CallBecomes(c, Pending("cancel", j, "delete"))
  BY <1>6, CallRecords DEF CallCancelUpid, Jobs
<1> HIDE DEF CallBecomes
<1> QED
  BY <1>1, <1>2, <1>3, <1>4, <1>5, <1>6 DEF ToolCall

\* So does a later step of a call.
LEMMA CallStepTyped ==
    ASSUME NEW c \in Calls, TypeInv, CallStep(c)
    PROVE  \E r : CallBecomes(c, r)
<1> DEFINE j == call[c].job
           op == call[c].op
<1> USE DEF CallPhases, Answers, JobStates
<1>1. op \in Ops /\ call[c].state \in Answers
  BY DEF TypeInv, TypeOK, CallType
<1>2. /\ call[c].pc \in {"submit", "delete", "status", "log", "sleep"} => j \in UpidJobs
      /\ call[c].pc \in {"submit", "wait", "delete", "status", "log", "sleep"} => j \in Jobs
  BY DEF TypeInv, CallsTyped, Jobs
<1>3. CASE UpidArrives(c)
  <2>1. j \in Jobs
    BY <1>2, <1>3 DEF UpidArrives
  <2>2. settleJob(c, op, j)
    BY <1>3 DEF UpidArrives
  <2>3. CASE call' = [call EXCEPT ![c] = Handle(op, j)]
    <3>1. CallBecomes(c, Handle(op, j))
      BY <1>1, <2>1, <2>3, CallRecords DEF CallBecomes
    <3> QED
      BY <3>1
  <2>4. CASE call' = [call EXCEPT ![c] = Pending(op, j, "wait")]
    <3>1. CallBecomes(c, Pending(op, j, "wait"))
      BY <1>1, <2>1, <2>4, CallRecords DEF CallBecomes
    <3> QED
      BY <3>1
  <2> QED
    BY <2>2, <2>3, <2>4 DEF settleJob
<1>4. CASE SubmitEndsWithoutJob(c)
  <2>1. CallBecomes(c, Failed(op, j, "nojob"))
    BY <1>1, <1>2, <1>4, CallRecords DEF SubmitEndsWithoutJob, CallBecomes
  <2> QED
    BY <2>1
<1>5. CASE WaitSettles(c) \/ WaitTimesOut(c)
  <2>1. CallBecomes(c, FromRecord(op, j))
    BY <1>1, <1>2, <1>5, CallRecords DEF WaitSettles, WaitTimesOut, CallBecomes
  <2> QED
    BY <2>1
<1>6. CASE CancelUpidAnswered(c)
  <2>1. CallBecomes(c, Pending("cancel", j, "status"))
    BY <1>2, <1>6, CallRecords DEF CancelUpidAnswered, CallBecomes, Ops
  <2> QED
    BY <2>1
<1>7. CASE SnapshotStatus(c)
  <2>1. classifyUpidState(task[j]) \in Answers
    BY DEF classifyUpidState, Verdicts
  <2>2. CallBecomes(c, Call("log", op, j, classifyUpidState(task[j]), "none", 0))
    <3> HIDE DEF Answers
    <3> QED
      BY <1>1, <1>2, <1>7, <2>1, MaxLogNat DEF SnapshotStatus, Call, CallType, CallBecomes
  <2> QED
    BY <2>2
<1>8. CASE SnapshotLog(c) \/ SnapshotExpires(c)
  <2>0. j \in UpidJobs /\ j \in Jobs
    BY <1>8 DEF SnapshotLog, SnapshotExpires, TypeInv, CallsTyped, Jobs
  <2>1. CASE call' = [call EXCEPT ![c] = Snapshot(c)]
    <3>1. /\ Snapshot(c) \in CallType
          /\ Snapshot(c).pc = "done"
          /\ Snapshot(c).job = j
      <4>1. taskLog[j] \in 0..MaxLog
        BY <2>0 DEF TypeInv, TypeOK
      <4>2. Shown(taskLog[j]) \in 0..MaxLog
        BY <4>1, ShownTyped
      <4> QED
        BY <1>1, <2>0, <4>2 DEF Snapshot, Call, CallType
    <3>2. CallBecomes(c, Snapshot(c))
      BY <2>0, <2>1, <3>1 DEF CallBecomes
    <3> QED
      BY <3>2
  <2>2. CASE call' = [call EXCEPT ![c] = Pending(op, j, "sleep")]
    <3>1. CallBecomes(c, Pending(op, j, "sleep"))
      BY <1>1, <2>0, <2>2, CallRecords DEF CallBecomes
    <3> QED
      BY <3>1
  <2> QED
    BY <1>8, <2>1, <2>2 DEF SnapshotLog, SnapshotExpires
<1>9. CASE SnapshotAgain(c) \/ SnapshotFails(c)
  <2>1. CallBecomes(c, Pending(op, j, "status")) \/ CallBecomes(c, Failed(op, j, "error"))
    BY <1>1, <1>2, <1>9, CallRecords DEF SnapshotAgain, SnapshotFails, CallBecomes
  <2> QED
    BY <2>1
<1> QED
  BY <1>3, <1>4, <1>5, <1>6, <1>7, <1>8, <1>9 DEF CallStep

\* The part of the type invariant that is about the registry.
RegistryTyped ==
    /\ state \in [Jobs -> JobStates]
    /\ signal \in [Jobs -> {"none", "live", "aborted"}]
    /\ exec \in [Jobs -> {"idle", "done"} \cup ActivePhases]
    /\ heard \in [Jobs -> BOOLEAN]
    /\ made \in SUBSET Jobs
    /\ asked \in SUBSET Jobs

\* The effect of a call keeps the registry typed.
LEMMA CallEffectTyped ==
    ASSUME NEW c \in Calls, TypeInv, CallEffect(c)
    PROVE  RegistryTyped'
<1> USE DEF RegistryTyped, TypeInv, TypeOK, JobStates, Verdicts, ActivePhases, UpidPhases,
        SshPhases, Jobs
<1>1. CASE UNCHANGED <<state, signal, exec, heard, asked, made>>
  BY <1>1
<1>2. ASSUME NEW j \in LocalJobs, Abort(j), UNCHANGED made
      PROVE  RegistryTyped'
  BY <1>2 DEF Abort, Settle
<1>3. ASSUME NEW j \in LocalJobs, Run(j, "prep")
      PROVE  RegistryTyped'
  BY <1>3 DEF Run
<1>4. CASE call[c].pc = "submit" /\ Run(call[c].job, "status")
  <2>1. call[c].job \in Jobs
    BY <1>4 DEF CallsTyped
  <2> QED
    BY <1>4, <2>1 DEF Run
<1> QED
  BY <1>1, <1>2, <1>3, <1>4 DEF CallEffect

\* The effect of an executor keeps everything typed.
LEMMA ExecutorEffectTyped ==
    ASSUME NEW j \in Jobs, TypeInv, ExecutorEffect(j)
    PROVE  TypeInv'
<1>1. RegistryTyped'
  BY DEF ExecutorEffect, GoesOn, Ends, Settle, RegistryTyped, TypeInv, TypeOK, JobStates
<1> QED
  BY <1>1 DEF ExecutorEffect, RegistryTyped, TypeInv, TypeOK, CallsTyped, proxmox

\* Every step keeps everything typed.
LEMMA TypeStep == TypeInv /\ [Next]_vars => TypeInv'
<1> SUFFICES ASSUME TypeInv, [Next]_vars
             PROVE  TypeInv'
  OBVIOUS
<1>1. ASSUME NEW j \in UpidJobs, UpidStep(j) PROVE TypeInv'
  BY <1>1, UpidEffect, ExecutorEffectTyped DEF Jobs
<1>2. ASSUME NEW j \in SshJobs, SshStep(j) PROVE TypeInv'
  BY <1>2, SshEffect, ExecutorEffectTyped DEF Jobs, LocalJobs
<1>3. ASSUME NEW j \in AgentJobs, AgentStep(j) PROVE TypeInv'
  BY <1>3, AgentEffect, ExecutorEffectTyped DEF Jobs, LocalJobs
<1>4. ASSUME NEW j \in UpidJobs, TaskLogs(j) \/ TaskStops(j) PROVE TypeInv'
  BY <1>4, MaxLogNat DEF TaskLogs, TaskStops, TaskEnds, TypeInv, TypeOK, CallsTyped, server
<1>5. ASSUME NEW j \in LocalJobs, CommandExits(j) PROVE TypeInv'
  BY <1>5 DEF CommandExits, TypeInv, TypeOK, CallsTyped, server, proxmox
<1>6. ASSUME NEW c \in Calls, ToolCall(c) PROVE TypeInv'
  BY <1>6, ToolCallEffect, ToolCallTyped, CallTyped, CallEffectTyped
     DEF CallEffect, RegistryTyped, TypeInv, TypeOK
<1>7. ASSUME NEW c \in Calls, TaskStarts(c) PROVE TypeInv'
  BY <1>7 DEF TaskStarts, TypeInv, TypeOK, CallsTyped, server
<1>8. ASSUME NEW c \in Calls, CallStep(c) PROVE TypeInv'
  <2>1. task' \in [UpidJobs -> {"none", "running"} \cup TaskEnds]
    BY <1>8 DEF CallStep, UpidArrives, SubmitEndsWithoutJob, WaitSettles, WaitTimesOut,
       CancelUpidAnswered,
                SnapshotStatus, SnapshotLog, SnapshotExpires, SnapshotAgain, SnapshotFails, proxmox, TypeInv, TypeOK, TaskEnds
  <2> QED
    BY <1>8, <2>1, CallStepEffect, CallStepTyped, CallTyped, CallEffectTyped
       DEF CallEffect, RegistryTyped, TypeInv, TypeOK
<1>9. CASE Restart
  <2>1. NoCall \in CallType
    BY MaxLogNat DEF NoCall, Call, CallType, CallPhases, Ops, Answers, JobStates
  <2>2. (call \in [Calls -> CallType])'
    BY <1>9, <2>1 DEF Restart, TypeInv, TypeOK
  <2>3. CallsTyped'
    BY <1>9 DEF Restart, NoCall, Call, TypeInv, TypeOK, CallsTyped
  <2> QED
    BY <1>9, <2>2, <2>3, MaxLogNat DEF Restart, TypeInv, TypeOK, JobStates, proxmox
<1>10. CASE UNCHANGED vars
  BY <1>10 DEF vars, server, proxmox, TypeInv, TypeOK, CallsTyped
<1> QED
  BY <1>1, <1>2, <1>3, <1>4, <1>5, <1>6, <1>7, <1>8, <1>9, <1>10 DEF Next

\* The initial state is typed.
LEMMA TypeInit == Init => TypeInv
BY MaxLogNat DEF Init, TypeInv, TypeOK, CallsTyped, NoCall, Call, CallType, CallPhases, Ops,
   Answers, JobStates

\* Every reachable state is typed: the registry, the Proxmox tasks, and the
\* calls, whose requests to Proxmox are always about a UPID job (TypeOK).
THEOREM TypeCorrect == Spec => []TypeOK
<1>1. Spec => []TypeInv
  BY TypeInit, TypeStep, PTL DEF Spec
<1> QED
  BY <1>1, PTL DEF TypeInv

-----------------------------------------------------------------------------
(* The registry. *)

\* The effect of an executor keeps the registry's invariants.
LEMMA ExecutorKeepsServer ==
    ASSUME NEW j \in Jobs, ServerInv, ExecutorEffect(j)
    PROVE  ServerInv'
<1>1. TypeInv'
  BY ExecutorEffectTyped DEF ServerInv
<1>2. state[j] = "running" /\ signal[j] # "none"
  BY DEF ServerInv, RegistryConsistent, ExecutorEffect
<1>3. RegistryConsistent'
  BY <1>2 DEF ServerInv, TypeInv, TypeOK, RegistryConsistent, ExecutorEffect, GoesOn, Ends,
     Settle,
              Verdicts, ActivePhases, UpidPhases, SshPhases, AgentPhases
<1>4. AbortsAsked'
  BY DEF ServerInv, TypeInv, TypeOK, AbortsAsked, ExecutorEffect, GoesOn, Ends, Settle
<1>5. RecordsKept'
  BY <1>2 DEF ServerInv, TypeInv, TypeOK, RecordsKept, ExecutorEffect, GoesOn, Ends, Settle,
     Verdicts
<1> QED
  BY <1>1, <1>3, <1>4, <1>5 DEF ServerInv

\* The effect of a call keeps them too.
LEMMA CallKeepsServer ==
    ASSUME NEW c \in Calls, ServerInv, CallEffect(c)
    PROVE  (RegistryConsistent /\ AbortsAsked /\ RecordsKept)'
<1> USE DEF ServerInv, TypeInv, TypeOK
<1> USE DEF ActivePhases, UpidPhases, SshPhases, AgentPhases
<1>1. CASE UNCHANGED <<state, signal, exec, heard, asked, made>>
  BY <1>1 DEF CallEffect, RegistryConsistent, AbortsAsked, RecordsKept
<1>2. ASSUME NEW j \in LocalJobs, Abort(j), UNCHANGED <<made, lost>>
      PROVE  (RegistryConsistent /\ AbortsAsked /\ RecordsKept)'
  <2>1. j \in Jobs
    BY DEF Jobs
  <2>2. RegistryConsistent'
    BY <1>2, <2>1 DEF Abort, Settle, RegistryConsistent
  <2>3. AbortsAsked'
    BY <1>2, <2>1 DEF Abort, Settle, AbortsAsked
  <2>4. RecordsKept'
    BY <1>2, <2>1 DEF Abort, Settle, RecordsKept, RegistryConsistent
  <2> QED
    BY <2>2, <2>3, <2>4
<1>3. ASSUME NEW j \in Jobs, NEW phase \in {"prep", "status"}, Run(j, phase), UNCHANGED lost
      PROVE  (RegistryConsistent /\ AbortsAsked /\ RecordsKept)'
  <2>1. RegistryConsistent'
    BY <1>3 DEF Run, RegistryConsistent
  <2>2. AbortsAsked'
    BY <1>3 DEF Run, AbortsAsked
  <2>3. RecordsKept'
    BY <1>3 DEF Run, RecordsKept
  <2> QED
    BY <2>1, <2>2, <2>3
<1>4. call[c].pc = "submit" => call[c].job \in Jobs
  BY DEF CallsTyped, Jobs
<1> QED
  BY <1>1, <1>2, <1>3, <1>4 DEF CallEffect, Jobs

\* Every step keeps the invariants of the registry.
LEMMA ServerStep == ServerInv /\ [Next]_vars => ServerInv'
<1> SUFFICES ASSUME ServerInv, [Next]_vars
             PROVE  ServerInv'
  OBVIOUS
<1>0. TypeInv /\ TypeInv'
  BY TypeStep DEF ServerInv
<1>1. ASSUME NEW j \in UpidJobs, UpidStep(j) PROVE ServerInv'
  BY <1>0, <1>1, UpidEffect, ExecutorKeepsServer DEF Jobs
<1>2. ASSUME NEW j \in SshJobs, SshStep(j) PROVE ServerInv'
  BY <1>0, <1>2, SshEffect, ExecutorKeepsServer DEF Jobs, LocalJobs
<1>3. ASSUME NEW j \in AgentJobs, AgentStep(j) PROVE ServerInv'
  BY <1>0, <1>3, AgentEffect, ExecutorKeepsServer DEF Jobs, LocalJobs
<1>4. CASE UNCHANGED server
  BY <1>0, <1>4 DEF server, ServerInv, RegistryConsistent, AbortsAsked, RecordsKept
<1>5. ASSUME NEW c \in Calls, ToolCall(c) \/ CallStep(c) PROVE ServerInv'
  BY <1>0, <1>5, ToolCallEffect, CallStepEffect, CallKeepsServer DEF ServerInv
<1>6. CASE Restart
  BY <1>0, <1>6 DEF Restart, ServerInv, TypeInv, TypeOK, RegistryConsistent, AbortsAsked,
     RecordsKept,
                    ActivePhases, UpidPhases, SshPhases, AgentPhases
<1> QED
  BY <1>1, <1>2, <1>3, <1>4, <1>5, <1>6
     DEF Next, TaskLogs, TaskStops, CommandExits, TaskStarts, vars

\* They hold when the server starts.
LEMMA ServerInit == Init => ServerInv
BY TypeInit DEF Init, ServerInv, RegistryConsistent, AbortsAsked, RecordsKept,
                ActivePhases, UpidPhases, SshPhases, AgentPhases

\* So they hold in every reachable state.
LEMMA ServerAlways == Spec => []ServerInv
BY ServerInit, ServerStep, PTL DEF Spec

\* The record, the abort controller and the executor of a job agree in every
\* reachable state (JobManager.run, cancel): nothing is left "running" without
\* an executor, and no controller outlives its job.
THEOREM RegistryCorrect == Spec => []RegistryConsistent
BY ServerAlways, PTL DEF ServerInv

-----------------------------------------------------------------------------
(* Cancellation of SSH jobs. *)

\* The listener of an SSH job is added and removed with its session; only the
\* steps of its own executor, an abort and a restart touch it.
LEMMA CancelHeardStep == TypeInv /\ CancelHeard /\ [Next]_vars => CancelHeard'
<1> SUFFICES ASSUME TypeInv, CancelHeard, [Next]_vars
             PROVE  CancelHeard'
  OBVIOUS
<1> USE DEF TypeInv, TypeOK, Jobs, LocalJobs
<1>1. ASSUME NEW j \in UpidJobs, UpidStep(j)
      PROVE  CancelHeard'
  <2>1. UNCHANGED heard /\ \A i \in SshJobs : exec'[i] = exec[i] /\ signal'[i] = signal[i]
    BY <1>1, JobKindsDisjoint DEF UpidStep, PollStatus, PollAgain, PollLog, PollFails,
       AdvanceUnlessAborted, Advance, Settle
  <2> QED
    BY <2>1 DEF CancelHeard
<1>2. ASSUME NEW j \in AgentJobs, AgentStep(j)
      PROVE  CancelHeard'
  <2>1. UNCHANGED heard /\ \A i \in SshJobs : exec'[i] = exec[i] /\ signal'[i] = signal[i]
    BY <1>2, JobKindsDisjoint DEF AgentStep, AgentPrepare, AgentStarted, AgentPoll,
       AgentNap,
       AgentFails, AdvanceUnlessAborted, Advance, Settle
  <2> QED
    BY <2>1 DEF CancelHeard
<1>3. ASSUME NEW j \in SshJobs, SshStep(j)
      PROVE  CancelHeard'
  <2> USE DEF CancelHeard
  <2>1. CASE SshPrepareFails(j)
    BY <2>1 DEF SshPrepareFails, Settle
  <2>2. CASE SshConnect(j)
    BY <2>2 DEF SshConnect, Advance
  <2>3. CASE SshReady(j)
    BY <2>3 DEF SshReady, Advance
  <2>4. CASE SshAuthFails(j)
    BY <2>4 DEF SshAuthFails, Advance
  <2>5. CASE SshFails(j)
    BY <2>5 DEF SshFails, Settle
  <2>6. CASE SshCloses(j)
    BY <2>6 DEF SshCloses, Settle
  <2> QED
    BY <1>3, <2>1, <2>2, <2>3, <2>4, <2>5, <2>6 DEF SshStep
<1>4. ASSUME NEW c \in Calls, CallEffect(c)
      PROVE  CancelHeard'
  <2>1. CASE UNCHANGED <<signal, exec, heard>>
    BY <2>1 DEF CancelHeard
  <2>2. ASSUME NEW j \in LocalJobs, Abort(j)
        PROVE  CancelHeard'
    BY <2>2 DEF Abort, Settle, CancelHeard
  <2>3. ASSUME NEW j \in Jobs, NEW phase \in {"prep", "status"}, Run(j, phase)
        PROVE  CancelHeard'
    BY <2>3 DEF Run, CancelHeard
  <2>4. call[c].pc = "submit" => call[c].job \in UpidJobs
    BY DEF CallsTyped
  <2> QED
    BY <1>4, <2>1, <2>2, <2>3, <2>4 DEF CallEffect
<1>5. CASE Restart
  BY <1>5 DEF Restart, CancelHeard
<1>6. CASE UNCHANGED <<signal, exec, heard>>
  BY <1>6 DEF CancelHeard
<1>7. ASSUME NEW j \in Jobs, TaskLogs(j) \/ TaskStops(j) \/ CommandExits(j)
      PROVE  UNCHANGED <<signal, exec, heard>>
  BY <1>7 DEF TaskLogs, TaskStops, CommandExits, server
<1>8. ASSUME NEW c \in Calls, ToolCall(c) \/ CallStep(c)
      PROVE  CancelHeard'
  BY <1>4, <1>8, ToolCallEffect, CallStepEffect
<1>9. ASSUME NEW c \in Calls, TaskStarts(c)
      PROVE  UNCHANGED <<signal, exec, heard>>
  BY <1>9 DEF TaskStarts, server
<1>10. CASE UNCHANGED vars
  BY <1>6, <1>10 DEF vars, server
<1> QED
  BY <1>1, <1>2, <1>3, <1>5, <1>6, <1>7, <1>8, <1>9, <1>10 DEF Next

\* A cancellation is heard at once whenever a session is being made or used.
THEOREM CancelsHeard == Spec => []CancelHeard
<1>1. Init => CancelHeard
  BY DEF Init, CancelHeard, Jobs, LocalJobs
<1>2. Spec => []TypeInv
  BY ServerAlways, PTL DEF ServerInv
<1> QED
  BY <1>1, <1>2, CancelHeardStep, PTL DEF Spec
=============================================================================
