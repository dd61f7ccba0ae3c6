---------------------------- MODULE KernelProofs ----------------------------
(***************************************************************************)
(* Proofs of the safety properties of module Kernel, for every table size  *)
(* of four slots or more.                                                  *)
(***************************************************************************)
EXTENDS Kernel, SequenceTheorems, TLAPS

(* The slots whose numbers the code hard-wires exist and are different. *)
LEMMA FixedSlots ==
  /\ Idle \in Slots /\ User \in Slots /\ Service \in Slots /\ 0 \in Slots
  /\ Idle # User /\ Service # User /\ Idle # Service /\ User # 0 /\ Idle = 0
BY MaxTasksAssumption DEF Slots, Idle, User, Service

USE DEF Dead, TypeOK, ProcTypeOK, IpcTypeOK

LEMMA InitIInv == Init => IInv
<1> SUFFICES ASSUME Init PROVE IInv
  OBVIOUS
<1>1. TypeOK
  BY FixedSlots DEF Init, ProcInit, IpcInit, NoCtx, Ctx, Modes, Calls, ProcState
<1>2. /\ RunningIsCurrent /\ CurrentIsLive /\ KernelThreadsSurvive
      /\ ExitedIsZombie /\ UserOwnsSlot
  BY FixedSlots DEF Init, ProcInit, IpcInit, NoCtx, Ctx, RunningIsCurrent,
     CurrentIsLive, KernelThreadsSurvive, ExitedIsZombie, UserOwnsSlot
<1> QED
  BY <1>1, <1>2, FixedSlots DEF IInv, Init, ProcInit, IpcInit

LEMMA VarsUnchanged == IInv /\ UNCHANGED vars => IInv'
<1> SUFFICES ASSUME IInv, UNCHANGED vars PROVE IInv'
  OBVIOUS
<1>1. /\ state' = state /\ ppid' = ppid /\ exited' = exited /\ waitTarget' = waitTarget
      /\ waitPid' = waitPid /\ stack' = stack /\ cur' = cur /\ active' = active
      /\ buf' = buf /\ pending' = pending /\ queue' = queue
      /\ mode' = mode /\ ctx' = ctx /\ kids' = kids
  BY DEF vars, procVars, lifeVars, ipcVars
<1>2. TypeOK'
  BY <1>1 DEF IInv
<1>3. /\ RunningIsCurrent' /\ CurrentIsLive' /\ KernelThreadsSurvive'
      /\ UserOwnsSlot' /\ ExitedIsZombie'
  BY <1>1 DEF IInv, RunningIsCurrent, CurrentIsLive, KernelThreadsSurvive, UserOwnsSlot,
     ExitedIsZombie
<1> QED
  BY <1>1, <1>2, <1>3 DEF IInv

(* What IInv says of the labels alone. *)
LEMMA LabelsOK ==
  ASSUME IInv
  PROVE  /\ state \in [Slots -> ProcState] /\ cur \in Slots
         /\ RunningIsCurrent /\ CurrentIsLive /\ KernelThreadsSurvive
         /\ state[User] \notin {"READY", "RUNNING", "RECEIVING"}
         /\ \A i \in Slots : state[i] = "BLOCKED" => i = User /\ mode = "spin_wait"
         /\ \A i \in Slots : state[i] = "SENDING" => i = User /\ mode = "spin_send"
BY DEF IInv

(* What IInv says of the life cycle's own fields. *)
LEMMA LifeOK ==
  ASSUME IInv
  PROVE  /\ state \in [Slots -> ProcState] /\ exited \in [Slots -> BOOLEAN]
         /\ ppid \in [Slots -> Slots] /\ waitTarget \in [Slots -> Slots]
         /\ waitPid \in [Slots -> Slots] /\ ExitedIsZombie
BY DEF IInv

(* What the round robin does to the labels: at most the current slot and   *)
(* one READY slot change, and the latter becomes the current one.          *)
LEMMA ScheduleStep ==
  ASSUME IInv, schedule
  PROVE  /\ state' \in [Slots -> ProcState] /\ cur' \in Slots
         /\ \A i \in Slots : state'[i] # state[i] =>
              state[i] \in {"READY", "RUNNING"} /\ state'[i] \in {"READY", "RUNNING"}
         /\ \A i \in Slots : state'[i] = "RUNNING" => i = cur'
         /\ state'[cur'] \notin Dead /\ cur' # User
<1>1. CASE \E j \in Slots : state[j] = "READY"
  <2> PICK n \in Slots : IsNextReady(n) /\ Relabel(n)
    BY <1>1 DEF schedule
  <2>1. state[n] = "READY" /\ n # User
    BY DEF IsNextReady, IInv
  <2> QED
    BY <2>1 DEF Relabel, IInv, RunningIsCurrent, ProcState
<1>2. CASE ~ \E j \in Slots : state[j] = "READY"
  BY <1>2 DEF schedule, IInv, RunningIsCurrent, CurrentIsLive
<1> QED
  BY <1>1, <1>2

(* A step that relabels slots and leaves the rest alone keeps IInv. *)
LEMMA RelabelKeepsIInv ==
  ASSUME IInv, schedule,
         UNCHANGED <<lifeVars, stack, active, ipcVars, mode, ctx, kids>>
  PROVE  IInv'
<1>1. TypeOK'
  BY ScheduleStep DEF IInv, lifeVars, ipcVars
<1>2. RunningIsCurrent' /\ CurrentIsLive'
  BY ScheduleStep DEF RunningIsCurrent, CurrentIsLive
<1>3. KernelThreadsSurvive'
  BY ScheduleStep, FixedSlots, LabelsOK DEF KernelThreadsSurvive
<1>4. UserOwnsSlot'
  BY ScheduleStep, FixedSlots DEF UserOwnsSlot, IInv, ipcVars
<1>5. ExitedIsZombie'
  BY ScheduleStep DEF ExitedIsZombie, IInv, lifeVars
<1>6. /\ (state[User] \notin {"READY", "RUNNING", "RECEIVING"})'
      /\ (\A i \in Slots : state[i] = "BLOCKED" => i = User /\ mode = "spin_wait")'
      /\ (\A i \in Slots : state[i] = "SENDING" => i = User /\ mode = "spin_send")'
  <2>1. state'[User] = state[User]
    BY ScheduleStep, FixedSlots DEF IInv
  <2>2. \A i \in Slots : state'[i] \in {"BLOCKED", "SENDING"} => state'[i] = state[i]
    BY ScheduleStep
  <2> QED
    BY <2>1, <2>2 DEF IInv
<1>7. /\ (\A i \in Slots : stack[i] => i = Service)'
      /\ (mode = "hlt_recv" => ctx.slot # User /\ state[ctx.slot] = "RECEIVING")'
      /\ (\A i \in Slots : queue[i] # <<>> =>
            mode = "spin_send" /\ i = ctx.arg /\ queue[i] = <<User>>)'
  BY ScheduleStep DEF IInv, ipcVars
<1> QED
  BY <1>1, <1>2, <1>3, <1>4, <1>5, <1>6, <1>7 DEF IInv

(* No queue holds a sender except in spin_send. *)
LEMMA NoQueued ==
  ASSUME IInv, mode # "spin_send", NEW r \in Slots, NEW src
  PROVE  Queued(r, src) = {}
<1>1. queue[r] = <<>>
  BY DEF IInv
<1> QED
  BY <1>1 DEF Queued

LEMMA LoopKeepsIInv == IInv /\ KernelLoop => IInv'
<1> SUFFICES ASSUME IInv, KernelLoop PROVE IInv'
  OBVIOUS
<1> USE FixedSlots
<1>1. CASE Irq0
  BY <1>1, RelabelKeepsIInv DEF Irq0
<1>2. CASE ResumeReceive
  <2> DEFINE r == ctx.slot
  <2>1. r \in Slots /\ r # User /\ state[r] = "RECEIVING" /\ Queued(r, ctx.arg) = {}
    BY <1>2, NoQueued DEF IInv, ResumeReceive
  <2>2. CASE HasPending(r, ctx.arg)
    <3>1. /\ state' = [state EXCEPT ![r] = "READY"]
          /\ pending' = [pending EXCEPT ![r] = FALSE]
          /\ mode' = "user" /\ ctx' = NoCtx
          /\ UNCHANGED <<buf, queue, lifeVars, stack, cur, active, kids>>
      BY <1>2, <2>1, <2>2 DEF ResumeReceive, ReceiveTakes, TakeBuffered, WokenState, IInv
    <3>2. TypeOK'
      BY <3>1, <2>1 DEF IInv, lifeVars, NoCtx, Ctx, Modes, Calls, ProcState
    <3>3. UserOwnsSlot'
      BY <3>1, <2>1, <1>2 DEF IInv, UserOwnsSlot, ResumeReceive
    <3>4. RunningIsCurrent' /\ CurrentIsLive' /\ KernelThreadsSurvive'
      BY <3>1, <2>1, LabelsOK DEF RunningIsCurrent, CurrentIsLive, KernelThreadsSurvive
    <3>5. ExitedIsZombie'
      BY <3>1, <2>1, LifeOK DEF ExitedIsZombie, lifeVars
    <3>6. /\ (state[User] \notin {"READY", "RUNNING", "RECEIVING"})'
          /\ (\A i \in Slots : state[i] = "BLOCKED" => i = User /\ mode = "spin_wait")'
          /\ (\A i \in Slots : state[i] = "SENDING" => i = User /\ mode = "spin_send")'
      BY <3>1, <2>1, <1>2, LabelsOK DEF ResumeReceive
    <3>7. /\ (\A i \in Slots : stack[i] => i = Service)'
          /\ (mode = "hlt_recv" => ctx.slot # User /\ state[ctx.slot] = "RECEIVING")'
          /\ (\A i \in Slots : queue[i] # <<>> =>
                mode = "spin_send" /\ i = ctx.arg /\ queue[i] = <<User>>)'
      BY <3>1, <1>2 DEF IInv, ResumeReceive
    <3> QED
      BY <3>2, <3>3, <3>4, <3>5, <3>6, <3>7 DEF IInv
  <2>3. CASE ~HasPending(r, ctx.arg)
    <3>1. state' = state
      BY <1>2, <2>1, <2>3 DEF ResumeReceive, ReceiveBlocks, IInv
    <3>2. UNCHANGED vars
      BY <1>2, <2>1, <2>3, <3>1 DEF ResumeReceive, ReceiveBlocks, vars, procVars,
         ipcVars, lifeVars
    <3> QED
      BY <3>2, VarsUnchanged
  <2> QED
    BY <2>2, <2>3
<1>3. CASE ResumeCall
  <2>1. UNCHANGED vars
    BY <1>3 DEF ResumeCall, IInv, UserOwnsSlot, vars, ipcVars
  <2> QED
    BY <2>1, VarsUnchanged
<1>4. CASE SpinSend
  BY <1>4, RelabelKeepsIInv DEF SpinSend, IInv, UserOwnsSlot
<1>5. CASE SpinWait
  BY <1>5, RelabelKeepsIInv DEF SpinWait, IInv, UserOwnsSlot
<1> QED
  BY <1>1, <1>2, <1>3, <1>4, <1>5 DEF KernelLoop

----------------------------------------------------------------------------
(* The process life cycle *)

(* A system call acts on slot 2, whichever way it looks its caller up. *)
LEMMA CallerIsUser ==
  ASSUME IInv, mode = "user"
  PROVE  process_current_user_or_kernel = User /\ Sender = User
BY FixedSlots DEF IInv, UserOwnsSlot, process_current_user_or_kernel,
   process_find_by_pid, Sender, process_current_task_for_ipc

(* Outside the loop of waitpid nobody is BLOCKED: an exit wakes no one. *)
LEMMA ExitWakesNobody ==
  ASSUME IInv, mode # "spin_wait", NEW p \in Slots, NEW q \in Slots
  PROVE  /\ ExitState(p, q) = [state EXCEPT ![p] = "EXITED"]
         /\ ExitWaitPid(p, q) = waitPid
<1>1. ~WaitsFor(q, p)
  BY DEF IInv, WaitsFor
<1> QED
  BY <1>1 DEF ExitState, ExitWaitPid, IInv

(* A dead slot is none of those the kernel is using. *)
LEMMA DeadSlotUnused ==
  ASSUME IInv, NEW c \in Slots, state[c] \in Dead
  PROVE  /\ c # cur /\ c # Idle /\ c # Service
         /\ c = User => mode = "idle"
BY FixedSlots DEF IInv, CurrentIsLive, KernelThreadsSurvive, UserOwnsSlot, Modes

(* Changing a dead slot c to a state that no loop waits in keeps IInv. *)
LEMMA DeadSlotStep ==
  ASSUME IInv, NEW c \in Slots, state[c] \in Dead, mode # "spin_wait",
         mode # "spin_send",
         NEW st \in {"FREE", "EXITED", "READY"},
         c = User => st # "READY",
         state' = [state EXCEPT ![c] = st],
         exited' = [exited EXCEPT ![c] = (st = "EXITED")],
         ppid' \in [Slots -> Slots], waitTarget' \in [Slots -> Slots],
         waitPid' \in [Slots -> Slots], kids' \in SUBSET Slots,
         active' = active \/ (c = User /\ active' = 0),
         ClearMessages(c), UNCHANGED <<stack, cur, mode, ctx>>
  PROVE  IInv'
<1> USE FixedSlots, DeadSlotUnused
<1>1. TypeOK'
  BY DEF IInv, ClearMessages, ProcState
<1>2. RunningIsCurrent' /\ CurrentIsLive' /\ KernelThreadsSurvive'
  BY DEF IInv, RunningIsCurrent, CurrentIsLive, KernelThreadsSurvive
<1>3. UserOwnsSlot'
  BY DEF IInv, UserOwnsSlot, ClearMessages
<1>4. ExitedIsZombie'
  BY DEF IInv, ExitedIsZombie
<1>5. /\ (state[User] \notin {"READY", "RUNNING", "RECEIVING"})'
      /\ (\A i \in Slots : state[i] = "BLOCKED" => i = User /\ mode = "spin_wait")'
      /\ (\A i \in Slots : state[i] = "SENDING" => i = User /\ mode = "spin_send")'
  BY DEF IInv
<1>6. /\ (\A i \in Slots : stack[i] => i = Service)'
      /\ (mode = "hlt_recv" => ctx.slot # User /\ state[ctx.slot] = "RECEIVING")'
  BY DEF IInv
<1>7. (\A i \in Slots : queue[i] # <<>> =>
            mode = "spin_send" /\ i = ctx.arg /\ queue[i] = <<User>>)'
  BY DEF IInv, ClearMessages
<1> QED
  BY <1>1, <1>2, <1>3, <1>4, <1>5, <1>6, <1>7 DEF IInv

(* The three operations on a dead slot that the shell and a program share. *)
LEMMA LifeCycleKeepsIInv ==
  ASSUME IInv, mode # "spin_wait", mode # "spin_send",
         NEW c \in Slots, NEW q \in Slots, NEW t \in Slots,
         ClearMessages(c), UNCHANGED <<mode, ctx>>, kids' \in SUBSET Slots
  PROVE  /\ AllocAndExit(c, q) => IInv'
         /\ AllocAndFree(c, q) => IInv'
         /\ process_reap_child(c, q, t) => IInv'
<1> USE FixedSlots
<1>1. ASSUME AllocAndExit(c, q) PROVE IInv'
  <2>1. state[c] = "FREE" /\ state' = [state EXCEPT ![c] = "EXITED"]
    BY <1>1, ExitWakesNobody DEF AllocAndExit, IsFirstFree
  <2>2. /\ exited' = [exited EXCEPT ![c] = ("EXITED" = "EXITED")]
        /\ ppid' \in [Slots -> Slots] /\ waitTarget' \in [Slots -> Slots]
        /\ waitPid' \in [Slots -> Slots]
    BY <1>1, ExitWakesNobody, LifeOK DEF AllocAndExit
  <2>3. active' = active \/ (c = User /\ active' = 0)
    BY <1>1, DeadSlotUnused, <2>1 DEF AllocAndExit, IInv
  <2> QED
    BY <1>1, <2>1, <2>2, <2>3, DeadSlotStep DEF AllocAndExit
<1>2. ASSUME AllocAndFree(c, q) PROVE IInv'
  <2>1. state[c] = "FREE" /\ state' = [state EXCEPT ![c] = "FREE"]
    BY <1>2 DEF AllocAndFree, IsFirstFree, IInv
  <2>2. /\ exited' = [exited EXCEPT ![c] = ("FREE" = "EXITED")]
        /\ ppid' \in [Slots -> Slots] /\ waitTarget' \in [Slots -> Slots]
        /\ waitPid' \in [Slots -> Slots]
    BY <1>2 DEF AllocAndFree, process_clear_runtime, IInv
  <2> QED
    BY <1>2, <2>1, <2>2, DeadSlotStep DEF AllocAndFree
<1>3. ASSUME process_reap_child(c, q, t) PROVE IInv'
  <2>1. state[c] = "EXITED" /\ state' = [state EXCEPT ![c] = "FREE"]
    BY <1>3 DEF process_reap_child, IsFirstReapable, Reapable, IInv, ExitedIsZombie
  <2>2. /\ exited' = [exited EXCEPT ![c] = ("FREE" = "EXITED")]
        /\ ppid' \in [Slots -> Slots] /\ waitTarget' \in [Slots -> Slots]
        /\ waitPid' \in [Slots -> Slots]
    BY <1>3 DEF process_reap_child, process_clear_runtime, IInv
  <2> QED
    BY <1>3, <2>1, <2>2, DeadSlotStep DEF process_reap_child
<1> QED
  BY <1>1, <1>2, <1>3

LEMMA ShellKeepsIInv == IInv /\ ShellStep => IInv'
<1> SUFFICES ASSUME IInv, ShellStep PROVE IInv'
  OBVIOUS
<1> USE FixedSlots
<1>0. mode \in {"idle", "hlt_recv", "hlt_call"} /\ kids \in SUBSET Slots
  BY DEF ShellStep, ShellLaunch, ShellSpawn, ShellSpawnFails, ShellWait, IrqOn, IInv
<1>1. CASE ShellLaunch
  <2>1. TypeOK'
    BY <1>1 DEF ShellLaunch, process_bind_user_slot, process_clear_runtime,
       ClearMessages, IInv, NoCtx, Ctx, Modes, Calls, ProcState
  <2>2. state' = [state EXCEPT ![User] = "USER_SLOT"] /\ cur' = cur /\ cur # User
    BY <1>1 DEF ShellLaunch, process_bind_user_slot, IInv, CurrentIsLive
  <2>3. /\ RunningIsCurrent' /\ CurrentIsLive' /\ KernelThreadsSurvive'
    BY <2>2 DEF IInv, RunningIsCurrent, CurrentIsLive, KernelThreadsSurvive
  <2>4. UserOwnsSlot'
    BY <1>1, <2>2 DEF ShellLaunch, process_bind_user_slot, UserOwnsSlot, IInv
  <2>5. ExitedIsZombie'
    BY <1>1, <2>2 DEF ShellLaunch, process_bind_user_slot, process_clear_runtime,
       ExitedIsZombie, IInv
  <2>6. /\ (state[User] \notin {"READY", "RUNNING", "RECEIVING"})'
        /\ (\A i \in Slots : state[i] = "BLOCKED" => i = User /\ mode = "spin_wait")'
        /\ (\A i \in Slots : state[i] = "SENDING" => i = User /\ mode = "spin_send")'
    BY <1>0, <2>2 DEF IInv
  <2>7. /\ (\A i \in Slots : stack[i] => i = Service)'
        /\ (mode = "hlt_recv" => ctx.slot # User /\ state[ctx.slot] = "RECEIVING")'
        /\ (\A i \in Slots : queue[i] # <<>> =>
              mode = "spin_send" /\ i = ctx.arg /\ queue[i] = <<User>>)'
    BY <1>0, <1>1 DEF ShellLaunch, process_bind_user_slot, ClearMessages, IInv
  <2> QED
    BY <2>1, <2>3, <2>4, <2>5, <2>6, <2>7 DEF IInv
<1>2. CASE ShellSpawn
  BY <1>0, <1>2, LifeCycleKeepsIInv DEF ShellSpawn
<1>3. CASE ShellSpawnFails
  BY <1>0, <1>3, LifeCycleKeepsIInv DEF ShellSpawnFails
<1>4. ASSUME NEW t \in Slots, ShellWait(t) PROVE IInv'
  BY <1>0, <1>4, LifeCycleKeepsIInv DEF ShellWait
<1> QED
  BY <1>1, <1>2, <1>3, <1>4 DEF ShellStep

LEMMA ProcSyscallKeepsIInv == IInv /\ ProcSyscall => IInv'
<1> SUFFICES ASSUME IInv, ProcSyscall PROVE IInv'
  OBVIOUS
<1> USE FixedSlots
<1>0. mode = "user" /\ kids \in SUBSET Slots
  BY DEF ProcSyscall, SysSpawn, SysSpawnFails, SysFork, SysWaitpidReaps,
     SysWaitpidBlocks, SysExit, IInv
<1>u. /\ process_current_user_or_kernel = User /\ active = User /\ cur # User
      /\ state[User] \in {"USER_SLOT", "WAITING_REPLY"}
  BY <1>0, CallerIsUser DEF IInv, UserOwnsSlot, CurrentIsLive
<1>1. CASE SysSpawn
  BY <1>0, <1>u, <1>1, LifeCycleKeepsIInv DEF SysSpawn
<1>2. CASE SysSpawnFails
  BY <1>0, <1>u, <1>2, LifeCycleKeepsIInv DEF SysSpawnFails
<1>3. CASE SysFork
  <2> PICK c \in Slots : /\ process_alloc_user(c, User) /\ ClearMessages(c)
                         /\ kids' = kids \cup {c}
    BY <1>3, <1>u DEF SysFork
  <2>1. state[c] = "FREE" /\ state' = [state EXCEPT ![c] = "READY"] /\ c # User
    BY <1>u DEF process_alloc_user, IsFirstFree
  <2>2. /\ exited' = [exited EXCEPT ![c] = ("READY" = "EXITED")]
        /\ ppid' \in [Slots -> Slots] /\ waitTarget' \in [Slots -> Slots]
        /\ waitPid' \in [Slots -> Slots] /\ kids' \in SUBSET Slots
    BY <1>0 DEF process_alloc_user, process_clear_runtime, IInv
  <2> QED
    BY <1>0, <1>3, <2>1, <2>2, DeadSlotStep DEF process_alloc_user, SysFork
<1>4. ASSUME NEW t \in Slots, SysWaitpidReaps(t) PROVE IInv'
  BY <1>0, <1>u, <1>4, LifeCycleKeepsIInv DEF SysWaitpidReaps
<1>5. ASSUME NEW t \in Slots, SysWaitpidBlocks(t) PROVE IInv'
  <2>1. /\ state' = [state EXCEPT ![User] = "BLOCKED"]
        /\ mode' = "spin_wait" /\ ctx' = Ctx("waitpid", User, t)
        /\ waitTarget' = [waitTarget EXCEPT ![User] = t]
        /\ UNCHANGED <<ppid, exited, waitPid, stack, cur, active, buf, pending, queue, kids>>
    BY <1>u, <1>5 DEF SysWaitpidBlocks, ipcVars
  <2>2. TypeOK'
    BY <2>1 DEF IInv, Ctx, Modes, Calls, ProcState
  <2>3. RunningIsCurrent' /\ CurrentIsLive' /\ KernelThreadsSurvive'
    BY <1>u, <2>1, LabelsOK DEF RunningIsCurrent, CurrentIsLive, KernelThreadsSurvive
  <2>4. UserOwnsSlot'
    BY <1>u, <2>1, LabelsOK DEF UserOwnsSlot, Ctx
  <2>5. ExitedIsZombie'
    BY <1>u, <2>1, LifeOK DEF ExitedIsZombie
  <2>6. /\ (state[User] \notin {"READY", "RUNNING", "RECEIVING"})'
        /\ (\A i \in Slots : state[i] = "BLOCKED" => i = User /\ mode = "spin_wait")'
        /\ (\A i \in Slots : state[i] = "SENDING" => i = User /\ mode = "spin_send")'
    BY <1>0, <2>1, LabelsOK
  <2>7. /\ (\A i \in Slots : stack[i] => i = Service)'
        /\ (\A i \in Slots : queue[i] # <<>> =>
              mode = "spin_send" /\ i = ctx.arg /\ queue[i] = <<User>>)'
    BY <1>0, <2>1 DEF IInv
  <2> QED
    BY <2>1, <2>2, <2>3, <2>4, <2>5, <2>6, <2>7 DEF IInv
<1>6. CASE SysExit
  <2>1. /\ state' = [state EXCEPT ![User] = "EXITED"]
        /\ exited' = [exited EXCEPT ![User] = TRUE]
        /\ active' = 0 /\ mode' = "idle"
        /\ UNCHANGED <<ppid, waitTarget, waitPid, stack, cur, buf, pending, queue, ctx, kids>>
    BY <1>0, <1>u, <1>6, ExitWakesNobody DEF SysExit, process_mark_exit, ipcVars, IInv
  <2>2. TypeOK'
    BY <2>1 DEF IInv, Modes, ProcState
  <2>3. RunningIsCurrent' /\ CurrentIsLive' /\ KernelThreadsSurvive'
    BY <1>u, <2>1, LabelsOK DEF RunningIsCurrent, CurrentIsLive, KernelThreadsSurvive
  <2>4. UserOwnsSlot'
    BY <2>1 DEF UserOwnsSlot
  <2>5. ExitedIsZombie'
    BY <1>u, <2>1, LifeOK DEF ExitedIsZombie
  <2>6. /\ (state[User] \notin {"READY", "RUNNING", "RECEIVING"})'
        /\ (\A i \in Slots : state[i] = "BLOCKED" => i = User /\ mode = "spin_wait")'
        /\ (\A i \in Slots : state[i] = "SENDING" => i = User /\ mode = "spin_send")'
    BY <1>0, <2>1, LabelsOK
  <2>7. /\ (\A i \in Slots : stack[i] => i = Service)'
        /\ (\A i \in Slots : queue[i] # <<>> =>
              mode = "spin_send" /\ i = ctx.arg /\ queue[i] = <<User>>)'
    BY <1>0, <2>1 DEF IInv
  <2> QED
    BY <2>1, <2>2, <2>3, <2>4, <2>5, <2>6, <2>7 DEF IInv
<1> QED
  BY <1>1, <1>2, <1>3, <1>4, <1>5, <1>6 DEF ProcSyscall

----------------------------------------------------------------------------
(* IPC *)

(* A step of ring 3 that leaves the life cycle alone keeps IInv when it    *)
(* only moves slot 2 between the states its mode allows and slots that are *)
(* alive between states of the round robin.                                *)
LEMMA MessageStep ==
  ASSUME IInv, mode = "user", TypeOK',
         UNCHANGED <<lifeVars, stack, cur, active, kids>>,
         \A i \in Slots \ {User} : state'[i] # state[i] =>
           /\ state[i] \notin Dead
           /\ state'[i] \in {"READY", "RECEIVING", "WAITING_REPLY"},
         state'[User] \in {"USER_SLOT", "WAITING_REPLY", "SENDING"},
         state'[User] = "SENDING" <=> mode' = "spin_send",
         mode' \in {"user", "spin_send", "hlt_recv", "hlt_call"},
         mode' \in {"spin_send", "hlt_call"} => ctx'.slot = User,
         mode' = "hlt_call" => state'[User] = "WAITING_REPLY" /\ ~pending'[User],
         mode' = "hlt_recv" => ctx'.slot # User /\ state'[ctx'.slot] = "RECEIVING",
         \A i \in Slots : queue'[i] # <<>> =>
           mode' = "spin_send" /\ i = ctx'.arg /\ queue'[i] = <<User>>
  PROVE  IInv'
<1> USE FixedSlots
<1> HIDE DEF TypeOK
<1>1. state[User] \in {"USER_SLOT", "WAITING_REPLY"} /\ active = User
  BY DEF IInv, UserOwnsSlot
<1>2. RunningIsCurrent' /\ CurrentIsLive' /\ KernelThreadsSurvive'
  <2>1. /\ cur' = cur /\ cur \in Slots /\ cur # User /\ state[cur] \notin Dead
        /\ state[Idle] \notin Dead /\ state[Service] \notin Dead
        /\ \A i \in Slots : state[i] = "RUNNING" => i = cur
    BY LabelsOK DEF RunningIsCurrent, CurrentIsLive, KernelThreadsSurvive
  <2>2. \A i \in Slots : state'[i] = "RUNNING" => state[i] = "RUNNING"
    OBVIOUS
  <2>3. \A i \in Slots : i # User /\ state[i] \notin Dead => state'[i] \notin Dead
    OBVIOUS
  <2> QED
    BY <2>1, <2>2, <2>3 DEF RunningIsCurrent, CurrentIsLive, KernelThreadsSurvive
<1>3. UserOwnsSlot'
  BY <1>1 DEF UserOwnsSlot
<1>4. ExitedIsZombie'
  BY <1>1, LifeOK DEF ExitedIsZombie, lifeVars
<1>5. /\ (state[User] \notin {"READY", "RUNNING", "RECEIVING"})'
      /\ (\A i \in Slots : state[i] = "BLOCKED" => i = User /\ mode = "spin_wait")'
      /\ (\A i \in Slots : state[i] = "SENDING" => i = User /\ mode = "spin_send")'
  BY LabelsOK
<1>6. /\ (\A i \in Slots : stack[i] => i = Service)'
      /\ (mode = "hlt_recv" => ctx.slot # User /\ state[ctx.slot] = "RECEIVING")'
      /\ (\A i \in Slots : queue[i] # <<>> =>
            mode = "spin_send" /\ i = ctx.arg /\ queue[i] = <<User>>)'
  BY DEF IInv
<1> QED
  BY <1>2, <1>3, <1>4, <1>5, <1>6 DEF IInv

LEMMA IpcKeepsIInv == IInv /\ IpcSyscall => IInv'
<1> SUFFICES ASSUME IInv, IpcSyscall PROVE IInv'
  OBVIOUS
<1> USE FixedSlots
<1>0. mode = "user"
  BY DEF IpcSyscall, SysIpcSend, SysIpcCall, SysIpcRecv, SysIpcReply, SysOpen, SendAndWait
<1>u. /\ Sender = User /\ active = User /\ cur # User /\ state[cur] \notin Dead
      /\ state[User] \in {"USER_SLOT", "WAITING_REPLY"}
      /\ \A i \in Slots : queue[i] = <<>>
  BY <1>0, CallerIsUser DEF IInv, UserOwnsSlot, CurrentIsLive
<1>1. ASSUME NEW d \in Slots, SendDelivers(User, d)
      PROVE  /\ d # User /\ state[d] = "RECEIVING"
             /\ state' = [state EXCEPT ![d] = "READY", ![User] = "WAITING_REPLY"]
             /\ buf' = [buf EXCEPT ![d] = User] /\ queue' = queue
             /\ process_current_task_for_ipc(SentState(User, d)) = User
  BY <1>u, <1>1 DEF SendDelivers, SendRefused, SentState, WokenState,
     process_current_task_for_ipc, IInv
<1>2. ASSUME NEW d \in Slots, SendQueues(User, d),
             mode' = "spin_send", NEW call \in Calls, ctx' = Ctx(call, User, d),
             UNCHANGED <<lifeVars, stack, cur, active, kids>>
      PROVE  IInv'
  <2>1. /\ state' = [state EXCEPT ![User] = "SENDING"]
        /\ buf' = [buf EXCEPT ![User] = User]
        /\ queue' = [queue EXCEPT ![d] = <<User>>] /\ pending' = pending
    <3>1. <<User>> \o queue[d] = <<User>>
      <4>1. <<User>> \in Seq(Slots) /\ queue[d] = <<>>
        BY <1>u
      <4> QED
        BY <4>1, ConcatEmptySeq
    <3> QED
      BY <1>2, <3>1 DEF SendQueues
  <2>2. TypeOK'
    <3>1. <<User>> \in Seq(Slots)
      OBVIOUS
    <3>2. ctx' \in [call : Calls, slot : Slots, arg : Slots] /\ mode' \in Modes
      BY <1>2 DEF Ctx, Modes
    <3> QED
      BY <1>2, <2>1, <3>1, <3>2 DEF IInv, lifeVars, ProcState
  <2>3. /\ \A i \in Slots \ {User} : state'[i] = state[i]
        /\ state'[User] = "SENDING"
    BY <2>1 DEF IInv
  <2>4. ctx'.slot = User /\ ctx'.arg = d
    BY <1>2 DEF Ctx
  <2>5. \A i \in Slots : queue'[i] # <<>> => i = ctx'.arg /\ queue'[i] = <<User>>
    BY <1>u, <2>1, <2>4 DEF IInv
  <2> QED
    BY <1>0, <1>2, <2>2, <2>3, <2>4, <2>5, MessageStep
<1>3. ASSUME NEW d \in Slots, SysIpcSend(d) PROVE IInv'
  <2>1. CASE SendDelivers(Sender, d) /\ pending' = [pending EXCEPT ![d] = TRUE]
             /\ UNCHANGED <<mode, ctx>>
    <3>0. /\ state' = [state EXCEPT ![d] = "READY", ![User] = "WAITING_REPLY"]
          /\ buf' = [buf EXCEPT ![d] = User] /\ queue' = queue /\ state[d] = "RECEIVING"
          /\ UNCHANGED <<lifeVars, stack, cur, active, kids>>
      BY <1>u, <1>1, <1>3, <2>1 DEF SysIpcSend
    <3>1. TypeOK'
      BY <2>1, <3>0 DEF IInv, lifeVars, ProcState
    <3>2. /\ \A i \in Slots \ {User} : state'[i] # state[i] =>
               state[i] = "RECEIVING" /\ state'[i] = "READY"
          /\ state'[User] = "WAITING_REPLY" /\ queue' = queue
      BY <3>0, LabelsOK
    <3> QED
      BY <1>0, <1>u, <1>3, <2>1, <3>1, <3>2, MessageStep DEF SysIpcSend
  <2>2. CASE SendQueues(Sender, d) /\ mode' = "spin_send" /\ ctx' = Ctx("send", Sender, d)
    BY <1>u, <1>2, <1>3, <2>2 DEF SysIpcSend, Calls
  <2> QED
    BY <1>3, <2>1, <2>2 DEF SysIpcSend
<1>4. ASSUME NEW d \in Slots, NEW call \in {"call", "open"}, SendAndWait(call, d)
      PROVE  IInv'
  <2>1. CASE SendDelivers(Sender, d)
    <3>1. /\ pending' = [pending EXCEPT ![d] = TRUE, ![User] = FALSE]
          /\ \/ mode' = mode /\ ctx' = ctx
             \/ mode' = "hlt_call" /\ ctx' = Ctx(call, User, d)
          /\ UNCHANGED <<lifeVars, stack, cur, active, kids>>
      BY <1>u, <1>1, <1>4, <2>1 DEF SendAndWait, TakePending, SendQueues, SendDelivers
    <3>0. /\ state' = [state EXCEPT ![d] = "READY", ![User] = "WAITING_REPLY"]
          /\ buf' = [buf EXCEPT ![d] = User] /\ queue' = queue /\ state[d] = "RECEIVING"
      BY <1>u, <1>1, <2>1
    <3>2. TypeOK'
      <4>1. ctx' \in [call : Calls, slot : Slots, arg : Slots] /\ mode' \in Modes
        <5>1. ctx \in [call : Calls, slot : Slots, arg : Slots] /\ mode \in Modes
          BY DEF IInv
        <5>2. Ctx(call, User, d) \in [call : Calls, slot : Slots, arg : Slots]
          BY DEF Ctx, Calls
        <5> QED
          BY <3>1, <5>1, <5>2 DEF Modes
      <4>2. pending' \in [Slots -> BOOLEAN] /\ buf' \in [Slots -> Slots]
        <5> DEFINE p1 == [pending EXCEPT ![d] = TRUE]
        <5>1. p1 \in [Slots -> BOOLEAN]
          BY DEF IInv
        <5>2. pending' = [p1 EXCEPT ![User] = FALSE]
          BY <3>1
        <5>3. pending' \in [Slots -> BOOLEAN]
          BY <5>1, <5>2
        <5>4. buf' \in [Slots -> Slots]
          BY <3>0 DEF IInv
        <5> QED
          BY <5>3, <5>4
      <4>3. state' \in [Slots -> ProcState] /\ queue' = queue
        BY <3>0, LabelsOK DEF ProcState
      <4> QED
        BY <3>1, <4>1, <4>2, <4>3 DEF IInv, lifeVars
    <3>3. ~pending'[User]
      BY <3>1 DEF IInv
    <3>4. mode' = "hlt_call" => ctx'.slot = User
      BY <1>0, <3>1 DEF Ctx
    <3>5. /\ \A i \in Slots \ {User} : state'[i] # state[i] =>
               state[i] = "RECEIVING" /\ state'[i] = "READY"
          /\ state'[User] = "WAITING_REPLY" /\ queue' = queue
      BY <3>0, LabelsOK
    <3> QED
      BY <1>0, <1>u, <3>1, <3>2, <3>3, <3>4, <3>5, MessageStep
  <2>2. CASE SendQueues(Sender, d) /\ mode' = "spin_send" /\ ctx' = Ctx(call, Sender, d)
    BY <1>u, <1>2, <1>4, <2>2 DEF SendAndWait, Calls
  <2> QED
    BY <1>4, <2>1, <2>2 DEF SendAndWait
<1>5. ASSUME NEW src \in Slots, SysIpcRecv(src) PROVE IInv'
  <2>1. Queued(cur, src) = {} /\ cur \in Slots
    BY <1>0, NoQueued DEF IInv
  <2>2. CASE ReceiveTakes(cur, src) /\ UNCHANGED <<mode, ctx>>
    <3>1. /\ state' = [state EXCEPT ![cur] = IF @ = "RECEIVING" THEN "READY" ELSE @]
          /\ pending' = [pending EXCEPT ![cur] = FALSE] /\ UNCHANGED <<buf, queue>>
      BY <1>u, <2>1, <2>2 DEF ReceiveTakes, TakeBuffered, WokenState
    <3>2. TypeOK'
      BY <1>5, <2>1, <2>2, <3>1 DEF SysIpcRecv, IInv, lifeVars, ProcState
    <3> QED
      BY <1>0, <1>u, <1>5, <2>1, <2>2, <3>1, <3>2, MessageStep DEF SysIpcRecv, IInv
  <2>3. CASE ReceiveBlocks(cur, src) /\ mode' = "hlt_recv" /\ ctx' = Ctx("recv", cur, src)
    <3>1. TypeOK'
      BY <1>5, <2>1, <2>3 DEF SysIpcRecv, ReceiveBlocks, IInv, lifeVars, ipcVars,
         ProcState, Ctx, Calls, Modes
    <3> QED
      BY <1>0, <1>u, <1>5, <2>1, <2>3, <3>1, MessageStep DEF SysIpcRecv,
         ReceiveBlocks, ipcVars, IInv, Ctx
  <2> QED
    BY <1>5, <2>2, <2>3 DEF SysIpcRecv
<1>6. ASSUME NEW d \in Slots, SysIpcReply(d) PROVE IInv'
  <2>1. /\ state' = [state EXCEPT ![d] = IF d = User THEN "USER_SLOT" ELSE "READY"]
        /\ state[d] = "WAITING_REPLY"
    BY <1>u, <1>6 DEF SysIpcReply, ipc_reply, WokenState
  <2>2. TypeOK'
    BY <1>6, <2>1 DEF SysIpcReply, ipc_reply, IInv, lifeVars, ProcState
  <2> QED
    <3>1. /\ \A i \in Slots \ {User} : state'[i] # state[i] =>
               state[i] = "WAITING_REPLY" /\ state'[i] = "READY"
          /\ state'[User] \in {"USER_SLOT", "WAITING_REPLY"}
      BY <1>u, <2>1 DEF IInv
    <3> QED
      BY <1>0, <1>u, <1>6, <2>2, <3>1, MessageStep DEF SysIpcReply, ipc_reply
<1> QED
  BY <1>3, <1>4, <1>5, <1>6 DEF IpcSyscall, SysIpcCall, SysOpen

----------------------------------------------------------------------------
LEMMA NextKeepsIInv == IInv /\ [Next]_vars => IInv'
<1> SUFFICES ASSUME IInv, [Next]_vars PROVE IInv'
  OBVIOUS
<1>1. CASE CpuException
  <2>1. mode = "user" /\ mode' = "halted" /\ UNCHANGED <<procVars, ipcVars, ctx, kids>>
    BY <1>1 DEF CpuException
  <2> QED
    BY <2>1 DEF IInv, procVars, ipcVars, Modes, RunningIsCurrent, CurrentIsLive,
       KernelThreadsSurvive, UserOwnsSlot, ExitedIsZombie
<1>2. CASE Halted \/ UNCHANGED vars
  BY <1>2, VarsUnchanged DEF Halted
<1> QED
  BY <1>1, <1>2, LoopKeepsIInv, ShellKeepsIInv, ProcSyscallKeepsIInv, IpcKeepsIInv DEF Next

(* IInv holds in every reachable state, for every size of the table. *)
THEOREM KernelInvariant == Spec => []IInv
BY InitIInv, NextKeepsIInv, PTL DEF Spec

(* Every variable keeps its type: current_task_idx, pids and queue entries *)
(* stay inside the table.                                                  *)
THEOREM KernelTypes == Spec => []TypeOK
<1>1. IInv => TypeOK
  BY DEF IInv
<1> QED
  BY <1>1, KernelInvariant, PTL

(* schedule(), IPC and the life cycle leave one RUNNING label, on the slot *)
(* current_task_idx names, and that slot is alive and not ring 3's.        *)
THEOREM OneRunningLabel == Spec => [](RunningIsCurrent /\ CurrentIsLive)
<1>1. IInv => RunningIsCurrent /\ CurrentIsLive
  BY DEF IInv
<1> QED
  BY <1>1, KernelInvariant, PTL

(* exited is set just in the slots that wait to be reaped. *)
THEOREM ZombiesAreMarked == Spec => []ExitedIsZombie
<1>1. IInv => ExitedIsZombie
  BY DEF IInv
<1> QED
  BY <1>1, KernelInvariant, PTL

(* spawn, wait, fork, exit and launch never free or end slots 0 and 3. *)
THEOREM KernelThreadsNeverDie == Spec => []KernelThreadsSurvive
<1>1. IInv => KernelThreadsSurvive
  BY DEF IInv
<1> QED
  BY <1>1, KernelInvariant, PTL

(* A blocked system call finds its caller again in slot 2. *)
THEOREM UserKeepsSlot == Spec => []UserOwnsSlot
<1>1. IInv => UserOwnsSlot
  BY DEF IInv
<1> QED
  BY <1>1, KernelInvariant, PTL

(* process_reap_child never frees a stack page, so none is freed twice. *)
THEOREM NoStackFreedTwice == Spec => []DeadOwnNoStack
<1>1. IInv => DeadOwnNoStack
  BY FixedSlots DEF IInv, DeadOwnNoStack, KernelThreadsSurvive
<1> QED
  BY <1>1, KernelInvariant, PTL

(* Every PCB linked into a sender_queue is SENDING and is linked once. *)
THEOREM QueuesHoldSenders == Spec => []NoDanglingSender
<1>1. IInv => NoDanglingSender
  <2> SUFFICES ASSUME IInv, NEW i \in Slots, NEW j \in Slots,
                      NEW m \in DOMAIN queue[i], NEW n \in DOMAIN queue[j]
               PROVE  /\ state[queue[i][m]] = "SENDING"
                      /\ queue[i][m] = queue[j][n] => i = j /\ m = n
    BY DEF NoDanglingSender
  <2>1. queue[i] # <<>> /\ queue[j] # <<>>
    OBVIOUS
  <2>2. /\ queue[i] = <<User>> /\ queue[j] = <<User>> /\ i = ctx.arg /\ j = ctx.arg
        /\ mode = "spin_send"
    BY <2>1 DEF IInv
  <2>3. state[User] = "SENDING" /\ <<User>>[1] = User /\ DOMAIN <<User>> = {1}
    BY <2>2 DEF IInv, UserOwnsSlot
  <2> QED
    BY <2>2, <2>3
<1> QED
  BY <1>1, KernelInvariant, PTL

(***************************************************************************)
(* How zombies go                                                          *)
(***************************************************************************)
(* What ZombiesAreReaped says of one step.                                 *)
Reaped ==
  \A i \in Slots :
    /\ state[i] # "FREE" /\ state'[i] = "FREE" =>
         /\ state[i] = "EXITED"
         /\ ppid[i] = IF mode = "user" THEN User ELSE 0
    /\ state[i] = "EXITED" /\ i # User => state'[i] \in Dead

(* Only the living change, apart from slot 2, and none of them to FREE.    *)
DeadStay ==
  \A i \in Slots : state'[i] # state[i] =>
    /\ state'[i] # "FREE"
    /\ i = User \/ state[i] # "EXITED"

(* Such a step reaps nobody.                                               *)
LEMMA DeadStayReaped == ASSUME DeadStay PROVE Reaped
BY DEF DeadStay, Reaped, Dead

(* The loops of the kernel relabel and wake slots only.                    *)
LEMMA LoopReaps == ASSUME IInv, KernelLoop PROVE DeadStay
<1> USE FixedSlots
<1>1. state \in [Slots -> ProcState]
  BY LabelsOK
<1>2. CASE schedule
  BY <1>2, ScheduleStep, Zenon DEF DeadStay
<1>3. CASE state' = state
  BY <1>3, Zenon DEF DeadStay
<1>4. CASE ResumeReceive
  <2>1. ctx.slot \in Slots /\ mode = "hlt_recv" /\ state[ctx.slot] = "RECEIVING"
    BY <1>4 DEF IInv, ResumeReceive, TypeOK
  <2>2. Queued(ctx.slot, ctx.arg) = {}
    BY <2>1, NoQueued
  <2>3. \E st \in {"RECEIVING", "READY", "USER_SLOT"} : state' = [state EXCEPT ![ctx.slot] = st]
    BY <1>4, <2>1, <2>2 DEF ResumeReceive, ReceiveTakes, TakeBuffered, ReceiveBlocks, WokenState
  <2> QED
    BY <1>1, <2>1, <2>3 DEF DeadStay
<1>5. CASE SpinWait
  <2>1. state[ctx.slot] = "BLOCKED"
    BY <1>5 DEF SpinWait, IInv, UserOwnsSlot
  <2> QED
    BY <1>2, <1>5, <2>1 DEF SpinWait
<1> QED
  BY <1>2, <1>3, <1>4, <1>5 DEF KernelLoop, Irq0, ResumeCall, SpinSend, procVars

(* Which slots the life cycle changes, and to what.                        *)
LEMMA LifeCycleReaps ==
  ASSUME IInv, mode # "spin_wait", NEW c \in Slots, NEW q \in Slots, NEW t \in Slots,
         q = IF mode = "user" THEN User ELSE 0
  PROVE  /\ AllocAndExit(c, q) => Reaped
         /\ AllocAndFree(c, q) => Reaped
         /\ process_alloc_user(c, q) => Reaped
         /\ process_reap_child(c, q, t) => Reaped
<1>1. state \in [Slots -> ProcState] /\ ExitedIsZombie
  BY LifeOK
<1>2. ASSUME AllocAndExit(c, q) PROVE Reaped
  <2>1. state[c] = "FREE" /\ state' = [state EXCEPT ![c] = "EXITED"]
    BY <1>2, ExitWakesNobody DEF AllocAndExit, IsFirstFree
  <2> QED
    BY <1>1, <2>1 DEF Reaped, Dead
<1>3. ASSUME AllocAndFree(c, q) PROVE Reaped
  <2>1. state' = state
    BY <1>3 DEF AllocAndFree
  <2> QED
    BY <2>1 DEF Reaped, Dead
<1>4. ASSUME process_alloc_user(c, q) PROVE Reaped
  <2>1. state[c] = "FREE" /\ state' = [state EXCEPT ![c] = "READY"]
    BY <1>4 DEF process_alloc_user, IsFirstFree
  <2> QED
    BY <1>1, <2>1 DEF Reaped, Dead
<1>5. ASSUME process_reap_child(c, q, t) PROVE Reaped
  <2>1. exited[c] /\ ppid[c] = q /\ state' = [state EXCEPT ![c] = "FREE"]
    BY <1>5 DEF process_reap_child, IsFirstReapable, Reapable
  <2>2. state[c] = "EXITED"
    BY <1>1, <2>1 DEF ExitedIsZombie
  <2> QED
    BY <1>1, <2>1, <2>2 DEF Reaped, Dead
<1> QED
  BY <1>2, <1>3, <1>4, <1>5

(* The shell's commands.                                                   *)
LEMMA ShellReaps == ASSUME IInv, ShellStep PROVE Reaped
<1> USE FixedSlots
<1>1. mode # "user" /\ mode # "spin_wait"
  BY DEF ShellStep, ShellLaunch, ShellSpawn, ShellSpawnFails, ShellWait, IrqOn
<1>2. CASE ShellLaunch
  <2>1. state' = [state EXCEPT ![User] = "USER_SLOT"]
    BY <1>2 DEF ShellLaunch, process_bind_user_slot
  <2>2. state \in [Slots -> ProcState]
    BY LabelsOK
  <2> QED
    BY <2>1, <2>2 DEF Reaped, Dead
<1>3. 0 = IF mode = "user" THEN User ELSE 0
  BY <1>1
<1>4. \A c, t \in Slots : /\ AllocAndExit(c, 0) => Reaped
                          /\ AllocAndFree(c, 0) => Reaped
                          /\ process_reap_child(c, 0, t) => Reaped
  BY <1>1, <1>3, LifeCycleReaps
<1> QED
  BY <1>2, <1>4, Zenon DEF ShellStep, ShellSpawn, ShellSpawnFails, ShellWait

(* The system calls of the life cycle.                                     *)
LEMMA ProcSyscallReaps == ASSUME IInv, ProcSyscall PROVE Reaped
<1> USE FixedSlots
<1>1. mode = "user"
  BY DEF ProcSyscall, SysSpawn, SysSpawnFails, SysFork, SysWaitpidReaps, SysWaitpidBlocks, SysExit
<1>2. process_current_user_or_kernel = User
  BY <1>1, CallerIsUser
<1>3. \A c, t \in Slots : /\ AllocAndExit(c, User) => Reaped
                          /\ AllocAndFree(c, User) => Reaped
                          /\ process_alloc_user(c, User) => Reaped
                          /\ process_reap_child(c, User, t) => Reaped
  BY <1>1, LifeCycleReaps
<1>4. state \in [Slots -> ProcState] /\ ppid \in [Slots -> Slots]
  BY LifeOK
<1>5. CASE \E t \in Slots : SysWaitpidBlocks(t)
  <2>1. state' = [state EXCEPT ![User] = "BLOCKED"]
    BY <1>2, <1>5 DEF SysWaitpidBlocks
  <2> QED
    BY <1>4, <2>1 DEF Reaped, Dead
<1>6. CASE SysExit
  <2>1. state' = [state EXCEPT ![User] = "EXITED"]
    BY <1>1, <1>2, <1>4, <1>6, ExitWakesNobody DEF SysExit, process_mark_exit
  <2> QED
    BY <1>4, <2>1 DEF Reaped, Dead
<1> QED
  BY <1>2, <1>3, <1>5, <1>6, Zenon DEF ProcSyscall, SysSpawn, SysSpawnFails, SysFork, SysWaitpidReaps

(* The system calls that pass messages.                                    *)
LEMMA IpcReaps == ASSUME IInv, IpcSyscall PROVE DeadStay
<1> USE FixedSlots
<1>1. mode = "user"
  BY DEF IpcSyscall, SysIpcSend, SysIpcCall, SysIpcRecv, SysIpcReply, SysOpen, SendAndWait
<1>2. Sender = User
  BY <1>1, CallerIsUser
<1>3. state \in [Slots -> ProcState] /\ cur \in Slots /\ CurrentIsLive
  BY LabelsOK
<1>4. ASSUME NEW d \in Slots, SendDelivers(Sender, d) PROVE DeadStay
  <2>1. state[d] = "RECEIVING"
    BY <1>4 DEF SendDelivers
  <2>2. \E st \in {"READY", "USER_SLOT"} :
          state' = [state EXCEPT ![d] = st, ![User] = "WAITING_REPLY"]
    BY <1>2, <1>4 DEF SendDelivers, SentState, WokenState
  <2> QED
    BY <1>3, <2>1, <2>2 DEF DeadStay
<1>5. ASSUME NEW d \in Slots, SendQueues(Sender, d) PROVE DeadStay
  <2>1. state' = [state EXCEPT ![User] = "SENDING"]
    BY <1>2, <1>5 DEF SendQueues
  <2> QED
    BY <1>3, <2>1 DEF DeadStay
<1>6. ASSUME NEW src \in Slots, SysIpcRecv(src) PROVE DeadStay
  <2>1. Queued(cur, src) = {}
    BY <1>1, <1>3, NoQueued
  <2>2. state[cur] # "EXITED"
    BY <1>3 DEF CurrentIsLive, Dead
  <2>3. CASE ReceiveTakes(cur, src)
    <3>1. TakeBuffered(cur)
      BY <2>1, <2>3 DEF ReceiveTakes
    <3>2. \E st \in {"READY", "USER_SLOT", state[cur]} : state' = [state EXCEPT ![cur] = st]
      BY <3>1 DEF TakeBuffered, WokenState
    <3> QED
      BY <1>3, <2>2, <3>2 DEF DeadStay
  <2>4. CASE ReceiveBlocks(cur, src)
    <3>1. state' = [state EXCEPT ![cur] = "RECEIVING"]
      BY <2>4 DEF ReceiveBlocks
    <3> QED
      BY <1>3, <2>2, <3>1 DEF DeadStay
  <2> QED
    BY <1>6, <2>3, <2>4 DEF SysIpcRecv
<1>7. ASSUME NEW d \in Slots, SysIpcReply(d) PROVE DeadStay
  <2>1. state[d] = "WAITING_REPLY"
    BY <1>7 DEF SysIpcReply, ipc_reply
  <2>2. \E st \in {"READY", "USER_SLOT"} : state' = [state EXCEPT ![d] = st]
    BY <1>7 DEF SysIpcReply, ipc_reply, WokenState
  <2> QED
    BY <1>3, <2>1, <2>2 DEF DeadStay
<1> QED
  BY <1>4, <1>5, <1>6, <1>7, Zenon DEF IpcSyscall, SysIpcSend, SysIpcCall, SysOpen, SendAndWait

(* A slot becomes FREE only as a zombie reaped by its parent: by slot 0 or *)
(* by the ring 3 program; and a zombie, other than one in the slot a       *)
(* launch rebinds, stays until then.                                       *)
THEOREM OnlyParentsReap == Spec => ZombiesAreReaped
<1>1. ASSUME IInv, Next PROVE Reaped
  <2>1. CASE CpuException \/ Halted
    <3>1. state' = state
      BY <2>1 DEF CpuException, Halted, vars, procVars
    <3> QED
      BY <3>1, DeadStayReaped, Zenon DEF DeadStay
  <2> QED
    BY <1>1, <2>1, LoopReaps, ShellReaps, ProcSyscallReaps, IpcReaps, DeadStayReaped, Zenon DEF Next
<1>2. IInv /\ [Next]_vars =>
        [\A i \in Slots :
           /\ state[i] # "FREE" /\ state'[i] = "FREE" =>
                /\ state[i] = "EXITED"
                /\ ppid[i] = IF mode = "user" THEN User ELSE 0
           /\ state[i] = "EXITED" /\ i # User => state'[i] \in Dead]_vars
  BY <1>1, Zenon DEF Reaped
<1> QED
  BY <1>2, KernelInvariant, PTL DEF Spec, ZombiesAreReaped
=============================================================================
