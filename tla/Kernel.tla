------------------------------- MODULE Kernel -------------------------------
(***************************************************************************)
(* ChaserOS as one CPU executes it: boot, interrupts, the shell commands   *)
(* and the system calls that touch the process table (src/kernel/isr.c,    *)
(* user.c, loader/user_exec.c, hybrid_ipc.c, shell.c, main.c), on top of   *)
(* ProcTable and Ipc.                                                      *)
(*                                                                         *)
(* There is one thread of control.  schedule() only relabels slots, so the *)
(* entry function of a slot such as the PID 3 service is never entered;    *)
(* mode says what the CPU really does:                                     *)
(*   idle      the hlt loop of kernel_main or userland_exit_done, IRQs on  *)
(*   user      ring 3, entered with RFLAGS = 2, so IRQs are off            *)
(*   spin_send the while loop at the end of ipc_send, IRQs off             *)
(*   spin_wait the while loop of user_sys_waitpid, IRQs off                *)
(*   hlt_recv  the sti;hlt;cli of ipc_receive                              *)
(*   hlt_call  the sti;hlt;cli of ipc_wait_until_pending                   *)
(*   halted    the hlt loop after a CPU exception, IRQs off                *)
(*                                                                         *)
(* A system call that returns an error before it changes any state is a    *)
(* stuttering step and has no action.                                      *)
(***************************************************************************)
EXTENDS Ipc

VARIABLES
  mode,
  ctx,          \* the locals of the blocked kernel function, NoCtx otherwise
  kids          \* history: slots the program in slot 2 created with spawn/fork

vars == <<procVars, ipcVars, mode, ctx, kids>>

Modes == {"idle", "user", "spin_send", "spin_wait", "hlt_recv", "hlt_call",
          "halted"}

Calls == {"none", "send", "call", "open", "recv", "waitpid"}

(* slot: the PCB pointer the function holds; arg: dest, src or target pid. *)
Ctx(call, slot, arg) == [call |-> call, slot |-> slot, arg |-> arg]

NoCtx == Ctx("none", 0, 0)

(* Mutant: interrupts are on while ipc_send spins. *)
IrqOn_Spin == mode \in {"idle", "hlt_recv", "hlt_call", "spin_send"}

IrqOn == mode \in {"idle", "hlt_recv", "hlt_call"}

TypeOK ==
  /\ ProcTypeOK
  /\ IpcTypeOK
  /\ mode \in Modes
  /\ ctx \in [call : Calls, slot : Slots, arg : Slots]
  /\ kids \in SUBSET Slots

Init ==
  /\ ProcInit
  /\ IpcInit
  /\ mode = "idle"
  /\ ctx = NoCtx
  /\ kids = {}

----------------------------------------------------------------------------
(* Interrupts, taken in the hlt loops only *)

(* IRQ0: isr_handler vector 32. *)
Irq0 ==
  /\ IrqOn
  /\ schedule
  /\ UNCHANGED <<lifeVars, stack, active, ipcVars, mode, ctx, kids>>

(* After an interrupt hlt ends and ipc_receive goes round its loop.        *)
ResumeReceive ==
  /\ mode = "hlt_recv"
  /\ IF HasPending(ctx.slot, ctx.arg) \/ Queued(ctx.slot, ctx.arg) # {}
     THEN ReceiveTakes(ctx.slot, ctx.arg) /\ mode' = "user" /\ ctx' = NoCtx
     ELSE ReceiveBlocks(ctx.slot, ctx.arg) /\ UNCHANGED <<mode, ctx>>
  /\ UNCHANGED <<lifeVars, stack, cur, active, kids>>

(* ... and ipc_wait_until_pending round its own. *)
ResumeCall ==
  /\ mode = "hlt_call"
  /\ IF pending[ctx.slot]
     THEN /\ pending' = [pending EXCEPT ![ctx.slot] = FALSE]
          /\ mode' = "user"
          /\ ctx' = NoCtx
     ELSE UNCHANGED <<pending, mode, ctx>>
  /\ UNCHANGED <<procVars, buf, queue, kids>>

----------------------------------------------------------------------------
(* IRQ1: the shell runs the typed line inside the keyboard interrupt *)

(* hello, slime, cnrun: bind slot 2 and iretq to ring 3.  The interrupted  *)
(* context, a blocked system call included, is never returned to.          *)
ShellLaunch ==
  /\ IrqOn
  /\ process_bind_user_slot
  /\ ClearMessages(User)
  /\ mode' = "user"
  /\ ctx' = NoCtx
  /\ kids' = {}

ShellSpawn ==
  /\ IrqOn
  /\ \E c \in Slots : AllocAndExit(c, 0) /\ ClearMessages(c)
  /\ UNCHANGED <<mode, ctx, kids>>

ShellSpawnFails ==
  /\ IrqOn
  /\ \E c \in Slots : AllocAndFree(c, 0) /\ ClearMessages(c)
  /\ UNCHANGED <<mode, ctx, kids>>

ShellWait(target) ==
  /\ IrqOn
  /\ \E i \in Slots : process_reap_child(i, 0, target) /\ ClearMessages(i)
  /\ UNCHANGED <<mode, ctx, kids>>

----------------------------------------------------------------------------
(* int $0x80 from ring 3: process life cycle *)

SysSpawn ==
  /\ mode = "user"
  /\ \E c \in Slots :
       /\ AllocAndExit(c, process_current_user_or_kernel)
       /\ ClearMessages(c)
       /\ kids' = kids \cup {c}
  /\ UNCHANGED <<mode, ctx>>

SysSpawnFails ==
  /\ mode = "user"
  /\ \E c \in Slots :
       AllocAndFree(c, process_current_user_or_kernel) /\ ClearMessages(c)
  /\ UNCHANGED <<mode, ctx, kids>>

(* The child is READY and takes part in the round robin, but never runs.   *)
SysFork ==
  /\ mode = "user"
  /\ \E c \in Slots :
       /\ process_alloc_user(c, process_current_user_or_kernel)
       /\ ClearMessages(c)
       /\ kids' = kids \cup {c}
  /\ UNCHANGED <<mode, ctx>>

(* An exited child is there: reap it and return. *)
SysWaitpidReaps(target) ==
  /\ mode = "user"
  /\ \E i \in Slots :
       /\ process_reap_child(i, process_current_user_or_kernel, target)
       /\ ClearMessages(i)
       /\ kids' = kids \ {i}
  /\ UNCHANGED <<mode, ctx>>

SysWaitpidBlocks(target) ==
  LET p == process_current_user_or_kernel IN
  /\ mode = "user"
  /\ NothingToReap(p, target)
  /\ waitTarget' = [waitTarget EXCEPT ![p] = target]
  /\ state' = [state EXCEPT ![p] = "BLOCKED"]
  /\ mode' = "spin_wait"
  /\ ctx' = Ctx("waitpid", p, target)
  /\ UNCHANGED <<ppid, exited, waitPid, stack, cur, active, ipcVars, kids>>

(* EXIT and _EXIT: user_sys__exit, then user_on_syscall_exit returns to    *)
(* userland_exit_done with IRQs on.                                        *)
SysExit ==
  /\ mode = "user"
  /\ process_mark_exit(process_current_user_or_kernel)
  /\ mode' = "idle"
  /\ UNCHANGED <<ipcVars, ctx, kids>>

(* Vectors 0..31 stop the machine; vmm_try_handle_cow_fault handles none.  *)
CpuException ==
  /\ mode = "user"
  /\ mode' = "halted"
  /\ UNCHANGED <<procVars, ipcVars, ctx, kids>>

(* The loop of hlt the exception handler ends in. *)
Halted ==
  /\ mode = "halted"
  /\ UNCHANGED vars

----------------------------------------------------------------------------
(* int $0x80 from ring 3: IPC *)

Sender == process_current_task_for_ipc(state)

SysIpcSend(d) ==
  /\ mode = "user"
  /\ \/ /\ SendDelivers(Sender, d)
        /\ pending' = [pending EXCEPT ![d] = TRUE]
        /\ UNCHANGED <<mode, ctx>>
     \/ /\ SendQueues(Sender, d)
        /\ mode' = "spin_send"
        /\ ctx' = Ctx("send", Sender, d)
  /\ UNCHANGED <<lifeVars, stack, cur, active, kids>>

(* IPC_CALL, and OPEN on a mounted volume (hybrid_user_fd_open_via_ipc):   *)
(* send, then wait for a pending message on the PCB of the moment.         *)
SendAndWait(call, d) ==
  LET w == process_current_task_for_ipc(SentState(Sender, d)) IN
  /\ mode = "user"
  /\ \/ /\ SendDelivers(Sender, d)
        /\ TakePending(w, d)
        /\ IF pending[w] \/ w = d
           THEN UNCHANGED <<mode, ctx>>
           ELSE mode' = "hlt_call" /\ ctx' = Ctx(call, w, d)
     \/ /\ SendQueues(Sender, d)
        /\ mode' = "spin_send"
        /\ ctx' = Ctx(call, Sender, d)
  /\ UNCHANGED <<lifeVars, stack, cur, active, kids>>

SysIpcCall(d) == SendAndWait("call", d)

SysOpen == SendAndWait("open", Service)

(* ipc_receive works on the PCB current_task_idx names, not the caller's.  *)
SysIpcRecv(src) ==
  /\ mode = "user"
  /\ \/ /\ ReceiveTakes(cur, src)
        /\ UNCHANGED <<mode, ctx>>
     \/ /\ ReceiveBlocks(cur, src)
        /\ mode' = "hlt_recv"
        /\ ctx' = Ctx("recv", cur, src)
  /\ UNCHANGED <<lifeVars, stack, cur, active, kids>>

SysIpcReply(d) ==
  /\ mode = "user"
  /\ ipc_reply(d)
  /\ UNCHANGED <<lifeVars, stack, cur, active, mode, ctx, kids>>

----------------------------------------------------------------------------
(* The two busy-wait loops: test the state, sched_yield, test it again *)

SpinSend ==
  /\ mode = "spin_send"
  /\ IF state[ctx.slot] = "SENDING"
     THEN schedule /\ UNCHANGED <<mode, ctx>>
     ELSE /\ IF ctx.call = "send"
             THEN mode' = "user" /\ ctx' = NoCtx
             ELSE /\ mode' = "hlt_call"
                  /\ ctx' = [ctx EXCEPT !.slot = process_current_task_for_ipc(state)]
          /\ UNCHANGED <<state, cur>>
  /\ UNCHANGED <<lifeVars, stack, active, ipcVars, kids>>

(* What user_sys_waitpid does once process_mark_exit has released it. *)
FinishWaitpid(p) ==
  /\ mode' = "user"
  /\ ctx' = NoCtx
  /\ LET c == waitPid[p] IN
     IF c = 0 \/ NothingToReap(p, c)
     THEN /\ waitPid' = [waitPid EXCEPT ![p] = 0]
          /\ UNCHANGED <<state, ppid, exited, waitTarget, ipcVars, kids>>
     ELSE /\ state' = [state EXCEPT ![c] = "FREE"]
          /\ ppid' = [ppid EXCEPT ![c] = 0]
          /\ exited' = [exited EXCEPT ![c] = FALSE]
          /\ waitTarget' = [waitTarget EXCEPT ![c] = 0]
          /\ waitPid' = [waitPid EXCEPT ![c] = 0, ![p] = 0]
          /\ ClearMessages(c)
          /\ kids' = kids \ {c}

SpinWait ==
  /\ mode = "spin_wait"
  /\ IF state[ctx.slot] = "BLOCKED"
     THEN schedule /\ UNCHANGED <<lifeVars, ipcVars, mode, ctx, kids>>
     ELSE FinishWaitpid(ctx.slot) /\ UNCHANGED cur
  /\ UNCHANGED <<stack, active>>

----------------------------------------------------------------------------
ShellStep ==
  \/ ShellLaunch
  \/ ShellSpawn
  \/ ShellSpawnFails
  \/ \E t \in Slots : ShellWait(t)

ProcSyscall ==
  \/ SysSpawn
  \/ SysSpawnFails
  \/ SysFork
  \/ \E t \in Slots : SysWaitpidReaps(t) \/ SysWaitpidBlocks(t)
  \/ SysExit

IpcSyscall ==
  \/ \E d \in Slots : SysIpcSend(d) \/ SysIpcCall(d) \/ SysIpcRecv(d) \/ SysIpcReply(d)
  \/ SysOpen

KernelLoop == Irq0 \/ ResumeReceive \/ ResumeCall \/ SpinSend \/ SpinWait

Next == KernelLoop \/ ShellStep \/ ProcSyscall \/ IpcSyscall
        \/ CpuException \/ Halted

Spec == Init /\ [][Next]_vars

(* The timer interrupt keeps arriving (the PIT runs in periodic mode) and  *)
(* the CPU keeps executing the loop it is in.  Nothing is assumed of the   *)
(* user at the keyboard or of the program in ring 3.                       *)
Fairness ==
  /\ WF_vars(Irq0)
  /\ WF_vars(ResumeReceive)
  /\ WF_vars(ResumeCall)
  /\ WF_vars(SpinSend)
  /\ WF_vars(SpinWait)

FairSpec == Spec /\ Fairness

----------------------------------------------------------------------------
(* Safety *)

Dead == {"FREE", "EXITED"}

(* schedule() leaves at most one slot RUNNING, the one current_task_idx    *)
(* names; IPC, exits and reaping never leave a second label behind.        *)
RunningIsCurrent == \A i \in Slots : state[i] = "RUNNING" => i = cur

(* get_current_process() never returns a slot that was freed, that exited  *)
(* or that belongs to ring 3: ipc_receive and ipc_reply, which use it,     *)
(* always work on the PCB of a kernel thread or of a forked child.         *)
CurrentIsLive == state[cur] \notin Dead /\ cur # User

(* No sequence of spawn, wait, fork, exit and launch frees or ends the     *)
(* idle slot or the PID 3 service slot, whose numbers the code hard-wires. *)
KernelThreadsSurvive == {state[Idle], state[Service]} \cap Dead = {}

(* While a program is in ring 3 or inside one of its system calls,         *)
(* chaseros_active_user_pid names slot 2 and the slot is in the state that *)
(* lets the call that blocked it find the same PCB again.                  *)
UserOwnsSlot ==
  /\ mode # "idle" => active = User
  /\ mode \in {"user", "hlt_recv", "halted"} =>
       state[User] \in {"USER_SLOT", "WAITING_REPLY"}
  /\ mode = "spin_send" => state[User] = "SENDING" /\ ctx.slot = User
  /\ mode = "spin_wait" => state[User] = "BLOCKED" /\ ctx.slot = User
  /\ mode = "hlt_call" =>
       state[User] = "WAITING_REPLY" /\ ctx.slot = User /\ ~pending[User]

(* The exited flag process_reap_child looks at and the EXITED state that   *)
(* everything else looks at never disagree.                                *)
ExitedIsZombie == \A i \in Slots : exited[i] <=> state[i] = "EXITED"

(* A slot that can be reaped or handed out again owns no stack page:       *)
(* process_reap_child frees stack_base without clearing it, so a dead slot *)
(* with a page would free it twice.                                        *)
DeadOwnNoStack == \A i \in Slots : state[i] \in Dead => ~stack[i]

(* Every PCB linked into a sender_queue is still SENDING and is linked     *)
(* once: no slot is reaped, rebound or reused while next_in_queue links it. *)
NoDanglingSender ==
  \A i, j \in Slots : \A m \in DOMAIN queue[i], n \in DOMAIN queue[j] :
    /\ state[queue[i][m]] = "SENDING"
    /\ queue[i][m] = queue[j][n] => i = j /\ m = n

(* A slot becomes FREE only as a zombie reaped by its parent: by slot 0    *)
(* (the shell's wait) or by the ring 3 program (waitpid); and a zombie,    *)
(* other than one in the slot a launch rebinds, stays until then.          *)
ZombiesAreReaped ==
  [][\A i \in Slots :
       /\ state[i] # "FREE" /\ state'[i] = "FREE" =>
            /\ state[i] = "EXITED"
            /\ ppid[i] = IF mode = "user" THEN User ELSE 0
       /\ state[i] = "EXITED" /\ i # User => state'[i] \in Dead]_vars

(* The inductive invariant behind the invariants above.  Slot 2 never      *)
(* carries a label of the round robin; a slot is BLOCKED or SENDING only   *)
(* while the CPU is in the loop that waits for it; only the service slot   *)
(* has a stack page; the only queued sender is the one that spins.         *)
IInv ==
  /\ TypeOK
  /\ RunningIsCurrent
  /\ CurrentIsLive
  /\ KernelThreadsSurvive
  /\ UserOwnsSlot
  /\ ExitedIsZombie
  /\ state[User] \notin {"READY", "RUNNING", "RECEIVING"}
  /\ \A i \in Slots : state[i] = "BLOCKED" => i = User /\ mode = "spin_wait"
  /\ \A i \in Slots : state[i] = "SENDING" => i = User /\ mode = "spin_send"
  /\ \A i \in Slots : stack[i] => i = Service
  /\ mode = "hlt_recv" => ctx.slot # User /\ state[ctx.slot] = "RECEIVING"
  /\ \A i \in Slots :
       queue[i] # <<>> => mode = "spin_send" /\ i = ctx.arg /\ queue[i] = <<User>>

----------------------------------------------------------------------------
(* Liveness *)

(* Round robin starves no slot: as long as the CPU stays in a loop that    *)
(* schedules, a READY slot gets the RUNNING label.                         *)
RoundRobin ==
  \A i \in Slots :
    state[i] = "READY" ~> state[i] # "READY" \/ mode \in {"user", "halted"}

----------------------------------------------------------------------------
(* What the documents say of the system calls *)

(* user/SYSCALL-ABI.txt: IPC_CALL blocks until the reply, then returns 0;  *)
(* OPEN is delegated to the PID 3 service with the same result as calling  *)
(* the VFS; WAITPID returns the reaped pid or an error code.               *)
CallsReturn == ctx.call \in {"call", "open", "waitpid"} ~> ctx.call = "none"

(* user/SYSCALL-ABI.txt: WAITPID 0 waits for a child of the caller.        *)
WaitpidReapsOwnChild ==
  [][\A i \in Slots :
       mode = "user" /\ state[i] = "EXITED" /\ state'[i] = "FREE" => i \in kids]_vars
=============================================================================
