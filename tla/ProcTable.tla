----------------------------- MODULE ProcTable -----------------------------
(***************************************************************************)
(* The process table and the round-robin scheduler of ChaserOS             *)
(* (src/kernel/process.c, src/kernel/sched.c).                             *)
(*                                                                         *)
(* A slot is an index of sched.tasks[].  Every function that makes a slot  *)
(* non-FREE stores the slot's own index in its pid field, so the model     *)
(* identifies a pid with its slot and process_find_by_pid(p) with "slot p  *)
(* is not FREE".                                                           *)
(*                                                                         *)
(* schedule() relabels slots and moves current_task_idx.  Nothing in the   *)
(* kernel loads proc_t.rsp (interrupts.asm says it must not), so which     *)
(* code the CPU executes is not part of this module: see Kernel.           *)
(*                                                                         *)
(* Not kept, because no property tells their values apart: exit codes,     *)
(* entry points, page-table roots, task_count and the switch counter.      *)
(***************************************************************************)
EXTENDS Integers, Sequences

CONSTANT MaxTasks      \* MAX_TASKS, 16 in process.h

ASSUME MaxTasksAssumption == MaxTasks \in Nat /\ MaxTasks >= 4

Slots == 0 .. MaxTasks - 1

Idle    == 0           \* CHASEROS_SCHED_PID_IDLE
User    == 2           \* CHASEROS_SCHED_PID_USER
Service == 3           \* CHASEROS_SCHED_PID_IPC_FS, CHASEROS_HYBRID_SERVICE_PID

(* proc_state_t without SLEEPING, which no code assigns. *)
ProcState == {"FREE", "READY", "RUNNING", "BLOCKED", "SENDING", "RECEIVING",
              "EXITED", "WAITING_REPLY", "USER_SLOT"}

VARIABLES
  state,        \* [Slots -> ProcState]
  ppid,         \* [Slots -> Slots]    parent pid
  exited,       \* [Slots -> BOOLEAN]  the exited flag
  waitTarget,   \* [Slots -> Slots]    child a BLOCKED slot waits for, 0 = any
  waitPid,      \* [Slots -> Slots]    wait_result_pid, 0 = none
  stack,        \* [Slots -> BOOLEAN]  stack_base names a page of the pmm
  cur,          \* sched.current_task_idx
  active        \* chaseros_active_user_pid, 0 = none

lifeVars  == <<ppid, exited, waitTarget, waitPid>>
procVars  == <<state, ppid, exited, waitTarget, waitPid, stack, cur, active>>

ProcTypeOK ==
  /\ state \in [Slots -> ProcState]
  /\ ppid \in [Slots -> Slots]
  /\ exited \in [Slots -> BOOLEAN]
  /\ waitTarget \in [Slots -> Slots]
  /\ waitPid \in [Slots -> Slots]
  /\ stack \in [Slots -> BOOLEAN]
  /\ cur \in Slots
  /\ active \in {0, User}

(* process_init, then chaseros_hybrid_ipc_service_spawn: slot 0 runs, the  *)
(* service slot is READY on a stack of its own.  user.c starts the active  *)
(* pid at 2 although slot 2 is still FREE.                                 *)
ProcInit ==
  /\ state = [i \in Slots |-> IF i = Idle THEN "RUNNING"
                              ELSE IF i = Service THEN "READY" ELSE "FREE"]
  /\ ppid = [i \in Slots |-> 0]
  /\ exited = [i \in Slots |-> FALSE]
  /\ waitTarget = [i \in Slots |-> 0]
  /\ waitPid = [i \in Slots |-> 0]
  /\ stack = [i \in Slots |-> i = Service]
  /\ cur = Idle
  /\ active = User

----------------------------------------------------------------------------
(* Lookups *)

process_find_by_pid(p) == state[p] # "FREE"

(* Mutant: a zombie counts as a free slot. *)
IsFirstFree_Zombie(c) ==
  state[c] \in {"FREE", "EXITED"}
    /\ \A j \in Slots : j < c => state[j] \notin {"FREE", "EXITED"}

(* The slot process_alloc_user and process_create pick: the lowest FREE one. *)
IsFirstFree(c) == state[c] = "FREE" /\ \A j \in Slots : j < c => state[j] # "FREE"

NoFreeSlot == \A j \in Slots : state[j] # "FREE"

(* Mutant: the caller is looked for in USER_SLOT only. *)
task_for_ipc_UserSlotOnly(st) ==
  IF active # 0 /\ st[active] = "USER_SLOT" THEN active ELSE cur

(* The PCB an ipc_send is made on behalf of, when the slots are in st. *)
process_current_task_for_ipc(st) ==
  IF active # 0 /\ st[active] \in {"USER_SLOT", "WAITING_REPLY", "SENDING"}
  THEN active ELSE cur

(* process_current_user_or_kernel of user_exec.c; slot 0 is never FREE, so *)
(* an inactive user (pid 0) finds slot 0.                                  *)
process_current_user_or_kernel ==
  IF process_find_by_pid(active) THEN active ELSE cur

(* What a PCB becomes when a message or a reply releases it. *)
WokenState(p) == IF p = active /\ active # 0 THEN "USER_SLOT" ELSE "READY"

----------------------------------------------------------------------------
(* schedule(): scan from the slot after current_task_idx, wrapping around, *)
(* for a READY slot; current_task_idx itself is looked at last.            *)

(* Mutant: the scan starts at slot 0 every time. *)
ScanDistance_FromZero(i) == i

ScanDistance(i) == (i + 2 * MaxTasks - (cur + 1)) % MaxTasks

IsNextReady(n) ==
  /\ state[n] = "READY"
  /\ \A j \in Slots : state[j] = "READY" => ScanDistance(n) <= ScanDistance(j)

(* Mutant: the slot that ran stays RUNNING. *)
Relabel_KeepOld(n) ==
  /\ state' = [state EXCEPT ![n] = "RUNNING"]
  /\ cur' = n

(* Mutant: current_task_idx is set to the slot after the one chosen. *)

Relabel(n) ==
  /\ state' = [i \in Slots |->
                 IF i = n THEN "RUNNING"
                 ELSE IF i = cur /\ state[i] = "RUNNING" THEN "READY"
                 ELSE state[i]]
  /\ cur' = n

schedule ==
  IF \E j \in Slots : state[j] = "READY"
  THEN \E n \in Slots : IsNextReady(n) /\ Relabel(n)
  ELSE UNCHANGED <<state, cur>>

----------------------------------------------------------------------------
(* Slot life cycle.  process_clear_runtime also clears the message fields  *)
(* of the slot; module Ipc does that part.                                 *)

(* Mutant: the exited flag of the slot's last user survives. *)

process_clear_runtime(c, parent) ==
  /\ ppid' = [ppid EXCEPT ![c] = parent]
  /\ exited' = [exited EXCEPT ![c] = FALSE]
  /\ waitTarget' = [waitTarget EXCEPT ![c] = 0]
  /\ waitPid' = [waitPid EXCEPT ![c] = 0]

process_alloc_user(c, parent) ==
  /\ IsFirstFree(c)
  /\ state' = [state EXCEPT ![c] = "READY"]
  /\ process_clear_runtime(c, parent)
  /\ UNCHANGED <<stack, cur, active>>

(* Mutant: the ring 3 slot joins the round robin. *)

process_bind_user_slot ==
  /\ state' = [state EXCEPT ![User] = "USER_SLOT"]
  /\ process_clear_runtime(User, 0)
  /\ stack' = [stack EXCEPT ![User] = FALSE]
  /\ active' = User
  /\ UNCHANGED cur

(* Does parent q wait for child p?  (state and wait fields as they are     *)
(* when process_mark_exit looks: p itself is already EXITED.)              *)
WaitsFor(q, p) ==
  q # p /\ state[q] = "BLOCKED" /\ waitTarget[q] \in {0, p}

(* process_mark_exit on a slot p whose parent is q. *)
ExitState(p, q) ==
  [i \in Slots |-> IF i = p THEN "EXITED"
                   ELSE IF i = q /\ WaitsFor(q, p) THEN "READY" ELSE state[i]]

ExitWaitPid(p, q) ==
  [i \in Slots |-> IF i = q /\ WaitsFor(q, p) THEN p ELSE waitPid[i]]

process_mark_exit(p) ==
  /\ state' = ExitState(p, ppid[p])
  /\ waitPid' = ExitWaitPid(p, ppid[p])
  /\ exited' = [exited EXCEPT ![p] = TRUE]
  /\ active' = IF p = active THEN 0 ELSE active
  /\ UNCHANGED <<ppid, waitTarget, stack, cur>>

(* Mutant: spawn gives the child a kernel stack, as process_create does. *)
AllocAndExit_WithStack(c, parent) ==
  /\ IsFirstFree(c)
  /\ state' = ExitState(c, parent)
  /\ waitPid' = [ExitWaitPid(c, parent) EXCEPT ![c] = 0]
  /\ ppid' = [ppid EXCEPT ![c] = parent]
  /\ exited' = [exited EXCEPT ![c] = TRUE]
  /\ waitTarget' = [waitTarget EXCEPT ![c] = 0]
  /\ active' = IF c = active THEN 0 ELSE active
  /\ stack' = [stack EXCEPT ![c] = TRUE]
  /\ UNCHANGED cur

(* spawn: process_alloc_user, the image is loaded, process_mark_exit(child). *)
AllocAndExit(c, parent) ==
  /\ IsFirstFree(c)
  /\ state' = ExitState(c, parent)
  /\ waitPid' = [ExitWaitPid(c, parent) EXCEPT ![c] = 0]
  /\ ppid' = [ppid EXCEPT ![c] = parent]
  /\ exited' = [exited EXCEPT ![c] = TRUE]
  /\ waitTarget' = [waitTarget EXCEPT ![c] = 0]
  /\ active' = IF c = active THEN 0 ELSE active
  /\ UNCHANGED <<stack, cur>>

(* spawn whose image does not load: the slot goes back to FREE, with the   *)
(* parent it was given still recorded.                                     *)
AllocAndFree(c, parent) ==
  /\ IsFirstFree(c)
  /\ process_clear_runtime(c, parent)
  /\ UNCHANGED <<state, stack, cur, active>>

(* Mutant: a child that has not exited is reaped too. *)
Reapable_Running(i, q, target) ==
  /\ state[i] # "FREE"
  /\ ppid[i] = q
  /\ target \in {0, i}

(* process_reap_child picks the lowest slot that is an exited child of q   *)
(* and, unless target is 0, has pid target.                                *)
Reapable(i, q, target) ==
  /\ state[i] # "FREE"
  /\ ppid[i] = q
  /\ target \in {0, i}
  /\ exited[i]

IsFirstReapable(i, q, target) ==
  /\ Reapable(i, q, target)
  /\ \A j \in Slots : j < i => ~Reapable(j, q, target)

NothingToReap(q, target) == \A i \in Slots : ~Reapable(i, q, target)

(* The stack page goes back to the pmm, but stack_base keeps naming it.    *)
process_reap_child(i, q, target) ==
  /\ IsFirstReapable(i, q, target)
  /\ state' = [state EXCEPT ![i] = "FREE"]
  /\ process_clear_runtime(i, 0)
  /\ UNCHANGED <<stack, cur, active>>
=============================================================================
