-------------------------------- MODULE Ipc --------------------------------
(***************************************************************************)
(* Synchronous message passing between PCBs (src/kernel/ipc.c): one        *)
(* message buffer per PCB, a pending flag, and a queue of blocked senders. *)
(*                                                                         *)
(* A message is reduced to its sender, the only field ipc.c looks at.  The *)
(* intrusive list sender_queue/next_in_queue is a sequence, newest sender  *)
(* first, because sender_enqueue pushes at the head; a PCB is on one queue *)
(* at most, since it stays SENDING until it is dequeued.                   *)
(***************************************************************************)
EXTENDS ProcTable, SequencesExt

VARIABLES
  buf,          \* [Slots -> Slots]       msg_buffer.sender
  pending,      \* [Slots -> BOOLEAN]     msg_pending
  queue         \* [Slots -> Seq(Slots)]  sender_queue

ipcVars == <<buf, pending, queue>>

IpcTypeOK ==
  /\ buf \in [Slots -> Slots]
  /\ pending \in [Slots -> BOOLEAN]
  /\ queue \in [Slots -> Seq(Slots)]

IpcInit ==
  /\ buf = [i \in Slots |-> 0]
  /\ pending = [i \in Slots |-> FALSE]
  /\ queue = [i \in Slots |-> <<>>]

(* The message part of process_clear_runtime; msg_buffer is left as it is. *)
ClearMessages(c) ==
  /\ pending' = [pending EXCEPT ![c] = FALSE]
  /\ queue' = [queue EXCEPT ![c] = <<>>]
  /\ UNCHANGED buf

----------------------------------------------------------------------------
(* ipc_send by PCB s to pid d *)

(* The early returns: no such process, or the sender itself. *)
SendRefused(s, d) == ~process_find_by_pid(d) \/ d = s

(* The destination waits in ipc_receive: copy, set pending, wake it; the   *)
(* sender waits for a reply from now on, whether or not it wants one.      *)
SentState(s, d) == [state EXCEPT ![d] = WokenState(d), ![s] = "WAITING_REPLY"]

SendDelivers(s, d) ==
  /\ ~SendRefused(s, d)
  /\ state[d] = "RECEIVING"
  /\ buf' = [buf EXCEPT ![d] = s]
  /\ state' = SentState(s, d)
  /\ UNCHANGED queue

(* Otherwise the message is stashed in the sender's own buffer and the     *)
(* sender spins in SENDING.                                                *)
SendQueues(s, d) ==
  /\ ~SendRefused(s, d)
  /\ state[d] # "RECEIVING"
  /\ buf' = [buf EXCEPT ![s] = s]
  /\ state' = [state EXCEPT ![s] = "SENDING"]
  /\ queue' = [queue EXCEPT ![d] = <<s>> \o @]
  /\ UNCHANGED pending

----------------------------------------------------------------------------
(* One turn of the loop of ipc_receive on PCB r, filter src (0 = any) *)

HasPending(r, src) == pending[r] /\ src \in {0, buf[r]}

Queued(r, src) == {k \in 1 .. Len(queue[r]) : src \in {0, queue[r][k]}}

TakeBuffered(r) ==
  /\ pending' = [pending EXCEPT ![r] = FALSE]
  /\ state' = [state EXCEPT ![r] = IF @ = "RECEIVING" THEN WokenState(r) ELSE @]
  /\ UNCHANGED <<buf, queue>>

(* sender_dequeue and ipc_wake_sender_after_deliver. *)
TakeQueued(r, src) ==
  /\ \E k \in Queued(r, src) :
       /\ \A j \in Queued(r, src) : k <= j
       /\ queue' = [queue EXCEPT ![r] = RemoveAt(@, k)]
       /\ state' = [state EXCEPT ![queue[r][k]] =
                      IF @ = "SENDING" THEN "WAITING_REPLY" ELSE @]
  /\ UNCHANGED <<buf, pending>>

ReceiveTakes(r, src) ==
  /\ HasPending(r, src) \/ Queued(r, src) # {}
  /\ IF HasPending(r, src) THEN TakeBuffered(r) ELSE TakeQueued(r, src)

ReceiveBlocks(r, src) ==
  /\ ~HasPending(r, src)
  /\ Queued(r, src) = {}
  /\ state' = [state EXCEPT ![r] = "RECEIVING"]
  /\ UNCHANGED ipcVars

(* ipc_wait_until_pending and ipc_consume_pending_message on PCB w, after  *)
(* a send that set pending flag d: a message already pending is taken at   *)
(* once, whenever and by whomever it was put there.                        *)
TakePending(w, d) == pending' = [pending EXCEPT ![d] = TRUE, ![w] = FALSE]

----------------------------------------------------------------------------
(* ipc_reply to pid d by whatever PCB current_task_idx names *)
ipc_reply(d) ==
  /\ state[d] = "WAITING_REPLY"
  /\ buf' = [buf EXCEPT ![d] = cur]
  /\ pending' = [pending EXCEPT ![d] = TRUE]
  /\ state' = [state EXCEPT ![d] = WokenState(d)]
  /\ UNCHANGED queue
=============================================================================
