--------------------------- MODULE QueueConsumer ---------------------------
(***************************************************************************)
(* A durable PGMQ queue and the workers that consume it, one per replica.  *)
(*                                                                         *)
(* PGMQ (external) hides a message it hands out for a while and counts the *)
(* reads; a message that is neither deleted nor archived shows again.  A   *)
(* worker addresses a message by its number alone, so that one that comes  *)
(* back late acts on a message somebody else may be handling.              *)
(***************************************************************************)
EXTENDS Replica

CONSTANTS
    Items,       \* the messages
    NoItem,      \* a worker's message while it has none
    MaxRetries   \* QueueConfig.MaxRetries

ASSUME QueueAssumption ==
    /\ MaxRetries \in Nat
    /\ NoItem \notin Items

VARIABLES
    msg,         \* [Items -> MsgStates]
    reads,       \* [Items -> Nat], read_ct
    worker,      \* [Replicas -> Work]
    failed,      \* history: messages whose failure a live process has seen
    spent,       \* [Items -> Nat], history: reads that failed or were cut short
    stalled      \* history: messages that showed again while being handled

queueVars == <<msg, reads, worker, failed, spent, stalled>>

Archived == {"rejected", "terminal", "exhausted"}

MsgStates == {"none", "visible", "hidden", "done"} \cup Archived

Decisions == {"complete", "retry", "shutdown"} \cup Archived

(* What a worker is at: its message, the read it is in and, once the       *)
(* handler has returned, the hand-off decided.                             *)
Work == [item : Items \cup {NoItem}, count : Nat, act : Decisions \cup {"none"}]

Idle == [item |-> NoItem, count |-> 0, act |-> "none"]

Handlers(m) == {i \in Replicas : worker[i].item = m}

Queued(m) == msg[m] \in {"visible", "hidden"}

QueueInit ==
    /\ msg = [m \in Items |-> "none"]
    /\ reads = [m \in Items |-> 0]
    /\ worker = [i \in Replicas |-> Idle]
    /\ failed = {}
    /\ spent = [m \in Items |-> 0]
    /\ stalled = {}

(* Seeded fault: a message whose reads are used up is not read again. *)
ReadFresh(i, m) ==
    /\ Running(i)
    /\ worker[i] = Idle
    /\ msg[m] = "visible"
    /\ reads[m] <= MaxRetries
    /\ msg' = [msg EXCEPT ![m] = "hidden"]
    /\ reads' = [reads EXCEPT ![m] = @ + 1]
    /\ \/ /\ worker' = [worker EXCEPT ![i] =
                           [item |-> m, count |-> reads[m] + 1, act |-> "none"]]
          /\ UNCHANGED <<spent, faults>>
       \/ /\ Fault
          /\ spent' = [spent EXCEPT ![m] = @ + 1]
          /\ UNCHANGED worker
    /\ UNCHANGED <<proc, failed, stalled>>

(* runWorker reads one message.  When the answer is lost the message is    *)
(* hidden and counted and no worker has it.                                *)
Read(i, m) ==
    /\ Running(i)
    /\ worker[i] = Idle
    /\ msg[m] = "visible"
    /\ msg' = [msg EXCEPT ![m] = "hidden"]
    /\ reads' = [reads EXCEPT ![m] = @ + 1]
    /\ \/ /\ worker' = [worker EXCEPT ![i] =
                           [item |-> m, count |-> reads[m] + 1, act |-> "none"]]
          /\ UNCHANGED <<spent, faults>>
       \/ /\ Fault
          /\ spent' = [spent EXCEPT ![m] = @ + 1]
          /\ UNCHANGED worker
    /\ UNCHANGED <<proc, failed, stalled>>

(* decideQueueDelivery: the shutdown before the result, and the result     *)
(* before the count of retries.                                            *)
decideQueueDelivery(shuttingDown, result, retryCount) ==
    IF shuttingDown THEN "shutdown"
    ELSE IF result = "ok" THEN "complete"
    ELSE IF result = "terminal" THEN "terminal"
    ELSE IF retryCount >= MaxRetries THEN "exhausted" ELSE "retry"

(* Seeded fault: the read in progress counts as a retry. *)
HandleOffByOne(i, result) ==
    /\ worker[i].item # NoItem
    /\ worker[i].act = "none"
    /\ worker' = [worker EXCEPT ![i].act =
                     decideQueueDelivery(~Running(i), result, worker[i].count)]
    /\ IF Running(i) /\ result # "ok"
       THEN /\ failed' = failed \cup {worker[i].item}
            /\ spent' = [spent EXCEPT ![worker[i].item] = @ + 1]
       ELSE UNCHANGED <<failed, spent>>
    /\ UNCHANGED <<procVars, msg, reads, stalled>>

(* processMessage up to its decision: the handler returns and the parent   *)
(* context is looked at once, after it.                                    *)
Handle(i, result) ==
    /\ worker[i].item # NoItem
    /\ worker[i].act = "none"
    /\ worker' = [worker EXCEPT ![i].act =
                     decideQueueDelivery(~Running(i), result, worker[i].count - 1)]
    /\ IF Running(i) /\ result # "ok"
       THEN /\ failed' = failed \cup {worker[i].item}
            /\ spent' = [spent EXCEPT ![worker[i].item] = @ + 1]
       ELSE UNCHANGED <<failed, spent>>
    /\ UNCHANGED <<procVars, msg, reads, stalled>>

(* processMessage of an envelope this binary's contract does not know. *)
Reject(i) ==
    /\ worker[i].item # NoItem
    /\ worker[i].act = "none"
    /\ worker' = [worker EXCEPT ![i].act = "rejected"]
    /\ UNCHANGED <<procVars, msg, reads, failed, spent, stalled>>

(* The state the hand-off act gives a message that is still queued. *)
HandedOff(act) ==
    CASE act = "complete" -> "done"
      [] act = "retry" -> "hidden"
      [] act = "shutdown" -> "visible"
      [] OTHER -> act

(* Seeded fault: the hand-off puts back a message that is no longer queued. *)
HandoffRegardless(i) ==
    LET m == worker[i].item  act == worker[i].act IN
    /\ act # "none"
    /\ Running(i) \/ act = "shutdown"
    /\ worker' = [worker EXCEPT ![i] = Idle]
    /\ msg' = [msg EXCEPT ![m] = HandedOff(act)]
    /\ spent' = IF act = "shutdown" THEN [spent EXCEPT ![m] = @ + 1] ELSE spent
    /\ UNCHANGED <<procVars, reads, failed, stalled>>

(* The hand-off of processMessage.  Delete, archive and visibility update  *)
(* touch a message that is still queued, whoever has read it since.  Only  *)
(* the shutdown's reset of the visibility outlives the cancelled context.  *)
Handoff(i) ==
    LET m == worker[i].item  act == worker[i].act IN
    /\ act # "none"
    /\ Running(i) \/ act = "shutdown"
    /\ worker' = [worker EXCEPT ![i] = Idle]
    /\ msg' = IF Queued(m) THEN [msg EXCEPT ![m] = HandedOff(act)] ELSE msg
    /\ spent' = IF act = "shutdown" THEN [spent EXCEPT ![m] = @ + 1] ELSE spent
    /\ UNCHANGED <<procVars, reads, failed, stalled>>

(* The hand-off fails: the message stays hidden until its timeout. *)
HandoffFails(i) ==
    LET m == worker[i].item IN
    /\ worker[i].act # "none"
    /\ \/ CallFails(i) /\ worker[i].act # "shutdown"
       \/ Fault /\ worker[i].act = "shutdown"
    /\ worker' = [worker EXCEPT ![i] = Idle]
    /\ spent' = [spent EXCEPT ![m] = @ + 1]
    /\ UNCHANGED <<proc, msg, reads, failed, stalled>>

(* Seeded fault: the visibility timeout does not outlast the handler. *)
ExpireEarly(m) ==
    /\ msg[m] = "hidden"
    /\ msg' = [msg EXCEPT ![m] = "visible"]
    /\ UNCHANGED <<procVars, reads, worker, failed, spent, stalled>>

(* The visibility timeout or the retry delay ends.  The timeout is longer  *)
(* than a handler may run, so that a message shows again while a worker    *)
(* has it only after that worker, or its hand-off, has overrun.            *)
Expire(m) ==
    /\ msg[m] = "hidden"
    /\ msg' = [msg EXCEPT ![m] = "visible"]
    /\ IF Handlers(m) = {}
       THEN UNCHANGED <<faults, spent, stalled>>
       ELSE /\ IF m \in stalled THEN UNCHANGED faults ELSE Fault
            /\ stalled' = stalled \cup {m}
            /\ spent' = [spent EXCEPT ![m] = @ + 1]
    /\ UNCHANGED <<proc, reads, worker, failed>>

(* The process is gone and its worker with it. *)
WorkerDies(i) ==
    /\ worker' = [worker EXCEPT ![i] = Idle]
    /\ spent' = IF worker[i].item = NoItem THEN spent
               ELSE [spent EXCEPT ![worker[i].item] = @ + 1]
    /\ UNCHANGED <<msg, reads, failed, stalled>>

ConsumerStep(i) ==
    \/ \E m \in Items : Read(i, m)
    \/ \E result \in {"ok", "error", "terminal"} : Handle(i, result)
    \/ Reject(i)
    \/ Handoff(i)
    \/ HandoffFails(i)
=============================================================================
