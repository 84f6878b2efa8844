---------------------------- MODULE JobPipeline ----------------------------
(***************************************************************************)
(* From a due row to a handled command, across the replicas: the cron job  *)
(* of whichever replica believes it leads lists the due rows and turns     *)
(* each into a queued message, and the queue's workers carry it out.  The  *)
(* job modelled is the dispatch of due account deletions; every scheduled  *)
(* job is started the same way.                                            *)
(*                                                                         *)
(* SchedulerLeader and QueueConsumer are composed here with the life of    *)
(* the processes: a shutdown or a crash hits a replica's elector, its cron *)
(* job and its worker together.                                            *)
(***************************************************************************)
EXTENDS SchedulerLeader, QueueConsumer

VARIABLES
    row,         \* [Items -> {"waiting", "due", "gone"}], the table the job scans
    blocked,     \* SUBSET Items, requests that a dispatch refuses now
    list,        \* [Replicas -> SUBSET Items], what the cron job has still to dispatch
    sends        \* [Items -> Nat], history: messages enqueued for the row

jobVars == <<row, blocked, list, sends>>

vars == <<procVars, leaderVars, queueVars, jobVars>>

Init ==
    /\ ProcInit
    /\ LeaderInit
    /\ QueueInit
    /\ row = [m \in Items |-> "waiting"]
    /\ blocked = {}
    /\ list = [i \in Replicas |-> {}]
    /\ sends = [m \in Items |-> 0]

Others == <<leaderVars, queueVars>>

----------------------------------------------------------------------------
(* The cron job.                                                           *)

(* A deletion's grace period ends. *)
GraceEnds(m) ==
    /\ row[m] = "waiting"
    /\ row' = [row EXCEPT ![m] = "due"]
    /\ UNCHANGED <<procVars, Others, blocked, list, sends>>

(* ConfirmAccountRecovery withdraws a request that is already due: the     *)
(* token of a recovery begun in the last day may outlive the deadline.  A  *)
(* new request of the same account waits for a grace period of its own.    *)
RecoveryConfirmed(m) ==
    /\ row[m] = "due"
    /\ row' = [row EXCEPT ![m] = "waiting"]
    /\ UNCHANGED <<procVars, Others, blocked, list, sends>>

(* The account comes to be, or ceases to be, one that may not be deleted:  *)
(* the last active admin's, or one whose Identity is missing or active.    *)
StandingChanges(m) ==
    /\ row[m] # "gone"
    /\ blocked' = IF m \in blocked THEN blocked \ {m} ELSE blocked \cup {m}
    /\ UNCHANGED <<procVars, Others, row, list, sends>>

(* handleProcessUserDeletions lists the due requests. *)
DueScheduledDeletions == {m \in Items : row[m] = "due"}

(* The cron entry fires: the flag is read once, before the job lists its   *)
(* requests and works through them.  A listing that fails changes nothing. *)
addJob(i) ==
    /\ Running(i)
    /\ leader[i]
    /\ list[i] = {}
    /\ list' = [list EXCEPT ![i] = DueScheduledDeletions]
    /\ UNCHANGED <<procVars, Others, row, blocked, sends>>

(* The job takes m off its list; it ends with the last one. *)
NextOf(i, m) ==
    /\ m \in list[i]
    /\ list' = [list EXCEPT ![i] = @ \ {m}]

Enqueue(m) ==
    /\ row' = [row EXCEPT ![m] = "gone"]
    /\ msg' = [msg EXCEPT ![m] = "visible"]
    /\ sends' = [sends EXCEPT ![m] = @ + 1]

(* Seeded fault: a listed request is dispatched without looking again. *)
DispatchListed(i, m) ==
    /\ Running(i)
    /\ NextOf(i, m)
    /\ Enqueue(m)
    /\ UNCHANGED <<procVars, leaderVars, reads, worker, failed, spent, stalled, blocked>>

(* DispatchScheduledUserDeletion: one transaction that locks the request   *)
(* if it is still due, enqueues its command and removes it.                *)
DispatchScheduledUserDeletion(i, m) ==
    /\ Running(i)
    /\ NextOf(i, m)
    /\ \/ row[m] = "due" /\ m \notin blocked /\ Enqueue(m)
       \/ row[m] # "due" /\ UNCHANGED <<row, msg, sends>>
    /\ UNCHANGED <<procVars, leaderVars, reads, worker, failed, spent, stalled, blocked>>

(* The account may not be deleted: the transaction is rolled back, the job *)
(* logs it and goes on, and the request stays due for the next run.        *)
DispatchRefused(i, m) ==
    /\ Running(i)
    /\ NextOf(i, m)
    /\ row[m] = "due"
    /\ m \in blocked
    /\ UNCHANGED <<procVars, Others, row, blocked, sends>>

(* The transaction fails; the job logs it and goes on to the next one. *)
DispatchFails(i, m) ==
    /\ CallFails(i)
    /\ NextOf(i, m)
    /\ UNCHANGED <<proc, Others, row, blocked, sends>>

----------------------------------------------------------------------------
(* The life of the processes.                                              *)

Signal(i) == awaitShutdown(i) /\ UNCHANGED <<Others, jobVars>>

Dies(i) ==
    /\ proc' = [proc EXCEPT ![i] = "down"]
    /\ ElectorDies(i)
    /\ WorkerDies(i)
    /\ list' = [list EXCEPT ![i] = {}]
    /\ UNCHANGED <<row, blocked, sends>>

(* Shutdown waits for the cron job and the elector without a limit; its    *)
(* wait for the workers is limited, and a worker that is still busy then   *)
(* is cut off.                                                             *)
Shutdown(i) ==
    /\ proc[i] = "stopping"
    /\ list[i] = {}
    /\ elector[i] = "ended"
    /\ Dies(i)
    /\ UNCHANGED faults

Crash(i) ==
    /\ proc[i] # "down"
    /\ Fault
    /\ Dies(i)

(* The process is started again. *)
Start(i) ==
    /\ proc[i] = "down"
    /\ proc' = [proc EXCEPT ![i] = "up"]
    /\ ElectorStarts(i)
    /\ UNCHANGED <<faults, queueVars, jobVars>>

----------------------------------------------------------------------------
JobStep(i) ==
    \/ addJob(i)
    \/ \E m \in Items :
          \/ DispatchScheduledUserDeletion(i, m)
          \/ DispatchRefused(i, m)
          \/ DispatchFails(i, m)

Next ==
    \/ \E i \in Replicas :
          \/ LeaderStep(i) /\ UNCHANGED <<queueVars, jobVars>>
          \/ ConsumerStep(i) /\ UNCHANGED <<leaderVars, jobVars>>
          \/ JobStep(i)
          \/ Signal(i)
          \/ Shutdown(i)
          \/ Crash(i)
          \/ Start(i)
    \/ Reap /\ UNCHANGED <<queueVars, jobVars>>
    \/ \E m \in Items :
          \/ GraceEnds(m)
          \/ RecoveryConfirmed(m)
          \/ StandingChanges(m)
          \/ Expire(m) /\ UNCHANGED <<leaderVars, jobVars>>

Spec == Init /\ [][Next]_vars

(* A loop that runs goes on, a call returns, the server reaps dead         *)
(* connections, and a replica that stopped is started again.  Nothing is   *)
(* assumed of handlers but that they return.                               *)
Fairness ==
    /\ \A i \in Replicas :
          /\ WF_vars((Connect(i) \/ PingFails(i) \/ TryAcquire(i) \/ StopElector(i)
                        \/ Unlock(i) \/ CloseSession(i))
                     /\ UNCHANGED <<queueVars, jobVars>>)
          /\ WF_vars(ConsumerStep(i) /\ UNCHANGED <<leaderVars, jobVars>>)
          /\ WF_vars(JobStep(i))
          /\ WF_vars(Shutdown(i))
          /\ WF_vars(Start(i))
    /\ WF_vars(Reap /\ UNCHANGED <<queueVars, jobVars>>)
    /\ \A m \in Items : WF_vars(Expire(m) /\ UNCHANGED <<leaderVars, jobVars>>)

FairSpec == Spec /\ Fairness

----------------------------------------------------------------------------
(* Properties.                                                             *)

(* The values the variables take. *)
TypeOK ==
    /\ proc \in [Replicas -> {"up", "stopping", "down"}]
    /\ faults \in 0..MaxFaults
    /\ lock \in Replicas \cup {Nobody, Orphan, Pooled}
    /\ session \in [Replicas -> {"none", "open", "broken"}]
    /\ leader \in [Replicas -> BOOLEAN]
    /\ elector \in [Replicas -> Steps]
    /\ msg \in [Items -> MsgStates]
    /\ reads \in [Items -> Nat]
    /\ worker \in [Replicas -> Work]
    /\ failed \in SUBSET Items
    /\ spent \in [Items -> Nat]
    /\ stalled \in SUBSET Items
    /\ row \in [Items -> {"waiting", "due", "gone"}]
    /\ blocked \in SUBSET Items
    /\ list \in [Replicas -> SUBSET Items]
    /\ sends \in [Items -> Nat]

(* A replica whose flag is up has a session, and holds the advisory lock   *)
(* for as long as that session works: two replicas believe that they lead  *)
(* only while the connection of one is dead and its elector has not        *)
(* noticed.  And no connection carries the lock back into the pool, where  *)
(* nobody would ever give it up: the comment of leader.go on releasing     *)
(* before closing.                                                         *)
LeadershipIsHeld ==
    /\ \A i \in Replicas :
          leader[i] => /\ session[i] # "none"
                       /\ session[i] = "open" => lock = i
    /\ lock # Pooled

(* However many replicas believe that they lead, and however old the list  *)
(* they work from, a due request becomes one command.                      *)
DispatchedOnce ==
    \A m \in Items :
        /\ sends[m] <= 1
        /\ row[m] = "gone" <=> msg[m] # "none"

(* Until a worker has overrun its visibility timeout, a message is with at *)
(* most one worker and shows to nobody else: requeueing at shutdown,       *)
(* abandoned workers and lost answers do not hand a command out twice at   *)
(* the same time.                                                          *)
OneHandler ==
    \A m \in Items \ stalled :
        /\ \A i, k \in Handlers(m) : i = k
        /\ Handlers(m) # {} => msg[m] = "hidden"

(* A command is dead-lettered on the verdict of a live process: it does    *)
(* not fit the contract, its failure is terminal, or it has failed and its *)
(* failures together with the reads that a shutdown, a crash, an overrun   *)
(* or a lost answer used up exceed MaxRetries.  Interruptions alone never  *)
(* archive a command; each of them costs it one retry.                     *)
DeadLetterIsEarned ==
    \A m \in Items :
        /\ msg[m] \in {"terminal", "exhausted"} => m \in failed
        /\ msg[m] = "exhausted" => spent[m] > MaxRetries

(* The elector of i.  A flag that is up has a session and a loop to keep   *)
(* it; a session that works and holds the lock has the flag up or is about *)
(* to unlock; a session about to be closed holds nothing, unless it is     *)
(* broken.                                                                 *)
ElectorInv(i) ==
    /\ leader[i] => session[i] # "none" /\ elector[i] = "loop"
    /\ leader[i] /\ session[i] = "open" => lock = i
    /\ lock = i /\ session[i] = "open" => leader[i] \/ elector[i] = "unlock"
    /\ lock = i => session[i] # "none"
    /\ elector[i] = "ended" => session[i] = "none"
    /\ proc[i] = "down" => elector[i] = "ended" /\ list[i] = {}

(* The worker of i: which read it is in, and what its decision stands on. *)
WorkerInv(i) ==
    LET m == worker[i].item IN
    IF m = NoItem THEN worker[i] = Idle
    ELSE /\ worker[i].count \in 1..reads[m]
         /\ worker[i].act \in {"terminal", "exhausted"} => m \in failed
         /\ worker[i].act = "exhausted" => spent[m] > MaxRetries

(* The reads of m: every one but the last is spent, and so is the last     *)
(* when m shows again or nobody is left to decide on it.                   *)
ReadsInv(m) ==
    /\ reads[m] <= spent[m] + 1
    /\ msg[m] = "visible" => reads[m] <= spent[m]
    /\ Queued(m) /\ reads[m] > spent[m] =>
          \E i \in Handlers(m) :
             worker[i].act \in {"none", "complete", "shutdown", "rejected"}
    /\ msg[m] = "none" => reads[m] = 0 /\ Handlers(m) = {}
    /\ row[m] # "gone" => sends[m] = 0

LeaderInv == lock # Pooled /\ \A i \in Replicas : ElectorInv(i)

QueueInv ==
    /\ \A i \in Replicas : WorkerInv(i)
    /\ \A m \in Items : ReadsInv(m)
    /\ DispatchedOnce
    /\ OneHandler
    /\ DeadLetterIsEarned

(* The inductive invariant, from which every safety property follows.  The *)
(* lock and the flags need the elector's step and the state of its         *)
(* connection; the dead letters need what every read of a message came to. *)
PipelineInv == TypeOK /\ LeaderInv /\ QueueInv

(* A due request is carried out, dead-lettered or withdrawn by a recovery, *)
(* whatever becomes of the leaders and workers it meets and however often  *)
(* it was refused before, unless it keeps being refused: the last active   *)
(* admin's stays due.                                                      *)
DueIsSettled ==
    \A m \in Items :
        <>[](m \notin blocked) =>
            (row[m] = "due" ~> row[m] = "waiting" \/ msg[m] \in {"done"} \cup Archived)

(* After any failure or shutdown some replica leads again. *)
LeaderReturns == []<>(\E i \in Replicas : leader[i] /\ session[i] = "open")

----------------------------------------------------------------------------
(* The contract of the jobs, which the pipeline implements.                *)

PhaseOf(r, s) ==
    CASE s \in {"visible", "hidden"} -> "queued"
      [] s = "done" -> "done"
      [] s \in Archived -> "dead"
      [] OTHER -> r

contractPhase == [m \in Items |-> PhaseOf(row[m], msg[m])]
contractHolding == [i \in Replicas |-> worker[i].item]

Contract == INSTANCE JobContract WITH
    phase <- contractPhase, holding <- contractHolding

(* However many workers a command is handed to, and however late they come *)
(* back with deletes, archives and visibility updates that name it by its  *)
(* number alone, it is settled once, by one that has it, and never shows   *)
(* again; nor does a late dispatch make a settled command of a row again.  *)
ImplementsJobContract == Contract!Spec
=============================================================================
