-------------------------- MODULE JobPipelineProofs --------------------------
(***************************************************************************)
(* PipelineInv is inductive, for any replicas, messages, retry limit and   *)
(* number of faults.  The elector's steps leave the queue alone and the    *)
(* workers' steps leave the elector alone, so that each action has one     *)
(* half of the invariant to preserve; the ends of processes have both.     *)
(***************************************************************************)
EXTENDS JobPipeline, Integers, TLAPS

LEMMA PipelineAssumption ==
    /\ MaxRetries \in Nat /\ NoItem \notin Items /\ MaxFaults \in Nat
    /\ Nobody \notin Replicas /\ Orphan \notin Replicas /\ Pooled \notin Replicas
    /\ Nobody # Orphan /\ Nobody # Pooled /\ Orphan # Pooled
  BY ReplicaAssumption, LeaderAssumption, QueueAssumption

----------------------------------------------------------------------------
(* Frames.                                                                 *)

(* What the queue's half reads: the queue, the rows and the counts. *)
LEMMA QueueFrame ==
    ASSUME QueueInv, UNCHANGED queueVars, UNCHANGED <<row, sends>>
    PROVE  QueueInv'
  BY DEF QueueInv, queueVars, WorkerInv, ReadsInv, DispatchedOnce, OneHandler,
         DeadLetterIsEarned, Handlers, Queued

(* What the elector's half reads: the election, the processes and the lists. *)
LEMMA LeaderFrame ==
    ASSUME LeaderInv, UNCHANGED leaderVars, UNCHANGED <<proc, list>>
    PROVE  LeaderInv'
  BY DEF LeaderInv, leaderVars, ElectorInv

(* A list may shrink or grow on a replica that is not down. *)
LEMMA LeaderListFrame ==
    ASSUME LeaderInv, TypeOK, NEW i \in Replicas, proc[i] # "down",
           UNCHANGED leaderVars, UNCHANGED proc, NEW S,
           list' = [list EXCEPT ![i] = S]
    PROVE  LeaderInv'
  BY DEF LeaderInv, leaderVars, ElectorInv, TypeOK

----------------------------------------------------------------------------
(* The elector.                                                            *)

LEMMA ReleaseKeeps ==
    ASSUME TypeOK, LeaderInv, NEW i \in Replicas, elector[i] = "loop",
           proc[i] # "down", releaseSession(i), UNCHANGED <<proc, list>>,
           \/ UNCHANGED <<session, lock>>
           \/ /\ session' = [session EXCEPT ![i] = "broken"]
              /\ session[i] = "open"
              /\ ~leader[i]
              /\ \/ lock' = lock
                 \/ lock = Nobody /\ lock' = i
    PROVE  LeaderInv'
  BY PipelineAssumption DEF TypeOK, LeaderInv, ElectorInv, releaseSession, Goto, Steps

LEMMA LeaderStepKeeps ==
    ASSUME TypeOK, LeaderInv, NEW i \in Replicas, LeaderStep(i),
           UNCHANGED <<queueVars, jobVars>>
    PROVE  TypeOK' /\ LeaderInv'
<1> USE PipelineAssumption
<1>0. UNCHANGED <<msg, reads, worker, failed, spent, stalled, row, blocked, list, sends>>
  BY DEF queueVars, jobVars
<1>1. CASE Connect(i)
  BY <1>0, <1>1 DEF Connect, TypeOK, LeaderInv, ElectorInv, procVars, Running
<1>2. CASE Break(i)
  BY <1>0, <1>2 DEF Break, Fault, TypeOK, LeaderInv, ElectorInv
<1>3. CASE PingFails(i)
  <2>1. TypeOK'
    BY <1>0, <1>3 DEF PingFails, releaseSession, Goto, TypeOK, Steps, procVars
  <2>2. proc[i] # "down"
    BY <1>3 DEF PingFails, LeaderInv, ElectorInv
  <2>3. LeaderInv'
    BY <1>0, <1>3, <2>2, ReleaseKeeps DEF PingFails, procVars
  <2> QED BY <2>1, <2>3
<1>4. CASE TryAcquire(i)
  <2>0. proc[i] # "down" /\ elector[i] = "loop" /\ ~leader[i] /\ UNCHANGED proc
    BY <1>4 DEF TryAcquire, LeaderInv, ElectorInv
  <2>1. CASE /\ Running(i)
             /\ session[i] = "open"
             /\ leader' = [leader EXCEPT ![i] = lock = Nobody]
             /\ lock' = IF lock = Nobody THEN i ELSE lock
             /\ UNCHANGED <<session, elector, faults>>
    <3>1. CASE lock = Nobody
      <4>1. leader' = [leader EXCEPT ![i] = TRUE] /\ lock' = i
        BY <2>1, <3>1
      <4> QED BY <1>0, <2>0, <2>1, <3>1, <4>1 DEF TypeOK, LeaderInv, ElectorInv
    <3>2. CASE lock # Nobody
      <4>1. leader' = [leader EXCEPT ![i] = FALSE] /\ lock' = lock
        BY <2>1, <3>2
      <4> QED BY <1>0, <2>0, <2>1, <3>2, <4>1 DEF TypeOK, LeaderInv, ElectorInv
    <3> QED BY <3>1, <3>2
  <2>2. CASE /\ session[i] = "open"
             /\ CallFails(i)
             /\ session' = [session EXCEPT ![i] = "broken"]
             /\ lock' \in {lock} \cup IF lock = Nobody THEN {i} ELSE {}
             /\ releaseSession(i)
    <3>1. TypeOK'
      BY <1>0, <2>0, <2>2 DEF TypeOK, releaseSession, Goto, Steps, CallFails, Fault
    <3>2. lock' = lock \/ (lock = Nobody /\ lock' = i)
      BY <2>2
    <3>3. LeaderInv'
      BY <1>0, <2>0, <2>2, <3>2, ReleaseKeeps
    <3> QED BY <3>1, <3>3
  <2>3. CASE /\ session[i] = "broken"
             /\ releaseSession(i)
             /\ UNCHANGED <<session, lock, faults>>
    <3>1. TypeOK'
      BY <1>0, <2>0, <2>3 DEF TypeOK, releaseSession, Goto, Steps
    <3>2. LeaderInv'
      BY <1>0, <2>0, <2>3, ReleaseKeeps
    <3> QED BY <3>1, <3>2
  <2> QED BY <1>4, <2>1, <2>2, <2>3 DEF TryAcquire
<1>5. CASE StopElector(i)
  <2>1. TypeOK'
    BY <1>0, <1>5 DEF StopElector, releaseSession, Goto, TypeOK, Steps, procVars
  <2>2. LeaderInv'
    BY <1>0, <1>5, ReleaseKeeps DEF StopElector, procVars
  <2> QED BY <2>1, <2>2
<1>6. CASE Unlock(i)
  <2>1. TypeOK'
    BY <1>0, <1>6 DEF Unlock, Goto, TypeOK, Steps, Fault
  <2>2. LeaderInv'
    BY <1>0, <1>6 DEF Unlock, Goto, TypeOK, LeaderInv, ElectorInv
  <2> QED BY <2>1, <2>2
<1>7. CASE CloseSession(i)
  <2>1. TypeOK'
    BY <1>0, <1>7 DEF CloseSession, Goto, TypeOK, Steps, procVars
  <2>2. LeaderInv'
    BY <1>0, <1>7 DEF CloseSession, Goto, TypeOK, LeaderInv, ElectorInv, procVars, Running
  <2> QED BY <2>1, <2>2
<1> QED
  BY <1>1, <1>2, <1>3, <1>4, <1>5, <1>6, <1>7 DEF LeaderStep

LEMMA ReapKeeps ==
    ASSUME TypeOK, LeaderInv, Reap, UNCHANGED <<queueVars, jobVars>>
    PROVE  TypeOK' /\ LeaderInv'
  BY PipelineAssumption DEF Reap, TypeOK, LeaderInv, ElectorInv, procVars, queueVars, jobVars

----------------------------------------------------------------------------
(* The queue.  A worker's step touches one worker and one message.         *)

LEMMA WorkType ==
    ASSUME TypeOK, NEW i \in Replicas
    PROVE  /\ worker[i] \in Work
           /\ worker[i].item \in Items \cup {NoItem}
           /\ worker[i].count \in Nat
           /\ worker[i].act \in Decisions \cup {"none"}
           /\ Idle \in Work
           /\ Idle.item = NoItem
  BY DEF TypeOK, Work, Idle, Decisions

(* A worker that takes message m, at a read that is the last one. *)
LEMMA ReadKeeps ==
    ASSUME TypeOK, QueueInv, NEW i \in Replicas, NEW m \in Items, Read(i, m),
           UNCHANGED <<leaderVars, jobVars>>
    PROVE  TypeOK' /\ QueueInv'
<1> USE PipelineAssumption
<1>0. /\ UNCHANGED <<lock, session, leader, elector, row, blocked, list, sends, proc, failed, stalled>>
      /\ worker[i] = Idle /\ msg[m] = "visible"
      /\ msg' = [msg EXCEPT ![m] = "hidden"]
      /\ reads' = [reads EXCEPT ![m] = @ + 1]
  BY DEF Read, leaderVars, jobVars
<1>a. /\ worker[i].item = NoItem
      /\ reads \in [Items -> Nat] /\ spent \in [Items -> Nat] /\ worker \in [Replicas -> Work]
      /\ msg \in [Items -> MsgStates]
  BY <1>0, WorkType DEF TypeOK
<1>b. reads[m] <= spent[m]
  BY <1>0 DEF QueueInv, ReadsInv
<1>1. CASE worker' = [worker EXCEPT ![i] = [item |-> m, count |-> reads[m] + 1, act |-> "none"]]
           /\ UNCHANGED <<spent, faults>>
  <2> DEFINE taken == [item |-> m, count |-> reads[m] + 1, act |-> "none"]
  <2>1. taken \in Work /\ taken.item = m /\ taken.count = reads[m] + 1 /\ taken.act = "none"
    BY <1>a DEF Work
  <2>2. /\ worker' = [worker EXCEPT ![i] = taken]
        /\ worker'[i] = taken
        /\ \A k \in Replicas \ {i} : worker'[k] = worker[k]
    BY <1>1, <1>a
  <2> HIDE DEF taken
  <2>3. TypeOK'
    BY <1>0, <1>1, <2>1, <2>2 DEF TypeOK, MsgStates
  <2>4. \A k \in Replicas : WorkerInv(k)'
    BY <1>0, <1>1, <1>a, <2>1, <2>2 DEF QueueInv, WorkerInv
  <2>5. /\ \A n \in Items \ {m} : Handlers(n)' = Handlers(n)
        /\ Handlers(m)' = Handlers(m) \cup {i}
    BY <1>a, <2>1, <2>2 DEF Handlers
  <2>6. \A n \in Items : ReadsInv(n)'
    <3> SUFFICES ASSUME NEW n \in Items PROVE ReadsInv(n)'
      OBVIOUS
    <3>1. CASE n = m
      BY <1>0, <1>1, <1>a, <1>b, <2>1, <2>2, <2>5, <3>1 DEF QueueInv, ReadsInv, DispatchedOnce, Queued
    <3>2. CASE n # m
      BY <1>0, <1>1, <1>a, <2>1, <2>2, <2>5, <3>2 DEF QueueInv, ReadsInv, Queued, Handlers
    <3> QED BY <3>1, <3>2
  <2>7. DispatchedOnce' /\ DeadLetterIsEarned'
    BY <1>0, <1>1, <1>a DEF QueueInv, DispatchedOnce, DeadLetterIsEarned
  <2>8. OneHandler'
    BY <1>0, <1>a, <2>5 DEF QueueInv, OneHandler, Handlers
  <2> QED BY <2>3, <2>4, <2>6, <2>7, <2>8 DEF QueueInv
<1>2. CASE Fault /\ spent' = [spent EXCEPT ![m] = @ + 1] /\ UNCHANGED worker
  <2>1. TypeOK'
    BY <1>0, <1>2, <1>a DEF TypeOK, MsgStates, Fault
  <2>2. \A k \in Replicas : WorkerInv(k)'
    BY <1>0, <1>2, <1>a, WorkType DEF QueueInv, WorkerInv
  <2>3. \A n \in Items : ReadsInv(n)'
    BY <1>0, <1>2, <1>a, <1>b DEF QueueInv, ReadsInv, Queued, Handlers
  <2>4. DispatchedOnce' /\ OneHandler' /\ DeadLetterIsEarned'
    BY <1>0, <1>2, <1>a DEF QueueInv, DispatchedOnce, OneHandler, DeadLetterIsEarned, Handlers
  <2> QED BY <2>1, <2>2, <2>3, <2>4 DEF QueueInv
<1> QED BY <1>1, <1>2 DEF Read

(* A decision: the worker of i keeps its message m. *)
LEMMA DecisionKeeps ==
    ASSUME TypeOK, QueueInv, NEW i \in Replicas, NEW m \in Items, worker[i].item = m,
           NEW act \in Decisions, worker[i].act = "none",
           worker' = [worker EXCEPT ![i].act = act],
           \/ /\ failed' = failed \cup {m}
              /\ spent' = [spent EXCEPT ![m] = @ + 1]
              /\ act = "exhausted" => worker[i].count - 1 >= MaxRetries
           \/ /\ act \notin {"terminal", "exhausted", "retry"}
              /\ UNCHANGED <<failed, spent>>,
           UNCHANGED <<msg, reads, stalled, row, sends>>
    PROVE  /\ QueueInv'
           /\ worker' \in [Replicas -> Work]
           /\ failed' \in SUBSET Items
           /\ spent' \in [Items -> Nat]
<1> USE PipelineAssumption
<1>a. /\ reads \in [Items -> Nat] /\ spent \in [Items -> Nat]
      /\ worker \in [Replicas -> Work] /\ failed \in SUBSET Items
  BY DEF TypeOK
<1>b. /\ \A k \in Replicas \ {i} : worker'[k] = worker[k]
      /\ worker'[i].item = m /\ worker'[i].count = worker[i].count /\ worker'[i].act = act
      /\ worker' \in [Replicas -> Work]
  BY <1>a DEF Work
<1>c. \A n : Handlers(n)' = Handlers(n)
  BY <1>b DEF Handlers
<1>d. /\ worker[i].count \in Nat /\ worker[i].count <= reads[m]
      /\ reads[m] <= spent[m] + 1
  BY <1>a DEF QueueInv, WorkerInv, ReadsInv
<1>1. failed' \in SUBSET Items /\ spent' \in [Items -> Nat]
  BY <1>a
<1>2. \A n \in Items : spent'[n] \in Nat /\ spent[n] \in Nat /\ spent'[n] >= spent[n]
  BY <1>a
<1>3. \A k \in Replicas : WorkerInv(k)'
  <2> SUFFICES ASSUME NEW k \in Replicas PROVE WorkerInv(k)'
    OBVIOUS
  <2>1. CASE k = i
    <3>1. act = "exhausted" => spent'[m] > MaxRetries
      BY <1>a, <1>d
    <3> QED BY <1>a, <1>b, <2>1, <3>1 DEF QueueInv, WorkerInv
  <2>2. CASE k # i
    BY <1>a, <1>b, <1>2, <2>2, WorkType DEF QueueInv, WorkerInv
  <2> QED BY <2>1, <2>2
<1>4. \A n \in Items : ReadsInv(n)'
  <2> SUFFICES ASSUME NEW n \in Items PROVE ReadsInv(n)'
    OBVIOUS
  <2>0. ReadsInv(n)
    BY DEF QueueInv
  <2>1. CASE n = m /\ spent' = [spent EXCEPT ![m] = @ + 1]
    BY <1>a, <1>c, <1>d, <2>0, <2>1 DEF ReadsInv, Queued
  <2>2. CASE UNCHANGED spent /\ act \notin {"terminal", "exhausted", "retry"}
    BY <1>a, <1>b, <1>c, <2>0, <2>2 DEF ReadsInv, Queued, Handlers, Decisions, Archived
  <2>3. CASE n # m
    BY <1>a, <1>b, <1>c, <2>0, <2>3 DEF ReadsInv, Queued, Handlers
  <2> QED BY <2>1, <2>2, <2>3
<1>5. DispatchedOnce' /\ OneHandler'
  BY <1>c DEF QueueInv, DispatchedOnce, OneHandler
<1>6. DeadLetterIsEarned'
  BY <1>a, <1>2 DEF QueueInv, DeadLetterIsEarned
<1> QED BY <1>b, <1>1, <1>3, <1>4, <1>5, <1>6 DEF QueueInv

(* decideQueueDelivery returns a decision, and archives only a failure. *)
LEMMA DecisionType ==
    ASSUME NEW down \in BOOLEAN, NEW result \in {"ok", "error", "terminal"}, NEW n \in Int
    PROVE  LET act == decideQueueDelivery(down, result, n) IN
           /\ act \in Decisions
           /\ act \in {"terminal", "exhausted", "retry"} <=> ~down /\ result # "ok"
           /\ act = "exhausted" => n >= MaxRetries
  BY DEF decideQueueDelivery, Decisions, Archived

LEMMA HandleKeeps ==
    ASSUME TypeOK, QueueInv, NEW i \in Replicas, NEW result \in {"ok", "error", "terminal"},
           Handle(i, result), UNCHANGED <<leaderVars, jobVars>>
    PROVE  TypeOK' /\ QueueInv'
<1> DEFINE m == worker[i].item
           act == decideQueueDelivery(~Running(i), result, worker[i].count - 1)
<1>1. /\ m \in Items /\ worker[i].act = "none"
      /\ worker' = [worker EXCEPT ![i].act = act]
      /\ IF Running(i) /\ result # "ok"
         THEN failed' = failed \cup {m} /\ spent' = [spent EXCEPT ![m] = @ + 1]
         ELSE UNCHANGED <<failed, spent>>
      /\ UNCHANGED <<msg, reads, stalled, row, sends, lock, session, leader, elector, blocked, list, proc, faults>>
  BY WorkType DEF Handle, procVars, leaderVars, jobVars
<1>2. /\ act \in Decisions
      /\ act \in {"terminal", "exhausted", "retry"} <=> ~(~Running(i)) /\ result # "ok"
      /\ act = "exhausted" => worker[i].count - 1 >= MaxRetries
  <2>1. worker[i].count - 1 \in Int /\ (~Running(i)) \in BOOLEAN
    BY WorkType DEF Running
  <2> QED BY <2>1, DecisionType
<1> HIDE DEF m, act
<1>3. /\ QueueInv'
      /\ worker' \in [Replicas -> Work]
      /\ failed' \in SUBSET Items
      /\ spent' \in [Items -> Nat]
  <2>1. CASE Running(i) /\ result # "ok"
    BY <1>1, <1>2, <2>1, DecisionKeeps DEF m
  <2>2. CASE ~(Running(i) /\ result # "ok")
    BY <1>1, <1>2, <2>2, DecisionKeeps DEF m
  <2> QED BY <2>1, <2>2
<1>4. TypeOK'
  BY <1>1, <1>3 DEF TypeOK
<1> QED BY <1>3, <1>4

LEMMA RejectKeeps ==
    ASSUME TypeOK, QueueInv, NEW i \in Replicas, Reject(i), UNCHANGED <<leaderVars, jobVars>>
    PROVE  TypeOK' /\ QueueInv'
<1>1. /\ worker[i].item \in Items /\ worker[i].act = "none"
      /\ worker' = [worker EXCEPT ![i].act = "rejected"]
      /\ UNCHANGED <<msg, reads, failed, spent, stalled, row, sends, lock, session, leader, elector, blocked, list, proc, faults>>
  BY WorkType DEF Reject, procVars, leaderVars, jobVars
<1>2. QueueInv' /\ worker' \in [Replicas -> Work]
  BY <1>1, DecisionKeeps DEF Decisions, Archived
<1>3. TypeOK'
  BY <1>1, <1>2 DEF TypeOK
<1> QED BY <1>2, <1>3

(* A worker lets go of m, and the read counts as spent. *)
LEMMA LeavingKeeps ==
    ASSUME TypeOK, QueueInv, NEW i \in Replicas, NEW m \in Items, worker[i].item = m,
           worker' = [worker EXCEPT ![i] = Idle],
           spent' = [spent EXCEPT ![m] = @ + 1],
           UNCHANGED <<msg, reads, failed, stalled, row, sends>>
    PROVE  /\ QueueInv'
           /\ worker' \in [Replicas -> Work]
           /\ spent' \in [Items -> Nat]
<1> USE PipelineAssumption
<1>a. /\ reads \in [Items -> Nat] /\ spent \in [Items -> Nat] /\ worker \in [Replicas -> Work]
      /\ Idle \in Work /\ Idle.item = NoItem
  BY WorkType DEF TypeOK
<1>b. /\ \A k \in Replicas \ {i} : worker'[k] = worker[k]
      /\ worker'[i] = Idle /\ worker' \in [Replicas -> Work]
      /\ spent' \in [Items -> Nat] /\ spent'[m] = spent[m] + 1
      /\ \A n \in Items \ {m} : spent'[n] = spent[n]
  BY <1>a
<1>c. /\ \A n \in Items \ {m} : Handlers(n)' = Handlers(n)
      /\ Handlers(m)' = Handlers(m) \ {i}
  BY <1>a, <1>b DEF Handlers
<1>1. \A k \in Replicas : WorkerInv(k)'
  BY <1>a, <1>b, WorkType DEF QueueInv, WorkerInv
<1>2. \A n \in Items : ReadsInv(n)'
  <2> SUFFICES ASSUME NEW n \in Items PROVE ReadsInv(n)'
    OBVIOUS
  <2>0. ReadsInv(n)
    BY DEF QueueInv
  <2>1. CASE n = m
    BY <1>a, <1>b, <1>c, <2>0, <2>1 DEF ReadsInv, Queued
  <2>2. CASE n # m
    BY <1>a, <1>b, <1>c, <2>0, <2>2 DEF ReadsInv, Queued, Handlers
  <2> QED BY <2>1, <2>2
<1>3. DispatchedOnce' /\ OneHandler'
  BY <1>c DEF QueueInv, DispatchedOnce, OneHandler
<1>4. DeadLetterIsEarned'
  BY <1>a, <1>b DEF QueueInv, DeadLetterIsEarned
<1> QED BY <1>b, <1>1, <1>2, <1>3, <1>4 DEF QueueInv

LEMMA HandoffFailsKeeps ==
    ASSUME TypeOK, QueueInv, NEW i \in Replicas, HandoffFails(i), UNCHANGED <<leaderVars, jobVars>>
    PROVE  TypeOK' /\ QueueInv'
<1>1. worker[i].item \in Items
  BY WorkType DEF HandoffFails, QueueInv, WorkerInv, Idle
<1>2. /\ QueueInv'
      /\ worker' \in [Replicas -> Work]
      /\ spent' \in [Items -> Nat]
  BY <1>1, LeavingKeeps DEF HandoffFails, jobVars
<1>3. TypeOK'
  BY <1>2, PipelineAssumption DEF TypeOK, HandoffFails, CallFails, Fault, leaderVars, jobVars
<1> QED BY <1>2, <1>3

LEMMA WorkerDiesKeeps ==
    ASSUME TypeOK, QueueInv, NEW i \in Replicas, WorkerDies(i), UNCHANGED <<row, sends>>
    PROVE  /\ QueueInv'
           /\ worker' \in [Replicas -> Work]
           /\ spent' \in [Items -> Nat]
<1>1. CASE worker[i].item = NoItem
  <2>1. worker[i] = Idle
    BY <1>1 DEF QueueInv, WorkerInv
  <2>2. worker' = worker /\ spent' = spent
    BY <1>1, <2>1, WorkType DEF WorkerDies, TypeOK
  <2> QED BY <2>2, QueueFrame DEF WorkerDies, queueVars, TypeOK
<1>2. CASE worker[i].item # NoItem
  BY <1>2, WorkType, LeavingKeeps DEF WorkerDies
<1> QED BY <1>1, <1>2

LEMMA HandoffOfKeeps ==
    ASSUME TypeOK, QueueInv, NEW i \in Replicas, Handoff(i), UNCHANGED <<leaderVars, jobVars>>,
           NEW m \in Items, worker[i].item = m
    PROVE  TypeOK' /\ QueueInv'
<1> USE PipelineAssumption
<1> DEFINE act == worker[i].act
<1>0. m \in Items /\ worker[i].item = m
  OBVIOUS
<1>1. /\ act \in Decisions
      /\ worker' = [worker EXCEPT ![i] = Idle]
      /\ msg' = IF Queued(m) THEN [msg EXCEPT ![m] = HandedOff(act)] ELSE msg
      /\ spent' = IF act = "shutdown" THEN [spent EXCEPT ![m] = @ + 1] ELSE spent
      /\ UNCHANGED <<reads, failed, stalled, row, blocked, list, sends, lock, session, leader, elector, proc, faults>>
  BY WorkType DEF Handoff, procVars, leaderVars, jobVars
<1>2. /\ HandedOff(act) \in MsgStates /\ HandedOff(act) # "none"
      /\ HandedOff(act) = "visible" => act = "shutdown"
      /\ HandedOff(act) = "hidden" => act = "retry"
      /\ HandedOff(act) \in {"terminal", "exhausted"} => HandedOff(act) = act
  BY <1>1 DEF HandedOff, MsgStates, Decisions, Archived
<1>a. /\ reads \in [Items -> Nat] /\ spent \in [Items -> Nat] /\ worker \in [Replicas -> Work]
      /\ msg \in [Items -> MsgStates] /\ Idle \in Work /\ Idle.item = NoItem
  BY WorkType DEF TypeOK
<1>w. WorkerInv(i)
  BY DEF QueueInv
<1>3. act \in {"terminal", "exhausted"} => m \in failed
  BY <1>0, <1>w DEF WorkerInv
<1>4. act = "exhausted" => spent[m] > MaxRetries
  BY <1>0, <1>w DEF WorkerInv
<1> HIDE DEF act
<1>b. /\ \A k \in Replicas \ {i} : worker'[k] = worker[k]
      /\ worker'[i] = Idle /\ worker' \in [Replicas -> Work]
      /\ spent' \in [Items -> Nat]
      /\ \A n \in Items : spent'[n] >= spent[n]
      /\ \A n \in Items \ {m} : spent'[n] = spent[n] /\ msg'[n] = msg[n]
      /\ act = "shutdown" => spent'[m] = spent[m] + 1
      /\ msg'[m] = IF Queued(m) THEN HandedOff(act) ELSE msg[m]
      /\ msg' \in [Items -> MsgStates]
  BY <1>0, <1>1, <1>2, <1>a
<1>c. /\ \A n \in Items \ {m} : Handlers(n)' = Handlers(n)
      /\ Handlers(m)' = Handlers(m) \ {i}
      /\ i \in Handlers(m)
  BY <1>0, <1>a, <1>b DEF Handlers
<1>d. msg[m] # "none"
  BY <1>0, <1>c DEF QueueInv, ReadsInv
<1>5. TypeOK'
  BY <1>1, <1>b DEF TypeOK
<1>6. \A k \in Replicas : WorkerInv(k)'
  <2> SUFFICES ASSUME NEW k \in Replicas PROVE WorkerInv(k)'
    OBVIOUS
  <2>1. CASE k = i
    BY <1>b, <1>a, <2>1 DEF WorkerInv
  <2>2. CASE k # i
    BY <1>1, <1>a, <1>b, <2>2, WorkType DEF QueueInv, WorkerInv
  <2> QED BY <2>1, <2>2
<1>7. \A n \in Items : ReadsInv(n)'
  <2> SUFFICES ASSUME NEW n \in Items PROVE ReadsInv(n)'
    OBVIOUS
  <2>0. ReadsInv(n)
    BY DEF QueueInv
  <2>1. CASE n # m
    BY <1>1, <1>a, <1>b, <1>c, <2>0, <2>1 DEF ReadsInv, Queued, Handlers
  <2>2. CASE n = m /\ act = "shutdown"
    BY <1>1, <1>2, <1>a, <1>b, <1>d, <2>0, <2>2 DEF ReadsInv, Queued
  <2>3. CASE n = m /\ act = "retry"
    <3>1. reads[m] > spent[m] /\ Queued(m) =>
             \E k \in Handlers(m) \ {i} :
                worker[k].act \in {"none", "complete", "shutdown", "rejected"}
      BY <1>0, <2>0, <2>3 DEF ReadsInv, act
    <3>2. msg'[m] # "visible" /\ msg'[m] # "none"
      BY <1>2, <1>b, <1>d, <2>3 DEF Queued
    <3>3. Queued(m)' => Queued(m)
      BY <1>b DEF Queued
    <3> QED BY <1>0, <1>1, <1>a, <1>b, <1>c, <2>0, <2>3, <3>1, <3>2, <3>3 DEF ReadsInv, Handlers
  <2>4. CASE n = m /\ act \notin {"shutdown", "retry"}
    <3>1. ~Queued(m)' /\ msg'[m] # "none"
      BY <1>2, <1>b, <1>d, <2>4 DEF Queued
    <3>2. spent' = spent
      BY <1>1, <2>4
    <3> QED BY <1>1, <1>a, <1>b, <2>0, <2>4, <3>1, <3>2 DEF ReadsInv, Queued
  <2> QED BY <2>1, <2>2, <2>3, <2>4
<1>8. DispatchedOnce'
  BY <1>0, <1>1, <1>2, <1>b, <1>d DEF QueueInv, DispatchedOnce
<1>9. OneHandler'
  BY <1>0, <1>1, <1>b, <1>c DEF QueueInv, OneHandler
<1>10. DeadLetterIsEarned'
  <2> SUFFICES ASSUME NEW n \in Items
               PROVE  /\ msg'[n] \in {"terminal", "exhausted"} => n \in failed'
                      /\ msg'[n] = "exhausted" => spent'[n] > MaxRetries
    BY DEF DeadLetterIsEarned
  <2>0. /\ msg[n] \in {"terminal", "exhausted"} => n \in failed
        /\ msg[n] = "exhausted" => spent[n] > MaxRetries
    BY DEF QueueInv, DeadLetterIsEarned
  <2>1. spent[n] \in Nat /\ spent'[n] \in Nat /\ spent'[n] >= spent[n]
    BY <1>a, <1>b
  <2> QED BY <1>0, <1>1, <1>2, <1>3, <1>4, <1>b, <2>0, <2>1
<1> QED BY <1>5, <1>6, <1>7, <1>8, <1>9, <1>10 DEF QueueInv

LEMMA HandoffKeeps ==
    ASSUME TypeOK, QueueInv, NEW i \in Replicas, Handoff(i), UNCHANGED <<leaderVars, jobVars>>
    PROVE  TypeOK' /\ QueueInv'
<1>1. worker[i].item \in Items
  BY WorkType DEF Handoff, QueueInv, WorkerInv, Idle
<1> QED BY <1>1, HandoffOfKeeps

LEMMA ExpireKeeps ==
    ASSUME TypeOK, QueueInv, NEW m \in Items, Expire(m), UNCHANGED <<leaderVars, jobVars>>
    PROVE  TypeOK' /\ QueueInv'
<1> USE PipelineAssumption
<1>a. /\ reads \in [Items -> Nat] /\ spent \in [Items -> Nat] /\ worker \in [Replicas -> Work]
      /\ msg \in [Items -> MsgStates] /\ stalled \in SUBSET Items
  BY DEF TypeOK
<1>0. /\ msg[m] = "hidden" /\ msg' = [msg EXCEPT ![m] = "visible"]
      /\ UNCHANGED <<reads, worker, failed, row, blocked, list, sends, lock, session, leader, elector, proc>>
      /\ \A n : Handlers(n)' = Handlers(n)
  BY DEF Expire, leaderVars, jobVars, Handlers
<1>1. /\ spent' \in [Items -> Nat] /\ stalled' \in SUBSET Items
      /\ faults' \in 0..MaxFaults
      /\ \A n \in Items : spent'[n] >= spent[n]
      /\ \A n \in Items \ {m} : spent'[n] = spent[n] /\ (n \in stalled' <=> n \in stalled)
      /\ Handlers(m) = {} => spent' = spent
      /\ Handlers(m) # {} => spent'[m] = spent[m] + 1 /\ m \in stalled'
  BY <1>a DEF Expire, TypeOK, Fault
<1>2. TypeOK'
  BY <1>0, <1>1 DEF TypeOK, MsgStates
<1>3. \A k \in Replicas : WorkerInv(k)'
  BY <1>0, <1>1, <1>a, WorkType DEF QueueInv, WorkerInv
<1>4. \A n \in Items : ReadsInv(n)'
  <2> SUFFICES ASSUME NEW n \in Items PROVE ReadsInv(n)'
    OBVIOUS
  <2>0. ReadsInv(n)
    BY DEF QueueInv
  <2>1. CASE n # m
    BY <1>0, <1>1, <1>a, <2>0, <2>1 DEF ReadsInv, Queued
  <2>2. CASE n = m
    <3>1. reads[m] <= spent'[m]
      BY <1>0, <1>1, <1>a, <2>0, <2>2 DEF ReadsInv, Queued
    <3> QED BY <1>0, <1>1, <1>a, <2>0, <2>2, <3>1 DEF ReadsInv, Queued
  <2> QED BY <2>1, <2>2
<1>5. DispatchedOnce'
  BY <1>0, <1>a DEF QueueInv, DispatchedOnce
<1>6. OneHandler'
  BY <1>0, <1>1, <1>a DEF QueueInv, OneHandler
<1>7. DeadLetterIsEarned'
  BY <1>0, <1>1, <1>a DEF QueueInv, DeadLetterIsEarned
<1> QED BY <1>2, <1>3, <1>4, <1>5, <1>6, <1>7 DEF QueueInv

LEMMA ConsumerStepKeeps ==
    ASSUME TypeOK, QueueInv, NEW i \in Replicas, ConsumerStep(i), UNCHANGED <<leaderVars, jobVars>>
    PROVE  TypeOK' /\ QueueInv' /\ UNCHANGED proc
  BY ReadKeeps, HandleKeeps, RejectKeeps, HandoffKeeps, HandoffFailsKeeps
     DEF ConsumerStep, Read, Handle, Reject, Handoff, HandoffFails, procVars

----------------------------------------------------------------------------
(* The cron job.                                                           *)

(* The transaction that enqueues the command of a due request. *)
LEMMA EnqueueKeeps ==
    ASSUME TypeOK, QueueInv, NEW m \in Items, row[m] = "due", Enqueue(m),
           UNCHANGED <<reads, worker, failed, spent, stalled>>
    PROVE  /\ QueueInv'
           /\ row' \in [Items -> {"waiting", "due", "gone"}]
           /\ msg' \in [Items -> MsgStates]
           /\ sends' \in [Items -> Nat]
<1> USE PipelineAssumption
<1>a. /\ msg \in [Items -> MsgStates] /\ sends \in [Items -> Nat] /\ reads \in [Items -> Nat]
      /\ row \in [Items -> {"waiting", "due", "gone"}] /\ spent \in [Items -> Nat]
  BY DEF TypeOK
<1>1. /\ msg[m] = "none" /\ sends[m] = 0 /\ reads[m] = 0 /\ Handlers(m) = {}
  BY DEF QueueInv, DispatchedOnce, ReadsInv
<1>2. /\ row' = [row EXCEPT ![m] = "gone"] /\ msg' = [msg EXCEPT ![m] = "visible"]
      /\ sends' = [sends EXCEPT ![m] = @ + 1]
      /\ \A n : Handlers(n)' = Handlers(n)
  BY DEF Enqueue, Handlers
<1>3. /\ row' \in [Items -> {"waiting", "due", "gone"}]
      /\ msg' \in [Items -> MsgStates]
      /\ sends' \in [Items -> Nat]
  BY <1>a, <1>2 DEF MsgStates
<1>4. \A k \in Replicas : WorkerInv(k)'
  BY DEF QueueInv, WorkerInv
<1>5. \A n \in Items : ReadsInv(n)'
  BY <1>a, <1>1, <1>2 DEF QueueInv, ReadsInv, Queued
<1>6. DispatchedOnce' /\ OneHandler' /\ DeadLetterIsEarned'
  BY <1>a, <1>1, <1>2 DEF QueueInv, DispatchedOnce, OneHandler, DeadLetterIsEarned
<1> QED BY <1>3, <1>4, <1>5, <1>6 DEF QueueInv

LEMMA JobStepKeeps ==
    ASSUME TypeOK, LeaderInv, QueueInv, NEW i \in Replicas, JobStep(i)
    PROVE  TypeOK' /\ LeaderInv' /\ QueueInv'
<1> USE PipelineAssumption
<1>1. CASE addJob(i)
  <2>1. TypeOK'
    BY <1>1 DEF addJob, DueScheduledDeletions, TypeOK, procVars, Others, leaderVars, queueVars
  <2>2. LeaderInv'
    BY <1>1, LeaderListFrame DEF addJob, procVars, Others, Running
  <2>3. QueueInv'
    BY <1>1, QueueFrame DEF addJob, Others
  <2> QED BY <2>1, <2>2, <2>3
<1>2. ASSUME NEW m \in Items, DispatchScheduledUserDeletion(i, m)
      PROVE  TypeOK' /\ LeaderInv' /\ QueueInv'
  <2>0. /\ Running(i) /\ list' = [list EXCEPT ![i] = @ \ {m}]
        /\ UNCHANGED leaderVars /\ UNCHANGED proc
        /\ UNCHANGED <<reads, worker, failed, spent, stalled, faults, blocked>>
    BY <1>2 DEF DispatchScheduledUserDeletion, NextOf, procVars
  <2>1. LeaderInv'
    BY <2>0, LeaderListFrame DEF Running
  <2>2. CASE row[m] = "due"
    <3>1. /\ QueueInv'
          /\ row' \in [Items -> {"waiting", "due", "gone"}]
          /\ msg' \in [Items -> MsgStates]
          /\ sends' \in [Items -> Nat]
      BY <1>2, <2>0, <2>2, EnqueueKeeps DEF DispatchScheduledUserDeletion
    <3>2. TypeOK'
      BY <2>0, <3>1 DEF TypeOK, leaderVars
    <3> QED BY <2>1, <3>1, <3>2
  <2>3. CASE row[m] # "due"
    <3>1. UNCHANGED <<row, msg, sends>>
      BY <1>2, <2>3 DEF DispatchScheduledUserDeletion
    <3>2. QueueInv'
      BY <2>0, <3>1, QueueFrame DEF queueVars
    <3>3. TypeOK'
      BY <2>0, <3>1 DEF TypeOK, leaderVars
    <3> QED BY <2>1, <3>2, <3>3
  <2> QED BY <2>2, <2>3
<1>3. ASSUME NEW m \in Items, DispatchRefused(i, m) \/ DispatchFails(i, m)
      PROVE  TypeOK' /\ LeaderInv' /\ QueueInv'
  <2>0. /\ list' = [list EXCEPT ![i] = @ \ {m}] /\ proc[i] # "down"
        /\ UNCHANGED leaderVars /\ UNCHANGED proc /\ UNCHANGED queueVars
        /\ UNCHANGED <<row, blocked, sends>> /\ faults' \in 0..MaxFaults
    BY <1>3 DEF DispatchRefused, DispatchFails, NextOf, CallFails, Running, Fault, Others,
                procVars, TypeOK
  <2>1. LeaderInv'
    BY <2>0, LeaderListFrame
  <2>2. QueueInv'
    BY <2>0, QueueFrame
  <2>3. TypeOK'
    BY <2>0 DEF TypeOK, leaderVars, queueVars
  <2> QED BY <2>1, <2>2, <2>3
<1> QED BY <1>1, <1>2, <1>3 DEF JobStep

----------------------------------------------------------------------------
(* The life of the processes.                                              *)

(* A process ends and takes its elector, its job and its worker with it.   *)
LEMMA DiesKeeps ==
    ASSUME TypeOK, LeaderInv, QueueInv, NEW i \in Replicas, Dies(i),
           faults' \in 0..MaxFaults
    PROVE  TypeOK' /\ LeaderInv' /\ QueueInv'
<1> USE PipelineAssumption
<1>0. /\ proc' = [proc EXCEPT ![i] = "down"]
      /\ session' = [session EXCEPT ![i] = "none"]
      /\ leader' = [leader EXCEPT ![i] = FALSE]
      /\ elector' = [elector EXCEPT ![i] = "ended"]
      /\ lock' = IF lock = i THEN Orphan ELSE lock
      /\ list' = [list EXCEPT ![i] = {}]
      /\ UNCHANGED <<row, blocked, sends, msg, reads, failed, stalled>>
  BY DEF Dies, ElectorDies, WorkerDies
<1>1. /\ QueueInv'
      /\ worker' \in [Replicas -> Work]
      /\ spent' \in [Items -> Nat]
  BY WorkerDiesKeeps DEF Dies
<1>2. TypeOK'
  BY <1>0, <1>1 DEF TypeOK, Steps
<1>3. LeaderInv'
  BY <1>0 DEF TypeOK, LeaderInv, ElectorInv
<1> QED BY <1>1, <1>2, <1>3

LEMMA StartKeeps ==
    ASSUME TypeOK, LeaderInv, QueueInv, NEW i \in Replicas, Start(i)
    PROVE  TypeOK' /\ LeaderInv' /\ QueueInv'
<1>1. QueueInv'
  BY QueueFrame DEF Start, jobVars
<1>2. TypeOK'
  BY DEF Start, ElectorStarts, TypeOK, Steps, queueVars, jobVars
<1>3. LeaderInv'
  BY DEF Start, ElectorStarts, TypeOK, LeaderInv, ElectorInv, jobVars
<1> QED BY <1>1, <1>2, <1>3

LEMMA SignalKeeps ==
    ASSUME TypeOK, LeaderInv, QueueInv, NEW i \in Replicas, Signal(i)
    PROVE  TypeOK' /\ LeaderInv' /\ QueueInv'
<1>1. QueueInv'
  BY QueueFrame DEF Signal, Others, jobVars
<1>2. TypeOK'
  BY PipelineAssumption
     DEF Signal, awaitShutdown, Running, Fault, TypeOK, Others, leaderVars, queueVars, jobVars
<1>3. LeaderInv'
  BY DEF Signal, awaitShutdown, Running, TypeOK, LeaderInv, ElectorInv, Others, leaderVars, jobVars
<1> QED BY <1>1, <1>2, <1>3

LEMMA GraceEndsKeeps ==
    ASSUME TypeOK, LeaderInv, QueueInv, NEW m \in Items, GraceEnds(m)
    PROVE  TypeOK' /\ LeaderInv' /\ QueueInv'
<1>1. LeaderInv'
  BY LeaderFrame DEF GraceEnds, procVars, Others
<1>2. TypeOK'
  BY DEF GraceEnds, TypeOK, procVars, Others, leaderVars, queueVars
<1>3. QueueInv'
  BY DEF GraceEnds, TypeOK, Others, queueVars, QueueInv, WorkerInv, ReadsInv, DispatchedOnce,
         OneHandler, DeadLetterIsEarned, Handlers, Queued
<1> QED BY <1>1, <1>2, <1>3

LEMMA RecoveryConfirmedKeeps ==
    ASSUME TypeOK, LeaderInv, QueueInv, NEW m \in Items, RecoveryConfirmed(m)
    PROVE  TypeOK' /\ LeaderInv' /\ QueueInv'
<1>1. LeaderInv'
  BY LeaderFrame DEF RecoveryConfirmed, procVars, Others
<1>2. TypeOK'
  BY DEF RecoveryConfirmed, TypeOK, procVars, Others, leaderVars, queueVars
<1>3. QueueInv'
  BY DEF RecoveryConfirmed, TypeOK, Others, queueVars, QueueInv, WorkerInv, ReadsInv, DispatchedOnce,
         OneHandler, DeadLetterIsEarned, Handlers, Queued
<1> QED BY <1>1, <1>2, <1>3

LEMMA StandingChangesKeeps ==
    ASSUME TypeOK, LeaderInv, QueueInv, NEW m \in Items, StandingChanges(m)
    PROVE  TypeOK' /\ LeaderInv' /\ QueueInv'
<1>1. LeaderInv' /\ QueueInv'
  BY LeaderFrame, QueueFrame DEF StandingChanges, procVars, Others
<1>2. TypeOK'
  BY DEF StandingChanges, TypeOK, procVars, Others, leaderVars, queueVars
<1> QED BY <1>1, <1>2

----------------------------------------------------------------------------
(* The theorems.                                                           *)

LEMMA InitEstablishes == Init => PipelineInv
<1> SUFFICES ASSUME Init PROVE PipelineInv
  OBVIOUS
<1> USE PipelineAssumption
<1>1. TypeOK
  BY DEF Init, ProcInit, LeaderInit, QueueInit, TypeOK, Steps, MsgStates, Work, Idle
<1>2. LeaderInv
  BY DEF Init, ProcInit, LeaderInit, LeaderInv, ElectorInv
<1>3. QueueInv
  <2>1. \A i \in Replicas : worker[i] = Idle /\ worker[i].item = NoItem
    BY DEF Init, QueueInit, Idle
  <2>2. \A m \in Items : Handlers(m) = {}
    BY <2>1 DEF Handlers
  <2> QED
    BY <2>1, <2>2 DEF Init, QueueInit, QueueInv, WorkerInv, ReadsInv, DispatchedOnce,
                      OneHandler, DeadLetterIsEarned, Queued
<1> QED BY <1>1, <1>2, <1>3 DEF PipelineInv

LEMMA NextPreserves == PipelineInv /\ [Next]_vars => PipelineInv'
<1> SUFFICES ASSUME TypeOK, LeaderInv, QueueInv, [Next]_vars
             PROVE  TypeOK' /\ LeaderInv' /\ QueueInv'
  BY DEF PipelineInv
<1>1. ASSUME NEW i \in Replicas, LeaderStep(i), UNCHANGED <<queueVars, jobVars>>
      PROVE  TypeOK' /\ LeaderInv' /\ QueueInv'
  BY <1>1, LeaderStepKeeps, QueueFrame DEF jobVars
<1>2. ASSUME NEW i \in Replicas, ConsumerStep(i), UNCHANGED <<leaderVars, jobVars>>
      PROVE  TypeOK' /\ LeaderInv' /\ QueueInv'
  BY <1>2, ConsumerStepKeeps, LeaderFrame DEF jobVars
<1>3. ASSUME NEW i \in Replicas, Shutdown(i) \/ Crash(i)
      PROVE  TypeOK' /\ LeaderInv' /\ QueueInv'
  <2>1. Dies(i)
    BY <1>3 DEF Shutdown, Crash
  <2>2. faults' \in 0..MaxFaults
    BY <1>3, PipelineAssumption DEF Shutdown, Crash, Fault, TypeOK
  <2> QED BY <2>1, <2>2, DiesKeeps
<1>4. CASE Reap /\ UNCHANGED <<queueVars, jobVars>>
  BY <1>4, ReapKeeps, QueueFrame DEF jobVars
<1>5. ASSUME NEW m \in Items, Expire(m), UNCHANGED <<leaderVars, jobVars>>
      PROVE  TypeOK' /\ LeaderInv' /\ QueueInv'
  BY <1>5, ExpireKeeps, LeaderFrame DEF Expire, jobVars
<1>6. CASE UNCHANGED vars
  <2>1. TypeOK'
    BY <1>6 DEF vars, procVars, leaderVars, queueVars, jobVars, TypeOK
  <2>2. LeaderInv' /\ QueueInv'
    BY <1>6, LeaderFrame, QueueFrame DEF vars, procVars, jobVars
  <2> QED BY <2>1, <2>2
<1> QED
  BY <1>1, <1>2, <1>3, <1>4, <1>5, <1>6, JobStepKeeps, SignalKeeps, StartKeeps,
     GraceEndsKeeps, RecoveryConfirmedKeeps, StandingChangesKeeps DEF Next

(* Every reachable state satisfies the inductive invariant, whatever the   *)
(* replicas, their faults and the retry limit.                             *)
THEOREM PipelineInvariant == Spec => []PipelineInv
<1>1. Init => PipelineInv
  BY InitEstablishes
<1>2. PipelineInv /\ [Next]_vars => PipelineInv'
  BY NextPreserves
<1> QED BY <1>1, <1>2, PTL DEF Spec

(* The variables keep their types. *)
THEOREM PipelineTypes == Spec => []TypeOK
<1>1. PipelineInv => TypeOK
  BY DEF PipelineInv
<1> QED BY <1>1, PipelineInvariant, PTL

(* A flag that is up on a working connection is backed by the lock, and    *)
(* releaseSession never takes the lock back to the pool.                   *)
THEOREM LeadershipTheorem == Spec => []LeadershipIsHeld
<1>1. PipelineInv => LeadershipIsHeld
  BY DEF PipelineInv, LeaderInv, ElectorInv, LeadershipIsHeld
<1> QED BY <1>1, PipelineInvariant, PTL

(* A due request becomes exactly one command, though any number of         *)
(* replicas believe that they lead.                                        *)
THEOREM DispatchTheorem == Spec => []DispatchedOnce
<1>1. PipelineInv => DispatchedOnce
  BY DEF PipelineInv, QueueInv
<1> QED BY <1>1, PipelineInvariant, PTL

(* No message is handed out twice at the same time until a worker          *)
(* overruns its visibility timeout.                                        *)
THEOREM OneHandlerTheorem == Spec => []OneHandler
<1>1. PipelineInv => OneHandler
  BY DEF PipelineInv, QueueInv
<1> QED BY <1>1, PipelineInvariant, PTL

(* Interruptions use up retries and never archive a message themselves. *)
THEOREM DeadLetterTheorem == Spec => []DeadLetterIsEarned
<1>1. PipelineInv => DeadLetterIsEarned
  BY DEF PipelineInv, QueueInv
<1> QED BY <1>1, PipelineInvariant, PTL

----------------------------------------------------------------------------
(* The contract.  Only Handoff and Enqueue move a phase on after the grace *)
(* period, and only they, Read and the end of a process change a holder.   *)

LEMMA PhaseFacts ==
    ASSUME NEW r \in {"waiting", "due", "gone"}, NEW s \in MsgStates
    PROVE  /\ PhaseOf(r, "none") = r
           /\ PhaseOf(r, s) = "queued" <=> s \in {"visible", "hidden"}
           /\ PhaseOf(r, s) = "done" <=> s = "done"
           /\ PhaseOf(r, s) = "dead" <=> s \in Archived
  BY DEF PhaseOf, MsgStates, Archived

LEMMA PhaseAt ==
    ASSUME TypeOK, NEW m \in Items
    PROVE  /\ contractPhase[m] = PhaseOf(row[m], msg[m])
           /\ row[m] \in {"waiting", "due", "gone"} /\ msg[m] \in MsgStates
           /\ contractPhase[m] = "queued" <=> Queued(m)
  BY PhaseFacts DEF contractPhase, TypeOK, Queued

(* A worker's message is a message, and it has one while it has a decision. *)
LEMMA HoldingAt ==
    ASSUME PipelineInv, NEW i \in Replicas
    PROVE  /\ contractHolding[i] = worker[i].item
           /\ worker[i].item \in Items \cup {NoItem}
           /\ worker[i].act # "none" => worker[i].item # NoItem
           /\ worker[i] = Idle => worker[i].item = NoItem
  BY DEF contractHolding, PipelineInv, QueueInv, WorkerInv, TypeOK, Work, Idle

LEMMA PhasesKept ==
    ASSUME TypeOK, UNCHANGED row, \A m \in Items : PhaseOf(row[m], msg'[m]) = PhaseOf(row[m], msg[m])
    PROVE  UNCHANGED contractPhase
  BY DEF contractPhase

(* A step that takes one message from queued to queued is invisible. *)
LEMMA StillQueued ==
    ASSUME TypeOK, UNCHANGED row, NEW m \in Items, Queued(m),
           NEW s \in {"visible", "hidden"}, msg' = [msg EXCEPT ![m] = s]
    PROVE  UNCHANGED contractPhase
<1>1. \A k \in Items : msg'[k] = IF k = m THEN s ELSE msg[k]
  BY DEF TypeOK
<1>2. PhaseOf(row[m], msg'[m]) = PhaseOf(row[m], msg[m])
  BY <1>1 DEF PhaseOf, Queued, Archived
<1> QED BY <1>1, <1>2, PhasesKept

LEMMA PhaseMoves ==
    ASSUME TypeOK, UNCHANGED row, NEW m \in Items, NEW s, msg' = [msg EXCEPT ![m] = s]
    PROVE  contractPhase' = [contractPhase EXCEPT ![m] = PhaseOf(row[m], s)]
<1>1. \A k \in Items : msg'[k] = IF k = m THEN s ELSE msg[k]
  BY DEF TypeOK
<1>2. \A k \in Items : PhaseOf(row'[k], msg'[k]) =
         IF k = m THEN PhaseOf(row[m], s) ELSE PhaseOf(row[k], msg[k])
  BY <1>1
<1> QED BY <1>2 DEF contractPhase

LEMMA HolderMoves ==
    ASSUME TypeOK, NEW i \in Replicas, NEW w, worker' = [worker EXCEPT ![i] = w]
    PROVE  contractHolding' = [contractHolding EXCEPT ![i] = w.item]
<1>1. \A k \in Replicas : worker'[k] = IF k = i THEN w ELSE worker[k]
  BY DEF TypeOK
<1>2. \A k \in Replicas : worker'[k].item = IF k = i THEN w.item ELSE worker[k].item
  BY <1>1
<1> QED BY <1>2 DEF contractHolding

LEMMA DecidingKeepsHolder ==
    ASSUME TypeOK, NEW i \in Replicas, NEW a, worker' = [worker EXCEPT ![i].act = a]
    PROVE  UNCHANGED contractHolding
<1>1. \A k \in Replicas : worker'[k].item = worker[k].item
  BY DEF TypeOK, Work
<1> QED BY <1>1 DEF contractHolding

LEMMA HolderLeaves ==
    ASSUME TypeOK, NEW i \in Replicas, worker' = [worker EXCEPT ![i] = Idle]
    PROVE  contractHolding' = [contractHolding EXCEPT ![i] = NoItem]
<1>1. Idle.item = NoItem
  BY DEF Idle
<1> QED BY <1>1, HolderMoves

LEMMA LetGoRefines ==
    ASSUME PipelineInv, NEW i \in Replicas, worker' = [worker EXCEPT ![i] = Idle],
           UNCHANGED contractPhase
    PROVE  Contract!Next \/ UNCHANGED <<contractPhase, contractHolding>>
<1>1. TypeOK
  BY DEF PipelineInv
<1>2. contractHolding' = [contractHolding EXCEPT ![i] = NoItem]
  BY <1>1, HolderLeaves
<1>3. CASE worker[i].item # NoItem
  <2>1. Contract!LetGo(i)
    BY <1>2, <1>3, HoldingAt DEF Contract!LetGo
  <2> QED BY <2>1 DEF Contract!Next
<1>4. CASE worker[i].item = NoItem
  BY <1>2, <1>4, HoldingAt DEF contractHolding
<1> QED BY <1>3, <1>4

LEMMA HandoffRefines ==
    ASSUME PipelineInv, NEW i \in Replicas, Handoff(i), UNCHANGED row
    PROVE  Contract!Next \/ UNCHANGED <<contractPhase, contractHolding>>
<1> DEFINE m == worker[i].item
           s == HandedOff(worker[i].act)
<1>1. TypeOK /\ worker' = [worker EXCEPT ![i] = Idle]
  BY DEF PipelineInv, Handoff
<1>2. m \in Items /\ m # NoItem /\ contractHolding[i] = m
  BY HoldingAt DEF Handoff
<1>3. s \in {"done", "visible", "hidden"} \cup Archived
  <2>1. worker[i].act \in Decisions
    BY <1>1 DEF TypeOK, Work, Handoff
  <2> QED BY <2>1 DEF HandedOff, Decisions, Archived
<1>4. CASE ~Queued(m)
  <2>1. msg' = msg
    BY <1>4 DEF Handoff
  <2>2. UNCHANGED contractPhase
    BY <2>1 DEF contractPhase
  <2> QED BY <1>1, <2>2, LetGoRefines
<1>5. CASE Queued(m)
  <2>1. msg' = [msg EXCEPT ![m] = s]
    BY <1>5 DEF Handoff
  <2>2. CASE s \in {"visible", "hidden"}
    <3>1. UNCHANGED contractPhase
      BY <1>1, <1>2, <1>5, <2>1, <2>2, StillQueued
    <3> QED BY <1>1, <3>1, LetGoRefines
  <2>3. CASE s \in {"done"} \cup Archived
    <3> DEFINE o == PhaseOf(row[m], s)
    <3>1. o \in {"done", "dead"}
      BY <2>3 DEF PhaseOf, Archived
    <3>2. contractPhase' = [contractPhase EXCEPT ![m] = o]
      BY <1>1, <1>2, <2>1, PhaseMoves
    <3>3. contractHolding' = [contractHolding EXCEPT ![i] = NoItem]
      BY <1>1, HolderLeaves
    <3>4. contractPhase[m] = "queued"
      BY <1>1, <1>2, <1>5, PhaseAt
    <3> HIDE DEF o, m, s
    <3>5. Contract!Settle(i, o)
      BY <1>2, <3>2, <3>3, <3>4 DEF Contract!Settle
    <3> QED BY <3>1, <3>5 DEF Contract!Next, Contract!Settled
  <2> QED BY <1>3, <2>2, <2>3
<1> QED BY <1>4, <1>5

LEMMA ReadRefines ==
    ASSUME PipelineInv, NEW i \in Replicas, NEW m \in Items, Read(i, m), UNCHANGED row
    PROVE  Contract!Next \/ UNCHANGED <<contractPhase, contractHolding>>
<1>1. TypeOK /\ Queued(m)
  BY DEF PipelineInv, Read, Queued
<1>2. UNCHANGED contractPhase
  BY <1>1, StillQueued DEF Read
<1>3. CASE UNCHANGED worker
  BY <1>2, <1>3 DEF contractHolding
<1> DEFINE w == [item |-> m, count |-> reads[m] + 1, act |-> "none"]
<1>4. CASE worker' = [worker EXCEPT ![i] = w]
  <2>0. w.item = m
    OBVIOUS
  <2>1. contractHolding' = [contractHolding EXCEPT ![i] = m]
    <3> HIDE DEF w
    <3> QED BY <1>1, <1>4, <2>0, HolderMoves
  <2>2. contractHolding[i] = NoItem /\ contractPhase[m] = "queued"
    BY <1>1, HoldingAt, PhaseAt DEF Read
  <2>3. Contract!Take(i, m)
    BY <1>2, <2>1, <2>2 DEF Contract!Take
  <2> QED BY <2>3 DEF Contract!Next
<1> QED BY <1>3, <1>4 DEF Read

LEMMA ConsumerRefines ==
    ASSUME PipelineInv, NEW i \in Replicas, ConsumerStep(i), UNCHANGED row
    PROVE  Contract!Next \/ UNCHANGED <<contractPhase, contractHolding>>
<1>1. TypeOK
  BY DEF PipelineInv
<1>2. ASSUME NEW result \in {"ok", "error", "terminal"}, Handle(i, result) \/ Reject(i)
      PROVE  UNCHANGED <<contractPhase, contractHolding>>
  <2>1. UNCHANGED contractHolding
    BY <1>1, <1>2, DecidingKeepsHolder DEF Handle, Reject
  <2>2. UNCHANGED contractPhase
    BY <1>2 DEF Handle, Reject, contractPhase
  <2> QED BY <2>1, <2>2
<1>3. CASE HandoffFails(i)
  <2>1. UNCHANGED contractPhase /\ worker' = [worker EXCEPT ![i] = Idle]
    BY <1>3 DEF HandoffFails, contractPhase
  <2> QED BY <2>1, LetGoRefines
<1> QED BY <1>2, <1>3, ReadRefines, HandoffRefines DEF ConsumerStep

LEMMA DispatchRefines ==
    ASSUME PipelineInv, NEW m \in Items, row[m] = "due", Enqueue(m), UNCHANGED worker
    PROVE  Contract!Next
<1>1. TypeOK /\ msg[m] = "none"
  BY DEF PipelineInv, QueueInv, DispatchedOnce
<1>2. contractPhase[m] = "due"
  BY <1>1, PhaseAt, PhaseFacts
<1>3. \A k \in Items : /\ row'[k] = IF k = m THEN "gone" ELSE row[k]
                       /\ msg'[k] = IF k = m THEN "visible" ELSE msg[k]
  BY <1>1 DEF Enqueue, TypeOK
<1>4. PhaseOf("gone", "visible") = "queued"
  BY DEF PhaseOf, Archived
<1>5. contractPhase' = [k \in Items |-> PhaseOf(row'[k], msg'[k])]
  BY DEF contractPhase
<1>6. contractPhase' = [contractPhase EXCEPT ![m] = "queued"]
  BY <1>3, <1>4, <1>5 DEF contractPhase
<1>7. Contract!Command(m)
  BY <1>2, <1>6 DEF Contract!Command, contractHolding
<1> QED BY <1>7 DEF Contract!Next

LEMMA FallDueRefines ==
    ASSUME PipelineInv, NEW m \in Items, GraceEnds(m)
    PROVE  Contract!Next
<1>1. TypeOK /\ msg[m] = "none"
  BY DEF PipelineInv, QueueInv, DispatchedOnce, GraceEnds
<1>2. contractPhase[m] = "waiting"
  BY <1>1, PhaseAt, PhaseFacts DEF GraceEnds
<1>3. /\ \A k \in Items : row'[k] = IF k = m THEN "due" ELSE row[k]
      /\ UNCHANGED <<msg, worker>>
  BY <1>1 DEF GraceEnds, TypeOK, Others, queueVars
<1>4. PhaseOf("due", "none") = "due"
  BY DEF PhaseOf, Archived
<1>5. contractPhase' = [k \in Items |-> PhaseOf(row'[k], msg'[k])]
  BY DEF contractPhase
<1>6. contractPhase' = [contractPhase EXCEPT ![m] = "due"]
  BY <1>1, <1>3, <1>4, <1>5 DEF contractPhase
<1>7. Contract!FallDue(m)
  BY <1>2, <1>3, <1>6 DEF Contract!FallDue, contractHolding
<1> QED BY <1>7 DEF Contract!Next

LEMMA WithdrawRefines ==
    ASSUME PipelineInv, NEW m \in Items, RecoveryConfirmed(m)
    PROVE  Contract!Next
<1>1. TypeOK /\ msg[m] = "none"
  BY DEF PipelineInv, QueueInv, DispatchedOnce, RecoveryConfirmed
<1>2. contractPhase[m] = "due"
  BY <1>1, PhaseAt, PhaseFacts DEF RecoveryConfirmed
<1>3. /\ \A k \in Items : row'[k] = IF k = m THEN "waiting" ELSE row[k]
      /\ UNCHANGED <<msg, worker>>
  BY <1>1 DEF RecoveryConfirmed, TypeOK, Others, queueVars
<1>4. PhaseOf("waiting", "none") = "waiting"
  BY DEF PhaseOf, Archived
<1>5. contractPhase' = [k \in Items |-> PhaseOf(row'[k], msg'[k])]
  BY DEF contractPhase
<1>6. contractPhase' = [contractPhase EXCEPT ![m] = "waiting"]
  BY <1>1, <1>3, <1>4, <1>5 DEF contractPhase
<1>7. Contract!Withdraw(m)
  BY <1>2, <1>3, <1>6 DEF Contract!Withdraw, contractHolding
<1> QED BY <1>7 DEF Contract!Next

LEMMA StepRefinesContract ==
    PipelineInv /\ [Next]_vars => [Contract!Next]_<<contractPhase, contractHolding>>
<1> SUFFICES ASSUME PipelineInv, [Next]_vars
             PROVE  Contract!Next \/ UNCHANGED <<contractPhase, contractHolding>>
  OBVIOUS
<1>1. ASSUME UNCHANGED <<row, msg, worker>>
      PROVE  UNCHANGED <<contractPhase, contractHolding>>
  BY <1>1 DEF contractPhase, contractHolding
<1>2. ASSUME NEW i \in Replicas, ConsumerStep(i), UNCHANGED <<leaderVars, jobVars>>
      PROVE  Contract!Next \/ UNCHANGED <<contractPhase, contractHolding>>
  BY <1>2, ConsumerRefines DEF jobVars
<1>3. ASSUME NEW i \in Replicas, JobStep(i)
      PROVE  Contract!Next \/ UNCHANGED <<contractPhase, contractHolding>>
  <2>1. CASE addJob(i) \/ \E m \in Items : DispatchRefused(i, m) \/ DispatchFails(i, m)
    BY <1>1, <2>1 DEF addJob, DispatchRefused, DispatchFails, Others, queueVars
  <2>2. ASSUME NEW m \in Items, DispatchScheduledUserDeletion(i, m)
        PROVE  Contract!Next \/ UNCHANGED <<contractPhase, contractHolding>>
    BY <1>1, <2>2, DispatchRefines DEF DispatchScheduledUserDeletion
  <2> QED BY <1>3, <2>1, <2>2 DEF JobStep
<1>4. ASSUME NEW i \in Replicas, Shutdown(i) \/ Crash(i)
      PROVE  Contract!Next \/ UNCHANGED <<contractPhase, contractHolding>>
  <2>1. worker' = [worker EXCEPT ![i] = Idle] /\ UNCHANGED <<row, msg>>
    BY <1>4 DEF Shutdown, Crash, Dies, WorkerDies
  <2>2. UNCHANGED contractPhase
    BY <2>1 DEF contractPhase
  <2> QED BY <2>1, <2>2, LetGoRefines
<1>5. ASSUME NEW m \in Items, Expire(m), UNCHANGED <<leaderVars, jobVars>>
      PROVE  UNCHANGED <<contractPhase, contractHolding>>
  <2>1. UNCHANGED contractPhase
    BY <1>5, StillQueued DEF Expire, jobVars, PipelineInv, Queued
  <2> QED BY <1>5, <2>1 DEF Expire, contractHolding
<1>6. ASSUME NEW i \in Replicas, \/ LeaderStep(i) /\ UNCHANGED <<queueVars, jobVars>>
                                \/ Signal(i) \/ Start(i)
      PROVE  UNCHANGED <<contractPhase, contractHolding>>
  BY <1>1, <1>6 DEF Signal, Start, queueVars, jobVars, Others
<1>7. CASE (Reap /\ UNCHANGED <<queueVars, jobVars>>) \/ UNCHANGED vars
  BY <1>1, <1>7 DEF queueVars, jobVars, vars
<1>8. ASSUME NEW m \in Items, StandingChanges(m)
      PROVE  UNCHANGED <<contractPhase, contractHolding>>
  BY <1>1, <1>8 DEF StandingChanges, Others, queueVars
<1> QED
  BY <1>2, <1>3, <1>4, <1>5, <1>6, <1>7, <1>8, FallDueRefines, WithdrawRefines DEF Next

LEMMA InitRefinesContract == Init => Contract!Init
<1> SUFFICES ASSUME Init PROVE Contract!Init
  OBVIOUS
<1>1. contractPhase = [m \in Items |-> "waiting"]
  BY DEF Init, QueueInit, contractPhase, PhaseOf, Archived
<1>2. contractHolding = [i \in Replicas |-> NoItem]
  BY DEF Init, QueueInit, contractHolding, Idle
<1> QED BY <1>1, <1>2 DEF Contract!Init

(* The pipeline implements the contract, whatever the replicas, the retry  *)
(* limit and the faults: a row becomes one command and is settled once, by *)
(* a worker that has it, and no late hand-off brings it back.              *)
THEOREM PipelineImplementsContract == Spec => ImplementsJobContract
<1> QED
  BY InitRefinesContract, StepRefinesContract, PipelineInvariant, PTL
     DEF Spec, ImplementsJobContract, Contract!Spec
=============================================================================
