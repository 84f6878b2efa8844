------------------------ MODULE AuthzMutationProofs ------------------------
(***************************************************************************)
(* Proofs about AuthzMutation for any number of processes and keys, any    *)
(* batches, any number of attempts, lost transactions, crashes and late    *)
(* writes.                                                                 *)
(***************************************************************************)
EXTENDS AuthzMutation, TLAPS

-----------------------------------------------------------------------------
(* Types.                                                                    *)

LEMMA RequestTypes ==
    ASSUME TypeOK, NEW p \in Procs
    PROVE  /\ batch[p] \in Batches
           /\ Request(p) \in Requests
           /\ \A q \in Requests : Applied(q) \subseteq Keys
  BY DEF TypeOK, Batches, Requests, Request, Forward, Restore, Applied

LEMMA ZeroAttempts == 0 \in 0..(MaxAttempts - 1)
  BY AttemptsAssumption

\* How a write loop goes on or ends keeps the process's variables typed and
\* its place inside the mutation.
LEMMA ReturnTypes ==
    ASSUME TypeOK, NEW p \in Procs, pc[p] \in {"write", "inspect"},
           \/ ReturnOK(p)
           \/ ReturnError(p)
           \/ ReturnUncertain(p)
           \/ Inspect(p, TRUE)
           \/ Inspect(p, FALSE)
    PROVE  /\ pc' \in [Procs -> Locations]
           /\ \A q \in Procs : pc'[q] # "idle" <=> pc[q] # "idle"
           /\ batch' \in [Procs -> Batches]
           /\ mode' \in [Procs -> Modes]
           /\ attempt' \in [Procs -> 0..(MaxAttempts - 1)]
           /\ had' \in [Procs -> BOOLEAN] /\ last' \in [Procs -> BOOLEAN]
           /\ told' \subseteq Keys
  <1>1. CASE ReturnOK(p)
    BY <1>1, ZeroAttempts DEF ReturnOK, FreshLoop, TypeOK, Locations
  <1>2. CASE ReturnError(p)
    BY <1>2, ZeroAttempts DEF ReturnError, FreshLoop, TypeOK, Locations, Batches
  <1>3. CASE mode[p] = "forward" /\ CompensateWhileLocked(p) /\ UNCHANGED told
    <2>1. batch[p] \in Batches
      BY DEF TypeOK
    <2> QED
      BY <1>3, <2>1, ZeroAttempts
         DEF CompensateWhileLocked, StartWriting, FreshLoop, TypeOK, Locations, Modes
  <1>4. CASE Inspect(p, TRUE) \/ Inspect(p, FALSE)
    BY <1>4 DEF Inspect, TypeOK, Locations
  <1> QED
    BY <1>1, <1>2, <1>3, <1>4 DEF ReturnUncertain

LEMMA EndTypes ==
    ASSUME TypeOK, NEW p \in Procs, End(p)
    PROVE  /\ lock' \in Procs \cup {NoProc}
           /\ pc' \in [Procs -> Locations]
           /\ \A q \in Procs : lock' = q => pc'[q] # "idle"
           /\ batch' \in [Procs -> Batches]
           /\ mode' \in [Procs -> Modes]
           /\ attempt' \in [Procs -> 0..(MaxAttempts - 1)]
           /\ had' \in [Procs -> BOOLEAN] /\ last' \in [Procs -> BOOLEAN]
           /\ inflight' \in [Procs -> SUBSET Requests]
           /\ orphans' \subseteq Requests
  <1>1. NoBatch \in Batches
    BY DEF NoBatch, Batches
  <1>2. lock' # p
    BY ProcsAssumption DEF End
  <1>3. \A q \in Procs : lock' = q => pc'[q] # "idle"
    BY <1>2, ProcsAssumption DEF End, TypeOK
  <1>4. inflight' \in [Procs -> SUBSET Requests] /\ orphans' \subseteq Requests
    BY DEF End, TypeOK
  <1>5. batch' \in [Procs -> Batches]
    BY <1>1 DEF End, TypeOK
  <1> QED
    BY <1>3, <1>4, <1>5, ZeroAttempts DEF End, FreshLoop, TypeOK, Locations, Modes

LEMMA TypeInit == Init => TypeOK
  <1> SUFFICES ASSUME Init PROVE TypeOK
    OBVIOUS
  <1>1. NoBatch \in Batches
    BY DEF NoBatch, Batches
  <1>2. faults \in 0..MaxFaults
    BY FaultsAssumption DEF Init
  <1>3. \A p \in Procs : lock = p => pc[p] # "idle"
    BY ProcsAssumption DEF Init
  <1>4. /\ attempt \in [Procs -> 0..(MaxAttempts - 1)]
        /\ batch \in [Procs -> Batches]
    BY <1>1, ZeroAttempts DEF Init
  <1>5. /\ db \subseteq Keys /\ zed \subseteq Keys
        /\ orphans \subseteq Requests
        /\ inflight \in [Procs -> SUBSET Requests]
        /\ told \subseteq Keys /\ unseen \subseteq Keys
    BY DEF Init
  <1>6. /\ lock \in Procs \cup {NoProc}
        /\ pc \in [Procs -> Locations]
        /\ mode \in [Procs -> Modes]
        /\ had \in [Procs -> BOOLEAN] /\ last \in [Procs -> BOOLEAN]
    BY DEF Init, Locations, Modes
  <1> QED
    BY <1>2, <1>3, <1>4, <1>5, <1>6 DEF TypeOK

\* A fault is counted up to its bound.
LEMMA FaultCounted ==
    ASSUME TypeOK, NEW kind, Fault(kind)
    PROVE  faults' \in 0..MaxFaults /\ faults' # 0
  BY FaultsAssumption DEF Fault, TypeOK

LEMMA TypeStep == TypeOK /\ [Next]_vars => TypeOK'
  <1> SUFFICES ASSUME TypeOK, [Next]_vars PROVE TypeOK'
    OBVIOUS
  <1> USE DEF vars, storeVars, procVars, lateVars
  <1>1. ASSUME NEW p \in Procs, Begin(p) \/ CallbackFails(p) \/ TransactionLost(p)
        PROVE TypeOK'
    <2>1. \A q \in Procs : lock' = q => pc'[q] # "idle"
      BY <1>1, ProcsAssumption DEF Begin, CallbackFails, TransactionLost, TypeOK
    <2>2. faults' \in 0..MaxFaults
      BY <1>1, FaultCounted DEF Begin, CallbackFails, TransactionLost, TypeOK
    <2> QED
      BY <1>1, <2>1, <2>2 DEF Begin, CallbackFails, TransactionLost, TypeOK, Locations
  <1>2. ASSUME NEW p \in Procs, NEW K \in Touches[p], NEW want \in SUBSET K,
               WriteRelationships(p, K, want)
        PROVE TypeOK'
    <2>1. [keys |-> K, want |-> want, pre |-> db \cap K] \in Batches
      BY TouchesAssumption DEF Batches
    <2> QED
      BY <1>2, <2>1, ZeroAttempts
         DEF WriteRelationships, StartWriting, FreshLoop, TypeOK, Locations, Modes
  <1>3. ASSUME NEW p \in Procs, WriteSucceeds(p) PROVE TypeOK'
    <2>1. zed' \subseteq Keys /\ ReturnOK(p) /\ pc[p] = "write"
          /\ UNCHANGED <<db, lock, lateVars, faults>>
      BY <1>3, RequestTypes DEF WriteSucceeds
    <2>2. unseen' \subseteq Keys
      BY <1>3 DEF WriteSucceeds, Overrun, Changed, TypeOK
    <2> QED
      BY <2>1, <2>2, ReturnTypes DEF TypeOK
  <1>4. ASSUME NEW p \in Procs, PreconditionFails(p) \/ WriteRefused(p) PROVE TypeOK'
    <2>1. pc[p] = "write" /\ (Inspect(p, FALSE) \/ ReturnError(p))
          /\ UNCHANGED <<storeVars, lock, lateVars, faults, unseen>>
      BY <1>4 DEF PreconditionFails, WriteRefused
    <2> QED
      BY <2>1, ReturnTypes DEF TypeOK
  <1>5. ASSUME NEW p \in Procs, WriteAmbiguous(p) PROVE TypeOK'
    <2>1. pc[p] = "write" /\ Inspect(p, TRUE) /\ zed' \subseteq Keys
          /\ UNCHANGED <<db, lock, orphans>>
      BY <1>5, RequestTypes DEF WriteAmbiguous, TypeOK
    <2>2. inflight' \in [Procs -> SUBSET Requests]
      BY <1>5, RequestTypes DEF WriteAmbiguous, TypeOK
    <2>3. faults' \in 0..MaxFaults
      BY <1>5, FaultCounted DEF WriteAmbiguous, TypeOK
    <2>4. unseen' \subseteq Keys
      BY <1>5 DEF WriteAmbiguous, Overrun, Changed, TypeOK
    <2> QED
      BY <2>1, <2>2, <2>3, <2>4, ReturnTypes DEF TypeOK
  <1>6. ASSUME NEW p \in Procs, InspectState(p) PROVE TypeOK'
    <2>1. pc[p] = "inspect" /\ UNCHANGED <<storeVars, lock, lateVars, faults, unseen>>
      BY <1>6 DEF InspectState
    <2>2. CASE ReturnOK(p) \/ ReturnError(p) \/ ReturnUncertain(p)
      BY <2>1, <2>2, ReturnTypes DEF TypeOK
    <2>3. CASE /\ attempt[p] < MaxAttempts - 1
               /\ attempt' = [attempt EXCEPT ![p] = @ + 1]
               /\ pc' = [pc EXCEPT ![p] = "write"]
               /\ last' = [last EXCEPT ![p] = FALSE]
               /\ UNCHANGED <<batch, mode, had, told>>
      BY <2>1, <2>3, AttemptsAssumption DEF TypeOK, Locations
    <2> QED
      BY <1>6, <2>2, <2>3 DEF InspectState
  <1>7. ASSUME NEW p \in Procs, InspectFails(p) PROVE TypeOK'
    <2>1. pc[p] = "inspect" /\ (ReturnUncertain(p) \/ ReturnError(p))
          /\ UNCHANGED <<storeVars, lock, lateVars, faults, unseen>>
      BY <1>7 DEF InspectFails
    <2> QED
      BY <2>1, ReturnTypes DEF TypeOK
  <1>8. ASSUME NEW p \in Procs, CallbackFailsAfterWrite(p) PROVE TypeOK'
    <2>1. batch[p] \in Batches
      BY DEF TypeOK
    <2> QED
      BY <1>8, <2>1, ZeroAttempts DEF CallbackFailsAfterWrite, CompensateWhileLocked,
         StartWriting, FreshLoop, TypeOK, Locations, Modes
  <1>9. ASSUME NEW p \in Procs, \/ Rollback(p)
                                \/ Commit(p)
                                \/ CommitUncertain(p)
                                \/ Crash(p)
        PROVE TypeOK'
    <2>1. End(p)
      BY <1>9 DEF Rollback, Commit, CommitUncertain, Crash
    <2>2. db' \subseteq Keys
      BY <1>9, RequestTypes
         DEF Rollback, Commit, CommitUncertain, Crash, Committed, TypeOK, Batches
    <2>3. zed' \subseteq Keys
      BY <1>9, RequestTypes DEF Rollback, Commit, CommitUncertain, Crash, TypeOK
    <2>4. told' \subseteq Keys /\ unseen' \subseteq Keys
      BY <1>9, RequestTypes DEF Rollback, Commit, CommitUncertain, Crash, TypeOK, Batches
    <2>5. faults' \in 0..MaxFaults
      BY <1>9, FaultCounted DEF Rollback, Commit, CommitUncertain, Crash, TypeOK
    <2> QED
      BY <2>1, <2>2, <2>3, <2>4, <2>5, EndTypes DEF TypeOK
  <1>10. ASSUME NEW p \in Procs, NEW q \in inflight[p], LateWriteInMutation(p, q) PROVE TypeOK'
    <2>1. q \in Requests /\ zed' \subseteq Keys
      BY <1>10, RequestTypes DEF LateWriteInMutation, TypeOK
    <2>2. inflight' \in [Procs -> SUBSET Requests]
      BY <1>10 DEF LateWriteInMutation, TypeOK
    <2>3. unseen' \subseteq Keys
      BY <1>10 DEF LateWriteInMutation, Overrun, Changed, TypeOK
    <2> QED
      BY <1>10, <2>1, <2>2, <2>3 DEF LateWriteInMutation, TypeOK
  <1>11. ASSUME NEW q \in orphans, LateWriteAfterwards(q) PROVE TypeOK'
    <2>1. q \in Requests /\ Applied(q) \subseteq Keys
      BY DEF TypeOK, Requests, Applied
    <2>2. unseen' \subseteq Keys
      BY <1>11 DEF LateWriteAfterwards, Changed, TypeOK
    <2> QED
      BY <1>11, <2>1, <2>2 DEF LateWriteAfterwards, TypeOK
  <1>12. CASE UNCHANGED vars
    BY <1>12 DEF TypeOK
  <1> QED
    BY <1>1, <1>2, <1>3, <1>4, <1>5, <1>6, <1>7, <1>8, <1>9, <1>10, <1>11, <1>12
       DEF Next, Step

\* Every variable keeps its type, and whoever holds the global lock is inside
\* a mutation; the converse fails once a transaction was lost.
THEOREM AuthzTypeCorrect == Spec => []TypeOK
  BY TypeInit, TypeStep, PTL DEF Spec

-----------------------------------------------------------------------------
(* One process moves at a time.                                              *)

OthersStay(p) == \A q \in Procs \ {p} :
    /\ pc'[q] = pc[q] /\ batch'[q] = batch[q] /\ mode'[q] = mode[q]
    /\ had'[q] = had[q] /\ inflight'[q] = inflight[q]

\* A loop that goes on or ends is p's own business.
LEMMA ReturnIsLocal ==
    ASSUME TypeOK, NEW p \in Procs,
           \/ ReturnOK(p)
           \/ ReturnError(p)
           \/ ReturnUncertain(p)
           \/ Inspect(p, TRUE)
           \/ Inspect(p, FALSE)
    PROVE  /\ \A q \in Procs \ {p} : /\ pc'[q] = pc[q] /\ batch'[q] = batch[q]
                                     /\ mode'[q] = mode[q] /\ had'[q] = had[q]
           /\ told \subseteq told'
  BY DEF ReturnOK, ReturnError, ReturnUncertain, Inspect, CompensateWhileLocked,
     StartWriting, FreshLoop, TypeOK

\* Whatever p does leaves the others where they are, forgets no incident, and
\* while another holds the lock changes no rows.
LEMMA OneMoves ==
    ASSUME TypeOK, NEW p \in Procs,
           \/ Begin(p) \/ Step(p) \/ TransactionLost(p) \/ Crash(p)
           \/ \E q \in inflight[p] : LateWriteInMutation(p, q)
    PROVE  /\ OthersStay(p)
           /\ told \subseteq told' /\ unseen \subseteq unseen'
           /\ \A q \in Procs \ {p} : lock' = q => lock = q /\ db' = db
  <1> USE DEF storeVars, procVars, lateVars, OthersStay
  <1>1. CASE \/ Begin(p) \/ CallbackFails(p) \/ TransactionLost(p)
             \/ \E q \in inflight[p] : LateWriteInMutation(p, q)
    BY <1>1, ProcsAssumption DEF Begin, CallbackFails, TransactionLost, LateWriteInMutation, TypeOK
  <1>2. CASE \/ \E K \in Touches[p] : \E want \in SUBSET K : WriteRelationships(p, K, want)
             \/ CallbackFailsAfterWrite(p)
    BY <1>2 DEF WriteRelationships, CallbackFailsAfterWrite, CompensateWhileLocked,
       StartWriting, FreshLoop, TypeOK
  <1>3. CASE WriteSucceeds(p) \/ PreconditionFails(p) \/ WriteRefused(p) \/ InspectFails(p)
    <2>1. ReturnOK(p) \/ ReturnError(p) \/ ReturnUncertain(p) \/ Inspect(p, FALSE)
      BY <1>3 DEF WriteSucceeds, PreconditionFails, WriteRefused, InspectFails
    <2>2. UNCHANGED <<db, lock, inflight>> /\ unseen \subseteq unseen'
      BY <1>3 DEF WriteSucceeds, PreconditionFails, WriteRefused, InspectFails
    <2> QED
      BY <2>1, <2>2, ReturnIsLocal
  <1>4. CASE WriteAmbiguous(p)
    BY <1>4, ReturnIsLocal DEF WriteAmbiguous, TypeOK
  <1>5. CASE InspectState(p)
    <2>1. UNCHANGED <<db, zed, lock, inflight, orphans, faults, unseen>>
      BY <1>5 DEF InspectState
    <2>2. CASE ReturnOK(p) \/ ReturnError(p) \/ ReturnUncertain(p)
      BY <2>1, <2>2, ReturnIsLocal
    <2>3. CASE pc' = [pc EXCEPT ![p] = "write"] /\ UNCHANGED <<batch, mode, had, told>>
      BY <2>1, <2>3 DEF TypeOK
    <2> QED
      BY <1>5, <2>2, <2>3 DEF InspectState
  <1>6. CASE Rollback(p) \/ Commit(p) \/ CommitUncertain(p) \/ Crash(p)
    <2>1. End(p) /\ told \subseteq told' /\ unseen \subseteq unseen'
      BY <1>6 DEF Rollback, Commit, CommitUncertain, Crash
    <2>2. OthersStay(p)
      BY <2>1 DEF End, FreshLoop, TypeOK
    <2>3. ASSUME NEW q \in Procs \ {p}, lock' = q PROVE lock = q /\ db' = db
      <3>1. lock = q /\ lock # p
        BY <2>1, <2>3, ProcsAssumption DEF End
      <3> QED
        BY <1>6, <3>1 DEF Rollback, Commit, CommitUncertain, Crash
    <2> QED
      BY <2>1, <2>2, <2>3
  <1> QED
    BY <1>1, <1>2, <1>3, <1>4, <1>5, <1>6 DEF Step

-----------------------------------------------------------------------------
(* Batches.                                                                  *)

LEMMA BatchesInit == Init => BatchesExact
  <1> SUFFICES ASSUME Init, NEW p \in Procs PROVE BatchExact(p)
    BY DEF BatchesExact
  <1>1. batch[p] = NoBatch /\ inflight[p] = {} /\ had[p] = FALSE
    BY DEF Init
  <1>2. pc[p] = "idle" /\ mode[p] = "forward"
    BY DEF Init
  <1> QED
    BY <1>1, <1>2 DEF NoBatch, BatchExact

LEMMA BatchFrame ==
    ASSUME NEW q \in Procs, BatchExact(q),
           pc'[q] = pc[q], batch'[q] = batch[q], mode'[q] = mode[q],
           had'[q] = had[q], inflight'[q] = inflight[q],
           lock' = q => lock = q /\ db' = db
    PROVE  BatchExact(q)'
  BY DEF BatchExact, Forward, Restore

\* What the write loop's exits do to the process's own record.
LEMMA BatchOfReturn ==
    ASSUME TypeOK, NEW p \in Procs, BatchExact(p), pc[p] \in {"write", "inspect"},
           UNCHANGED <<db, lock, inflight>>,
           ReturnOK(p) \/ ReturnError(p) \/ ReturnUncertain(p)
    PROVE  BatchExact(p)'
  <1>1. CASE ReturnOK(p)
    BY <1>1 DEF ReturnOK, FreshLoop, TypeOK, BatchExact, Forward, Restore
  <1>2. CASE ReturnError(p)
    BY <1>2 DEF ReturnError, FreshLoop, TypeOK, BatchExact, Forward, Restore
  <1>3. CASE CompensateWhileLocked(p)
    BY <1>3 DEF CompensateWhileLocked, StartWriting, FreshLoop, TypeOK, BatchExact,
       Forward, Restore
  <1> QED
    BY <1>1, <1>2, <1>3 DEF ReturnUncertain

LEMMA BatchOfEnd ==
    ASSUME TypeOK, NEW p \in Procs, End(p)
    PROVE  BatchExact(p)'
  <1>1. /\ pc'[p] = "idle" /\ batch'[p] = NoBatch /\ inflight'[p] = {}
        /\ mode'[p] = "forward"
    BY DEF End, TypeOK
  <1>2. NoBatch.keys = {} /\ NoBatch.want = {} /\ NoBatch.pre = {}
    BY DEF NoBatch
  <1> QED
    BY <1>1, <1>2 DEF BatchExact

LEMMA BatchOfMover ==
    ASSUME TypeOK, NEW p \in Procs, BatchExact(p),
           \/ Begin(p) \/ Step(p) \/ TransactionLost(p) \/ Crash(p)
           \/ \E q \in inflight[p] : LateWriteInMutation(p, q)
    PROVE  BatchExact(p)'
  <1> USE DEF storeVars, procVars, lateVars
  <1>1. CASE Begin(p) \/ CallbackFails(p)
    <2>1. /\ batch'[p] = NoBatch /\ mode'[p] = "forward" /\ inflight'[p] = {}
          /\ pc'[p] \in {"callback", "rollback"}
      BY <1>1 DEF Begin, CallbackFails, BatchExact, TypeOK
    <2>2. NoBatch.keys = {} /\ NoBatch.want = {} /\ NoBatch.pre = {}
      BY DEF NoBatch
    <2> QED
      BY <2>1, <2>2 DEF BatchExact
  <1>10. CASE TransactionLost(p)
    <2>1. lock' # p
      BY <1>10, ProcsAssumption DEF TransactionLost
    <2> QED
      BY <1>10, <2>1, BatchFrame DEF TransactionLost
  <1>2. ASSUME NEW K \in Touches[p], NEW want \in SUBSET K, WriteRelationships(p, K, want)
        PROVE  BatchExact(p)'
    <2>1. inflight[p] = {}
      BY <1>2 DEF WriteRelationships, BatchExact
    <2> QED
      BY <1>2, <2>1 DEF WriteRelationships, StartWriting, FreshLoop, BatchExact, TypeOK
  <1>3. CASE WriteSucceeds(p) \/ InspectFails(p)
    BY <1>3, BatchOfReturn DEF WriteSucceeds, InspectFails
  <1>4. CASE PreconditionFails(p) \/ WriteRefused(p)
    <2>1. pc[p] = "write" /\ UNCHANGED <<db, lock, inflight>>
      BY <1>4 DEF PreconditionFails, WriteRefused
    <2>2. CASE ReturnError(p)
      BY <2>1, <2>2, BatchOfReturn
    <2>3. CASE Inspect(p, FALSE) /\ (mode[p] = "restore" \/ had[p])
      BY <2>1, <2>3 DEF Inspect, BatchExact, TypeOK, Forward, Restore, Modes
    <2> QED
      BY <1>4, <2>2, <2>3 DEF PreconditionFails, WriteRefused
  <1>5. CASE WriteAmbiguous(p)
    <2>1. Request(p) \in {Forward(batch[p]), Restore(batch[p])}
      BY DEF Request
    <2>2. inflight'[p] \subseteq {Forward(batch[p]), Restore(batch[p])}
      BY <1>5, <2>1 DEF WriteAmbiguous, BatchExact, TypeOK
    <2> QED
      BY <1>5, <2>2 DEF WriteAmbiguous, Inspect, BatchExact, TypeOK, Forward, Restore
  <1>6. CASE InspectState(p)
    <2>1. pc[p] = "inspect" /\ UNCHANGED <<db, lock, inflight>>
      BY <1>6 DEF InspectState
    <2>2. CASE ReturnOK(p) \/ ReturnError(p) \/ ReturnUncertain(p)
      BY <2>1, <2>2, BatchOfReturn
    <2>3. CASE pc' = [pc EXCEPT ![p] = "write"] /\ UNCHANGED <<batch, mode, had>>
      BY <2>1, <2>3 DEF BatchExact, TypeOK, Forward, Restore
    <2> QED
      BY <1>6, <2>2, <2>3 DEF InspectState
  <1>7. CASE CallbackFailsAfterWrite(p)
    BY <1>7 DEF CallbackFailsAfterWrite, CompensateWhileLocked, StartWriting, FreshLoop,
       BatchExact, TypeOK, Forward, Restore
  <1>8. CASE Rollback(p) \/ Commit(p) \/ CommitUncertain(p) \/ Crash(p)
    BY <1>8, BatchOfEnd DEF Rollback, Commit, CommitUncertain, Crash
  <1>9. ASSUME NEW q \in inflight[p], LateWriteInMutation(p, q) PROVE BatchExact(p)'
    BY <1>9 DEF LateWriteInMutation, BatchExact, TypeOK, Forward, Restore
  <1> QED
    BY <1>1, <1>2, <1>3, <1>4, <1>5, <1>6, <1>7, <1>8, <1>9, <1>10 DEF Step

LEMMA BatchesStep == TypeOK /\ BatchesExact /\ [Next]_vars => BatchesExact'
  <1> SUFFICES ASSUME TypeOK, BatchesExact, [Next]_vars, NEW q \in Procs
               PROVE  BatchExact(q)'
    BY DEF BatchesExact
  <1>1. BatchExact(q)
    BY DEF BatchesExact
  <1>2. ASSUME NEW p \in Procs,
               \/ Begin(p) \/ Step(p) \/ TransactionLost(p) \/ Crash(p)
               \/ \E r \in inflight[p] : LateWriteInMutation(p, r)
        PROVE  BatchExact(q)'
    <2>1. CASE q = p
      BY <1>1, <1>2, <2>1, BatchOfMover
    <2>2. CASE q # p
      BY <1>1, <1>2, <2>2, OneMoves, BatchFrame DEF OthersStay
    <2> QED
      BY <2>1, <2>2
  <1>3. ASSUME NEW r \in orphans, LateWriteAfterwards(r) PROVE BatchExact(q)'
    BY <1>1, <1>3, BatchFrame DEF LateWriteAfterwards, procVars
  <1>4. CASE UNCHANGED vars
    BY <1>1, <1>4, BatchFrame DEF vars, storeVars, procVars, lateVars
  <1> QED
    BY <1>2, <1>3, <1>4 DEF Next

-----------------------------------------------------------------------------
(* What a write does to a key.                                               *)

\* A write moves its keys from the state it asked for to the state it sets and
\* leaves the others alone.
LEMMA RequestEffect ==
    ASSUME NEW p \in Procs, BatchExact(p),
           NEW r \in {Forward(batch[p]), Restore(batch[p])},
           Holds(r), zed' = Applied(r)
    PROVE  /\ \A k : k \notin batch[p].keys => (k \in zed' <=> k \in zed)
           /\ \/ /\ r = Forward(batch[p])
                 /\ \A k \in batch[p].keys : /\ k \in zed <=> k \in batch[p].pre
                                             /\ k \in zed' <=> k \in batch[p].want
              \/ /\ r = Restore(batch[p])
                 /\ \A k \in batch[p].keys : /\ k \in zed <=> k \in batch[p].want
                                             /\ k \in zed' <=> k \in batch[p].pre
  BY DEF BatchExact, Forward, Restore, Holds, Applied

\* The same for the write of p's mode.
LEMMA WriteEffect ==
    ASSUME NEW p \in Procs, BatchExact(p), TypeOK,
           Holds(Request(p)), zed' = Applied(Request(p))
    PROVE  /\ \A k : k \notin batch[p].keys => (k \in zed' <=> k \in zed)
           /\ \A k \in batch[p].keys :
                 /\ mode[p] = "forward" => /\ k \in zed <=> k \in batch[p].pre
                                           /\ k \in zed' <=> k \in batch[p].want
                 /\ mode[p] = "restore" => /\ k \in zed <=> k \in batch[p].want
                                           /\ k \in zed' <=> k \in batch[p].pre
  BY DEF BatchExact, Request, Forward, Restore, Holds, Applied

\* What a read-back that finds the desired state says of each key.
LEMMA FoundDesired ==
    ASSUME NEW p \in Procs, BatchExact(p), zed \cap batch[p].keys = Request(p).to
    PROVE  \A k \in batch[p].keys :
              /\ mode[p] = "forward" => (k \in zed <=> k \in batch[p].want)
              /\ mode[p] # "forward" => (k \in zed <=> k \in batch[p].pre)
  BY DEF BatchExact, Request, Forward, Restore

-----------------------------------------------------------------------------
(* What the holder of the lock is about to commit.                           *)

LEMMA WrittenFrame ==
    ASSUME WrittenExact, NEW p \in Procs, OthersStay(p), unseen \subseteq unseen',
           \A q \in Procs \ {p} : lock' = q => lock = q,
           \A q \in Procs \ {p} : lock = q /\ pc[q] = "written" =>
               \A k \in batch[q].keys \ unseen' : k \in zed' <=> k \in zed,
           lock' = p /\ pc'[p] = "written" =>
               \A k \in batch'[p].keys \ unseen' : k \in zed' <=> k \in batch'[p].want
    PROVE  WrittenExact'
  <1> SUFFICES ASSUME NEW q \in Procs, lock' = q, pc'[q] = "written",
                      NEW k \in batch'[q].keys \ unseen'
               PROVE  k \in zed' <=> k \in batch'[q].want
    BY DEF WrittenExact
  <1>1. CASE q = p
    BY <1>1
  <1>2. CASE q # p
    <2>1. lock = q /\ pc[q] = "written" /\ batch'[q] = batch[q]
      BY <1>2 DEF OthersStay
    <2>2. k \in zed' <=> k \in zed
      BY <1>2, <2>1
    <2>3. k \in zed <=> k \in batch[q].want
      BY <2>1 DEF WrittenExact
    <2> QED
      BY <2>1, <2>2, <2>3
  <1> QED
    BY <1>1, <1>2

\* A key that a write of p changes is not one that another is about to commit,
\* or it is counted as overrun.
LEMMA OverrunCovers ==
    ASSUME TypeOK, NEW p \in Procs, NEW q \in Procs \ {p}, lock = q, pc[q] = "written",
           NEW k \in batch[q].keys \ Overrun(p)
    PROVE  k \in zed' <=> k \in zed
  BY DEF Overrun, Changed, TypeOK, Batches

LEMMA WrittenStep == AuthzInv /\ [Next]_vars => WrittenExact'
  <1> SUFFICES ASSUME AuthzInv, [Next]_vars PROVE WrittenExact'
    OBVIOUS
  <1> TypeOK /\ WrittenExact /\ BatchesExact
    BY DEF AuthzInv
  <1> USE DEF vars, storeVars, procVars, lateVars
  <1>1. ASSUME NEW p \in Procs, \/ Begin(p) \/ CallbackFails(p) \/ TransactionLost(p)
                                \/ \E K \in Touches[p] : \E want \in SUBSET K :
                                      WriteRelationships(p, K, want)
                                \/ CallbackFailsAfterWrite(p)
        PROVE  WrittenExact'
    <2>1. UNCHANGED zed /\ ~(lock' = p /\ pc'[p] = "written")
      BY <1>1, ProcsAssumption DEF Begin, CallbackFails, TransactionLost, WriteRelationships,
         CallbackFailsAfterWrite, CompensateWhileLocked, StartWriting, TypeOK
    <2>2. /\ OthersStay(p) /\ unseen \subseteq unseen'
          /\ \A q \in Procs \ {p} : lock' = q => lock = q
      BY <1>1, OneMoves DEF Step
    <2> QED
      BY <2>1, <2>2, WrittenFrame
  <1>2. ASSUME NEW p \in Procs, WriteSucceeds(p) PROVE WrittenExact'
    <2>1. /\ OthersStay(p) /\ unseen \subseteq unseen'
          /\ \A q \in Procs \ {p} : lock' = q => lock = q
      BY <1>2, OneMoves DEF Step
    <2>2. ASSUME NEW q \in Procs \ {p}, lock = q, pc[q] = "written",
                 NEW k \in batch[q].keys \ unseen'
          PROVE  k \in zed' <=> k \in zed
      BY <1>2, <2>2, OverrunCovers DEF WriteSucceeds
    <2>3. ASSUME pc'[p] = "written", NEW k \in batch'[p].keys
          PROVE  k \in zed' <=> k \in batch'[p].want
      <3>1. mode[p] = "forward" /\ batch' = batch
        BY <1>2, <2>3 DEF WriteSucceeds, ReturnOK, TypeOK, Modes
      <3> QED
        BY <1>2, <2>3, <3>1, WriteEffect DEF WriteSucceeds, BatchesExact
    <2> QED
      BY <2>1, <2>2, <2>3, WrittenFrame
  <1>3. ASSUME NEW p \in Procs, PreconditionFails(p) \/ WriteRefused(p) PROVE WrittenExact'
    <2>1. UNCHANGED zed /\ pc'[p] # "written"
      BY <1>3 DEF PreconditionFails, WriteRefused, Inspect, ReturnError, TypeOK
    <2>2. /\ OthersStay(p) /\ unseen \subseteq unseen'
          /\ \A q \in Procs \ {p} : lock' = q => lock = q
      BY <1>3, OneMoves DEF Step
    <2> QED
      BY <2>1, <2>2, WrittenFrame
  <1>4. ASSUME NEW p \in Procs, WriteAmbiguous(p) PROVE WrittenExact'
    <2>1. /\ OthersStay(p) /\ unseen \subseteq unseen'
          /\ \A q \in Procs \ {p} : lock' = q => lock = q
      BY <1>4, OneMoves DEF Step
    <2>2. ASSUME NEW q \in Procs \ {p}, lock = q, pc[q] = "written",
                 NEW k \in batch[q].keys \ unseen'
          PROVE  k \in zed' <=> k \in zed
      BY <1>4, <2>2, OverrunCovers DEF WriteAmbiguous
    <2>3. pc'[p] # "written"
      BY <1>4 DEF WriteAmbiguous, Inspect, TypeOK
    <2> QED
      BY <2>1, <2>2, <2>3, WrittenFrame
  <1>5. ASSUME NEW p \in Procs, InspectState(p) \/ InspectFails(p) PROVE WrittenExact'
    <2>1. UNCHANGED zed
      BY <1>5 DEF InspectState, InspectFails
    <2>2. /\ OthersStay(p) /\ unseen \subseteq unseen'
          /\ \A q \in Procs \ {p} : lock' = q => lock = q
      BY <1>5, OneMoves DEF Step
    <2>3. ASSUME pc'[p] = "written", NEW k \in batch'[p].keys
          PROVE  k \in zed' <=> k \in batch'[p].want
      <3>1. ~ReturnError(p) /\ ~ReturnUncertain(p) /\ pc' # [pc EXCEPT ![p] = "write"]
        BY <2>3 DEF ReturnError, ReturnUncertain, CompensateWhileLocked, StartWriting, TypeOK
      <3>2. InspectState(p)
        BY <1>5, <3>1 DEF InspectFails
      <3>3. ReturnOK(p) /\ zed \cap batch[p].keys = Request(p).to
        BY <3>1, <3>2 DEF InspectState
      <3>4. mode[p] = "forward" /\ batch' = batch
        BY <2>3, <3>3 DEF ReturnOK, TypeOK
      <3> QED
        BY <2>1, <2>3, <3>3, <3>4, FoundDesired DEF BatchesExact
    <2> QED
      BY <2>1, <2>2, <2>3, WrittenFrame
  <1>6. ASSUME NEW p \in Procs, Rollback(p) \/ Commit(p) \/ CommitUncertain(p) \/ Crash(p)
        PROVE  WrittenExact'
    <2>1. /\ OthersStay(p) /\ unseen \subseteq unseen' /\ pc'[p] # "written"
          /\ \A q \in Procs \ {p} : lock' = q => lock = q
      BY <1>6, OneMoves DEF Step, Rollback, Commit, CommitUncertain, Crash, End, TypeOK
    <2>2. CASE UNCHANGED zed
      BY <2>1, <2>2, WrittenFrame
    <2>3. CASE /\ Crash(p) /\ unseen' = unseen \cup batch[p].keys
               /\ Holds(Request(p)) /\ zed' = Applied(Request(p))
      <3>1. \A k : k \notin batch[p].keys => (k \in zed' <=> k \in zed)
        BY <2>3, WriteEffect DEF BatchesExact
      <3> QED
        BY <2>1, <2>3, <3>1, WrittenFrame
    <2> QED
      BY <1>6, <2>2, <2>3 DEF Rollback, Commit, CommitUncertain, Crash
  <1>7. ASSUME NEW p \in Procs, NEW r \in inflight[p], LateWriteInMutation(p, r)
        PROVE  WrittenExact'
    <2>1. /\ OthersStay(p) /\ unseen \subseteq unseen'
          /\ \A q \in Procs \ {p} : lock' = q => lock = q
      BY <1>7, OneMoves
    <2>2. ASSUME NEW q \in Procs \ {p}, lock = q, pc[q] = "written",
                 NEW k \in batch[q].keys \ unseen'
          PROVE  k \in zed' <=> k \in zed
      <3>1. k \in Keys
        BY DEF TypeOK, Batches
      <3>2. CASE k \notin Overrun(p)
        BY <2>2, <3>2, OverrunCovers
      <3>3. CASE k \notin Changed
        BY <3>1, <3>3 DEF Changed
      <3> QED
        BY <1>7, <2>2, <3>2, <3>3 DEF LateWriteInMutation
    <2>3. ASSUME lock' = p, pc'[p] = "written", NEW k \in batch'[p].keys \ unseen'
          PROVE  k \in zed' <=> k \in batch'[p].want
      <3>1. /\ lock = p /\ pc[p] = "written" /\ batch' = batch
            /\ unseen' = unseen \cup Changed
        BY <1>7, <2>3 DEF LateWriteInMutation
      <3>2. k \in Keys
        BY <2>3, <3>1 DEF TypeOK, Batches
      <3>3. (k \in zed' <=> k \in zed) /\ (k \in zed <=> k \in batch[p].want)
        BY <2>3, <3>1, <3>2 DEF Changed, WrittenExact
      <3> QED
        BY <3>1, <3>3
    <2> QED
      BY <2>1, <2>2, <2>3, WrittenFrame
  <1>8. ASSUME NEW r \in orphans, LateWriteAfterwards(r) PROVE WrittenExact'
    <2>1. \A k \in Keys \ unseen' : k \in zed' <=> k \in zed
      BY <1>8 DEF LateWriteAfterwards, Changed
    <2>2. UNCHANGED <<lock, pc, batch>> /\ unseen \subseteq unseen'
      BY <1>8 DEF LateWriteAfterwards
    <2>3. \A q \in Procs : batch[q].keys \subseteq Keys
      BY DEF TypeOK, Batches
    <2> QED
      BY <2>1, <2>2, <2>3 DEF WrittenExact
  <1>9. CASE UNCHANGED vars
    BY <1>9 DEF WrittenExact
  <1> QED
    BY <1>1, <1>2, <1>3, <1>4, <1>5, <1>6, <1>7, <1>8, <1>9 DEF Next, Step

-----------------------------------------------------------------------------
(* Without a fault the lock serializes the mutations.                        *)

\* A write under the lock overruns nobody.
LEMMA LockedOverrunsNobody ==
    ASSUME TypeOK, NEW p \in Procs, BatchExact(p), lock = p,
           UNCHANGED zed \/ (Holds(Request(p)) /\ zed' = Applied(Request(p)))
    PROVE  Overrun(p) = {}
  <1> SUFFICES ASSUME NEW k \in Overrun(p) PROVE FALSE
    OBVIOUS
  <1>1. ~(k \in zed <=> k \in zed') /\ ~(k \in db <=> k \in batch[p].pre)
    BY DEF Overrun, Changed
  <1>2. k \in batch[p].keys
    BY <1>1, WriteEffect
  <1> QED
    BY <1>1, <1>2 DEF BatchExact

LEMMA FaultlessStep == AuthzInv /\ [Next]_vars => FaultlessExact'
  <1> SUFFICES ASSUME AuthzInv, [Next]_vars, faults' = 0 PROVE FaultlessExact'
    BY DEF FaultlessExact
  <1> TypeOK /\ BatchesExact
    BY DEF AuthzInv
  <1> USE DEF vars, storeVars, procVars, lateVars
  <1>1. ASSUME NEW kind PROVE ~Fault(kind)
    BY <1>1, FaultCounted
  <1>2. faults = 0
    BY <1>1 DEF Next, Step, Begin, CallbackFails, WriteRelationships, WriteSucceeds,
       PreconditionFails, WriteRefused, WriteAmbiguous, InspectState, InspectFails,
       CallbackFailsAfterWrite, Rollback, Commit, CommitUncertain, TransactionLost, Crash,
       LateWriteInMutation, LateWriteAfterwards
  <1>3. /\ unseen = {} /\ orphans = {}
        /\ \A q \in Procs : inflight[q] = {} /\ (pc[q] # "idle" => lock = q)
    BY <1>2 DEF AuthzInv, FaultlessExact
  <1>4. ASSUME NEW p \in Procs, Begin(p) \/ Step(p) PROVE FaultlessExact'
    <2>1. OthersStay(p)
      BY <1>4, OneMoves
    <2>2. ASSUME pc[p] # "idle" PROVE lock = p /\ \A q \in Procs \ {p} : pc[q] = "idle"
      BY <1>3, <2>2
    <2>3. ASSUME NEW q \in Procs, pc'[q] # "idle" PROVE lock' = q
      <3>1. CASE Begin(p)
        BY <1>3, <2>1, <2>3, <3>1, ProcsAssumption DEF Begin, OthersStay
      <3>2. CASE pc[p] # "idle"
        <4>1. q = p
          BY <2>1, <2>2, <2>3, <3>2 DEF OthersStay
        <4>2. CASE End(p)
          BY <2>3, <4>1, <4>2 DEF End, TypeOK
        <4>3. CASE UNCHANGED lock
          BY <2>2, <3>2, <4>1, <4>3
        <4> QED
          BY <1>4, <3>2, <4>2, <4>3 DEF Begin, Step, CallbackFails, WriteRelationships,
             WriteSucceeds, PreconditionFails, WriteRefused, WriteAmbiguous, InspectState,
             InspectFails, CallbackFailsAfterWrite, Rollback, Commit, CommitUncertain
      <3> QED
        BY <1>4, <3>1, <3>2 DEF Step, CallbackFails, WriteRelationships,
           WriteSucceeds, PreconditionFails, WriteRefused, WriteAmbiguous, InspectState,
           InspectFails, CallbackFailsAfterWrite, Rollback, Commit, CommitUncertain
    <2>4. unseen' = {}
      <3>1. CASE UNCHANGED unseen
        BY <1>3, <3>1
      <3>2. CASE WriteSucceeds(p) \/ WriteAmbiguous(p)
        <4>1. pc[p] = "write" /\ unseen' = unseen \cup Overrun(p)
              /\ (UNCHANGED zed \/ (Holds(Request(p)) /\ zed' = Applied(Request(p))))
          BY <3>2 DEF WriteSucceeds, WriteAmbiguous
        <4> QED
          BY <1>3, <2>2, <4>1, LockedOverrunsNobody DEF BatchesExact
      <3> QED
        BY <1>4, <3>1, <3>2 DEF Begin, Step, CallbackFails, WriteRelationships,
           PreconditionFails, WriteRefused, InspectState,
           InspectFails, CallbackFailsAfterWrite, Rollback, Commit, CommitUncertain
    <2>5. orphans' = {} /\ inflight'[p] = {}
      <3>1. CASE UNCHANGED <<orphans, inflight>>
        BY <1>3, <3>1
      <3>2. CASE End(p)
        BY <1>3, <3>2 DEF End, TypeOK
      <3> QED
        BY <1>1, <1>4, <3>1, <3>2 DEF Begin, Step, CallbackFails, WriteRelationships,
           WriteSucceeds, PreconditionFails, WriteRefused, WriteAmbiguous, InspectState,
           InspectFails, CallbackFailsAfterWrite, Rollback, Commit, CommitUncertain
    <2>6. \A q \in Procs : inflight'[q] = {}
      BY <1>3, <2>1, <2>5 DEF OthersStay
    <2> QED
      BY <2>3, <2>4, <2>5, <2>6 DEF FaultlessExact
  <1>5. CASE UNCHANGED vars
    BY <1>3, <1>5 DEF FaultlessExact
  <1>6. ASSUME NEW p \in Procs PROVE ~TransactionLost(p) /\ ~Crash(p)
    BY <1>1 DEF TransactionLost, Crash
  <1> QED
    BY <1>3, <1>4, <1>5, <1>6 DEF Next

-----------------------------------------------------------------------------
(* Agreement.                                                                *)

LEMMA ResponsibleFrame ==
    ASSUME NEW r \in Procs, NEW k, Responsible(r, k),
           pc'[r] = pc[r], mode'[r] = mode[r], had'[r] = had[r], batch'[r] = batch[r],
           k \in zed' <=> k \in zed, k \in db' <=> k \in db
    PROVE  Responsible(r, k)'
  BY DEF Responsible, Accounts

\* A step of p that leaves the rows alone keeps the agreement if p answers for
\* the keys that it changes and does not stop answering for one that still
\* disagrees.
LEMMA AgreementFrame ==
    ASSUME AuthorityAgrees, NEW p \in Procs, OthersStay(p), UNCHANGED db,
           told \subseteq told', unseen \subseteq unseen',
           \A k \in Keys \ (told' \cup unseen') :
              \/ Agree(k)'
              \/ Responsible(p, k)'
              \/ (k \in zed' <=> k \in zed) /\ ~Responsible(p, k)
    PROVE  AuthorityAgrees'
  <1> SUFFICES ASSUME NEW k \in Keys \ (told' \cup unseen')
               PROVE  Agree(k)' \/ \E r \in Procs : Responsible(r, k)'
    BY DEF AuthorityAgrees
  <1>1. CASE (k \in zed' <=> k \in zed) /\ ~Responsible(p, k)
    <2>1. CASE Agree(k)
      BY <1>1, <2>1 DEF Agree
    <2>2. ASSUME NEW r \in Procs, Responsible(r, k) PROVE Responsible(r, k)'
      BY <1>1, <2>2, ResponsibleFrame DEF OthersStay
    <2>3. Agree(k) \/ \E r \in Procs : Responsible(r, k)
      BY DEF AuthorityAgrees
    <2> QED
      BY <2>1, <2>2, <2>3
  <1> QED
    BY <1>1

\* A write of p inside its loop: p answers for what it set while the rows are
\* those it read, and otherwise the key is overrun or agrees.
LEMMA WriteAnswers ==
    ASSUME NEW p \in Procs, BatchExact(p), NEW k \in Keys \ Overrun(p),
           ~(k \in zed' <=> k \in zed), UNCHANGED <<db, batch>>,
           k \in batch[p].keys,
           \/ k \in zed' <=> k \in batch[p].pre
           \/ Accounts(p)' /\ (k \in zed' <=> k \in batch[p].want)
    PROVE  Agree(k)' \/ Responsible(p, k)'
  <1>1. (k \in zed' <=> k \in db) \/ (k \in db <=> k \in batch[p].pre)
    BY DEF Overrun, Changed
  <1> QED
    BY <1>1 DEF Agree, Responsible

\* A loop that ends where SpiceDB is known, or that is reported, loses no key.
LEMMA ReturnAnswers ==
    ASSUME AuthzInv, NEW p \in Procs, pc[p] \in {"write", "inspect"},
           UNCHANGED <<db, zed>>, OthersStay(p), told \subseteq told', unseen \subseteq unseen',
           \/ ReturnOK(p) /\ (mode[p] = "forward" \/ zed \cap batch[p].keys = Request(p).to)
           \/ ReturnUncertain(p)
           \/ ReturnError(p) /\ ~Accounts(p)
           \/ ReturnError(p) /\ mode[p] = "restore"
           \/ ReturnError(p) /\ zed \cap batch[p].keys = Request(p).from
           \/ Inspect(p, TRUE)
           \/ Inspect(p, FALSE)
    PROVE  AuthorityAgrees'
  <1> BatchExact(p) /\ TypeOK /\ AuthorityAgrees
    BY DEF AuthzInv, BatchesExact
  <1> SUFFICES ASSUME NEW k \in Keys \ (told' \cup unseen'), Responsible(p, k)
               PROVE  Agree(k)' \/ Responsible(p, k)'
    BY AgreementFrame
  <1>1. Accounts(p) /\ k \in batch[p].keys
    BY DEF Responsible
  <1>2. CASE ReturnOK(p) /\ mode[p] = "forward"
    <2>1. pc'[p] = "written" /\ UNCHANGED batch
      BY <1>2 DEF ReturnOK, TypeOK
    <2> QED
      BY <2>1 DEF Responsible, Accounts
  <1>3. CASE mode[p] # "forward" /\ zed \cap batch[p].keys = Request(p).to
    <2>1. k \in zed <=> k \in batch[p].pre
      BY <1>1, <1>3, FoundDesired
    <2> QED
      BY <2>1 DEF Responsible, Agree
  <1>4. CASE mode[p] = "forward" /\ CompensateWhileLocked(p)
    <2>1. pc'[p] = "write" /\ mode'[p] = "restore" /\ batch'[p] = batch[p]
      BY <1>4 DEF CompensateWhileLocked, StartWriting, TypeOK
    <2> QED
      BY <2>1 DEF Responsible, Accounts
  <1>5. CASE ReturnError(p) /\ mode[p] = "restore"
    BY <1>1, <1>5 DEF ReturnError
  <1>6. CASE mode[p] = "forward" /\ zed \cap batch[p].keys = Request(p).from
    <2>1. k \in zed <=> k \in batch[p].pre
      BY <1>1, <1>6 DEF Request, Forward, BatchExact
    <2> QED
      BY <2>1 DEF Responsible, Agree
  <1>7. CASE Inspect(p, TRUE) \/ Inspect(p, FALSE)
    <2>1. pc'[p] = "inspect" /\ UNCHANGED <<mode, batch>> /\ (had[p] => had'[p])
      BY <1>7 DEF Inspect, TypeOK
    <2> QED
      BY <1>1, <2>1 DEF Responsible, Accounts
  <1>8. mode[p] = "forward" \/ mode[p] = "restore"
    BY DEF TypeOK, Modes
  <1> QED
    BY <1>1, <1>2, <1>3, <1>4, <1>5, <1>6, <1>7, <1>8 DEF ReturnUncertain

LEMMA AgreementStep == AuthzInv /\ [Next]_vars => AuthorityAgrees'
  <1> SUFFICES ASSUME AuthzInv, [Next]_vars PROVE AuthorityAgrees'
    OBVIOUS
  <1> TypeOK /\ BatchesExact /\ WrittenExact /\ AuthorityAgrees
    BY DEF AuthzInv
  <1> USE DEF vars, storeVars, procVars, lateVars
  <1>1. ASSUME NEW p \in Procs, \/ Begin(p) \/ CallbackFails(p)
                                \/ \E K \in Touches[p] : \E want \in SUBSET K :
                                      WriteRelationships(p, K, want)
                                \/ Rollback(p)
        PROVE  AuthorityAgrees'
    <2>1. UNCHANGED <<db, zed>> /\ ~Accounts(p)
      BY <1>1 DEF Begin, CallbackFails, WriteRelationships, Rollback, Accounts
    <2>2. OthersStay(p) /\ told \subseteq told' /\ unseen \subseteq unseen'
      BY <1>1, OneMoves DEF Step
    <2> QED
      BY <2>1, <2>2, AgreementFrame DEF Responsible
  <1>2. ASSUME NEW p \in Procs, TransactionLost(p) PROVE AuthorityAgrees'
    BY <1>2 DEF TransactionLost, AuthorityAgrees, Agree, Responsible, Accounts
  <1>3. ASSUME NEW p \in Procs, CallbackFailsAfterWrite(p) PROVE AuthorityAgrees'
    <2>1. /\ UNCHANGED <<db, zed>> /\ pc'[p] = "write" /\ mode'[p] = "restore"
          /\ batch'[p] = batch[p]
      BY <1>3 DEF CallbackFailsAfterWrite, CompensateWhileLocked, StartWriting, TypeOK
    <2>2. OthersStay(p) /\ told \subseteq told' /\ unseen \subseteq unseen'
      BY <1>3, OneMoves DEF Step
    <2>3. \A k : Responsible(p, k) => Responsible(p, k)'
      BY <2>1 DEF Responsible, Accounts
    <2> QED
      BY <2>1, <2>2, <2>3, AgreementFrame
  <1>4. ASSUME NEW p \in Procs, WriteSucceeds(p) PROVE AuthorityAgrees'
    <2>1. OthersStay(p) /\ told \subseteq told' /\ unseen \subseteq unseen' /\ UNCHANGED <<db, batch>>
      BY <1>4, OneMoves DEF Step, WriteSucceeds, ReturnOK
    <2>2. /\ unseen' = unseen \cup Overrun(p) /\ BatchExact(p)
          /\ Holds(Request(p)) /\ zed' = Applied(Request(p))
      BY <1>4 DEF WriteSucceeds, BatchesExact
    <2>3. \/ mode[p] = "forward" /\ Accounts(p)'
          \/ mode[p] = "restore"
      BY <1>4 DEF WriteSucceeds, ReturnOK, Accounts, TypeOK, Modes
    <2>4. ASSUME NEW k \in Keys \ (told' \cup unseen')
          PROVE  \/ Agree(k)'
                 \/ Responsible(p, k)'
                 \/ (k \in zed' <=> k \in zed) /\ ~Responsible(p, k)
      <3>1. CASE ~(k \in zed' <=> k \in zed)
        <4>1. k \in batch[p].keys
          BY <2>2, <3>1, WriteEffect
        <4>2. \/ k \in zed' <=> k \in batch[p].pre
              \/ Accounts(p)' /\ (k \in zed' <=> k \in batch[p].want)
          BY <2>2, <2>3, <4>1, WriteEffect
        <4> QED
          BY <2>1, <2>2, <2>4, <3>1, <4>1, <4>2, WriteAnswers
      <3>2. CASE (k \in zed' <=> k \in zed) /\ Responsible(p, k)
        <4>1. k \in batch[p].keys
          BY <3>2 DEF Responsible
        <4>2. CASE mode[p] = "forward" /\ Accounts(p)'
          BY <2>1, <3>2, <4>2 DEF Responsible
        <4>3. CASE mode[p] = "restore"
          <5>1. k \in zed' <=> k \in batch[p].pre
            BY <2>2, <4>1, <4>3, WriteEffect
          <5> QED
            BY <2>1, <3>2, <5>1 DEF Responsible, Agree
        <4> QED
          BY <2>3, <4>2, <4>3
      <3> QED
        BY <3>1, <3>2
    <2> QED
      BY <2>1, <2>4, AgreementFrame
  <1>5. ASSUME NEW p \in Procs, PreconditionFails(p) \/ WriteRefused(p) PROVE AuthorityAgrees'
    <2>1. OthersStay(p) /\ told \subseteq told' /\ unseen \subseteq unseen'
      BY <1>5, OneMoves DEF Step
    <2>2. pc[p] = "write" /\ UNCHANGED <<db, zed>>
      BY <1>5 DEF PreconditionFails, WriteRefused
    <2>3. \/ Inspect(p, FALSE)
          \/ ReturnError(p) /\ (mode[p] = "restore" \/ ~Accounts(p))
      BY <1>5, <2>2 DEF PreconditionFails, WriteRefused, Accounts
    <2> QED
      BY <2>1, <2>2, <2>3, ReturnAnswers
  <1>6. ASSUME NEW p \in Procs, WriteAmbiguous(p) PROVE AuthorityAgrees'
    <2>1. OthersStay(p) /\ told \subseteq told' /\ unseen \subseteq unseen' /\ UNCHANGED <<db, batch>>
      BY <1>6, OneMoves DEF Step, WriteAmbiguous, Inspect
    <2>2. unseen' = unseen \cup Overrun(p) /\ BatchExact(p) /\ Accounts(p)'
      BY <1>6 DEF WriteAmbiguous, BatchesExact, Inspect, Accounts, TypeOK
    <2>3. CASE UNCHANGED zed
      <3>1. pc[p] = "write" /\ Inspect(p, TRUE)
        BY <1>6 DEF WriteAmbiguous
      <3> QED
        BY <2>1, <2>3, <3>1, ReturnAnswers
    <2>4. CASE Holds(Request(p)) /\ zed' = Applied(Request(p))
      <3> SUFFICES ASSUME NEW k \in Keys \ (told' \cup unseen')
                   PROVE  \/ Agree(k)'
                          \/ Responsible(p, k)'
                          \/ (k \in zed' <=> k \in zed) /\ ~Responsible(p, k)
        BY <2>1, AgreementFrame
      <3>1. CASE ~(k \in zed' <=> k \in zed)
        <4>1. k \in batch[p].keys
          BY <2>2, <2>4, <3>1, WriteEffect
        <4>2. \/ k \in zed' <=> k \in batch[p].pre
              \/ k \in zed' <=> k \in batch[p].want
          BY <2>2, <2>4, <4>1, WriteEffect DEF TypeOK, Modes
        <4> QED
          BY <2>1, <2>2, <3>1, <4>1, <4>2, WriteAnswers
      <3>2. CASE (k \in zed' <=> k \in zed) /\ Responsible(p, k)
        BY <2>1, <2>2, <3>2 DEF Responsible
      <3> QED
        BY <3>1, <3>2
    <2> QED
      BY <1>6, <2>3, <2>4 DEF WriteAmbiguous
  <1>7. ASSUME NEW p \in Procs, InspectState(p) \/ InspectFails(p) PROVE AuthorityAgrees'
    <2>1. OthersStay(p) /\ told \subseteq told' /\ unseen \subseteq unseen'
      BY <1>7, OneMoves DEF Step
    <2>2. pc[p] = "inspect" /\ UNCHANGED <<db, zed>>
      BY <1>7 DEF InspectState, InspectFails
    <2>3. had[p] \/ mode[p] = "restore"
      BY <2>2 DEF BatchesExact, BatchExact, TypeOK, Modes
    <2>4. CASE /\ pc' = [pc EXCEPT ![p] = "write"]
               /\ UNCHANGED <<batch, mode, had>>
      <3>1. \A k : Responsible(p, k) => Responsible(p, k)'
        BY <2>2, <2>4 DEF Responsible, Accounts, TypeOK
      <3> QED
        BY <2>1, <2>2, <3>1, AgreementFrame
    <2>5. CASE \/ ReturnOK(p) /\ zed \cap batch[p].keys = Request(p).to
               \/ ReturnUncertain(p)
               \/ ReturnError(p) /\ mode[p] = "restore"
               \/ ReturnError(p) /\ zed \cap batch[p].keys = Request(p).from
      BY <2>1, <2>2, <2>5, ReturnAnswers
    <2> QED
      BY <1>7, <2>3, <2>4, <2>5 DEF InspectState, InspectFails
  <1>8. ASSUME NEW p \in Procs, Commit(p) \/ CommitUncertain(p) PROVE AuthorityAgrees'
    <2>1. OthersStay(p) /\ told \subseteq told' /\ unseen \subseteq unseen' /\ UNCHANGED zed
      BY <1>8, OneMoves DEF Step, Commit, CommitUncertain
    <2>2. /\ pc[p] = "written"
          /\ CommitUncertain(p) => told' = told \cup batch[p].keys
          /\ Commit(p) => lock = p /\ db' = (db \ batch[p].keys) \cup batch[p].want
          /\ db' \in {db, (db \ batch[p].keys) \cup batch[p].want}
      BY <1>8 DEF Commit, CommitUncertain, Committed
    <2> SUFFICES ASSUME NEW k \in Keys \ (told' \cup unseen')
                 PROVE  Agree(k)' \/ \E r \in Procs : Responsible(r, k)'
      BY DEF AuthorityAgrees
    <2>3. CASE k \in batch[p].keys
      <3>1. Commit(p)
        BY <1>8, <2>2, <2>3
      <3>2. k \in zed <=> k \in batch[p].want
        BY <2>1, <2>2, <2>3, <3>1 DEF WrittenExact
      <3> QED
        BY <2>1, <2>2, <2>3, <3>1, <3>2 DEF Agree
    <2>4. CASE k \notin batch[p].keys
      <3>1. k \in db' <=> k \in db
        BY <2>2, <2>4 DEF BatchesExact, BatchExact
      <3>2. CASE Agree(k)
        BY <2>1, <3>1, <3>2 DEF Agree
      <3>3. ASSUME NEW r \in Procs, Responsible(r, k) PROVE Responsible(r, k)'
        <4>1. r # p
          BY <2>4, <3>3 DEF Responsible
        <4> QED
          BY <2>1, <3>1, <3>3, <4>1, ResponsibleFrame DEF OthersStay
      <3>4. Agree(k) \/ \E r \in Procs : Responsible(r, k)
        BY <2>1 DEF AuthorityAgrees
      <3> QED
        BY <3>2, <3>3, <3>4
    <2> QED
      BY <2>3, <2>4
  <1>9. ASSUME NEW p \in Procs, Crash(p) PROVE AuthorityAgrees'
    <2>1. /\ OthersStay(p) /\ told \subseteq told' /\ UNCHANGED db
          /\ unseen' = unseen \cup batch[p].keys
      BY <1>9, OneMoves DEF Crash
    <2>2. \A k : k \notin batch[p].keys => (k \in zed' <=> k \in zed)
      BY <1>9, WriteEffect DEF Crash, BatchesExact
    <2> QED
      BY <2>1, <2>2, AgreementFrame DEF Responsible
  <1>10. ASSUME NEW p \in Procs, NEW r \in inflight[p], LateWriteInMutation(p, r)
         PROVE  AuthorityAgrees'
    <2>1. OthersStay(p) /\ told \subseteq told' /\ unseen \subseteq unseen'
      BY <1>10, OneMoves
    <2>2. UNCHANGED <<db, batch, pc, mode, had>> /\ BatchExact(p)
      BY <1>10 DEF LateWriteInMutation, BatchesExact
    <2>3. ASSUME NEW k \in Keys \ (told' \cup unseen')
          PROVE  \/ Agree(k)'
                 \/ Responsible(p, k)'
                 \/ (k \in zed' <=> k \in zed) /\ ~Responsible(p, k)
      <3>1. CASE (k \in zed' <=> k \in zed) /\ Responsible(p, k)
        BY <2>2, <3>1, ResponsibleFrame
      <3>2. CASE ~(k \in zed' <=> k \in zed)
        <4>1. /\ pc[p] \in {"write", "inspect"} /\ k \notin Overrun(p)
              /\ Holds(r) /\ zed' = Applied(r)
          BY <1>10, <2>3, <3>2 DEF LateWriteInMutation, Changed
        <4>2. Accounts(p)'
          BY <2>2, <4>1 DEF BatchExact, Accounts, TypeOK, Modes
        <4>3. r \in {Forward(batch[p]), Restore(batch[p])}
          BY <2>2 DEF BatchExact
        <4>4. /\ k \in batch[p].keys
              /\ \/ k \in zed' <=> k \in batch[p].pre
                 \/ k \in zed' <=> k \in batch[p].want
          BY <2>2, <3>2, <4>1, <4>3, RequestEffect
        <4> QED
          BY <2>2, <2>3, <3>2, <4>1, <4>2, <4>4, WriteAnswers
      <3> QED
        BY <3>1, <3>2
    <2> QED
      BY <2>1, <2>2, <2>3, AgreementFrame
  <1>11. ASSUME NEW r \in orphans, LateWriteAfterwards(r) PROVE AuthorityAgrees'
    <2>1. /\ \A k \in Keys \ unseen' : k \in zed' <=> k \in zed
          /\ UNCHANGED <<db, batch, pc, mode, had, told>> /\ unseen \subseteq unseen'
      BY <1>11 DEF LateWriteAfterwards, Changed
    <2> QED
      BY <2>1 DEF AuthorityAgrees, Agree, Responsible, Accounts
  <1>12. CASE UNCHANGED vars
    BY <1>12 DEF AuthorityAgrees, Agree, Responsible, Accounts
  <1> QED
    BY <1>1, <1>2, <1>3, <1>4, <1>5, <1>6, <1>7, <1>8, <1>9, <1>10, <1>11, <1>12
       DEF Next, Step

-----------------------------------------------------------------------------
(* The theorems.                                                             *)

\* At every place in Execute, with or without the lock, each relationship that
\* disagrees with the rows is accounted for.
THEOREM AuthzInvariant == Spec => []AuthzInv
  <1>1. Init => WrittenExact /\ FaultlessExact /\ AuthorityAgrees
    BY DEF Init, WrittenExact, FaultlessExact, AuthorityAgrees, Agree
  <1>2. Init => AuthzInv
    BY <1>1, TypeInit, BatchesInit DEF AuthzInv
  <1>3. AuthzInv /\ [Next]_vars => AuthzInv'
    BY TypeStep, BatchesStep, WrittenStep, FaultlessStep, AgreementStep DEF AuthzInv
  <1> QED
    BY <1>2, <1>3, PTL DEF Spec

\* Whether mutations keep the lock or lose it, a relationship that disagrees
\* with the committed rows is one that a mutation still has to commit or undo,
\* one that was reported, or one that a crash, a late or an unlocked write
\* touched.
THEOREM AuthorityIsAccounted == Spec => []AuthorityAgrees
  <1>1. AuthzInv => AuthorityAgrees
    BY DEF AuthzInv
  <1> QED
    BY <1>1, AuthzInvariant, PTL

\* A mutation that kept its lock to the end leaves the stores in agreement:
\* without a lost transaction, a crash or a late write they disagree between
\* mutations only where an operator was told.
THEOREM LockSerializes == Spec => []SerializedIsExact
  <1>1. AuthzInv => SerializedIsExact
    <2> SUFFICES ASSUME AuthzInv, faults = 0, lock = NoProc, NEW k \in Keys \ told
                 PROVE  Agree(k)
      BY DEF SerializedIsExact
    <2>1. unseen = {} /\ \A p \in Procs : pc[p] = "idle"
      BY ProcsAssumption DEF AuthzInv, FaultlessExact
    <2>2. \A p \in Procs : ~Responsible(p, k)
      BY <2>1 DEF Responsible, Accounts
    <2> QED
      BY <2>1, <2>2 DEF AuthzInv, AuthorityAgrees
  <1> QED
    BY <1>1, AuthzInvariant, PTL

\* Rows never change ahead of SpiceDB.
THEOREM RowsFollowRelationships == Spec => CommitIsWritten
  <1>1. AuthzInv /\ [Next]_vars =>
          [\A k \in Keys \ unseen : ~(k \in db' <=> k \in db) => (k \in zed' <=> k \in db')]_vars
    <2> SUFFICES ASSUME AuthzInv, Next, NEW k \in Keys \ unseen, ~(k \in db' <=> k \in db)
                 PROVE  k \in zed' <=> k \in db'
      OBVIOUS
    <2> USE DEF storeVars, procVars, lateVars
    <2>1. PICK p \in Procs : Commit(p) \/ CommitUncertain(p)
      BY DEF Next, Step, Begin, CallbackFails, WriteRelationships, WriteSucceeds,
         PreconditionFails, WriteRefused, WriteAmbiguous, InspectState, InspectFails,
         CallbackFailsAfterWrite, Rollback, TransactionLost, Crash,
         LateWriteInMutation, LateWriteAfterwards
    <2>2. /\ lock = p /\ pc[p] = "written" /\ UNCHANGED zed
          /\ db' = (db \ batch[p].keys) \cup batch[p].want
      BY <2>1 DEF Commit, CommitUncertain, Committed
    <2>3. k \in batch[p].keys
      BY <2>2 DEF AuthzInv, BatchesExact, BatchExact
    <2>4. k \in zed <=> k \in batch[p].want
      BY <2>2, <2>3 DEF AuthzInv, WrittenExact
    <2> QED
      BY <2>2, <2>3, <2>4
  <1> QED
    BY <1>1, AuthzInvariant, PTL DEF Spec, CommitIsWritten

=============================================================================
