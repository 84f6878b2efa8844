----------------------- MODULE CampaignDeliveryProofs -----------------------
(***************************************************************************)
(* Proofs about CampaignDelivery for any number of runs, members, workers  *)
(* and faults: the processes only ever take the store's transactions, so   *)
(* the store's theorems hold of them; and the leases keep two workers off  *)
(* one recipient.                                                          *)
(***************************************************************************)
EXTENDS CampaignDelivery, DeliveryContractProofs

-----------------------------------------------------------------------------
(* Every step is a transaction of the store or leaves it alone.              *)

LEMMA BusyJob ==
    ASSUME TypeOK, NEW w \in Workers, pc[w] # "idle"
    PROVE  job[w] \in Jobs /\ job[w][1] \in Runs /\ job[w][2] \in Members
  BY DEF TypeOK, Jobs

LEMMA BulkJob ==
    ASSUME TypeOK, NEW b \in BulkWorkers, NEW m \in bulkTodo[b]
    PROVE  bulkRun[b] \in Runs /\ m \in Members
  <1>1. m \in Members /\ bulkPc[b] = "dispatch"
    BY DEF TypeOK
  <1> QED
    BY <1>1 DEF TypeOK

LEMMA ClaimedResultIsStoreStep ==
    ASSUME NEW w \in Workers, NEW r \in Runs, NEW m \in Members,
           NEW s \in {"sent"} \cup FailureStatuses, MarkClaimedResult(w, r, m, s)
    PROVE  StoreNext
  BY DEF StoreNext, RecipientStep

LEMMA ReleaseIsStoreStep ==
    ASSUME TypeOK, NEW w \in Workers, NEW j \in Jobs, ReleaseDeliveryClaim(w, j)
    PROVE  [StoreNext]_storeVars
  <1>1. j[1] \in Runs /\ j[2] \in Members
    BY DEF Jobs
  <1>2. CASE ReleaseCampaignDeliveryRecipientClaim(w, j[1], j[2])
    BY <1>1, <1>2 DEF StoreNext, RecipientStep
  <1> QED
    BY <1>2 DEF ReleaseDeliveryClaim

\* Time that passes for no lease leaves the store alone.
LEMMA TickIsStoreStep ==
    ASSUME TypeOK, Tick
    PROVE  [StoreNext]_storeVars
  <1>1. CASE \E r \in Runs, m \in Members : lease[r][m] > 0
    BY <1>1 DEF Tick, StoreNext, LeaseTick
  <1>2. CASE ~\E r \in Runs, m \in Members : lease[r][m] > 0
    <2>1. lease \in [Runs -> [Members -> 0..LeaseTicks]]
      BY DEF TypeOK, StoreTypeOK
    <2>2. \A r \in Runs, m \in Members : lease[r][m] = 0
      BY <1>2, <2>1, LeaseAssumption
    <2>3. lease' = [r \in Runs |-> [m \in Members |-> 0]]
      BY <2>2 DEF Tick, LeasesTick
    <2>4. lease = [r \in Runs |-> [m \in Members |-> 0]]
      BY <2>1, <2>2
    <2> QED
      BY <2>3, <2>4 DEF Tick, storeVars, recipientVars
  <1> QED
    BY <1>1, <1>2

LEMMA WorkerIsStoreStep ==
    ASSUME TypeOK, NEW w \in Workers, WorkerProgress(w) \/ WorkerFault(w)
    PROVE  [StoreNext]_storeVars
  <1>1. ASSUME NEW j \in Jobs, ClaimDelivery(w, j) PROVE StoreNext
    <2>1. j[1] \in Runs /\ j[2] \in Members
      BY DEF Jobs
    <2> QED
      BY <1>1, <2>1 DEF ClaimDelivery, StoreNext, RecipientStep
  <1>2. ASSUME NEW s \in FailureStatuses, Finish(w, s) PROVE [StoreNext]_storeVars
    BY <1>2, BusyJob, ClaimedResultIsStoreStep, ReleaseIsStoreStep DEF Finish
  <1>3. CASE ReleaseAfterError(w)
    BY <1>3, BusyJob, ReleaseIsStoreStep DEF ReleaseAfterError
  <1>4. CASE PersistAcceptedResult(w)
    BY <1>4, BusyJob, ClaimedResultIsStoreStep DEF PersistAcceptedResult
  <1>5. CASE SendThroughProvider(w) \/ ProviderAccepts(w) \/ WorkerFault(w)
    BY <1>5 DEF SendThroughProvider, ProviderAccepts, WorkerFault, ProviderRefuses,
       ResponseLost, PersistGivesUp, WorkerCrash
  <1> QED
    BY <1>1, <1>2, <1>3, <1>4, <1>5 DEF WorkerProgress

LEMMA BulkIsStoreStep ==
    ASSUME TypeOK, NEW b \in BulkWorkers, BulkProgress(b) \/ BulkFails(b)
    PROVE  [StoreNext]_storeVars
  <1>1. ASSUME NEW r \in Runs, NEW E \in SUBSET Members, BulkMaterialize(b, r, E)
        PROVE [StoreNext]_storeVars
    BY <1>1 DEF BulkMaterialize, StoreNext
  <1>2. ASSUME NEW m \in Members, NEW s \in FailureStatuses, BulkFinish(b, m, s)
        PROVE [StoreNext]_storeVars
    <2>1. bulkRun[b] \in Runs
      BY <1>2, BulkJob DEF BulkFinish
    <2>2. CASE MarkUnclaimedResult(bulkRun[b], m, s)
      BY <2>1, <2>2 DEF StoreNext, RecipientStep
    <2> QED
      BY <1>2, <2>2 DEF BulkFinish
  <1>3. CASE BulkListPending(b) \/ BulkDone(b) \/ BulkFails(b)
    BY <1>3 DEF BulkListPending, BulkDone, BulkFails
  <1>4. ASSUME NEW m \in Members, BulkPublish(b, m) PROVE UNCHANGED storeVars
    BY <1>4 DEF BulkPublish
  <1> QED
    BY <1>1, <1>2, <1>3, <1>4 DEF BulkProgress

LEMMA StepIsStoreStep == TypeOK /\ [Next]_vars => [StoreNext]_storeVars
  <1> SUFFICES ASSUME TypeOK, [Next]_vars PROVE [StoreNext]_storeVars
    OBVIOUS
  <1>1. CASE Request
    <2>1. CASE CampaignLifecycle \/ LegalLifecycle
      BY <2>1 DEF StoreNext
    <2>2. ASSUME NEW r \in Runs, NEW m \in Members,
                 NEW o \in {"delivered", "bounced", "complained"},
                 ApplySESProviderOutcome(r, m, o)
          PROVE StoreNext
      BY <2>2 DEF StoreNext, RecipientStep
    <2> QED
      BY <1>1, <2>1, <2>2 DEF Request
  <1>2. ASSUME NEW r \in Runs, ScheduledTimeReached(r) PROVE StoreNext
    BY <1>2 DEF ScheduledTimeReached, StoreNext
  <1>3. ASSUME NEW r \in CampaignRuns, NEW E \in SUBSET Members, SendNow(r, E) PROVE StoreNext
    BY <1>3 DEF SendNow, StoreNext
  <1>4. ASSUME NEW r \in Runs, NEW E \in SUBSET Members, Dispatch(r, E) PROVE StoreNext
    BY <1>4 DEF Dispatch, StoreNext
  <1>5. ASSUME NEW j \in Jobs, DuplicateSuppressed(j) \/ CommandDeadLettered(j)
        PROVE UNCHANGED storeVars
    BY <1>5 DEF DuplicateSuppressed, CommandDeadLettered
  <1>6. ASSUME NEW r \in Runs, NEW E \in SUBSET Members, ResumeMaterialize(r, E) PROVE StoreNext
    BY <1>6 DEF ResumeMaterialize, StoreNext
  <1>7. CASE ResumePublish \/ ResumeFails
    BY <1>7 DEF ResumePublish, ResumeFails
  <1>8. CASE UNCHANGED vars
    BY <1>8 DEF vars
  <1> QED
    BY <1>1, <1>2, <1>3, <1>4, <1>5, <1>6, <1>7, <1>8, WorkerIsStoreStep, BulkIsStoreStep,
       TickIsStoreStep DEF Next, Resume

-----------------------------------------------------------------------------
(* Types.                                                                    *)

WorkerTypeOK ==
    /\ pc \in [Workers -> Busy \cup {"idle"}]
    /\ job \in [Workers -> Jobs \cup {NoJob}]
    /\ \A w \in Workers : job[w] = NoJob <=> pc[w] = "idle"
    /\ budget \in [Workers -> Nat]

BulkTypeOK ==
    /\ bulkPc \in [BulkWorkers -> {"idle", "list", "dispatch"}]
    /\ bulkRun \in [BulkWorkers -> Runs \cup {NoRun}]
    /\ bulkTodo \in [BulkWorkers -> SUBSET Members]
    /\ \A b \in BulkWorkers : /\ bulkRun[b] = NoRun <=> bulkPc[b] = "idle"
                              /\ bulkPc[b] # "dispatch" => bulkTodo[b] = {}

RestTypeOK ==
    /\ mailQueue \subseteq Jobs
    /\ bulkQueue \subseteq Runs
    /\ resuming \in Runs \cup {NoRun}
    /\ accepted \in [Jobs -> 0..2]
    /\ ambiguous \subseteq Jobs
    /\ faults \in 0..MaxFaults

LEMMA TypeParts == TypeOK <=> StoreTypeOK /\ WorkerTypeOK /\ BulkTypeOK /\ RestTypeOK
  BY DEF TypeOK, WorkerTypeOK, BulkTypeOK, RestTypeOK

LEMMA DeliveryTypeInit == Init => TypeOK
  <1> SUFFICES ASSUME Init PROVE TypeOK
    OBVIOUS
  <1>1. StoreTypeOK
    BY TypeInit DEF Init
  <1>2. WorkerTypeOK
    BY DEF Init, WorkerTypeOK
  <1>3. BulkTypeOK
    BY DEF Init, BulkTypeOK
  <1>4. RestTypeOK
    BY DeadlineAssumption DEF Init, RestTypeOK
  <1> QED
    BY <1>1, <1>2, <1>3, <1>4, TypeParts

LEMMA FaultType ==
    ASSUME RestTypeOK, Fault \/ NoFault
    PROVE  faults' \in 0..MaxFaults
  BY DeadlineAssumption DEF RestTypeOK, Fault, NoFault

LEMMA AcceptType ==
    ASSUME RestTypeOK, NEW j \in Jobs, Accept(j)
    PROVE  accepted' \in [Jobs -> 0..2]
  BY DEF RestTypeOK, Accept

LEMMA GotoType ==
    ASSUME WorkerTypeOK, NEW w \in Workers, NEW j, NEW s, NEW t \in Nat, Goto(w, s, j, t),
           \/ s = "idle" /\ j = NoJob
           \/ s \in Busy /\ j \in Jobs
    PROVE  WorkerTypeOK'
  <1>1. NoJob \notin Jobs /\ "idle" \notin Busy
    BY NoneAssumption DEF Jobs, Busy
  <1> QED
    BY <1>1 DEF WorkerTypeOK, Goto

\* The worker moves on with the job it has.
LEMMA PcMoves ==
    ASSUME WorkerTypeOK, NEW w \in Workers, pc[w] # "idle", NEW s \in Busy,
           pc' = [pc EXCEPT ![w] = s], UNCHANGED <<job, budget>>
    PROVE  WorkerTypeOK'
  <1>1. "idle" \notin Busy
    BY DEF Busy
  <1> QED
    BY <1>1 DEF WorkerTypeOK

LEMMA WorkerTypes ==
    ASSUME TypeOK, NEW w \in Workers, WorkerProgress(w) \/ WorkerFault(w)
    PROVE  WorkerTypeOK' /\ BulkTypeOK' /\ RestTypeOK'
  <1>1. WorkerTypeOK /\ BulkTypeOK /\ RestTypeOK
    BY TypeParts
  <1>2. 0 \in Nat /\ ProcessingTicks \in Nat /\ PersistTicks \in Nat
    BY DeadlineAssumption
  <1>3. {"claimed", "sending", "accepted"} = Busy
    BY DEF Busy
  <1>4. pc[w] # "idle" => job[w] \in Jobs
    BY BusyJob
  <1>5. ASSUME bulkVars' = bulkVars PROVE BulkTypeOK'
    BY <1>1, <1>5 DEF BulkTypeOK, bulkVars
  <1>6. ASSUME NEW j \in Jobs, ClaimDelivery(w, j)
        PROVE  WorkerTypeOK' /\ BulkTypeOK' /\ RestTypeOK'
    <2>1. WorkerTypeOK'
      BY <1>1, <1>2, <1>3, <1>6, GotoType DEF ClaimDelivery
    <2>2. RestTypeOK'
      BY <1>1, <1>6, FaultType DEF ClaimDelivery, RestTypeOK, providerVars
    <2> QED
      BY <2>1, <2>2, <1>5, <1>6 DEF ClaimDelivery
  <1>7. ASSUME NEW s \in FailureStatuses, Finish(w, s)
        PROVE  WorkerTypeOK' /\ BulkTypeOK' /\ RestTypeOK'
    <2>1. WorkerTypeOK'
      BY <1>1, <1>2, <1>7, GotoType DEF Finish, GoIdle
    <2>2. RestTypeOK'
      BY <1>1, <1>7, FaultType DEF Finish, RestTypeOK, providerVars, Complete
    <2> QED
      BY <2>1, <2>2, <1>5, <1>7 DEF Finish
  <1>8. CASE ReleaseAfterError(w)
    <2>1. WorkerTypeOK'
      BY <1>1, <1>2, <1>8, GotoType DEF ReleaseAfterError, GoIdle
    <2>2. RestTypeOK'
      BY <1>1, <1>8, FaultType DEF ReleaseAfterError, RestTypeOK, providerVars
    <2> QED
      BY <2>1, <2>2, <1>5, <1>8 DEF ReleaseAfterError
  <1>9. CASE SendThroughProvider(w)
    <2>1. WorkerTypeOK'
      BY <1>1, <1>3, <1>9, PcMoves DEF SendThroughProvider
    <2>2. RestTypeOK'
      BY <1>1, <1>9, FaultType DEF SendThroughProvider, RestTypeOK, providerVars
    <2> QED
      BY <2>1, <2>2, <1>5, <1>9 DEF SendThroughProvider
  <1>10. CASE ProviderAccepts(w)
    <2>1. WorkerTypeOK'
      BY <1>1, <1>2, <1>3, <1>4, <1>10, GotoType DEF ProviderAccepts
    <2>2. RestTypeOK'
      BY <1>1, <1>4, <1>10, FaultType, AcceptType DEF ProviderAccepts, RestTypeOK
    <2> QED
      BY <2>1, <2>2, <1>5, <1>10 DEF ProviderAccepts
  <1>11. CASE PersistAcceptedResult(w)
    <2>1. WorkerTypeOK'
      BY <1>1, <1>2, <1>11, GotoType DEF PersistAcceptedResult, GoIdle
    <2>2. RestTypeOK'
      BY <1>1, <1>4, <1>11, FaultType DEF PersistAcceptedResult, RestTypeOK, Complete
    <2> QED
      BY <2>1, <2>2, <1>5, <1>11 DEF PersistAcceptedResult
  <1>12. CASE ProviderRefuses(w)
    <2>1. WorkerTypeOK'
      BY <1>1, <1>3, <1>12, PcMoves DEF ProviderRefuses
    <2>2. RestTypeOK'
      BY <1>1, <1>12, FaultType DEF ProviderRefuses, RestTypeOK, providerVars
    <2> QED
      BY <2>1, <2>2, <1>5, <1>12 DEF ProviderRefuses
  <1>13. CASE ResponseLost(w)
    <2>1. WorkerTypeOK'
      BY <1>1, <1>3, <1>13, PcMoves DEF ResponseLost
    <2>2. RestTypeOK'
      BY <1>1, <1>4, <1>13, FaultType, AcceptType DEF ResponseLost, RestTypeOK
    <2> QED
      BY <2>1, <2>2, <1>5, <1>13 DEF ResponseLost
  <1>14. CASE PersistGivesUp(w)
    <2>1. WorkerTypeOK'
      BY <1>1, <1>2, <1>14, GotoType DEF PersistGivesUp, GoIdle
    <2>2. RestTypeOK'
      BY <1>1, <1>4, <1>14, FaultType DEF PersistGivesUp, RestTypeOK
    <2> QED
      BY <2>1, <2>2, <1>5, <1>14 DEF PersistGivesUp
  <1>15. CASE WorkerCrash(w)
    <2>1. WorkerTypeOK'
      BY <1>1, <1>2, <1>15, GotoType DEF WorkerCrash, GoIdle
    <2>2. RestTypeOK'
      BY <1>1, <1>4, <1>15, FaultType, AcceptType DEF WorkerCrash, RestTypeOK, providerVars
    <2> QED
      BY <2>1, <2>2, <1>5, <1>15 DEF WorkerCrash
  <1> QED
    BY <1>6, <1>7, <1>8, <1>9, <1>10, <1>11, <1>12, <1>13, <1>14, <1>15
    DEF WorkerProgress, WorkerFault

LEMMA BulkTypes ==
    ASSUME TypeOK, NEW b \in BulkWorkers, BulkProgress(b) \/ BulkFails(b)
    PROVE  WorkerTypeOK' /\ BulkTypeOK' /\ RestTypeOK'
  <1>1. WorkerTypeOK /\ BulkTypeOK /\ RestTypeOK
    BY TypeParts
  <1>2. NoRun \notin Runs
    BY NoneAssumption
  <1>3. ASSUME workerVars' = workerVars PROVE WorkerTypeOK'
    BY <1>1, <1>3 DEF WorkerTypeOK, workerVars
  <1>4. ASSUME BulkIdle(b) PROVE BulkTypeOK'
    BY <1>1, <1>4 DEF BulkIdle, BulkTypeOK
  <1>5. ASSUME NEW m, m \in bulkTodo[b], BulkDispatched(b, m) PROVE BulkTypeOK'
    BY <1>1, <1>5 DEF BulkDispatched, BulkTypeOK
  <1>6. ASSUME NEW r \in Runs, NEW E \in SUBSET Members, BulkMaterialize(b, r, E)
        PROVE  WorkerTypeOK' /\ BulkTypeOK' /\ RestTypeOK'
    <2>1. BulkTypeOK'
      BY <1>1, <1>2, <1>6 DEF BulkMaterialize, BulkTypeOK
    <2>2. RestTypeOK'
      BY <1>1, <1>6, FaultType DEF BulkMaterialize, RestTypeOK, providerVars
    <2> QED
      BY <2>1, <2>2, <1>3, <1>6 DEF BulkMaterialize
  <1>7. CASE BulkListPending(b)
    <2>1. BulkTypeOK'
      BY <1>1, <1>2, <1>7 DEF BulkListPending, BulkTypeOK
    <2>2. RestTypeOK'
      BY <1>1, <1>7, FaultType DEF BulkListPending, RestTypeOK, providerVars
    <2> QED
      BY <2>1, <2>2, <1>3, <1>7 DEF BulkListPending
  <1>8. ASSUME NEW m \in Members, BulkPublish(b, m)
        PROVE  WorkerTypeOK' /\ BulkTypeOK' /\ RestTypeOK'
    <2>1. BulkTypeOK'
      BY <1>5, <1>8 DEF BulkPublish
    <2>2. <<bulkRun[b], m>> \in Jobs
      BY <1>8, BulkJob DEF BulkPublish, Jobs
    <2>3. RestTypeOK'
      BY <1>1, <2>2, <1>8, FaultType DEF BulkPublish, RestTypeOK, providerVars
    <2> QED
      BY <2>1, <2>3, <1>3, <1>8 DEF BulkPublish
  <1>9. ASSUME NEW m \in Members, NEW s \in FailureStatuses, BulkFinish(b, m, s)
        PROVE  WorkerTypeOK' /\ BulkTypeOK' /\ RestTypeOK'
    <2>1. BulkTypeOK'
      BY <1>4, <1>5, <1>9 DEF BulkFinish
    <2>2. RestTypeOK'
      BY <1>1, <1>9, FaultType DEF BulkFinish, RestTypeOK, providerVars
    <2> QED
      BY <2>1, <2>2, <1>3, <1>9 DEF BulkFinish
  <1>10. CASE BulkDone(b)
    <2>1. RestTypeOK'
      BY <1>1, <1>10, FaultType DEF BulkDone, RestTypeOK, providerVars
    <2> QED
      BY <2>1, <1>3, <1>4, <1>10 DEF BulkDone
  <1>11. CASE BulkFails(b)
    <2>1. RestTypeOK'
      BY <1>1, <1>11, FaultType DEF BulkFails, RestTypeOK, providerVars
    <2> QED
      BY <2>1, <1>3, <1>4, <1>11 DEF BulkFails
  <1> QED
    BY <1>6, <1>7, <1>8, <1>9, <1>10, <1>11 DEF BulkProgress

LEMMA DeliveryTypeStep == TypeOK /\ [Next]_vars => TypeOK'
  <1> SUFFICES ASSUME TypeOK, [Next]_vars PROVE TypeOK'
    OBVIOUS
  <1>1. StoreTypeOK'
    BY StepIsStoreStep, TypeStep, TypeParts
  <1>2. WorkerTypeOK /\ BulkTypeOK /\ RestTypeOK
    BY TypeParts
  <1>3. ASSUME workerVars' = workerVars, bulkVars' = bulkVars
        PROVE  WorkerTypeOK' /\ BulkTypeOK'
    BY <1>2, <1>3 DEF WorkerTypeOK, BulkTypeOK, workerVars, bulkVars
  <1> DEFINE Rest == WorkerTypeOK' /\ BulkTypeOK' /\ RestTypeOK'
  <1>4. ASSUME Request PROVE Rest
    <2>1. RestTypeOK'
      BY <1>2, <1>4, FaultType DEF Request, otherThanStore, RestTypeOK, providerVars
    <2> QED
      BY <2>1, <1>3, <1>4 DEF Request, otherThanStore
  <1>5. ASSUME NEW r \in Runs, ScheduledTimeReached(r) PROVE Rest
    <2>1. RestTypeOK'
      BY <1>2, <1>5, FaultType DEF ScheduledTimeReached, otherThanStore, RestTypeOK, providerVars
    <2> QED
      BY <2>1, <1>3, <1>5 DEF ScheduledTimeReached, otherThanStore
  <1>6. ASSUME NEW r \in CampaignRuns, NEW E \in SUBSET Members, SendNow(r, E) PROVE Rest
    <2>1. r \in Runs
      BY DEF Runs
    <2>2. RestTypeOK'
      BY <1>2, <1>6, <2>1, FaultType DEF SendNow, otherThanStore, RestTypeOK, providerVars
    <2> QED
      BY <2>2, <1>3, <1>6 DEF SendNow, otherThanStore
  <1>7. ASSUME NEW r \in Runs, NEW E \in SUBSET Members, Dispatch(r, E) PROVE Rest
    <2>1. RestTypeOK'
      BY <1>2, <1>7, FaultType DEF Dispatch, otherThanStore, RestTypeOK, providerVars
    <2> QED
      BY <2>1, <1>3, <1>7 DEF Dispatch, otherThanStore
  <1>8. ASSUME NEW j \in Jobs, DuplicateSuppressed(j) \/ CommandDeadLettered(j) PROVE Rest
    <2>1. RestTypeOK'
      BY <1>2, <1>8, FaultType
      DEF DuplicateSuppressed, CommandDeadLettered, Complete, RestTypeOK, providerVars
    <2> QED
      BY <2>1, <1>3, <1>8 DEF DuplicateSuppressed, CommandDeadLettered
  <1>9. ASSUME NEW r \in Runs, NEW E \in SUBSET Members, ResumeMaterialize(r, E) PROVE Rest
    <2>1. RestTypeOK'
      BY <1>2, <1>9, FaultType DEF ResumeMaterialize, otherThanStore, RestTypeOK, providerVars
    <2> QED
      BY <2>1, <1>3, <1>9 DEF ResumeMaterialize, otherThanStore
  <1>10. ASSUME ResumePublish \/ ResumeFails PROVE Rest
    <2>1. RestTypeOK'
      BY <1>2, <1>10, FaultType
      DEF ResumePublish, ResumeFails, otherThanStore, RestTypeOK, providerVars
    <2> QED
      BY <2>1, <1>3, <1>10 DEF ResumePublish, ResumeFails, otherThanStore
  <1>11. ASSUME Tick PROVE Rest
    <2>1. RestTypeOK'
      BY <1>2, <1>11, FaultType DEF Tick, RestTypeOK, providerVars
    <2>2. BulkTypeOK'
      BY <1>2, <1>11 DEF Tick, BulkTypeOK, bulkVars
    <2>3. WorkerTypeOK'
      BY <1>2, <1>11 DEF Tick, WorkerTypeOK
    <2> QED
      BY <2>1, <2>2, <2>3
  <1>12. ASSUME UNCHANGED vars PROVE Rest
    <2>1. RestTypeOK'
      BY <1>2, <1>12 DEF vars, RestTypeOK, providerVars
    <2> QED
      BY <2>1, <1>3, <1>12 DEF vars
  <1>13. Rest
    BY <1>4, <1>5, <1>6, <1>7, <1>8, <1>9, <1>10, <1>11, <1>12, WorkerTypes, BulkTypes
    DEF Next, Resume
  <1> QED
    BY <1>1, <1>13 DEF TypeOK, WorkerTypeOK, BulkTypeOK, RestTypeOK

\* Every variable of the delivery processes keeps its type, and a busy worker
\* always has a recipient that exists.
THEOREM DeliveryTypeCorrect == Spec => []TypeOK
  BY DeliveryTypeInit, DeliveryTypeStep, PTL DEF Spec

\* The processes implement the store: whatever workers, bulk jobs, the resume
\* job, requests, crashes and time do, the database only ever takes the
\* transactions of CampaignStore, so all its theorems hold here.
THEOREM DeliveryImplementsStore == Spec => StoreSpec
  <1>1. Init => StoreInit
    BY DEF Init
  <1> QED
    BY <1>1, DeliveryTypeCorrect, StepIsStoreStep, PTL DEF Spec, StoreSpec

\* The whole of delivery keeps the contract: queues, worker pools, bulk jobs,
\* the resume job, crashes and stalls between them only ever open a run, take
\* in recipients, settle each of them once and close the run with the last.
THEOREM DeliveryImplementsContract == Spec => ImplementsContract
  BY DeliveryImplementsStore, StoreImplementsContract

\* Nor does any of them rewrite a result that is stored.
THEOREM DeliveryResultsFinal == Spec => ResultsAreFinal
  BY DeliveryImplementsStore, StoreResultsFinal

-----------------------------------------------------------------------------
(* The lease invariant.  Rows of jobs, and what a step does to one.          *)

RowKept(j) ==
    /\ status'[j[1]][j[2]] = status[j[1]][j[2]]
    /\ claim'[j[1]][j[2]] = claim[j[1]][j[2]]
    /\ lease'[j[1]][j[2]] = lease[j[1]][j[2]]

\* What transactions that no worker takes may do to a recipient: leave it,
\* insert it, end it without a live claim, end it with its policy, or move a
\* result forward.
RowQuiet(j) ==
    \/ RowKept(j)
    \/ /\ RowStatus(j) = "absent" /\ status'[j[1]][j[2]] = "pending"
       /\ claim'[j[1]][j[2]] = claim[j[1]][j[2]]
    \/ /\ RowStatus(j) = "pending" /\ ~ClaimLive(j[1], j[2])
       /\ status'[j[1]][j[2]] \in FailureStatuses
    \/ /\ RowStatus(j) = "pending" /\ PolicyDeleted(j[1])'
       /\ status'[j[1]][j[2]] = "skipped"
    \/ /\ RowStatus(j) \in ReachedProvider
       /\ status'[j[1]][j[2]] \in ReachedProvider
       /\ claim'[j[1]][j[2]] = claim[j[1]][j[2]]

LEMMA JobParts ==
    ASSUME NEW j \in Jobs, NEW k \in Jobs
    PROVE  /\ j[1] \in Runs /\ j[2] \in Members
           /\ j = <<j[1], j[2]>>
           /\ j # k => j[1] # k[1] \/ j[2] # k[2]
  BY DEF Jobs

LEMMA StatusSets ==
    /\ "absent" \notin FailureStatuses /\ "pending" \notin FailureStatuses
    /\ "absent" \notin ReachedProvider /\ "pending" \notin ReachedProvider
    /\ FailureStatuses \cap ReachedProvider = {}
  BY StatusAssumption DEF ReachedProvider

LEMMA BusyStates ==
    ASSUME TypeOK, NEW w \in Workers
    PROVE  pc[w] \in {"idle", "claimed", "sending", "accepted"}
  BY DEF TypeOK, Busy

\* A busy worker's pending recipient has a live claim.
LEMMA BusyClaimLive ==
    ASSUME TypeOK, DeliveryInv, NEW w \in Workers, pc[w] # "idle", RowStatus(job[w]) = "pending"
    PROVE  ClaimLive(job[w][1], job[w][2]) /\ OwnsLiveClaim(w, job[w])
  <1>1. claim[job[w][1]][job[w][2]] = w /\ w # NoClaim
    BY ClaimAssumption DEF DeliveryInv, HoldsLease
  <1>2. lease[job[w][1]][job[w][2]] > budget[w] + (IF pc[w] = "accepted" THEN 0 ELSE PersistTicks)
    BY DEF DeliveryInv, HoldsLease
  <1>3. budget[w] \in Nat /\ PersistTicks \in Nat
    BY DeadlineAssumption DEF TypeOK
  <1>4. lease[job[w][1]][job[w][2]] \in Nat
    BY BusyJob, LeaseAssumption DEF TypeOK, StoreTypeOK
  <1> QED
    BY <1>1, <1>2, <1>3, <1>4 DEF ClaimLive, OwnsLiveClaim

\* A step in which no worker and no provider takes part.
LEMMA QuietKeepsInv ==
    ASSUME TypeOK, DeliveryInv, UNCHANGED <<workerVars, providerVars>>,
           \A j \in Jobs : RowQuiet(j), deletedPolicies \subseteq deletedPolicies'
    PROVE  DeliveryInv'
  <1>1. UNCHANGED <<pc, job, budget, accepted, ambiguous>>
    BY DEF workerVars, providerVars
  <1>2. \A r : PolicyDeleted(r) => PolicyDeleted(r)'
    BY DEF PolicyDeleted
  <1>3. ASSUME NEW w \in Workers, pc[w] # "idle" PROVE HoldsLease(w)'
    <2> PICK j \in Jobs : j = job[w]
      BY <1>3, BusyJob
    <2>1. RowQuiet(j) /\ HoldsLease(w) /\ j = job'[w]
      BY <1>1, <1>3 DEF DeliveryInv
    <2>2. CASE RowKept(j)
      BY <2>1, <2>2, <1>1, <1>2 DEF RowKept, HoldsLease, RowStatus
    <2>3. CASE RowStatus(j) = "pending" /\ ~RowKept(j)
      <3>1. ClaimLive(j[1], j[2])
        BY <1>3, <2>3, BusyClaimLive
      <3>2. PolicyDeleted(j[1])' /\ status'[j[1]][j[2]] = "skipped"
        BY <2>1, <2>3, <3>1, StatusSets DEF RowQuiet
      <3> QED
        BY <2>1, <3>2 DEF HoldsLease, RowStatus
    <2>4. CASE RowStatus(j) # "pending" /\ ~RowKept(j)
      <3>1. status'[j[1]][j[2]] \in ReachedProvider
        BY <2>1, <2>4 DEF RowQuiet, HoldsLease
      <3>2. PolicyDeleted(j[1])'
        BY <2>1, <2>4, <1>2 DEF HoldsLease
      <3> QED
        BY <2>1, <3>1, <3>2, StatusSets DEF HoldsLease, RowStatus
    <2> QED
      BY <2>2, <2>3, <2>4
  <1>4. NoParallelSend' /\ DuplicateNeedsAmbiguity'
    BY <1>1 DEF DeliveryInv, NoParallelSend, DuplicateNeedsAmbiguity
  <1>5. \A w \in Workers : pc'[w] \in {"claimed", "sending"} => NoUnreportedAcceptance(job[w])'
    BY <1>1 DEF DeliveryInv, NoUnreportedAcceptance
  <1>6. ASSUME NEW j \in Jobs, RowStatus(j)' \in {"absent", "pending"},
               \A w \in Workers : pc'[w] = "accepted" => job'[w] # j
        PROVE  NoUnreportedAcceptance(j)'
    <2>1. RowQuiet(j)
      OBVIOUS
    <2>2. RowStatus(j) \in {"absent", "pending"}
      BY <1>6, <2>1, StatusSets DEF RowQuiet, RowKept, RowStatus
    <2> QED
      BY <2>2, <1>1, <1>6 DEF DeliveryInv, NoUnreportedAcceptance
  <1>7. ASSUME NEW j \in Jobs, accepted'[j] > 0, RowStatus(j)' \in FailureStatuses
        PROVE  j \in ambiguous' \/ PolicyDeleted(j[1])'
    <2>1. RowQuiet(j)
      OBVIOUS
    <2>2. CASE RowStatus(j) \in FailureStatuses
      BY <2>2, <1>1, <1>2, <1>7 DEF DeliveryInv, AcceptedNotRecordedFailed
    <2>3. CASE RowStatus(j) = "pending" /\ ~ClaimLive(j[1], j[2])
      <3>1. \A w \in Workers : pc[w] # "idle" => job[w] # j
        BY <2>3, BusyClaimLive
      <3>2. NoUnreportedAcceptance(j)
        BY <2>3, <3>1 DEF DeliveryInv
      <3> QED
        BY <3>2, <1>1, <1>7 DEF NoUnreportedAcceptance
    <2>4. CASE PolicyDeleted(j[1])'
      BY <2>4
    <2> QED
      BY <2>1, <2>2, <2>3, <2>4, <1>7, StatusSets DEF RowQuiet, RowKept, RowStatus
  <1> QED
    BY <1>1, <1>3, <1>4, <1>5, <1>6, <1>7 DEF DeliveryInv, AcceptedNotRecordedFailed

LEMMA StoredResultRow ==
    ASSUME TypeOK, NEW r \in Runs, NEW m \in Members, NEW s, StoreRecipientResult(r, m, s)
    PROVE  /\ status'[r][m] = s
           /\ \A j \in Jobs : j # <<r, m>> => RowKept(j)
           /\ deletedPolicies' = deletedPolicies
  <1>1. /\ status \in [Runs -> [Members -> RecipientStatuses]]
        /\ claim \in [Runs -> [Members -> Workers \cup {NoClaim}]]
        /\ lease \in [Runs -> [Members -> 0..LeaseTicks]]
    BY DEF TypeOK, StoreTypeOK
  <1>2. ASSUME NEW j \in Jobs, j # <<r, m>> PROVE RowKept(j)
    <2>1. j[1] \in Runs /\ j[2] \in Members /\ (j[1] # r \/ j[2] # m)
      BY <1>2 DEF Jobs
    <2> QED
      BY <1>1, <2>1 DEF StoreRecipientResult, RowKept
  <1> QED
    BY <1>1, <1>2 DEF StoreRecipientResult

LEMMA UnchangedIsQuiet ==
    ASSUME UNCHANGED <<status, claim, lease>>
    PROVE  \A j \in Jobs : RowQuiet(j)
  BY DEF RowQuiet, RowKept

LEMMA MaterializeIsQuiet ==
    ASSUME TypeOK, NEW r \in Runs, NEW E \in SUBSET Members, MaterializeCampaignDeliveryRun(r, E)
    PROVE  (\A j \in Jobs : RowQuiet(j)) /\ deletedPolicies' = deletedPolicies
  <1>1. status \in [Runs -> [Members -> RecipientStatuses]]
    BY DEF TypeOK, StoreTypeOK
  <1>2. ASSUME NEW j \in Jobs PROVE RowQuiet(j)
    <2>1. j[1] \in Runs /\ j[2] \in Members
      BY DEF Jobs
    <2>2. claim' = claim /\ lease' = lease
      BY DEF MaterializeCampaignDeliveryRun
    <2>3. CASE j[1] # r
      BY <1>1, <2>1, <2>2, <2>3 DEF MaterializeCampaignDeliveryRun, RowQuiet, RowKept
    <2>4. CASE j[1] = r
      <3>1. status'[j[1]][j[2]] = IF j[2] \in E /\ status[r][j[2]] = "absent"
                                  THEN "pending" ELSE status[r][j[2]]
        BY <1>1, <2>1, <2>4 DEF MaterializeCampaignDeliveryRun
      <3> QED
        BY <2>2, <2>4, <3>1 DEF RowQuiet, RowKept, RowStatus
    <2> QED
      BY <2>3, <2>4
  <1> QED
    BY <1>2 DEF MaterializeCampaignDeliveryRun

LEMMA UnclaimedIsQuiet ==
    ASSUME TypeOK, NEW r \in Runs, NEW m \in Members, NEW s \in FailureStatuses,
           MarkUnclaimedResult(r, m, s)
    PROVE  (\A j \in Jobs : RowQuiet(j)) /\ deletedPolicies' = deletedPolicies
  <1>1. /\ status'[r][m] = s
        /\ \A j \in Jobs : j # <<r, m>> => RowKept(j)
        /\ deletedPolicies' = deletedPolicies
    BY StoredResultRow DEF MarkUnclaimedResult
  <1> SUFFICES ASSUME NEW j \in Jobs PROVE RowQuiet(j)
    BY <1>1
  <1>2. CASE j = <<r, m>>
    BY <1>1, <1>2 DEF RowQuiet, RowStatus, MarkUnclaimedResult
  <1> QED
    BY <1>1, <1>2 DEF RowQuiet

LEMMA NotificationIsQuiet ==
    ASSUME TypeOK, NEW r \in Runs, NEW m \in Members,
           NEW o \in {"delivered", "bounced", "complained"}, ApplySESProviderOutcome(r, m, o)
    PROVE  (\A j \in Jobs : RowQuiet(j)) /\ deletedPolicies' = deletedPolicies
  <1>1. status \in [Runs -> [Members -> RecipientStatuses]]
    BY DEF TypeOK, StoreTypeOK
  <1>2. /\ status' = [status EXCEPT ![r] = [status[r] EXCEPT ![m] =
                         NextSESProviderRecipientStatus(status[r][m], o)]]
        /\ UNCHANGED <<claim, lease, deletedPolicies>>
        /\ status[r][m] \in ReachedProvider
    BY DEF ApplySESProviderOutcome
  <1>3. NextSESProviderRecipientStatus(status[r][m], o) \in ReachedProvider
    BY <1>2 DEF NextSESProviderRecipientStatus, ReachedProvider
  <1>4. ASSUME NEW j \in Jobs PROVE RowQuiet(j)
    <2>1. j[1] \in Runs /\ j[2] \in Members
      BY DEF Jobs
    <2>2. CASE j[1] = r /\ j[2] = m
      BY <1>1, <1>2, <1>3, <2>2 DEF RowQuiet, RowStatus
    <2>3. CASE j[1] # r \/ j[2] # m
      BY <1>1, <1>2, <2>1, <2>3 DEF RowQuiet, RowKept
    <2> QED
      BY <2>2, <2>3
  <1> QED
    BY <1>2, <1>4

LEMMA StopIsQuiet ==
    ASSUME TypeOK, NEW p \in Policies, StopRunsForDeletedPolicy(p)
    PROVE  (\A j \in Jobs : RowQuiet(j)) /\ deletedPolicies \subseteq deletedPolicies'
  <1>1. deletedPolicies' = deletedPolicies \cup {p}
    BY DEF StopRunsForDeletedPolicy
  <1>2. ASSUME NEW j \in Jobs PROVE RowQuiet(j)
    <2>1. j[1] \in Runs /\ j[2] \in Members
      BY DEF Jobs
    <2>2. CASE j[1] \in RunsOf(p) /\ RowStatus(j) = "pending"
      <3>1. status'[j[1]][j[2]] = "skipped"
        BY <2>1, <2>2 DEF StopRunsForDeletedPolicy, RowStatus
      <3>2. PolicyDeleted(j[1])'
        BY <1>1, <2>2 DEF PolicyDeleted, RunsOf
      <3> QED
        BY <2>2, <3>1, <3>2 DEF RowQuiet
    <2>3. CASE ~(j[1] \in RunsOf(p) /\ RowStatus(j) = "pending")
      BY <2>1, <2>3 DEF StopRunsForDeletedPolicy, RowQuiet, RowKept, RowStatus
    <2> QED
      BY <2>2, <2>3
  <1> QED
    BY <1>1, <1>2

LEMMA RequestIsQuiet ==
    ASSUME TypeOK, Request
    PROVE  (\A j \in Jobs : RowQuiet(j)) /\ deletedPolicies \subseteq deletedPolicies'
  <1>1. CASE CampaignLifecycle
    BY <1>1, UnchangedIsQuiet
    DEF CampaignLifecycle, CancelCampaign, ReleaseCriteriaForArchive, DeleteCampaign,
        ScheduleCampaign, recipientVars
  <1>2. ASSUME NEW r \in LegalRuns, SealLegalNotice(r)
        PROVE  UNCHANGED <<status, claim, lease, deletedPolicies>>
    BY <1>2 DEF SealLegalNotice, recipientVars
  <1>3. ASSUME NEW p \in Policies, CancelScheduledRuns(p) \/ CancelUpdateNoticeAfterActivation(p)
        PROVE  UNCHANGED <<status, claim, lease, deletedPolicies>>
    BY <1>3 DEF CancelScheduledRuns, CancelUpdateNoticeAfterActivation, recipientVars
  <1>4. CASE LegalLifecycle
    BY <1>2, <1>3, <1>4, StopIsQuiet, UnchangedIsQuiet DEF LegalLifecycle
  <1> QED
    BY <1>1, <1>4, NotificationIsQuiet DEF Request

\* What is left to show of a step of worker w on recipient j: the facts about
\* that worker and that recipient, in the next state.
LocalInv(w, j) ==
    /\ pc'[w] # "idle" =>
          /\ status'[j[1]][j[2]] # "absent"
          /\ status'[j[1]][j[2]] = "pending" =>
                /\ claim'[j[1]][j[2]] = w
                /\ lease'[j[1]][j[2]] >
                      budget'[w] + (IF pc'[w] = "accepted" THEN 0 ELSE PersistTicks)
          /\ status'[j[1]][j[2]] # "pending" => PolicyDeleted(j[1])
    /\ \/ pc'[w] \in {"claimed", "sending"}
       \/ status'[j[1]][j[2]] \in {"absent", "pending"} /\ pc'[w] # "accepted"
       => accepted'[j] = 0 \/ j \in ambiguous'
    /\ accepted'[j] = 2 => j \in ambiguous'
    /\ accepted'[j] > 0 /\ status'[j[1]][j[2]] \in FailureStatuses =>
          j \in ambiguous' \/ PolicyDeleted(j[1])

LEMMA WorkerKeepsInv ==
    ASSUME TypeOK, DeliveryInv, NEW w \in Workers, NEW j \in Jobs,
           pc[w] # "idle" => job[w] = j, pc'[w] # "idle" => job'[w] = j,
           \A v \in Workers \ {w} : /\ pc[v] # "idle" => job[v] # j
                                    /\ pc'[v] = pc[v] /\ job'[v] = job[v]
                                    /\ budget'[v] = budget[v],
           \A k \in Jobs : k # j => /\ RowKept(k)
                                    /\ accepted'[k] = accepted[k]
                                    /\ k \in ambiguous' <=> k \in ambiguous,
           deletedPolicies' = deletedPolicies,
           LocalInv(w, j)
    PROVE  DeliveryInv'
  <1>1. \A r : PolicyDeleted(r) <=> PolicyDeleted(r)'
    BY DEF PolicyDeleted
  <1>2. ASSUME NEW v \in Workers, pc'[v] # "idle" PROVE HoldsLease(v)'
    <2>1. CASE v = w
      BY <1>1, <1>2, <2>1 DEF LocalInv, HoldsLease, RowStatus
    <2>2. CASE v # w
      <3>1. pc[v] # "idle" /\ HoldsLease(v)
        BY <1>2, <2>2 DEF DeliveryInv
      <3>2. PICK k \in Jobs : k = job[v]
        BY <3>1, BusyJob
      <3>3. k # j /\ job'[v] = k /\ RowKept(k)
        BY <2>2, <3>1, <3>2
      <3> QED
        BY <1>1, <2>2, <3>1, <3>2, <3>3 DEF HoldsLease, RowStatus, RowKept
    <2> QED
      BY <2>1, <2>2
  <1>3. NoParallelSend'
    BY DEF DeliveryInv, NoParallelSend
  <1>4. ASSUME NEW v \in Workers, pc'[v] \in {"claimed", "sending"}
        PROVE  NoUnreportedAcceptance(job[v])'
    <2>1. CASE v = w
      BY <1>4, <2>1 DEF LocalInv, NoUnreportedAcceptance
    <2>2. CASE v # w
      <3>1. pc[v] \in {"claimed", "sending"} /\ NoUnreportedAcceptance(job[v])
        BY <1>4, <2>2 DEF DeliveryInv
      <3>2. PICK k \in Jobs : k = job[v]
        BY <3>1, BusyJob
      <3>3. k # j /\ job'[v] = k
        BY <2>2, <3>1, <3>2
      <3> QED
        BY <3>1, <3>2, <3>3 DEF NoUnreportedAcceptance
    <2> QED
      BY <2>1, <2>2
  <1>5. ASSUME NEW k \in Jobs, RowStatus(k)' \in {"absent", "pending"},
               \A v \in Workers : pc'[v] = "accepted" => job'[v] # k
        PROVE  NoUnreportedAcceptance(k)'
    <2>1. CASE k = j
      BY <1>5, <2>1 DEF LocalInv, NoUnreportedAcceptance, RowStatus
    <2>2. CASE k # j
      <3>1. RowStatus(k) \in {"absent", "pending"}
        BY <1>5, <2>2 DEF RowStatus, RowKept
      <3>2. \A v \in Workers : pc[v] = "accepted" => job[v] # k
        BY <1>5, <2>2
      <3> QED
        BY <2>2, <3>1, <3>2 DEF DeliveryInv, NoUnreportedAcceptance
    <2> QED
      BY <2>1, <2>2
  <1>6. DuplicateNeedsAmbiguity'
    BY DEF DeliveryInv, DuplicateNeedsAmbiguity, LocalInv
  <1>7. ASSUME NEW k \in Jobs, accepted'[k] > 0, RowStatus(k)' \in FailureStatuses
        PROVE  k \in ambiguous' \/ PolicyDeleted(k[1])'
    <2>1. CASE k = j
      BY <1>1, <1>7, <2>1 DEF LocalInv, RowStatus
    <2>2. CASE k # j
      BY <1>1, <1>7, <2>2 DEF DeliveryInv, AcceptedNotRecordedFailed, RowStatus, RowKept
    <2> QED
      BY <2>1, <2>2
  <1> QED
    BY <1>2, <1>3, <1>4, <1>5, <1>6, <1>7 DEF DeliveryInv, AcceptedNotRecordedFailed

LEMMA GotoMoves ==
    ASSUME TypeOK, NEW w \in Workers, NEW s, NEW k, NEW t, Goto(w, s, k, t)
    PROVE  /\ pc'[w] = s /\ job'[w] = k /\ budget'[w] = t
           /\ \A v \in Workers \ {w} : pc'[v] = pc[v] /\ job'[v] = job[v] /\ budget'[v] = budget[v]
  BY DEF Goto, TypeOK

LEMMA StatesMove ==
    ASSUME TypeOK, NEW w \in Workers, NEW s, pc' = [pc EXCEPT ![w] = s], UNCHANGED <<job, budget>>
    PROVE  /\ pc'[w] = s /\ job'[w] = job[w] /\ budget'[w] = budget[w]
           /\ \A v \in Workers \ {w} : pc'[v] = pc[v] /\ job'[v] = job[v] /\ budget'[v] = budget[v]
  BY DEF TypeOK

LEMMA AcceptCounts ==
    ASSUME TypeOK, NEW j \in Jobs, Accept(j)
    PROVE  /\ accepted'[j] = IF accepted[j] = 2 THEN 2 ELSE accepted[j] + 1
           /\ \A k \in Jobs : k # j => accepted'[k] = accepted[k]
  BY DEF Accept, TypeOK

\* What the invariant says of a busy worker and its recipient.
LEMMA BusyFacts ==
    ASSUME TypeOK, DeliveryInv, NEW w \in Workers, pc[w] # "idle", NEW j \in Jobs, job[w] = j
    PROVE  /\ status[j[1]][j[2]] # "absent"
           /\ status[j[1]][j[2]] = "pending" =>
                 /\ claim[j[1]][j[2]] = w
                 /\ lease[j[1]][j[2]] > budget[w] + (IF pc[w] = "accepted" THEN 0 ELSE PersistTicks)
                 /\ OwnsLiveClaim(w, j)
           /\ status[j[1]][j[2]] # "pending" => PolicyDeleted(j[1])
           /\ pc[w] \in {"claimed", "sending"} => accepted[j] = 0 \/ j \in ambiguous
           /\ accepted[j] = 2 => j \in ambiguous
           /\ accepted[j] \in 0..2
           /\ accepted[j] > 0 /\ status[j[1]][j[2]] \in FailureStatuses =>
                 j \in ambiguous \/ PolicyDeleted(j[1])
           /\ \A v \in Workers \ {w} : pc[v] # "idle" => job[v] # j
           /\ pc[w] \in {"claimed", "sending", "accepted"}
           /\ budget[w] \in Nat
           /\ lease[j[1]][j[2]] \in Nat
  <1>1. HoldsLease(w) /\ (pc[w] \in {"claimed", "sending"} => NoUnreportedAcceptance(j))
    BY DEF DeliveryInv
  <1>2. status[j[1]][j[2]] = "pending" => OwnsLiveClaim(w, j)
    BY BusyClaimLive DEF RowStatus
  <1>3. accepted[j] \in 0..2 /\ budget[w] \in Nat
    BY DEF TypeOK
  <1>4. \A v \in Workers \ {w} : pc[v] # "idle" => job[v] # j
    BY DEF DeliveryInv, NoParallelSend
  <1>5. accepted[j] > 0 /\ status[j[1]][j[2]] \in FailureStatuses =>
           j \in ambiguous \/ PolicyDeleted(j[1])
    BY DEF DeliveryInv, AcceptedNotRecordedFailed, RowStatus
  <1>6. accepted[j] = 2 => j \in ambiguous
    BY DEF DeliveryInv, DuplicateNeedsAmbiguity
  <1>7. lease[j[1]][j[2]] \in Nat
    BY BusyJob, LeaseAssumption DEF TypeOK, StoreTypeOK
  <1> QED
    BY <1>1, <1>2, <1>3, <1>4, <1>5, <1>6, <1>7, BusyStates
    DEF HoldsLease, NoUnreportedAcceptance, RowStatus

LEMMA ClaimKeepsInv ==
    ASSUME TypeOK, DeliveryInv, NEW w \in Workers, NEW j \in Jobs, ClaimDelivery(w, j)
    PROVE  DeliveryInv'
  <1>1. /\ pc'[w] = "claimed" /\ job'[w] = j /\ budget'[w] = ProcessingTicks
        /\ \A v \in Workers \ {w} : pc'[v] = pc[v] /\ job'[v] = job[v] /\ budget'[v] = budget[v]
    BY GotoMoves DEF ClaimDelivery
  <1>2. pc[w] = "idle" /\ status[j[1]][j[2]] = "pending" /\ ~ClaimLive(j[1], j[2])
    BY DEF ClaimDelivery, ClaimCampaignDeliveryRecipient
  <1>3. \A v \in Workers : pc[v] # "idle" => job[v] # j
    BY <1>2, BusyClaimLive DEF RowStatus
  <1>4. j[1] \in Runs /\ j[2] \in Members
    BY DEF Jobs
  <1>5. /\ status' = status
        /\ claim'[j[1]][j[2]] = w
        /\ lease'[j[1]][j[2]] = LeaseTicks
        /\ UNCHANGED <<accepted, ambiguous, deletedPolicies>>
    BY <1>4 DEF ClaimDelivery, ClaimCampaignDeliveryRecipient, TypeOK, StoreTypeOK, providerVars
  <1>6. ASSUME NEW k \in Jobs, k # j PROVE RowKept(k)
    <2>1. k[1] \in Runs /\ k[2] \in Members /\ (k[1] # j[1] \/ k[2] # j[2])
      BY <1>6, JobParts
    <2> QED
      BY <2>1 DEF ClaimDelivery, ClaimCampaignDeliveryRecipient, TypeOK, StoreTypeOK, RowKept
  <1>7. accepted[j] = 0 \/ j \in ambiguous
    BY <1>2, <1>3 DEF DeliveryInv, NoUnreportedAcceptance, RowStatus
  <1>8. accepted[j] = 2 => j \in ambiguous
    BY DEF DeliveryInv, DuplicateNeedsAmbiguity
  <1>9. LeaseTicks > ProcessingTicks + PersistTicks
    BY DeadlineAssumption, LeaseAssumption
  <1>10. LocalInv(w, j)
    BY <1>1, <1>2, <1>5, <1>7, <1>8, <1>9, StatusSets DEF LocalInv
  <1> QED
    BY <1>1, <1>2, <1>3, <1>5, <1>6, <1>10, WorkerKeepsInv

LEMMA FinishKeepsInv ==
    ASSUME TypeOK, DeliveryInv, NEW w \in Workers, NEW s \in FailureStatuses, Finish(w, s)
    PROVE  DeliveryInv'
  <1>1. pc[w] \in {"claimed", "sending"}
    BY DEF Finish
  <1>2. PICK j \in Jobs : j = job[w]
    BY <1>1, BusyJob
  <1>3. /\ pc'[w] = "idle"
        /\ \A v \in Workers \ {w} : pc'[v] = pc[v] /\ job'[v] = job[v] /\ budget'[v] = budget[v]
    BY GotoMoves DEF Finish, GoIdle
  <1>4. UNCHANGED <<accepted, ambiguous>>
    BY DEF Finish, providerVars
  <1>5. j[1] \in Runs /\ j[2] \in Members /\ j = <<j[1], j[2]>>
    BY DEF Jobs
  <1>6. CASE StoreRecipientResult(j[1], j[2], s)
    <2>1. /\ status'[j[1]][j[2]] = s
          /\ \A k \in Jobs : k # j => RowKept(k)
          /\ deletedPolicies' = deletedPolicies
      BY <1>5, <1>6, StoredResultRow
    <2>2. LocalInv(w, j)
      BY <1>1, <1>2, <1>3, <1>4, <2>1, BusyFacts, StatusSets DEF LocalInv
    <2> QED
      BY <1>1, <1>2, <1>3, <1>4, <2>1, <2>2, BusyFacts, WorkerKeepsInv
  <1>7. CASE RowStatus(j) # "pending" /\ UNCHANGED storeVars
    <2>1. UNCHANGED <<status, claim, lease, deletedPolicies>>
      BY <1>7 DEF storeVars, recipientVars
    <2>2. \A k \in Jobs : RowKept(k)
      BY <2>1 DEF RowKept
    <2>3. LocalInv(w, j)
      BY <1>1, <1>2, <1>3, <1>4, <2>1, BusyFacts DEF LocalInv
    <2> QED
      BY <1>1, <1>2, <1>3, <1>4, <2>1, <2>2, <2>3, BusyFacts, WorkerKeepsInv
  <1>8. ~(RowStatus(j) = "pending" /\ ~OwnsLiveClaim(w, j))
    BY <1>1, <1>2, BusyFacts DEF RowStatus
  <1> QED
    BY <1>2, <1>6, <1>7, <1>8 DEF Finish, MarkClaimedResult

LEMMA ReleaseKeepsInv ==
    ASSUME TypeOK, DeliveryInv, NEW w \in Workers, ReleaseAfterError(w)
    PROVE  DeliveryInv'
  <1>1. pc[w] = "claimed"
    BY DEF ReleaseAfterError
  <1>2. PICK j \in Jobs : j = job[w]
    BY <1>1, BusyJob
  <1>3. /\ pc'[w] = "idle"
        /\ \A v \in Workers \ {w} : pc'[v] = pc[v] /\ job'[v] = job[v] /\ budget'[v] = budget[v]
    BY GotoMoves DEF ReleaseAfterError, GoIdle
  <1>4. UNCHANGED <<status, accepted, ambiguous, deletedPolicies>>
    BY DEF ReleaseAfterError, ReleaseDeliveryClaim, ReleaseCampaignDeliveryRecipientClaim,
           providerVars, storeVars, recipientVars
  <1>5. ASSUME NEW k \in Jobs, k # j PROVE RowKept(k)
    <2>1. /\ k[1] \in Runs /\ k[2] \in Members /\ (k[1] # j[1] \/ k[2] # j[2])
          /\ j[1] \in Runs /\ j[2] \in Members
      BY <1>5, JobParts
    <2>2. CASE ReleaseCampaignDeliveryRecipientClaim(w, j[1], j[2])
      BY <2>1, <2>2 DEF ReleaseCampaignDeliveryRecipientClaim, TypeOK, StoreTypeOK, RowKept
    <2>3. CASE UNCHANGED storeVars
      BY <2>3 DEF storeVars, recipientVars, RowKept
    <2> QED
      BY <1>2, <2>2, <2>3 DEF ReleaseAfterError, ReleaseDeliveryClaim
  <1>6. LocalInv(w, j)
    BY <1>1, <1>2, <1>3, <1>4, BusyFacts DEF LocalInv
  <1> QED
    BY <1>1, <1>2, <1>3, <1>4, <1>5, <1>6, BusyFacts, WorkerKeepsInv

LEMMA PersistKeepsInv ==
    ASSUME TypeOK, DeliveryInv, NEW w \in Workers, PersistAcceptedResult(w)
    PROVE  DeliveryInv'
  <1>1. pc[w] = "accepted"
    BY DEF PersistAcceptedResult
  <1>2. PICK j \in Jobs : j = job[w]
    BY <1>1, BusyJob
  <1>3. /\ pc'[w] = "idle"
        /\ \A v \in Workers \ {w} : pc'[v] = pc[v] /\ job'[v] = job[v] /\ budget'[v] = budget[v]
    BY GotoMoves DEF PersistAcceptedResult, GoIdle
  <1>4. UNCHANGED accepted
    BY DEF PersistAcceptedResult
  <1>5. j[1] \in Runs /\ j[2] \in Members /\ j = <<j[1], j[2]>>
    BY DEF Jobs
  <1>6. CASE StoreRecipientResult(j[1], j[2], "sent") /\ UNCHANGED ambiguous
    <2>1. /\ status'[j[1]][j[2]] = "sent"
          /\ \A k \in Jobs : k # j => RowKept(k)
          /\ deletedPolicies' = deletedPolicies
      BY <1>5, <1>6, StoredResultRow
    <2>2. "sent" \notin FailureStatuses
      BY StatusAssumption
    <2>3. LocalInv(w, j)
      BY <1>1, <1>2, <1>3, <1>4, <1>6, <2>1, <2>2, BusyFacts DEF LocalInv
    <2> QED
      BY <1>1, <1>2, <1>3, <1>4, <1>6, <2>1, <2>3, BusyFacts, WorkerKeepsInv
  <1>7. CASE RowStatus(j) # "pending" /\ UNCHANGED <<storeVars, ambiguous>>
    <2>1. UNCHANGED <<status, claim, lease, deletedPolicies, ambiguous>>
      BY <1>7 DEF storeVars, recipientVars
    <2>2. \A k \in Jobs : RowKept(k)
      BY <2>1 DEF RowKept
    <2>3. LocalInv(w, j)
      BY <1>1, <1>2, <1>3, <1>4, <1>7, <2>1, BusyFacts DEF LocalInv, RowStatus
    <2> QED
      BY <1>1, <1>2, <1>3, <1>4, <2>1, <2>2, <2>3, BusyFacts, WorkerKeepsInv
  <1>8. ~(RowStatus(j) = "pending" /\ ~OwnsLiveClaim(w, j))
    BY <1>1, <1>2, BusyFacts DEF RowStatus
  <1> QED
    BY <1>2, <1>6, <1>7, <1>8 DEF PersistAcceptedResult, MarkClaimedResult

\* The steps in which a worker deals with a provider, gives up or dies leave
\* the store alone.
LEMMA ProviderStepKeepsInv ==
    ASSUME TypeOK, DeliveryInv, NEW w \in Workers,
           \/ SendThroughProvider(w) \/ ProviderAccepts(w) \/ ProviderRefuses(w)
           \/ ResponseLost(w) \/ PersistGivesUp(w) \/ WorkerCrash(w)
    PROVE  DeliveryInv'
  <1>1. pc[w] # "idle" /\ UNCHANGED storeVars
    BY DEF SendThroughProvider, ProviderAccepts, ProviderRefuses, ResponseLost, PersistGivesUp,
           WorkerCrash
  <1>2. PICK j \in Jobs : j = job[w]
    BY <1>1, BusyJob
  <1>3. UNCHANGED <<status, claim, lease, deletedPolicies>> /\ \A k \in Jobs : RowKept(k)
    BY <1>1 DEF storeVars, recipientVars, RowKept
  <1>4. PersistTicks \in Nat
    BY DeadlineAssumption
  <1> DEFINE
        Others == \A v \in Workers \ {w} : pc'[v] = pc[v] /\ job'[v] = job[v] /\ budget'[v] = budget[v]
        Elsewhere == \A k \in Jobs : k # j => /\ accepted'[k] = accepted[k]
                                              /\ k \in ambiguous' <=> k \in ambiguous
  <1>5. ASSUME Others, Elsewhere, pc'[w] # "idle" => job'[w] = j, LocalInv(w, j)
        PROVE  DeliveryInv'
    BY <1>1, <1>2, <1>3, <1>5, BusyFacts, WorkerKeepsInv
  <1>6. CASE SendThroughProvider(w) \/ ProviderRefuses(w)
    <2>1. /\ pc[w] \in {"claimed", "sending"} /\ pc'[w] \in {"claimed", "sending"}
          /\ job'[w] = j /\ budget'[w] = budget[w]
          /\ Others
      BY <1>2, <1>6, StatesMove DEF SendThroughProvider, ProviderRefuses
    <2>2. UNCHANGED <<accepted, ambiguous>>
      BY <1>6 DEF SendThroughProvider, ProviderRefuses, providerVars
    <2>3. LocalInv(w, j)
      BY <1>1, <1>2, <1>3, <2>1, <2>2, BusyFacts DEF LocalInv
    <2> QED
      BY <1>5, <2>1, <2>2, <2>3
  <1>7. CASE ProviderAccepts(w)
    <2>1. /\ pc[w] = "sending" /\ pc'[w] = "accepted"
          /\ job'[w] = j /\ budget'[w] = PersistTicks
          /\ Others
      BY <1>2, <1>7, GotoMoves DEF ProviderAccepts
    <2>2. /\ accepted'[j] = IF accepted[j] = 2 THEN 2 ELSE accepted[j] + 1
          /\ Elsewhere /\ UNCHANGED ambiguous
      BY <1>2, <1>7, AcceptCounts DEF ProviderAccepts
    <2>3. LocalInv(w, j)
      BY <1>1, <1>2, <1>3, <1>4, <2>1, <2>2, BusyFacts, StatusSets DEF LocalInv
    <2> QED
      BY <1>5, <2>1, <2>2, <2>3
  <1>8. CASE ResponseLost(w)
    <2>1. /\ pc[w] = "sending" /\ pc'[w] = "claimed"
          /\ job'[w] = j /\ budget'[w] = budget[w]
          /\ Others
      BY <1>2, <1>8, StatesMove DEF ResponseLost
    <2>2. Elsewhere /\ j \in ambiguous'
      BY <1>2, <1>8, AcceptCounts DEF ResponseLost
    <2>3. LocalInv(w, j)
      BY <1>1, <1>2, <1>3, <2>1, <2>2, BusyFacts DEF LocalInv
    <2> QED
      BY <1>5, <2>1, <2>2, <2>3
  <1>9. CASE PersistGivesUp(w)
    <2>1. pc'[w] = "idle" /\ Others
      BY <1>9, GotoMoves DEF PersistGivesUp, GoIdle
    <2>2. Elsewhere /\ j \in ambiguous'
      BY <1>2, <1>9 DEF PersistGivesUp
    <2>3. LocalInv(w, j)
      BY <2>1, <2>2 DEF LocalInv
    <2> QED
      BY <1>5, <2>1, <2>2, <2>3
  <1>10. CASE WorkerCrash(w)
    <2>1. pc'[w] = "idle" /\ Others
      BY <1>10, GotoMoves DEF WorkerCrash, GoIdle
    <2>2. Elsewhere
      BY <1>2, <1>10, AcceptCounts DEF WorkerCrash, providerVars
    <2>3. \/ j \in ambiguous'
          \/ pc[w] \in {"claimed", "sending"} /\ UNCHANGED <<accepted, ambiguous>>
      BY <1>2, <1>10 DEF WorkerCrash, providerVars
    <2>4. LocalInv(w, j)
      BY <1>1, <1>2, <1>3, <2>1, <2>3, BusyFacts DEF LocalInv
    <2> QED
      BY <1>5, <2>1, <2>2, <2>4
  <1> QED
    BY <1>6, <1>7, <1>8, <1>9, <1>10

\* Time takes as much from a lease as from its owner's deadline.
LEMMA TickKeepsInv ==
    ASSUME DeadlinesKept, TypeOK, DeliveryInv, Tick
    PROVE  DeliveryInv'
  <1>1. UNCHANGED <<status, claim, deletedPolicies, pc, job, accepted, ambiguous>>
    BY DEF Tick, providerVars
  <1>2. ASSUME NEW w \in Workers, pc[w] # "idle" PROVE HoldsLease(w)'
    <2>1. PICK j \in Jobs : j = job[w]
      BY <1>2, BusyJob
    <2>2. budget'[w] = budget[w] - 1 /\ budget[w] \in Nat /\ budget[w] > 0
      BY <1>2 DEF Tick, TypeOK
    <2>3. j[1] \in Runs /\ j[2] \in Members
      BY DEF Jobs
    <2>4. lease'[j[1]][j[2]] = IF lease[j[1]][j[2]] > 0 THEN lease[j[1]][j[2]] - 1 ELSE 0
      BY <2>3 DEF Tick, LeasesTick
    <2>5. PersistTicks \in Nat
      BY DeadlineAssumption
    <2>6. /\ status[j[1]][j[2]] # "absent"
          /\ status[j[1]][j[2]] = "pending" =>
                /\ claim[j[1]][j[2]] = w
                /\ lease[j[1]][j[2]] > budget[w] + (IF pc[w] = "accepted" THEN 0 ELSE PersistTicks)
          /\ status[j[1]][j[2]] # "pending" => PolicyDeleted(j[1])
          /\ lease[j[1]][j[2]] \in Nat
      BY <1>2, <2>1, BusyFacts
    <2>7. status[j[1]][j[2]] = "pending" =>
             lease'[j[1]][j[2]] > budget'[w] + (IF pc[w] = "accepted" THEN 0 ELSE PersistTicks)
      BY <2>2, <2>4, <2>5, <2>6
    <2> QED
      BY <1>1, <2>1, <2>6, <2>7 DEF HoldsLease, RowStatus, PolicyDeleted
  <1> QED
    BY <1>1, <1>2
    DEF DeliveryInv, NoParallelSend, DuplicateNeedsAmbiguity, AcceptedNotRecordedFailed,
        NoUnreportedAcceptance, RowStatus, PolicyDeleted

LEMMA DeliveryInvInit == Init => DeliveryInv
  <1> SUFFICES ASSUME Init PROVE DeliveryInv
    OBVIOUS
  <1>1. \A w \in Workers : pc[w] = "idle"
    BY DEF Init
  <1>2. \A j \in Jobs : accepted[j] = 0
    BY DEF Init
  <1> QED
    BY <1>1, <1>2
    DEF DeliveryInv, NoParallelSend, DuplicateNeedsAmbiguity, AcceptedNotRecordedFailed,
        NoUnreportedAcceptance

Quiet ==
    /\ UNCHANGED <<workerVars, providerVars>>
    /\ \A j \in Jobs : RowQuiet(j)
    /\ deletedPolicies \subseteq deletedPolicies'

\* A step is a worker's, or time passing, or quiet.
LEMMA StepKinds ==
    ASSUME TypeOK, [Next]_vars
    PROVE  Quiet \/ Tick \/ \E w \in Workers : WorkerProgress(w) \/ WorkerFault(w)
  <1> USE DEF Quiet
  <1>1. ASSUME UNCHANGED <<workerVars, providerVars>>, UNCHANGED <<recipientVars, deletedPolicies>>
        PROVE  Quiet
    BY <1>1, UnchangedIsQuiet DEF recipientVars
  <1>2. ASSUME UNCHANGED <<workerVars, providerVars>>, UNCHANGED storeVars PROVE Quiet
    BY <1>1, <1>2 DEF storeVars
  <1>3. ASSUME Request PROVE Quiet
    BY <1>3, RequestIsQuiet DEF Request, otherThanStore
  <1>4. ASSUME NEW r \in Runs, ScheduledTimeReached(r) PROVE Quiet
    BY <1>1, <1>4 DEF ScheduledTimeReached, TimeReaches, otherThanStore
  <1>5. ASSUME NEW r \in CampaignRuns, NEW E \in SUBSET Members, SendNow(r, E) PROVE Quiet
    BY <1>1, <1>5 DEF SendNow, SendCampaignNow, otherThanStore
  <1>6. ASSUME NEW r \in Runs, NEW E \in SUBSET Members, Dispatch(r, E) PROVE Quiet
    BY <1>1, <1>6 DEF Dispatch, DispatchEmailDeliveryRun, otherThanStore
  <1>7. ASSUME NEW j \in Jobs, DuplicateSuppressed(j) \/ CommandDeadLettered(j) PROVE Quiet
    BY <1>2, <1>7 DEF DuplicateSuppressed, CommandDeadLettered
  <1>8. ASSUME NEW r \in Runs, NEW E \in SUBSET Members, ResumeMaterialize(r, E) PROVE Quiet
    BY <1>8, MaterializeIsQuiet DEF ResumeMaterialize, otherThanStore
  <1>9. ASSUME ResumePublish \/ ResumeFails PROVE Quiet
    BY <1>2, <1>9 DEF ResumePublish, ResumeFails, otherThanStore
  <1>10. ASSUME UNCHANGED vars PROVE Quiet
    BY <1>2, <1>10 DEF vars
  <1>11. ASSUME NEW b \in BulkWorkers, BulkProgress(b) \/ BulkFails(b) PROVE Quiet
    <2>1. ASSUME NEW r \in Runs, NEW E \in SUBSET Members, BulkMaterialize(b, r, E) PROVE Quiet
      BY <1>2, <2>1, MaterializeIsQuiet DEF BulkMaterialize
    <2>2. ASSUME NEW m \in Members, NEW s \in FailureStatuses, BulkFinish(b, m, s) PROVE Quiet
      <3>1. bulkRun[b] \in Runs /\ UNCHANGED <<workerVars, providerVars>>
        BY <2>2, BulkJob DEF BulkFinish
      <3>2. CASE MarkUnclaimedResult(bulkRun[b], m, s)
        BY <3>1, <3>2, UnclaimedIsQuiet
      <3> QED
        BY <1>2, <2>2, <3>1, <3>2 DEF BulkFinish
    <2>3. ASSUME NEW m \in Members, BulkPublish(b, m) PROVE Quiet
      BY <1>2, <2>3 DEF BulkPublish
    <2>4. ASSUME BulkListPending(b) \/ BulkDone(b) \/ BulkFails(b) PROVE Quiet
      BY <1>2, <2>4 DEF BulkListPending, BulkDone, BulkFails
    <2> QED
      BY <1>11, <2>1, <2>2, <2>3, <2>4 DEF BulkProgress
  <1> HIDE DEF Quiet
  <1> QED
    BY <1>3, <1>4, <1>5, <1>6, <1>7, <1>8, <1>9, <1>10, <1>11 DEF Next, Resume

LEMMA DeliveryInvStep ==
    ASSUME DeadlinesKept, TypeOK, DeliveryInv, [Next]_vars
    PROVE  DeliveryInv'
  <1>1. ASSUME Quiet PROVE DeliveryInv'
    BY <1>1, QuietKeepsInv DEF Quiet
  <1>2. ASSUME NEW w \in Workers, WorkerProgress(w) \/ WorkerFault(w) PROVE DeliveryInv'
    BY <1>2, ClaimKeepsInv, FinishKeepsInv, ReleaseKeepsInv, PersistKeepsInv,
       ProviderStepKeepsInv DEF WorkerProgress, WorkerFault
  <1> QED
    BY <1>1, <1>2, StepKinds, TickKeepsInv

\* While deadlines are kept, a busy worker's lease outlasts it and every
\* acceptance is recorded, about to be recorded, or known to be ambiguous.
THEOREM DeliveryInvariant == ASSUME DeadlinesKept PROVE Spec => []DeliveryInv
  BY DeliveryInvInit, DeliveryInvStep, DeliveryTypeCorrect, PTL DEF Spec

\* While deadlines are kept, no two workers ever deliver to the same recipient
\* at the same time, however many workers, faults and redeliveries there are.
THEOREM OneWorkerPerRecipient == ASSUME DeadlinesKept PROVE Spec => []NoParallelSend
  <1>1. DeliveryInv => NoParallelSend
    BY DEF DeliveryInv
  <1> QED
    BY <1>1, DeliveryInvariant, PTL

\* While deadlines are kept, a second acceptance needs an ambiguous first one.
THEOREM DuplicatesAreAmbiguous == ASSUME DeadlinesKept PROVE Spec => []DuplicateNeedsAmbiguity
  <1>1. DeliveryInv => DuplicateNeedsAmbiguity
    BY DEF DeliveryInv
  <1> QED
    BY <1>1, DeliveryInvariant, PTL

\* While deadlines are kept, an accepted email is recorded as failed only if
\* its acceptance was lost or its policy deleted.
THEOREM FailuresAreReal == ASSUME DeadlinesKept PROVE Spec => []AcceptedNotRecordedFailed
  <1>1. DeliveryInv => AcceptedNotRecordedFailed
    BY DEF DeliveryInv
  <1> QED
    BY <1>1, DeliveryInvariant, PTL

-----------------------------------------------------------------------------
(* What was recorded as sent was accepted, with or without deadlines.        *)

SentInv ==
    /\ SentWasAccepted
    /\ \A w \in Workers : pc[w] = "accepted" => accepted[job[w]] > 0

\* A step of worker w on recipient j that leaves other recipients' rows alone
\* and takes no acceptance back.
LEMMA WorkerKeepsSent ==
    ASSUME TypeOK, SentInv, NEW w \in Workers, NEW j \in Jobs,
           pc'[w] = "accepted" => job'[w] = j /\ accepted'[j] > 0,
           \A v \in Workers \ {w} : pc'[v] = pc[v] /\ job'[v] = job[v],
           \A k \in Jobs : k # j => status'[k[1]][k[2]] = status[k[1]][k[2]],
           \A k \in Jobs : accepted[k] > 0 => accepted'[k] > 0,
           status'[j[1]][j[2]] \in ReachedProvider => accepted'[j] > 0
    PROVE  SentInv'
  <1>1. SentWasAccepted'
    BY DEF SentInv, SentWasAccepted, RowStatus
  <1>2. ASSUME NEW v \in Workers, pc'[v] = "accepted" PROVE accepted'[job'[v]] > 0
    <2>1. CASE v = w
      BY <1>2, <2>1
    <2>2. CASE v # w
      <3>1. pc[v] = "accepted" /\ job'[v] = job[v] /\ job[v] \in Jobs
        BY <1>2, <2>2, BusyJob
      <3> QED
        BY <3>1 DEF SentInv
    <2> QED
      BY <2>1, <2>2
  <1> QED
    BY <1>1, <1>2 DEF SentInv

LEMMA SentStep ==
    ASSUME TypeOK, SentInv, [Next]_vars
    PROVE  SentInv'
  <1>1. CASE Quiet
    <2>1. UNCHANGED <<pc, job, accepted>>
      BY <1>1 DEF Quiet, workerVars, providerVars
    <2>2. \A j \in Jobs : RowStatus(j)' \in ReachedProvider => RowStatus(j) \in ReachedProvider
      BY <1>1, StatusSets, StatusAssumption DEF Quiet, RowQuiet, RowKept, RowStatus, ReachedProvider
    <2> QED
      BY <2>1, <2>2 DEF SentInv, SentWasAccepted
  <1>2. CASE Tick
    BY <1>2 DEF Tick, providerVars, SentInv, SentWasAccepted, RowStatus
  <1>3. ASSUME NEW w \in Workers, NEW j \in Jobs, ClaimDelivery(w, j) PROVE SentInv'
    <2>1. pc'[w] = "claimed" /\ \A v \in Workers \ {w} : pc'[v] = pc[v] /\ job'[v] = job[v]
      BY <1>3, GotoMoves DEF ClaimDelivery
    <2>2. UNCHANGED <<status, accepted>>
      BY <1>3 DEF ClaimDelivery, ClaimCampaignDeliveryRecipient, providerVars
    <2> QED
      BY <2>1, <2>2, WorkerKeepsSent DEF SentInv, SentWasAccepted, RowStatus
  <1>4. ASSUME NEW w \in Workers, NEW s \in FailureStatuses, Finish(w, s) PROVE SentInv'
    <2>1. PICK j \in Jobs : j = job[w]
      BY <1>4, BusyJob DEF Finish
    <2>2. pc'[w] = "idle" /\ \A v \in Workers \ {w} : pc'[v] = pc[v] /\ job'[v] = job[v]
      BY <1>4, GotoMoves DEF Finish, GoIdle
    <2>3. UNCHANGED accepted
      BY <1>4 DEF Finish, providerVars
    <2>4. j[1] \in Runs /\ j[2] \in Members /\ j = <<j[1], j[2]>>
      BY DEF Jobs
    <2>5. CASE StoreRecipientResult(j[1], j[2], s)
      BY <2>2, <2>3, <2>4, <2>5, StoredResultRow, StatusSets, WorkerKeepsSent DEF RowKept
    <2>6. CASE UNCHANGED status
      BY <2>2, <2>3, <2>6, WorkerKeepsSent DEF SentInv, SentWasAccepted, RowStatus
    <2> QED
      BY <1>4, <2>1, <2>5, <2>6
      DEF Finish, MarkClaimedResult, ReleaseDeliveryClaim, ReleaseCampaignDeliveryRecipientClaim,
          storeVars, recipientVars
  <1>5. ASSUME NEW w \in Workers, PersistAcceptedResult(w) PROVE SentInv'
    <2>1. PICK j \in Jobs : j = job[w]
      BY <1>5, BusyJob DEF PersistAcceptedResult
    <2>2. pc'[w] = "idle" /\ \A v \in Workers \ {w} : pc'[v] = pc[v] /\ job'[v] = job[v]
      BY <1>5, GotoMoves DEF PersistAcceptedResult, GoIdle
    <2>3. UNCHANGED accepted /\ accepted[j] > 0
      BY <1>5, <2>1 DEF PersistAcceptedResult, SentInv
    <2>4. j[1] \in Runs /\ j[2] \in Members /\ j = <<j[1], j[2]>>
      BY DEF Jobs
    <2>5. CASE StoreRecipientResult(j[1], j[2], "sent")
      BY <2>2, <2>3, <2>4, <2>5, StoredResultRow, WorkerKeepsSent DEF RowKept
    <2>6. CASE UNCHANGED status
      BY <2>2, <2>3, <2>6, WorkerKeepsSent DEF SentInv, SentWasAccepted, RowStatus
    <2> QED
      BY <1>5, <2>1, <2>5, <2>6
      DEF PersistAcceptedResult, MarkClaimedResult, storeVars, recipientVars
  <1>6. ASSUME NEW w \in Workers, ReleaseAfterError(w) \/ PersistGivesUp(w) \/ WorkerCrash(w)
        PROVE  SentInv'
    <2>1. PICK j \in Jobs : j = job[w]
      BY <1>6, BusyJob DEF ReleaseAfterError, PersistGivesUp, WorkerCrash
    <2>2. pc'[w] = "idle" /\ \A v \in Workers \ {w} : pc'[v] = pc[v] /\ job'[v] = job[v]
      BY <1>6, GotoMoves DEF ReleaseAfterError, PersistGivesUp, WorkerCrash, GoIdle
    <2>3. UNCHANGED status
      BY <1>6 DEF ReleaseAfterError, PersistGivesUp, WorkerCrash, ReleaseDeliveryClaim,
                  ReleaseCampaignDeliveryRecipientClaim, storeVars, recipientVars
    <2>4. accepted \in [Jobs -> 0..2]
      BY DEF TypeOK
    <2>5. \A k \in Jobs : accepted[k] > 0 => accepted'[k] > 0
      BY <1>6, <2>1, <2>4, AcceptCounts
      DEF ReleaseAfterError, PersistGivesUp, WorkerCrash, providerVars
    <2> QED
      BY <2>2, <2>3, <2>5, WorkerKeepsSent DEF SentInv, SentWasAccepted, RowStatus
  <1>7. ASSUME NEW w \in Workers, \/ SendThroughProvider(w) \/ ProviderRefuses(w)
                                  \/ ResponseLost(w) \/ ProviderAccepts(w)
        PROVE  SentInv'
    <2>1. PICK j \in Jobs : j = job[w]
      BY <1>7, BusyJob DEF SendThroughProvider, ProviderRefuses, ResponseLost, ProviderAccepts
    <2>2. /\ pc'[w] = "accepted" => ProviderAccepts(w)
          /\ job'[w] = job[w]
          /\ \A v \in Workers \ {w} : pc'[v] = pc[v] /\ job'[v] = job[v]
      BY <1>7, GotoMoves, StatesMove
      DEF SendThroughProvider, ProviderRefuses, ResponseLost, ProviderAccepts
    <2>3. UNCHANGED status
      BY <1>7 DEF SendThroughProvider, ProviderRefuses, ResponseLost, ProviderAccepts, storeVars,
                  recipientVars
    <2>4. accepted \in [Jobs -> 0..2]
      BY DEF TypeOK
    <2>5. \A k \in Jobs : accepted[k] > 0 => accepted'[k] > 0
      BY <1>7, <2>1, <2>4, AcceptCounts
      DEF SendThroughProvider, ProviderRefuses, ResponseLost, ProviderAccepts, providerVars
    <2>6. ProviderAccepts(w) => accepted'[j] > 0
      BY <2>1, <2>4, AcceptCounts DEF ProviderAccepts
    <2> QED
      BY <2>1, <2>2, <2>3, <2>5, <2>6, WorkerKeepsSent DEF SentInv, SentWasAccepted, RowStatus
  <1> QED
    BY <1>1, <1>2, <1>3, <1>4, <1>5, <1>6, <1>7, StepKinds DEF WorkerProgress, WorkerFault

\* An email recorded as sent was accepted by a provider, although workers may
\* stall beyond their deadlines, crash, and lose their claims.
THEOREM SentMeansAccepted == Spec => []SentWasAccepted
  <1>1. Init => SentInv
    BY StatusSets DEF Init, StoreInit, SentInv, SentWasAccepted, RowStatus, Jobs
  <1>2. SentInv => SentWasAccepted
    BY DEF SentInv
  <1> QED
    BY <1>1, <1>2, SentStep, DeliveryTypeCorrect, PTL DEF Spec

-----------------------------------------------------------------------------
(* What a run reports.                                                       *)

LEMMA AcceptedIsRecorded ==
    ASSUME DeliveryInv, PendingOnlyWhileSending, NEW r \in Runs, NEW m \in Members,
           runStatus[r] \in CompletedStatuses, accepted[<<r, m>>] > 0,
           <<r, m>> \notin ambiguous, ~PolicyDeleted(r), TypeOK
    PROVE  status[r][m] \in ReachedProvider
  <1> DEFINE j == <<r, m>>
  <1>1. j \in Jobs /\ RowStatus(j) = status[r][m] /\ status[r][m] \in RecipientStatuses
    BY DEF Jobs, RowStatus, TypeOK, StoreTypeOK
  <1>2. accepted[j] # 0
    BY <1>1
  <1>3. status[r][m] # "pending"
    BY DEF PendingOnlyWhileSending, With
  <1>4. status[r][m] \notin FailureStatuses
    BY <1>1 DEF DeliveryInv, AcceptedNotRecordedFailed
  <1>5. status[r][m] # "absent"
    <2>1. SUFFICES ASSUME status[r][m] = "absent" PROVE FALSE
      OBVIOUS
    <2>2. \A w \in Workers : pc[w] = "accepted" => job[w] # j
      BY <1>1, <2>1 DEF DeliveryInv, HoldsLease
    <2> QED
      BY <1>1, <1>2, <2>1, <2>2 DEF DeliveryInv, NoUnreportedAcceptance
  <1> QED
    BY <1>1, <1>3, <1>4, <1>5 DEF RecipientStatuses, TerminalStatuses, ReachedProvider

\* While deadlines are kept, a completed run's status and its recipients'
\* results are what the providers did: this joins what the leases guarantee
\* of one recipient with what the store guarantees of a run.
THEOREM ReportsAreTrue == ASSUME DeadlinesKept PROVE Spec => []RunReportIsTrue
  <1>1. /\ TypeOK /\ DeliveryInv /\ SentWasAccepted
        /\ PendingOnlyWhileSending /\ ResultMatchesRecipients
        => RunReportIsTrue
    <2> SUFFICES ASSUME TypeOK, DeliveryInv, SentWasAccepted, PendingOnlyWhileSending,
                        ResultMatchesRecipients, NEW r \in Runs
                 PROVE  /\ runStatus[r] = "sent" => \E m \in Members : accepted[<<r, m>>] > 0
                        /\ \A m \in Members :
                              /\ runStatus[r] \in CompletedStatuses
                              /\ accepted[<<r, m>>] > 0
                              /\ <<r, m>> \notin ambiguous
                              /\ ~PolicyDeleted(r)
                              => /\ status[r][m] \in ReachedProvider
                                 /\ runStatus[r] \in {"failed", "skipped"} =>
                                       status[r][m] \in {"bounced", "complained"}
      BY DEF RunReportIsTrue
    <2>1. ASSUME runStatus[r] = "sent"
          PROVE  \E m \in Members : accepted[<<r, m>>] > 0
      <3>1. PICK m \in Members : status[r][m] \in ReachedProvider
        BY <2>1 DEF ResultMatchesRecipients, With
      <3> QED
        BY <3>1 DEF SentWasAccepted, RowStatus, Jobs
    <2>2. ASSUME NEW m \in Members, runStatus[r] \in CompletedStatuses,
                 accepted[<<r, m>>] > 0, <<r, m>> \notin ambiguous, ~PolicyDeleted(r)
          PROVE  /\ status[r][m] \in ReachedProvider
                 /\ runStatus[r] \in {"failed", "skipped"} =>
                       status[r][m] \in {"bounced", "complained"}
      <3>1. status[r][m] \in ReachedProvider
        BY <2>2, AcceptedIsRecorded
      <3>2. ASSUME runStatus[r] \in {"failed", "skipped"}
            PROVE  status[r][m] \in {"bounced", "complained"}
        BY <3>1, <3>2 DEF ResultMatchesRecipients, Accepted, With, ReachedProvider
      <3> QED
        BY <3>1, <3>2
    <2> QED
      BY <2>1, <2>2
  <1>2. Spec => [](PendingOnlyWhileSending /\ ResultMatchesRecipients)
    BY DeliveryImplementsStore, RunsCompleteOnTime, RunResultsJustified, PTL
  <1> QED
    BY <1>1, <1>2, DeliveryTypeCorrect, DeliveryInvariant, SentMeansAccepted, PTL

-----------------------------------------------------------------------------
(* A live claim, without any deadline.                                       *)

\* A result or a release by worker v does not touch a claim that is not v's.
LEMMA OwnClaimOnly ==
    ASSUME TypeOK, NEW v \in Workers, NEW k \in Jobs, NEW j \in Jobs,
           claim[j[1]][j[2]] # v,
           \/ \E s \in {"sent"} \cup FailureStatuses :
                 MarkClaimedResult(v, k[1], k[2], s)
           \/ ReleaseDeliveryClaim(v, k)
    PROVE  claim'[j[1]][j[2]] = claim[j[1]][j[2]]
  <1>1. claim \in [Runs -> [Members -> Workers \cup {NoClaim}]]
    BY DEF TypeOK, StoreTypeOK
  <1>2. ASSUME NEW s, MarkClaimedResult(v, k[1], k[2], s)
        PROVE  claim'[j[1]][j[2]] = claim[j[1]][j[2]]
    <2>1. k = <<k[1], k[2]>> /\ k[1] \in Runs /\ k[2] \in Members
      BY JobParts
    <2>2. j # k
      BY <1>2 DEF MarkClaimedResult
    <2> QED
      BY <1>2, <2>1, <2>2, StoredResultRow DEF MarkClaimedResult, RowKept
  <1>3. CASE ReleaseCampaignDeliveryRecipientClaim(v, k[1], k[2])
    BY <1>1, <1>3, JobParts DEF ReleaseCampaignDeliveryRecipientClaim
  <1>4. CASE UNCHANGED storeVars
    BY <1>4 DEF storeVars, recipientVars
  <1> QED
    BY <1>2, <1>3, <1>4 DEF ReleaseDeliveryClaim

\* What a step of worker v leaves of the live claim of worker w.
LEMMA WorkerRespectsClaim ==
    ASSUME TypeOK, NEW v \in Workers, WorkerProgress(v) \/ WorkerFault(v),
           NEW w \in Workers, pc[w] # "idle", OwnsLiveClaim(w, job[w])
    PROVE  claim'[job[w][1]][job[w][2]] = w \/ pc'[w] = "idle"
  <1>1. PICK j \in Jobs : j = job[w]
    BY BusyJob
  <1>2. claim[j[1]][j[2]] = w /\ w # NoClaim /\ ClaimLive(j[1], j[2])
    BY <1>1, ClaimAssumption DEF OwnsLiveClaim, ClaimLive
  <1>3. ASSUME NEW k \in Jobs, ClaimDelivery(v, k) PROVE claim'[j[1]][j[2]] = w
    <2>1. ~ClaimLive(k[1], k[2]) /\ claim' = [claim EXCEPT ![k[1]][k[2]] = v]
      BY <1>3 DEF ClaimDelivery, ClaimCampaignDeliveryRecipient
    <2>2. j[1] # k[1] \/ j[2] # k[2]
      BY <1>2, <2>1
    <2>3. claim \in [Runs -> [Members -> Workers \cup {NoClaim}]]
      BY DEF TypeOK, StoreTypeOK
    <2> QED
      BY <1>2, <2>1, <2>2, <2>3, JobParts
  <1>4. CASE v = w /\ (\/ \E s \in FailureStatuses : Finish(v, s)
                       \/ ReleaseAfterError(v) \/ PersistAcceptedResult(v))
    BY <1>4, GotoMoves DEF Finish, ReleaseAfterError, PersistAcceptedResult, GoIdle
  <1>5. CASE v # w /\ (\/ \E s \in FailureStatuses : Finish(v, s)
                       \/ ReleaseAfterError(v) \/ PersistAcceptedResult(v))
    <2>1. PICK k \in Jobs : k = job[v]
      BY <1>5, BusyJob DEF Finish, ReleaseAfterError, PersistAcceptedResult
    <2>2. claim[j[1]][j[2]] # v
      BY <1>2, <1>5
    <2>3. CASE UNCHANGED storeVars
      BY <1>1, <1>2, <2>3 DEF storeVars, recipientVars
    <2>4. CASE ReleaseDeliveryClaim(v, k)
      BY <1>1, <1>2, <2>2, <2>4, OwnClaimOnly
    <2>5. ASSUME NEW s \in {"sent"} \cup FailureStatuses,
                 MarkClaimedResult(v, k[1], k[2], s)
          PROVE  claim'[job[w][1]][job[w][2]] = w
      BY <1>1, <1>2, <2>2, <2>5, OwnClaimOnly
    <2>6. ASSUME NEW s \in FailureStatuses, Finish(v, s)
          PROVE  claim'[job[w][1]][job[w][2]] = w \/ pc'[w] = "idle"
      BY <2>1, <2>3, <2>4, <2>5, <2>6 DEF Finish
    <2>7. CASE ReleaseAfterError(v)
      BY <2>1, <2>4, <2>7 DEF ReleaseAfterError
    <2>8. CASE PersistAcceptedResult(v)
      BY <2>1, <2>3, <2>5, <2>8 DEF PersistAcceptedResult
    <2> QED
      BY <1>5, <2>6, <2>7, <2>8
  <1>6. CASE SendThroughProvider(v) \/ ProviderAccepts(v) \/ WorkerFault(v)
    <2>1. UNCHANGED storeVars
      BY <1>6 DEF SendThroughProvider, ProviderAccepts, WorkerFault, ProviderRefuses,
                  ResponseLost, PersistGivesUp, WorkerCrash
    <2> QED
      BY <1>1, <1>2, <2>1 DEF storeVars, recipientVars
  <1> QED
    BY <1>1, <1>3, <1>4, <1>5, <1>6 DEF WorkerProgress

LEMMA ClaimStep ==
    ASSUME TypeOK, [Next]_vars, NEW w \in Workers,
           pc[w] # "idle", OwnsLiveClaim(w, job[w])
    PROVE  \/ claim'[job[w][1]][job[w][2]] = w
           \/ pc'[w] = "idle"
           \/ PolicyDeleted(job[w][1])'
  <1>1. PICK j \in Jobs : j = job[w]
    BY BusyJob
  <1>2. claim[j[1]][j[2]] = w /\ ClaimLive(j[1], j[2])
    BY <1>1, ClaimAssumption DEF OwnsLiveClaim, ClaimLive
  <1>3. CASE Quiet
    <2>1. RowQuiet(j)
      BY <1>3 DEF Quiet
    <2>2. claim'[j[1]][j[2]] = w \/ PolicyDeleted(j[1])'
      BY <1>2, <2>1 DEF RowQuiet, RowKept
    <2> QED
      BY <1>1, <1>3, <2>2 DEF Quiet, workerVars, PolicyDeleted
  <1>4. CASE Tick
    BY <1>1, <1>2, <1>4 DEF Tick
  <1> QED
    BY <1>3, <1>4, StepKinds, WorkerRespectsClaim

\* A live claim ends only by a step of the worker that holds it or with the
\* policy, although workers may stall for ever between two steps: what another
\* worker, a bulk job or the resume job decided earlier never overrides it.
THEOREM LiveClaimTheorem == Spec => LiveClaimIsItsOwners
  <1>1. TypeOK /\ [Next]_vars =>
           [\A w \in Workers :
               pc[w] # "idle" /\ OwnsLiveClaim(w, job[w]) =>
                   \/ claim'[job[w][1]][job[w][2]] = w
                   \/ pc'[w] = "idle"
                   \/ PolicyDeleted(job[w][1])']_vars
    BY ClaimStep
  <1> QED
    BY <1>1, DeliveryTypeCorrect, PTL DEF Spec, LiveClaimIsItsOwners

=============================================================================
