-------------------------- MODULE CampaignDelivery --------------------------
(***************************************************************************)
(* The processes that deliver a run: the email.send workers, the           *)
(* email.campaign (bulk) workers and the scheduler job that dispatches due *)
(* runs and resumes active ones, over the transactions of CampaignStore.   *)
(* Each step of a process is one transaction, one queue operation or one   *)
(* exchange with a mail provider; between two steps anything may happen.   *)
(*                                                                         *)
(* The queues are PGMQ tables.  A message can be delivered again at any    *)
(* moment until its handler's completion deletes it (its visibility window *)
(* may pass, its worker may die, its deletion may fail), so a queue is the *)
(* set of commands that can still be delivered.                            *)
(***************************************************************************)
EXTENDS CampaignStore

CONSTANTS
    BulkWorkers,     \* email.campaign workers
    ProcessingTicks, \* deliveryProcessingTimeout
    PersistTicks,    \* deliveryAcceptedPersistBudget
    DeadlinesKept,   \* TRUE: no process outlives its context's deadline
    MaxFaults,       \* bound on crashes, lost answers and failed calls
    NoJob,
    NoRun

ASSUME DeadlineAssumption ==
    /\ ProcessingTicks \in Nat \ {0}
    /\ PersistTicks \in Nat \ {0}
    /\ ProcessingTicks + PersistTicks < LeaseTicks
    /\ DeadlinesKept \in BOOLEAN
    /\ MaxFaults \in Nat
ASSUME NoneAssumption == NoJob \notin Runs \X Members /\ NoRun \notin Runs

VARIABLES
    mailQueue,  \* recipients with an email.send command
    bulkQueue,  \* runs with an email.campaign command
    pc,         \* where each email.send worker is in Deliver
    job,        \* the recipient it has claimed
    budget,     \* what is left before its current context expires
    bulkPc,     \* where each email.campaign worker is in BulkApplication.Run
    bulkRun,    \* its run
    bulkTodo,   \* the listed recipients it has not dispatched yet
    resuming,   \* the run that the resume job has re-materialized
    accepted,   \* how often a provider accepted an email (0, 1, 2 or more)
    ambiguous,  \* recipients whose acceptance was never reported durably
    faults      \* faults so far

workerVars == <<pc, job, budget>>
bulkVars == <<bulkPc, bulkRun, bulkTodo>>
providerVars == <<accepted, ambiguous>>
vars == <<storeVars, mailQueue, bulkQueue, workerVars, bulkVars, resuming,
          providerVars, faults>>

Jobs == Runs \X Members
Busy == {"claimed", "sending", "accepted"}

RowStatus(j) == status[j[1]][j[2]]
OwnsLiveClaim(w, j) == claim[j[1]][j[2]] = w /\ lease[j[1]][j[2]] > 0

Init ==
    /\ StoreInit
    /\ mailQueue = {}
    /\ bulkQueue = {}
    /\ pc = [w \in Workers |-> "idle"]
    /\ job = [w \in Workers |-> NoJob]
    /\ budget = [w \in Workers |-> 0]
    /\ bulkPc = [b \in BulkWorkers |-> "idle"]
    /\ bulkRun = [b \in BulkWorkers |-> NoRun]
    /\ bulkTodo = [b \in BulkWorkers |-> {}]
    /\ resuming = NoRun
    /\ accepted = [j \in Jobs |-> 0]
    /\ ambiguous = {}
    /\ faults = 0

Fault == faults < MaxFaults /\ faults' = faults + 1
NoFault == UNCHANGED faults

-----------------------------------------------------------------------------
(* The email.send worker: DeliveryApplication.Deliver.                      *)

Goto(w, state, j, ticks) ==
    /\ pc' = [pc EXCEPT ![w] = state]
    /\ job' = [job EXCEPT ![w] = j]
    /\ budget' = [budget EXCEPT ![w] = ticks]

GoIdle(w) == Goto(w, "idle", NoJob, 0)

\* The handler returned nil or a terminal error: the command is deleted, unless
\* the deletion fails or another command for the recipient is in the queue.
Complete(j) == mailQueue' \in {mailQueue \ {j}, mailQueue}

\* The deadline of the processing context starts before the claim's lease.
ClaimDelivery(w, j) ==
    /\ pc[w] = "idle"
    /\ j \in mailQueue
    /\ ClaimCampaignDeliveryRecipient(w, j[1], j[2])
    /\ Goto(w, "claimed", j, ProcessingTicks)
    /\ UNCHANGED <<mailQueue, bulkQueue, bulkVars, resuming, providerVars>>
    /\ NoFault

\* A recipient that is terminal or claimed by somebody: the command is done.
DuplicateSuppressed(j) ==
    /\ j \in mailQueue
    /\ RowStatus(j) # "pending" \/ ClaimLive(j[1], j[2])
    /\ Complete(j)
    /\ UNCHANGED <<storeVars, bulkQueue, workerVars, bulkVars, resuming, providerVars>>
    /\ NoFault

\* Seeded fault: the release does not look at the owner.
ReleaseAnyClaim(w, j) ==
    IF RowStatus(j) = "pending"
    THEN /\ claim' = [claim EXCEPT ![j[1]][j[2]] = NoClaim]
         /\ lease' = [lease EXCEPT ![j[1]][j[2]] = 0]
         /\ UNCHANGED <<campaignVars, runVars, status, deletedPolicies>>
    ELSE UNCHANGED storeVars

\* releaseClaim: nothing happens unless the claim is still this attempt's.
ReleaseDeliveryClaim(w, j) ==
    IF RowStatus(j) = "pending" /\ claim[j[1]][j[2]] = w
    THEN ReleaseCampaignDeliveryRecipientClaim(w, j[1], j[2])
    ELSE UNCHANGED storeVars

\* finish: a suppressed, blocked, unrenderable or rejected email ends the
\* recipient.  A result for a terminal recipient is a no-op; without its own
\* live lease the write fails, the claim is released and the queue retries.
Finish(w, s) ==
    LET j == job[w] IN
    /\ pc[w] \in {"claimed", "sending"}
    /\ \/ MarkClaimedResult(w, j[1], j[2], s) /\ Complete(j)
       \/ RowStatus(j) # "pending" /\ UNCHANGED storeVars /\ Complete(j)
       \/ /\ RowStatus(j) = "pending" /\ ~OwnsLiveClaim(w, j)
          /\ ReleaseDeliveryClaim(w, j)
          /\ UNCHANGED mailQueue
    /\ GoIdle(w)
    /\ UNCHANGED <<bulkQueue, bulkVars, resuming, providerVars>>
    /\ NoFault

\* The context expired, a dependency failed, no adapter is configured or
\* every provider refused for now: the claim is released and the command is
\* retried.
ReleaseAfterError(w) ==
    /\ pc[w] = "claimed"
    /\ ReleaseDeliveryClaim(w, job[w])
    /\ GoIdle(w)
    /\ UNCHANGED <<mailQueue, bulkQueue, bulkVars, resuming, providerVars>>
    /\ IF budget[w] = 0 THEN NoFault ELSE Fault

\* The email goes to a provider while the processing context is alive.
SendThroughProvider(w) ==
    /\ pc[w] = "claimed"
    /\ budget[w] > 0
    /\ pc' = [pc EXCEPT ![w] = "sending"]
    /\ UNCHANGED <<storeVars, mailQueue, bulkQueue, job, budget, bulkVars,
                   resuming, providerVars>>
    /\ NoFault

Accept(j) == accepted' = [accepted EXCEPT ![j] = IF @ = 2 THEN 2 ELSE @ + 1]

\* persistAcceptedResult starts with a fresh budget of its own.
ProviderAccepts(w) ==
    /\ pc[w] = "sending"
    /\ Accept(job[w])
    /\ Goto(w, "accepted", job[w], PersistTicks)
    /\ UNCHANGED <<storeVars, mailQueue, bulkQueue, bulkVars, resuming, ambiguous>>
    /\ NoFault

\* Seeded fault: the provider's error is dropped.
RefusalTakenForAcceptance(w) ==
    /\ pc[w] = "sending"
    /\ Goto(w, "accepted", job[w], PersistTicks)
    /\ UNCHANGED <<storeVars, mailQueue, bulkQueue, bulkVars, resuming, providerVars>>
    /\ Fault

\* A retryable failure: the next adapter is tried, or the claim released.
ProviderRefuses(w) ==
    /\ pc[w] = "sending"
    /\ pc' = [pc EXCEPT ![w] = "claimed"]
    /\ UNCHANGED <<storeVars, mailQueue, bulkQueue, job, budget, bulkVars,
                   resuming, providerVars>>
    /\ Fault

\* The provider took the email but its answer did not arrive: to the worker
\* this is a retryable failure like any other.
ResponseLost(w) ==
    /\ pc[w] = "sending"
    /\ Accept(job[w])
    /\ ambiguous' = ambiguous \cup {job[w]}
    /\ pc' = [pc EXCEPT ![w] = "claimed"]
    /\ UNCHANGED <<storeVars, mailQueue, bulkQueue, job, budget, bulkVars, resuming>>
    /\ Fault

PersistAcceptedResult(w) ==
    LET j == job[w] IN
    /\ pc[w] = "accepted"
    /\ \/ /\ MarkClaimedResult(w, j[1], j[2], "sent")
          /\ Complete(j)
          /\ UNCHANGED ambiguous
       \/ /\ RowStatus(j) # "pending"
          /\ UNCHANGED <<storeVars, ambiguous>>
          /\ Complete(j)
       \/ /\ RowStatus(j) = "pending" /\ ~OwnsLiveClaim(w, j)
          /\ ambiguous' = ambiguous \cup {j}
          /\ UNCHANGED <<storeVars, mailQueue>>
    /\ GoIdle(w)
    /\ UNCHANGED <<bulkQueue, bulkVars, resuming, accepted>>
    /\ NoFault

\* Every write within the budget failed: the claim is kept.
PersistGivesUp(w) ==
    /\ pc[w] = "accepted"
    /\ ambiguous' = ambiguous \cup {job[w]}
    /\ GoIdle(w)
    /\ UNCHANGED <<storeVars, mailQueue, bulkQueue, bulkVars, resuming, accepted>>
    /\ Fault

\* The process dies, or leaves Deliver without a release: a provider that
\* was being called may have accepted the email.
WorkerCrash(w) ==
    LET j == job[w] IN
    /\ pc[w] # "idle"
    /\ \/ pc[w] \in {"claimed", "sending"} /\ UNCHANGED providerVars
       \/ /\ pc[w] = "sending"
          /\ Accept(j)
          /\ ambiguous' = ambiguous \cup {j}
       \/ /\ pc[w] = "accepted"
          /\ ambiguous' = ambiguous \cup {j}
          /\ UNCHANGED accepted
    /\ GoIdle(w)
    /\ UNCHANGED <<storeVars, mailQueue, bulkQueue, bulkVars, resuming>>
    /\ Fault

\* The retries are exhausted and the command moves to the dead letter queue.
CommandDeadLettered(j) ==
    /\ j \in mailQueue
    /\ Complete(j)
    /\ UNCHANGED <<storeVars, bulkQueue, workerVars, bulkVars, resuming, providerVars>>
    /\ Fault

-----------------------------------------------------------------------------
(* The email.campaign worker: BulkApplication.Run.                          *)

\* Materialize is a no-op for a run that is not sending.
BulkMaterialize(b, r, E) ==
    /\ bulkPc[b] = "idle"
    /\ r \in bulkQueue
    /\ IF runStatus[r] = "sending" THEN MaterializeCampaignDeliveryRun(r, E)
                                   ELSE UNCHANGED storeVars
    /\ bulkPc' = [bulkPc EXCEPT ![b] = "list"]
    /\ bulkRun' = [bulkRun EXCEPT ![b] = r]
    /\ UNCHANGED <<mailQueue, bulkQueue, workerVars, bulkTodo, resuming, providerVars>>
    /\ NoFault

\* The batch is read outside any transaction and is stale from then on.
BulkListPending(b) ==
    LET r == bulkRun[b] IN
    /\ bulkPc[b] = "list"
    /\ bulkPc' = [bulkPc EXCEPT ![b] = "dispatch"]
    /\ bulkTodo' = [bulkTodo EXCEPT ![b] =
                       {m \in Members : status[r][m] = "pending" /\ ~ClaimLive(r, m)}]
    /\ UNCHANGED <<storeVars, mailQueue, bulkQueue, workerVars, bulkRun, resuming,
                   providerVars>>
    /\ NoFault

BulkDispatched(b, m) ==
    /\ bulkTodo' = [bulkTodo EXCEPT ![b] = @ \ {m}]
    /\ UNCHANGED <<bulkPc, bulkRun>>

BulkPublish(b, m) ==
    /\ m \in bulkTodo[b]
    /\ mailQueue' = mailQueue \cup {<<bulkRun[b], m>>}
    /\ BulkDispatched(b, m)
    /\ UNCHANGED <<storeVars, bulkQueue, workerVars, resuming, providerVars>>
    /\ NoFault

BulkIdle(b) ==
    /\ bulkPc' = [bulkPc EXCEPT ![b] = "idle"]
    /\ bulkRun' = [bulkRun EXCEPT ![b] = NoRun]
    /\ bulkTodo' = [bulkTodo EXCEPT ![b] = {}]

\* A suppressed address or a missing recipient context ends the recipient in
\* place; a live claim refuses that and fails the whole job, which is retried.
BulkFinish(b, m, s) ==
    LET r == bulkRun[b] IN
    /\ m \in bulkTodo[b]
    /\ \/ MarkUnclaimedResult(r, m, s) /\ BulkDispatched(b, m)
       \/ /\ status[r][m] # "pending"
          /\ UNCHANGED storeVars
          /\ BulkDispatched(b, m)
       \/ /\ status[r][m] = "pending" /\ ClaimLive(r, m)
          /\ UNCHANGED storeVars
          /\ BulkIdle(b)
    /\ UNCHANGED <<mailQueue, bulkQueue, workerVars, resuming, providerVars>>
    /\ NoFault

BulkDone(b) ==
    /\ bulkPc[b] = "dispatch"
    /\ bulkTodo[b] = {}
    /\ BulkIdle(b)
    /\ bulkQueue' \in {bulkQueue \ {bulkRun[b]}, bulkQueue}
    /\ UNCHANGED <<storeVars, mailQueue, workerVars, resuming, providerVars>>
    /\ NoFault

\* The job fails or its process dies; the command is retried or dead-lettered.
BulkFails(b) ==
    /\ bulkPc[b] # "idle"
    /\ BulkIdle(b)
    /\ bulkQueue' \in {bulkQueue, bulkQueue \ {bulkRun[b]}}
    /\ UNCHANGED <<storeVars, mailQueue, workerVars, resuming, providerVars>>
    /\ Fault

-----------------------------------------------------------------------------
(* The scheduler's process_scheduled_campaigns job and the requests.        *)

otherThanStore == <<mailQueue, workerVars, bulkVars, providerVars>>

\* The run is dispatched and its first command enqueued in one transaction.
Dispatch(r, E) ==
    /\ DispatchEmailDeliveryRun(r, E)
    /\ bulkQueue' = IF runStatus'[r] = "sending" THEN bulkQueue \cup {r} ELSE bulkQueue
    /\ UNCHANGED <<otherThanStore, resuming>>
    /\ NoFault

SendNow(r, E) ==
    /\ SendCampaignNow(r, E)
    /\ bulkQueue' = bulkQueue \cup {r}
    /\ UNCHANGED <<otherThanStore, resuming>>
    /\ NoFault

\* Every minute each active run is materialized again ...
ResumeMaterialize(r, E) ==
    /\ resuming = NoRun
    /\ MaterializeCampaignDeliveryRun(r, E)
    /\ resuming' = r
    /\ UNCHANGED <<otherThanStore, bulkQueue>>
    /\ NoFault

\* Seeded fault: the resume hands nothing back.
ResumeWithoutPublish ==
    /\ resuming # NoRun
    /\ resuming' = NoRun
    /\ UNCHANGED <<storeVars, otherThanStore, bulkQueue>>
    /\ NoFault

\* ... and handed back to bulk delivery if it still has a pending recipient.
ResumePublish ==
    /\ resuming # NoRun
    /\ bulkQueue' = IF With(status[resuming], {"pending"}) # {}
                    THEN bulkQueue \cup {resuming} ELSE bulkQueue
    /\ resuming' = NoRun
    /\ UNCHANGED <<storeVars, otherThanStore>>
    /\ NoFault

ResumeFails ==
    /\ resuming # NoRun
    /\ resuming' = NoRun
    /\ UNCHANGED <<storeVars, otherThanStore, bulkQueue>>
    /\ Fault

\* Requests and notifications that touch the store only.  A notification that
\* arrives before the result it is about matches no row and is dropped.
Request ==
    /\ \/ CampaignLifecycle
       \/ LegalLifecycle
       \/ \E r \in Runs, m \in Members, o \in {"delivered", "bounced", "complained"} :
             ApplySESProviderOutcome(r, m, o)
    /\ UNCHANGED <<otherThanStore, bulkQueue, resuming>>
    /\ NoFault

ScheduledTimeReached(r) ==
    /\ TimeReaches(r)
    /\ UNCHANGED <<otherThanStore, bulkQueue, resuming>>
    /\ NoFault

\* Time passes for leases and deadlines alike.  While deadlines are kept it
\* does not pass a worker whose context has expired.  A context that expires
\* under a busy worker is a fault.
Tick ==
    /\ \/ \E r \in Runs, m \in Members : lease[r][m] > 0
       \/ \E w \in Workers : budget[w] > 0
    /\ DeadlinesKept => \A w \in Workers : pc[w] = "idle" \/ budget[w] > 0
    /\ LeasesTick
    /\ budget' = [w \in Workers |-> IF budget[w] > 0 THEN budget[w] - 1 ELSE 0]
    /\ UNCHANGED <<campaignVars, runVars, status, claim, deletedPolicies, mailQueue,
                   bulkQueue, pc, job, bulkVars, resuming, providerVars>>
    /\ IF \E w \in Workers : pc[w] # "idle" /\ budget[w] = 1 THEN Fault ELSE NoFault

-----------------------------------------------------------------------------
WorkerProgress(w) ==
    \/ \E j \in Jobs : ClaimDelivery(w, j)
    \/ \E s \in FailureStatuses : Finish(w, s)
    \/ ReleaseAfterError(w)
    \/ SendThroughProvider(w)
    \/ ProviderAccepts(w)
    \/ PersistAcceptedResult(w)

WorkerFault(w) ==
    \/ ProviderRefuses(w)
    \/ ResponseLost(w)
    \/ PersistGivesUp(w)
    \/ WorkerCrash(w)

BulkProgress(b) ==
    \/ \E r \in Runs, E \in SUBSET Members : BulkMaterialize(b, r, E)
    \/ BulkListPending(b)
    \/ \E m \in Members : BulkPublish(b, m)
    \/ \E m \in Members, s \in FailureStatuses : BulkFinish(b, m, s)
    \/ BulkDone(b)

Resume ==
    \/ \E r \in Runs, E \in SUBSET Members : ResumeMaterialize(r, E)
    \/ ResumePublish

Next ==
    \/ Request
    \/ \E r \in Runs : ScheduledTimeReached(r)
    \/ \E r \in CampaignRuns, E \in SUBSET Members : SendNow(r, E)
    \/ \E r \in Runs, E \in SUBSET Members : Dispatch(r, E)
    \/ \E w \in Workers : WorkerProgress(w) \/ WorkerFault(w)
    \/ \E j \in Jobs : DuplicateSuppressed(j) \/ CommandDeadLettered(j)
    \/ \E b \in BulkWorkers : BulkProgress(b) \/ BulkFails(b)
    \/ Resume
    \/ ResumeFails
    \/ Tick

Spec == Init /\ [][Next]_vars

\* Goroutines run, the scheduler's minute job keeps firing and time passes.
Fairness ==
    /\ \A w \in Workers : WF_vars(WorkerProgress(w))
    /\ \A b \in BulkWorkers : WF_vars(BulkProgress(b))
    /\ WF_vars(Resume)
    /\ WF_vars(Tick)

FairSpec == Spec /\ Fairness

-----------------------------------------------------------------------------
(* Properties.                                                              *)

\* Every variable has its type; a busy worker has a job that exists.
TypeOK ==
    /\ StoreTypeOK
    /\ mailQueue \subseteq Jobs
    /\ bulkQueue \subseteq Runs
    /\ pc \in [Workers -> Busy \cup {"idle"}]
    /\ job \in [Workers -> Jobs \cup {NoJob}]
    /\ \A w \in Workers : job[w] = NoJob <=> pc[w] = "idle"
    /\ budget \in [Workers -> Nat]
    /\ bulkPc \in [BulkWorkers -> {"idle", "list", "dispatch"}]
    /\ bulkRun \in [BulkWorkers -> Runs \cup {NoRun}]
    /\ bulkTodo \in [BulkWorkers -> SUBSET Members]
    /\ \A b \in BulkWorkers : /\ bulkRun[b] = NoRun <=> bulkPc[b] = "idle"
                              /\ bulkPc[b] # "dispatch" => bulkTodo[b] = {}
    /\ resuming \in Runs \cup {NoRun}
    /\ accepted \in [Jobs -> 0..2]
    /\ ambiguous \subseteq Jobs
    /\ faults \in 0..MaxFaults

\* While deadlines are kept, no two workers are ever between handing the same
\* recipient's email to a provider and recording the result: "the claim stays
\* held meanwhile, so no other worker can send the message again".
NoParallelSend ==
    \A w, v \in Workers :
        pc[w] # "idle" /\ pc[v] # "idle" /\ job[w] = job[v] => w = v

\* While deadlines are kept, a provider accepts a recipient's email twice only
\* if an earlier acceptance was lost on the way to the database.
DuplicateNeedsAmbiguity ==
    \A j \in Jobs : accepted[j] = 2 => j \in ambiguous

PolicyDeleted(r) == r \in LegalRuns /\ PolicyOf[r] \in deletedPolicies

\* While deadlines are kept, an email that a provider accepted is never
\* recorded as failed, unless its acceptance was lost or its policy was
\* deleted meanwhile.
AcceptedNotRecordedFailed == \A j \in Jobs :
    accepted[j] > 0 /\ RowStatus(j) \in FailureStatuses =>
        j \in ambiguous \/ PolicyDeleted(j[1])

\* A busy worker's recipient is still pending under its own claim, and the
\* lease outlasts what is left of the worker's deadlines; or the policy was
\* deleted meanwhile.
HoldsLease(w) ==
    LET j == job[w] IN
    /\ RowStatus(j) # "absent"
    /\ RowStatus(j) = "pending" =>
          /\ claim[j[1]][j[2]] = w
          /\ lease[j[1]][j[2]] >
                budget[w] + (IF pc[w] = "accepted" THEN 0 ELSE PersistTicks)
    /\ RowStatus(j) # "pending" => PolicyDeleted(j[1])

NoUnreportedAcceptance(j) == accepted[j] = 0 \/ j \in ambiguous

\* Why no email is sent twice in silence while deadlines are kept: a busy
\* worker holds a lease that outlasts it, and as long as a recipient has no
\* result and no worker is about to record one, no acceptance of its email
\* is unaccounted for.
DeliveryInv ==
    /\ \A w \in Workers : pc[w] # "idle" => HoldsLease(w)
    /\ NoParallelSend
    /\ \A w \in Workers : pc[w] \in {"claimed", "sending"} => NoUnreportedAcceptance(job[w])
    /\ \A j \in Jobs :
          /\ RowStatus(j) \in {"absent", "pending"}
          /\ \A w \in Workers : pc[w] = "accepted" => job[w] # j
          => NoUnreportedAcceptance(j)
    /\ DuplicateNeedsAmbiguity
    /\ AcceptedNotRecordedFailed

\* An email recorded as sent was accepted by a provider, even when workers
\* stall beyond their deadlines and lose their claims.
SentWasAccepted ==
    \A j \in Jobs : RowStatus(j) \in ReachedProvider => accepted[j] > 0

\* While deadlines are kept, what a completed run reports is what happened at
\* the providers.  A run is sent only if an email of it was accepted.  An email
\* accepted for a completed run is recorded so, and in a run that failed or was
\* skipped it was returned since, unless its acceptance was lost or its policy
\* was deleted.
RunReportIsTrue == \A r \in Runs :
    /\ runStatus[r] = "sent" => \E m \in Members : accepted[<<r, m>>] > 0
    /\ \A m \in Members :
          /\ runStatus[r] \in CompletedStatuses
          /\ accepted[<<r, m>>] > 0
          /\ <<r, m>> \notin ambiguous
          /\ ~PolicyDeleted(r)
          => /\ status[r][m] \in ReachedProvider
             /\ runStatus[r] \in {"failed", "skipped"} =>
                   status[r][m] \in {"bounced", "complained"}

\* A worker's live claim ends only by its own step or with the policy: no
\* stalled worker, no bulk job and no resume can release or overwrite it.
LiveClaimIsItsOwners == [][
    \A w \in Workers :
        pc[w] # "idle" /\ OwnsLiveClaim(w, job[w]) =>
            \/ claim'[job[w][1]][job[w][2]] = w
            \/ pc'[w] = "idle"
            \/ PolicyDeleted(job[w][1])']_vars

\* A run with recipients that is sending completes, however commands are
\* lost: the resume job hands its pending recipients back to delivery.
RunCompletes == \A r \in Runs :
    runStatus[r] = "sending" /\ Recipients(status[r]) # {}
        ~> runStatus[r] \in CompletedStatuses

-----------------------------------------------------------------------------
(* What comments and tests say and the code does not do.                    *)

\* "MaterializeCampaignDeliveryRun freezes a sending run's recipients": once a
\* run has recipients it has those recipients.
RecipientsFrozen == [][
    \A r \in Runs : Recipients(status[r]) # {} =>
                       Recipients(status'[r]) = Recipients(status[r])]_vars

\* "zero target is skipped": a legal notice whose target is zero completes.
ZeroTargetIsSkipped == \A r \in LegalRuns :
    runStatus[r] = "sending" /\ targetCount[r] = 0
        ~> runStatus[r] \in CompletedStatuses

=============================================================================
