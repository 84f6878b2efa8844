# A TLA+ model of geul-api

geul-api is a Go service for content, media, identities and email. It keeps its
state in PostgreSQL, queues its work in PGMQ (tables in the same database),
keeps authorization relationships in SpiceDB, identities in Kratos and files in
an object store. This project models the parts in which several processes and
several stores must end up agreeing, model-checks them with TLC on small
instances, and proves the main results with TLAPS for every size.

Five parts are modelled: the delivery of Campaigns and legal notices by email;
the authorization mutation that changes PostgreSQL and SpiceDB together; the way
from a due row through the elected scheduler and the queue to a handled command;
the life of an account over PostgreSQL, Kratos and SpiceDB; and the life of a
public asset over PostgreSQL and the object store. The inventory
lists the others, the plan says what comes next.

The repository has some 360,000 lines. Most of them are generated code, test
doubles and row operations that one transaction completes. The models aim at the
few thousand lines in which an order of steps nobody tested can leave two
processes or two stores in disagreement.

## Inventory

| Component | State | Operations | What is hard | Correct when |
| --- | --- | --- | --- | --- |
| Campaign delivery store (`internal/campaign`, its `postgres` store, `internal/adapters/campaign`) | `campaign`, `email_delivery_run`, `email_delivery_recipient` rows with claims and leases | schedule, cancel, send now, delete, archive criteria; seal, cancel and stop legal notices; dispatch, materialize, claim, release, record a result, apply a notification | many transactions on the same rows; completion decided from counts; counters kept three ways | Campaign, runs, recipients and counters agree; a run closes once, as its recipients justify |
| Email delivery (`internal/emaildelivery`, `internal/adapters/emaildelivery`, `internal/worker`) | the worker's place in `Deliver`, its claim and deadlines; `email.send` and `email.campaign` queues | deliver, bulk dispatch, resume every minute | redelivery, leases against stalled owners, lost provider answers, crashes, dead letters | nobody gets an email twice in silence; a run completes |
| Provider notifications (`emaildelivery/provider_notification.go`) | recipient status, suppressions | delivered, bounced, complained | late, duplicated, reordered | results only move forward |
| Authorization mutation (`internal/authzmutation`, `internal/auth/spicedb_relationships.go`) | committed rows, relationships, the global advisory lock | execute, write, inspect, compensate, commit | no common commit; ambiguous answers; crash; a lock that ends with the request's context while the compensation does not | the two stores agree or somebody was told |
| Queue consumer (`internal/mq`) | messages with read counts and visibility | read, complete, retry, dead-letter, requeue at shutdown | at-least-once, a hand-off that fails, a shutdown that counts as a read | one worker at a time; no message is given up before its reads are used |
| Scheduler (`internal/scheduler`) | the session lock, the borrowed connection, the leader flag | connect, acquire, refresh, release; list and dispatch | flag and lock are different things; leadership lost between check and push; unlock with unknown outcome | two leaders cannot dispatch twice; the lock is never leaked; some replica leads again |
| Process runtime (`cmd/server`) | the shared context | start, cancel, wait, exit | what is cut off and what is waited for | every component may be stopped at any step |
| Mutation pipeline (`internal/mutation`, `internal/identitystate`) | transaction, identity locks | lock, authorize, change, audit, outbox, relationships | lock order, state read before a lock | no deadlock; a decision is made on locked state |
| Public assets (`internal/mediaasset`, promotion and deletion in `internal/filemedia`) | asset rows and bindings, the deletion mark of a File; objects in the bucket | promote, bind, release, request deletion, erase what is pending or expired | the bucket takes part in no transaction; promotions of one File share a key; a job removes what a request may be writing | what is bound is ready and has its object; what is deleted is erased; nothing comes back |
| Transcode tracking, OG images, uploads (`internal/transcode`, `og`, `filemedia`) | job, generation and upload states | start, finish, fail, expire, delete | results of jobs that were replaced or deleted; storage changed beside a transaction | no orphan, no resurrection |
| Content blocks, collaboration, translation | revisions | write with an expected revision | concurrent writers | no lost update |
| Accounts (`internal/account`, `internal/member`, `internal/auth`) | Member, anchor, deletion request and command; Identity state, ban metadata and sessions; global role | request, confirm, cancel, recover, dispatch, delete; ban, lift; change a role; onboard | three stores and no common commit; checks made before a fence; a last administrator | an administrator remains; a deletion that began ends; a cancelled one is undone |
| Content domains, OAuth apps, settings, MCP, gateway, rendering | rows or none | single transactions, conversions | little beyond the mutation pipeline | - |

The components interact through PostgreSQL rows and locks and through the
queues. A mutation enqueues its commands in the transaction that changes its
rows. Workers take commands from the queues and open transactions of their own.
The scheduler's jobs scan the tables and repair what was lost.

`PROJECT.json` lists the hazards, each with its line and the properties that
would catch it.

## Modules

| Module | Models |
| --- | --- |
| `CampaignStore` | the rows and each transaction on them as one action |
| `DeliveryContract` | what delivery promises, without claims, counters or rows: each run opens once and closes once, as its outcomes justify |
| `CampaignDelivery` | extends `CampaignStore` with queues, `email.send` workers, bulk workers, the scheduler job, providers, time and faults |
| `AuthzMutation` | `authzmutation.Execute` with the expecting writes of the SpiceDB client |
| `Replica` | the life of an API process: up, stopping, down |
| `SchedulerLeader` | extends `Replica` with the elector, its connection and the advisory lock |
| `QueueConsumer` | extends `Replica` with a durable queue and its workers |
| `JobPipeline` | composes `SchedulerLeader` and `QueueConsumer` with the cron job that dispatches due rows, and with shutdown, crash and restart |
| `JobContract` | what scheduler and queue promise of a row, without leaders, visibility or retries: it becomes one command and is settled once, by a worker that has it |
| `AccountLifecycle` | an account in PostgreSQL, Kratos and SpiceDB, and the flows that write it |
| `PublicAsset` | a File's public asset in PostgreSQL and in the bucket, the requests that promote, bind and release it, and the cleanup job |
| `AssetContract` | what users of an asset rely on, without promotions, locks, Files or the bucket: it goes one way from written to erased, and not while a slot has it |
| `CampaignStoreProofs`, `DeliveryContractProofs`, `CampaignDeliveryProofs`, `AuthzMutationProofs`, `JobPipelineProofs`, `AccountLifecycleProofs`, `PublicAssetProofs` | theorems |
| `MCCampaignStore`, `MCCampaignDelivery`, `MCAuthzMutation`, `MCJobPipeline`, `MCAccountLifecycle`, `MCPublicAsset` | instances for TLC (symmetry and one constant function); the `.cfg` files give the sizes |

Definitions whose comment begins "Seeded fault" are not used by any
specification. They are wrong versions of the definition that follows them, used
to see that a property notices the mistake.

### CampaignStore

One Campaign with the runs it may create, and legal notice runs of policy
versions. `runStatus`, `targetCount`, `sentCount`, `skippedCount`, `status`,
`claim` and `lease` are the columns of the same meaning; `"absent"` is a row
that does not exist yet. Every transaction locks the Campaign row, the run row
and the recipient row, in this order, before it reads what it decides on
(`lockDeliveryRun`), so a transaction is one action. The members that a sealed
target selects at some moment are any set `E`: membership, subscriptions and
permissions change under a run.

Every stored result ends with `FinalizeLockedEmailDeliveryRun`: it counts the
rows, updates the counters and, when no recipient is pending, closes the run and
the Campaign. The counters of failed, blocked and suppressed recipients are
written by the same statement as `skipped_count` and are not kept separately.

`lease` is the time left until `delivery_claim_expires_at`, 0 once it has
passed. `claim` keeps the id of an expired claim, as the column does. A claim id
is a fresh UUID per attempt; a worker handles one attempt at a time, so its name
stands for its current id, and an old id can never match again once another
worker has claimed.

A terminal recipient is left alone by a second result, and by a notification
that does not move it forward; the code's early return is the absence of the
action there (a stuttering step).

### CampaignDelivery

A step is one transaction, one queue operation or one exchange with a provider.
An `email.send` worker goes `idle -> claimed -> sending -> accepted -> idle`:

| Action | Code |
| --- | --- |
| `ClaimDelivery`, `DuplicateSuppressed` | `claimDelivery`: the recipient was claimed, or is terminal or claimed by somebody and the command is deleted |
| `Finish` | suppression, blocked recipient, template or render failure, permanent provider failure: `finish` / `markTerminalResult` |
| `SendThroughProvider`, `ProviderAccepts`, `ProviderRefuses`, `ResponseLost` | `sendThroughProviders`, one adapter after another |
| `ReleaseAfterError` | `releaseClaimAfterError`, the command is retried |
| `PersistAcceptedResult`, `PersistGivesUp` | `persistAcceptedResult` within its own budget |
| `WorkerCrash` | process death or a panic, at any place |
| `CommandDeadLettered` | retries exhausted |

A bulk worker materializes the run, lists its pending unclaimed recipients, and
publishes a command or ends the recipient in place for each of them; the list is
stale from the moment it is read. `BulkApplication.Run` lists in batches of 100;
the instances have fewer recipients than a batch, so it is one list per job.

The scheduler job dispatches due runs and resumes active ones. Resuming is two
transactions (`ResumeMaterialize`, `ResumePublish`) with a gap between them.
An error of one run is logged and skipped, which is `ResumeFails`.

A queue is the set of commands that can still be delivered. PGMQ delivers a
message again after its visibility window, so a command may be handled by two
workers. Completion removes it unless the deletion fails or a second command for
the same recipient is in the queue.

Time is `Tick`. It runs the leases down and with them the deadlines of busy
workers: `ProcessingTicks` for the processing context, `PersistTicks` for the
persist budget, their sum less than `LeaseTicks`, as 5 min + 1 min < 10 min in the code
(`application.go:23-27`, `campaign_delivery_recipient.go:20`). With
`DeadlinesKept` no worker outlives its deadline; without it a worker may stall
for any time between two steps, as a process that is paused does. There is one
clock. In the code claims are written and compared with the clocks of API
processes, and their skew comes out of the four minutes of slack.

`accepted` and `ambiguous` are history: how often a provider accepted a
recipient's email, and whether an acceptance failed to reach the database.
`faults` counts crashes, refusals, lost answers, failed writes, dead letters and
expired contexts up to `MaxFaults`.

### AuthzMutation

A relationship is a key. `db` is the set of keys that the committed rows call
for, `zed` the set that SpiceDB holds. `Execute` takes the lock, lets the
callback change rows and write one batch (`keys` to `want`, guarded by the
pre-state `pre`), then commits or compensates and rolls back. The batch's
pre-state is what the rows had, because callers build the compensation as the
exact inverse from the rows they locked.

`WriteSucceeds`, `PreconditionFails`, `WriteRefused` and `WriteAmbiguous` are the
answers to one write; `InspectState` and `InspectFails` the bounded read-back.
`had` and `last` are `hadAmbiguity` and `ambiguous` in
`writeExpectedRelationships`. A panic in the provider's client behaves like an
ambiguous answer that is not retried.

The transaction is begun on the request's context (`transaction.go:50`), which
has 15 s for an account mutation (`mutation.go:166-170`). When the context ends,
database/sql rolls the transaction back at once, and `pg_advisory_xact_lock` ends
with it. `Execute` does not stop there: the answer of SpiceDB becomes ambiguous,
the retry wait returns an uncertain outcome (a choice at any attempt), and the
compensation runs under a context of its own, without a lock. `TransactionLost`
frees the lock at any place inside a mutation, and every later step of the
mutation is possible without it, except that nothing can be committed: `Commit`
needs the lock, `CommitUncertain` without it leaves the rows alone and reports.
A dead connection has the same effect. Rows are changed and the batch is built
while the transaction is open, so `WriteRelationships` needs the lock, but its
first write may already happen without.

An ambiguous write was applied, was not, or is applied later
(`LateWriteInMutation`, `LateWriteAfterwards`).

`told` and `unseen` are history, by key. `told` holds the keys of a failed
compensation or an uncertain commit, which have a metric and an error.
`unseen` holds the keys that nobody is told of: those of a mutation whose process
died, those that a write changed after its loop had ended, and those that a
mutation without the lock changed in a way that matters to another one
(`Overrun`: it sets the key against rows that changed since it read them, or
takes it from under a mutation about to commit). The rollback of a lost
transaction also logs an error (`transaction.go:168`); it is the same line for
every mutation that expires, whether anything disagrees or not, and does not
count as a report here.

A reader of SpiceDB that takes no lock may see a write before its commit.

### Replica, SchedulerLeader, QueueConsumer, JobPipeline

Every replica runs the same binary: one elector, the cron jobs, the workers.
`awaitShutdown` cancels the context they share (`proc` = "stopping"), `Shutdown`
waits for the cron job and the elector without a limit and for the workers with
one. The drain is 1 s and the requeue of a message has 5 s, so a worker may be
cut off in either. `Crash` ends everything at any step.

The elector borrows a connection (`session`), takes a session-level advisory
lock on it (`lock`, on the server) and raises a flag (`leader`, in memory):

| Action | Code |
| --- | --- |
| `Connect` | `Start` without a session |
| `TryAcquire`, `PingFails` | `refreshLeadership`; an answer that is lost leaves a lock that may have been granted |
| `StopElector`, `Unlock`, `CloseSession` | `releaseSession`: flag, lock, connection, in this order |
| `Break`, `Reap` | the connection dies; the server notices and drops the lock |

A Ping that succeeds, a Connect that fails and a listing that fails change
nothing and are stuttering. The waits between refreshes are not told apart from
the refresh. The driver is taken at its word: an error on a query that was sent
means a dead connection, and a context cancelled before sending leaves it
healthy. `Pooled` is the owner of a lock whose connection went back to the pool
with it, `Orphan` that of one whose client is gone.

A cron entry reads the flag once, lists the due rows and dispatches them one
after another (`addJob`, `DispatchScheduledUserDeletion`). Each dispatch looks at
its row again under a lock. The job modelled is the dispatch of due account
deletions. It refuses an account that may not be deleted now (`blocked`): the last
active administrator, an Identity that is missing or active, a missing snapshot
of what its emails need. The transaction rolls back, the job logs the refusal and
goes on, and the row stays due (`DispatchRefused`). What makes or ends such a
standing belongs to other parts of the system, so `StandingChanges` may do it at
any time. A cancellation's token expires at the deadline, but the token of a
recovery begun in the last day of the grace period outlives it, so a request that
is due, and even listed, may still be withdrawn (`RecoveryConfirmed`); the dispatch
looks at the row again. An administrator's immediate deletion enqueues with the same
function and is modelled in `AccountLifecycle` only. A run of a job that overlaps the next run of the same entry on the
same replica is not distinguished from it.

A message is `visible`, `hidden`, `done` or archived for one of three reasons.
`Read` hides and counts it, `Handle` is the handler and `decideQueueDelivery`
(the shutdown first, then the result, then the count), `Handoff` the deletion,
archive or visibility update that follows. The hand-off addresses the message by
number, whoever has read it since. `Expire` is the end of a visibility timeout or
of a retry delay. The timeout is longer than a handler may run, so to show again
while it is being handled takes a fault; after the first the model lets it happen
freely, which is more than the code does. There is one worker per replica. PGMQ, the lock
server and the supervisor that restarts processes are external.

`failed`, `spent`, `stalled` and `sends` are history.

`JobContract` is implemented under the mapping of a row and its message to one
phase: a message that is visible or hidden is queued, an archived one dead.

### AccountLifecycle

Each account has a Member row with its anchor, a deletion request and queued
deletion commands (PostgreSQL), an Identity with its state, ban metadata and
sessions (Kratos), and a global role (SpiceDB).

A flow that writes to Kratos or SpiceDB holds the global authorization lock and
the account's Identity lock through all of its calls. `fence` says which flow
holds the lock and which call is next, and each call is an action, so that
`FlowFails` can end a flow between any two. `Free` is the guard of a flow that
takes both locks, `Unlocked` of one that takes the Identity lock only.

| Actions | Code |
| --- | --- |
| `Validate`, then `RequestDeletion`, `CompleteOnboarding`, `DeleteAccount` or `Refuse` | requests that are checked before they wait for their fence; `inflight` holds the ones that wait |
| `ConfirmDeletion`, `CancelDeletion`, `StartRecovery`, `ConfirmRecovery` | the emailed tokens; whether a token is still valid is a choice, except where its expiry is the deadline |
| `EnsureInactive`, `EnsureActive` | the reconciler, and the same flows after a confirmation or a cancellation |
| `GraceEnds`, `Dispatch` | `dispatchLockedUserDeletion`: the command replaces the row |
| `DeleteIdentity`, `DeleteRelationships`, `DeleteAnchor`, `Finalize`, `CompleteCommand` | the deletion worker, for a tombstone or a hard delete |
| `BanAccount`, `BanMetadata`, `RevokeSessions`, `UnbanAccount`, `ClearExpiredTimedBan`, `LiftMetadata` | bans |
| `SetAccountRole`, `EnqueueHardDelete`, `Login` | role change, retention of accounts never onboarded, sign-in at Kratos |

`newer` abstracts the two `updated_at` timestamps the reconciler compares.
`SetAccountRole` is one step: what happens between SpiceDB and the commit is the
subject of `AuthzMutation`. A promotion whose context ends, and which is
compensated only after the administrator fence is gone, is therefore not
represented here. The last call of the hard delete's revocation is part of
`Finalize`. A command that is dead-lettered is one the worker never handles
again.

`overtaken` is history: accounts that were unbanned, requested again or onboarded
although their deletion was already queued or begun. `AnAdminRemains`,
`DispatchIsFinal` and `HalfDeletedIsResumed` are stated up to it. They do not
say that a late unban, request or onboarding does no harm, which would be false:
the run `last_admin` shows one case (finding 4), and an onboarding behind a hard
delete that failed half-way leaves a Member without an Identity and without a
command. `DeletedOnceRecorded`, `AuthoritiesEndInOrder`, `DeletionNeverReverts`
and `DispatchedEnds` hold of these accounts too. `BanFailsClosed` is about the
first two of a ban's three calls; that a retry finds the account banned and skips
the metadata and the sessions is in the model, and no property forbids it.

### PublicAsset

`file` is the deletion mark of a File, `status` and `source` are columns of the
asset's row, `slot` the bindings of owners, `object` what the bucket holds. An
asset of `Rendered` has no source File (an OG image); a `ContentSlots` binding is
that of an owner whose own row also references the File, which keeps the File;
an `OwnerSlots` binding (an avatar) does not.

Requests (`req`) and runs of the cleanup job (`clean`) advance side by side. A
transaction that locks before it reads is one step, and its lock is the guard
`~Locked` or `~FileLocked`. A transaction that reads first or calls the bucket
with a lock held has several steps, and `held` (a request) or the `expire` places
(the job) say which rows it keeps from the others:

| Actions | Code |
| --- | --- |
| `PreparePromotion`, `StreamSource`, `CompletePromotion`, `FailPromotion` | `promoteSourceFileToPublicAsset`: allocate or resume, upload, make ready or record the failure |
| `StreamFails`, `StreamEndsShort` | the upload fails, with or without an object; the source is shorter than the File and the key is deleted again |
| `BindPublicAsset`, `BindReadyAssetForSourceFile`, `ReleasePublicAssetBindings` | the snapshot of the binding, and for content the File's lock |
| `LockAssets`, `StoreBinding` | the locks in the order of ids, the comparison with the snapshot, the write, and what becomes of the asset that was replaced |
| `RequestPublicAssetDeletion`, `MarkFileDeletionRequested` | requests for deletion |
| `ListPending`, `ErasePending`, `MarkAssetDeleted` | `DeletePending`: list, erase, mark, without a lock in between |
| `LockExpiredUnready`, `EraseExpired`, `DeleteExpiredAsset` | `DeleteExpiredUnready`: lock, erase, remove in one transaction |
| `RequestStops`, `CleanupStops` | an error or the death of the process at any of these places |

The retention of an unready row is a day, and a day may pass between any two
steps. That is what the code allows: a resumed allocation keeps the `created_at`
of the first, so a row may be expired while a promotion of it runs. A commit with
a lost answer is re-read by the code and ends as one of the two cases of the
transaction. Two uploads of the same File have the same digest, so an object is
there or not.

Three ghosts name what the code does not promise. `torn`: an object that a
rolled-back removal or a short promotion spoiled although the row may become
ready. `late`: an object that an upload wrote after the job had erased it for
good; no later step looks for it. `kept`: an asset that was bound by an owner
without a reference when its File's deletion was requested. Such an asset stays
ready after its owner lets go, because `MarkUnboundAssetsDeletePending` leaves
assets with a source File to the File's deletion, and that was already
requested. `RowsAgreeWithBucket` and `DeletedFileIsWithdrawn` hold up to these.

`AssetContract` is implemented under the mapping of the status column to a life:
allocated and failed rows are being written, a pending deletion is withdrawn, a
deleted or removed row is erased.

## Runs

| Run | Shows | Bounds |
| --- | --- | --- |
| `campaign` | Campaign, runs, recipients, claims and counters agree, also while a policy is withdrawn or deleted; results are final; the contract is implemented | 2 runs of a Campaign (a cancelled one and its successor), 1 update notice, 2 members, 2 workers, lease 2; 119,318 states |
| `delivery_safety` | no parallel sends; duplicates and false failures only after a lost acceptance | 1 run, 2 members, 2 workers, 1 bulk worker, lease 4 > 2 + 1, 3 faults |
| `delivery_liveness` | the same processes without deadlines: nothing untrue is recorded, a live claim is its owner's, and a run with recipients completes | 1 legal run, 1 member, 2 workers, 2 bulk workers, 2 faults; 169,688 states |
| `frozen` (violation) | see finding 1 | 2 members |
| `zero_target` (violation) | see finding 2 | 1 member, no faults |
| `authz` | the stores agree or the disagreement is accounted for; the lock serializes as long as nothing is lost; rows never change ahead of SpiceDB; a mutation ends | 2 requests, one over 2 keys and one over the first of them, 3 attempts as in the code, 1 lost transaction, crash or late write; 392,376 states |
| `authz_unlocked` (violation) | see finding 3 | 2 requests, 1 key, 1 lost transaction |
| `jobs` | leadership, one command per row, one handler per message, earned dead letters, a due row is settled or withdrawn unless it keeps being refused, some replica leads again; the job contract is implemented | 2 replicas, 1 row that may be refused or withdrawn, 1 retry, 2 faults; 196,288 states |
| `account` | an administrator remains; a dispatched deletion is final, resumed and recorded once; the stores end in order; drift stays visible; bans fail closed; a deletion is one-way | 2 accounts, either may be acted on, 1 waiting request, 1 fault; 1,000,584 states |
| `account_liveness` | a pending deletion locks out, a cancelled one is undone, a dispatched one ends | 1 account and an administrator, 2 faults; 23,857 states |
| `last_admin` (violation) | see finding 4 | 2 accounts, no faults |
| `assets` | what is bound is ready; rows and bucket agree; one asset per File; a deleted File's asset is withdrawn; the asset contract is implemented | 1 File, 2 ids to allocate, 1 rendered asset, 2 owner slots, 1 content slot, 2 requests, 1 run of the job, 1 fault; 1,522,718 states |

Two workers are enough for every conflict over a claim, which is between an
owner and one other; two members for every question of a last and a second-to-last
recipient; two faults for a loss and the failure of its repair, three for a loss
on each of two attempts and one more. Two replicas give two leaders and a message
that changes hands; one retry gives a read that is retried and one that is the
last; messages do not share state. Two accounts are a first and a last
administrator; the accounts meet only in the count of administrators and in the
global lock. Two mutations give one that loses its lock and one that takes it;
batches that overlap in a key and differ in another show what spreads and what
does not; one fault is one incident, and the invariant of `AuthzMutation` was
also checked with two. One File with two ids gives an asset and its successor, two requests
a promotion beside a promotion, a binding or a release, and the job's passes do
not conflict with each other. The theorems remove these bounds.

Deadlock is not checked where the system may stop: a run that was completed, a
deleted Campaign or exhausted notices may leave nothing to do, and so may two
deleted accounts, or Files that are deleted with all of their assets. `AuthzMutation` and `JobPipeline` never stop and are checked
for deadlock.

Symmetry is used in runs without liveness only, over members and workers
(delivery), over accounts (`account`, `last_admin`) and over requests, runs of the
job and owner slots (`assets`).

### Fairness

`RunCompletes` assumes weak fairness of each email worker, each bulk worker, the
resume job and time. The workers are goroutines in endless poll loops; the
scheduler fires `process_scheduled_campaigns` every minute. Nothing is assumed
about requests, dispatch, notifications or faults, and faults are bounded: a
system that fails for ever completes nothing. Weak fairness of `Resume` speaks
of the only run of that instance; the code resumes 25 runs per tick, least
recently updated first, and whether this order is fair to many runs is not
shown here. Stalls need no fairness of their own: a worker that stalls for ever is
excluded, one that stalls for any number of ticks is not.

`MutationEnds` assumes weak fairness of a request that is inside a mutation:
its goroutine runs and its calls to SpiceDB return (the compensation has a
timeout of its own). Nothing is assumed about the answers, nor that a request
which waits for the lock ever gets it.

`DueIsSettled` and `LeaderReturns` assume weak fairness of every loop of a
replica (elector, cron job, worker), of its shutdown once it was asked for, and
of the three externals: the supervisor starts a process again, the server reaps
a dead connection, a visibility timeout ends. Of a handler only that it returns,
with any result: its context has a deadline. `DueIsSettled` speaks of a request
that is not refused for ever: `<>[](m \notin blocked)` is its hypothesis, because
the code keeps the request of a last active administrator due for as long as that
administrator is the last one.

The account properties assume weak fairness of the next call of a flow that has
begun, and strong fairness of `EnsureInactive`, `EnsureActive` and
`DeleteIdentity`. These three wait for advisory locks that other flows take and
give back again and again. PostgreSQL queues the waiters of a lock, the
reconciler asks every 2 s, and an unfinished command is redelivered. Nothing is
assumed about principals, administrators or tokens. That the command is
redelivered rather than dead-lettered is the point of `DeadLetterIsEarned`: with
more failures than retries a deletion stays half done, and the faults of this
run are fewer.

## Findings

1. **Recipients are not frozen** (`frozen`).
   `campaign_delivery_recipient.go:47` says that materialization "freezes a
   sending run's recipients". Each later call (every redelivered bulk command,
   every minute's resume) selects the target again and adds members who match
   it only now.
2. **An empty legal notice is not skipped** (`zero_target`).
   `email_delivery_completion_test.go:18` states "zero target is skipped". The
   branch is reached only after a stored result. A notice whose target becomes
   empty between dispatch and materialization has no recipient that could store
   one and stays `sending`.
3. **A compensation runs without the lock** (`authz_unlocked`).
   `authzmutation/lock.go:17-20` says that the lock "serializes every PostgreSQL
   mutation that changes SpiceDB authority" and that callers "keep the transaction
   open through commit or exact compensation and rollback";
   `docs/architecture.md:316-317` that the batch is "compensated if the
   transaction rolls back". When the request's context ends, the transaction and
   the lock end first. In the trace a write that was not applied has an uncertain
   outcome, the transaction is lost, another mutation writes the same
   relationship, the compensation of the first one finds its precondition
   satisfied and takes it back, and the second one commits. No metric and no
   error of either request says that the stores disagree. The same property fails
   if a process dies between the SpiceDB write and the commit
   (`Faults = {"crash"}`): nobody compensates then.
4. **The last administrator can be lost** (`last_admin`).
   `account_admin_roles.go:69-71` says that the fence is held "so a demotion and
   a deletion of the remaining admins cannot both pass". A dispatched deletion
   has no request row any more, and `clearUserBan` looks for nothing else. Until
   the worker has deleted the Identity, an unban reactivates it (an inactive
   Identity counts as banned), the administrators that remain are counted with
   the doomed one, and the other can be demoted.

## Proofs

All theorems hold for every value of the constants under the `ASSUME`s of the
modules: distinct names for "none", a finite set of members, a positive lease,
deadlines that sum to less than the lease, a finite set of accounts, and bounds
that are natural numbers.

**CampaignStoreProofs.** `StoreInvariant` is inductive; most of its parts are
not inductive alone. That a sending run still has a pending recipient needs the
target to be the number of its rows, and that a Campaign has one active run needs
the exact agreement of its status with its runs. `StoreTypeCorrect`, `CampaignAgreement`,
`RunsCompleteOnTime`, `RunResultsJustified`, `ClaimsCleared` and
`CountersCorrect` follow. Counting is reduced to a few lemmas on the cardinality
of a set of members when one row changes.

**DeliveryContractProofs.** `StoreImplementsContract`: under the mapping of run
status to phase and of recipient status to outcome, the initial states agree and
every transaction is a contract step or a stutter. The closing step uses
`StoreInvariant`: the code decides from counts and a target, the contract from
the outcomes. `StoreResultsFinal` is the action property.

**CampaignDeliveryProofs.** `DeliveryImplementsStore` shows that every step of
the delivery processes is a step of the store or leaves it alone, which carries
all theorems of the store over to the running system. `DeliveryInvariant`, under
`ASSUME DeadlinesKept`, is the argument for "claim, deadline, lease": a busy
worker's recipient is pending under its own claim, and the rest of its lease is
longer than the rest of its deadlines (plus the persist budget while it has not
reached it); so at most one worker is busy with a recipient, and as long as no
result is stored and no worker is about to store one, no acceptance is
unaccounted for. `OneWorkerPerRecipient`, `DuplicatesAreAmbiguous` and
`FailuresAreReal` are its consequences. `DeliveryImplementsContract` and
`DeliveryResultsFinal` chain the refinements: the running system implements the
store, the store the contract. `ReportsAreTrue` joins the two halves: what leases
and deadlines guarantee of one recipient (`DeliveryInvariant`) and what the store
guarantees of a run's result give that a completed run reports what the providers
did. TLC has checked its formula, `RunReportIsTrue`, on the instance of
`delivery_safety`; it is in no run. `SentMeansAccepted` and `LiveClaimTheorem`
need no deadlines: the claim column alone decides who may touch a recipient whose
lease runs, so the second needs no more than the types.

**AuthzMutationProofs.** `AuthzInv` is inductive for any requests, batches and
faults. It has five parts: types (`TypeOK`; a mutation may be without the lock,
the holder of the lock is in a mutation); what a batch and its outstanding writes
can be, and that its pre-state is still that of the rows while the lock is held
(`BatchesExact`); that what the lock's holder is about to commit is written
(`WrittenExact`); that without a fault everybody inside a mutation has the lock
(`FaultlessExact`); and `AuthorityAgrees`. The last is not inductive alone: a
commit keeps it because of `WrittenExact`, a rollback because a mutation that is
no longer `Accounts` has nothing of its own in SpiceDB, and a write without the
lock because the only keys on which it can harm somebody are in `Overrun`.
`AuthorityIsAccounted`, `LockSerializes` and the action property
`RowsFollowRelationships` follow, `AuthzTypeCorrect` is proved by itself.

**JobPipelineProofs.** `PipelineInvariant`: `PipelineInv` is types, leadership
and the queue. That an open session behind a raised flag holds the lock is not
inductive: it needs where the elector stands (`ElectorInv`), because a lock that
is neither behind a raised flag nor about to be unlocked would go back to the
pool. That a dead letter is earned needs an account of the reads: each read of a
message but the last is spent, and so is the last unless a worker is still in it
(`ReadsInv`), and a worker's count is one of them (`WorkerInv`).
`LeadershipTheorem`, `DispatchTheorem`, `OneHandlerTheorem`, `DeadLetterTheorem`
and `PipelineTypes` follow, for any number of replicas, messages and faults.
`PipelineImplementsContract` is the refinement of `JobContract`, of which a refused
dispatch is a stutter. It needs that a
row which is still due has no message yet (`DispatchedOnce`); a hand-off that
comes too late is shown to change nothing but the worker.

**AccountLifecycleProofs.** `AccountInvariant`: `IInv` is types, three facts of
each account (what a flow relies on at its next call, `FlowInv`; how the
authorities end, `EndInv`; who still has a half-deleted account, `PlanInv`) and
`AnAdminRemains`. Each step acts on one account: the lemma `StepKeeps` reduces
the invariant to that account and to whether it was the administrator that
remained, and one lemma per action does the rest. `AdminTheorem` uses that a
confirmation, a dispatch or a demotion of an administrator leaves another one
active and that a ban takes only accounts with the user role. `DispatchFinalTheorem`,
`RecordedOnceTheorem`, `OrderTheorem`, `ResumedTheorem` and `AccountTypes`
follow, and `DriftTheorem`, `BanTheorem` and `OneWayTheorem` are action
properties. The last needs `FlowInv` for the worker's own last calls: a Member
that it finalizes has not ended in the other mode while the worker was on its
way, and a tombstone's command completes only behind a Member that has ended.

**PublicAssetProofs.** `AssetInvariant`: `IInv` is types, `BindInv` (a bound asset
is ready, and so is one that a request is about to bind under its lock), `JobInv`
(a row that the job has locked is unready and locked by no other run of it, and
one that it erases as pending never leaves the way to deletion), `EraseInv` (rows and bucket, extended to the promotion
that has uploaded and the job that has erased but has not committed yet) and
`FileInv` (one asset per File, what a deleted File's asset may still be, and that
an attachment's File is not deleted before it commits).
`BoundIsReady` is not inductive because the store of a binding relies on a check
made one step earlier; `RowsAgreeWithBucket` is not, because a promotion makes
ready what it uploaded earlier. `BoundTheorem`, `BucketTheorem`,
`OneAssetTheorem`, `WithdrawnTheorem` and `AssetTypes` follow.
`AssetsImplementContract` is the refinement of `AssetContract`: `BindInv` gives
that a binding takes up a ready asset and that nothing which is withdrawn or
erased is bound, `JobInv` that the row which the job removes as expired is still
unready.

The type invariants of `AuthzMutation`, `JobPipeline`, `AccountLifecycle` and
`PublicAsset` are proved and not repeated in the runs.

Only model-checked: `RunCompletes`, `MutationEnds`, `DueIsSettled`,
`LeaderReturns`, `PendingLocksOut`, `CancelRestores` and `DispatchedEnds`;
liveness under fairness is out of the prover's reach.

## Not modelled

Rendering, templates, audit rows other than `account.deleted`, metrics and
logging; the rate limit of bulk delivery; direct email, which has neither a
recipient row nor a claim; suppression rows (a suppression is a reason for
`Finish` or `BulkFinish`); several Campaigns (their rows are disjoint); clock
skew; the unconditional relationship writes and the session variant of the
authorization lock; HTTP servers, broadcast subscribers and telemetry at
shutdown; several cron entries and several queues (they share the leader and
nothing else); the avatar command, emails and notification snapshots of a
deletion; the change of an account's email address and its sign-in methods; a
Kratos write that arrives after the call that issued it has timed out; a role
change that is compensated after its context has ended, as the account flows would
meet it; the kinds,
digests and addresses of assets, media generations, the OG image protector,
derivatives and mesh outputs of a File, and whether the cleanup job is run at all
(`PublicAsset` has no fairness); and the components that the inventory lists and the module table does not.

## Plan

In order of importance:

1. `MutationPipeline`: global lock, several Identity locks and roots
   (`mutation/mutation.go`, `identitystate/fence.go`,
   `authorizationtarget/target.go`), composed with `AuthzMutation`; who waits for
   whom, and decisions on locked state.
2. Beside `PublicAsset`: OG image generations and their protection
   (`og/lifecycle.go`), transcode jobs against late and duplicate results
   (`transcode/tracker.go`), media generations, then multipart upload and
   compensated storage changes (`filemedia`).
3. The email change of an account and its reconciler, beside `AccountLifecycle`.
4. Content block revisions and collaboration.
5. The resume scan over more runs than its batch.
6. Proofs of the safety invariants of the modules above.

## Running

In this directory:

    tlc -workers 2 -config MCCampaignDelivery_safety.cfg MCCampaignDelivery
    tlapm CampaignDeliveryProofs.tla
