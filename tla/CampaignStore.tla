--------------------------- MODULE CampaignStore ---------------------------
(***************************************************************************)
(* The durable state of email delivery and the database transactions that  *)
(* change it: internal/campaign, its PostgreSQL store and the adapters     *)
(* that open the transactions.  Every transaction locks the Campaign row,  *)
(* then the run row, then the recipient row before it reads what it        *)
(* decides on, so each one is a single action here.  Who calls them, when, *)
(* and how often is left open: any action may be taken whenever its guard  *)
(* holds.  CampaignDelivery adds the queues and the workers.               *)
(*                                                                         *)
(* One Campaign is modelled, with the runs it creates one after another,   *)
(* and the legal notice runs of a set of policy versions.                  *)
(***************************************************************************)
EXTENDS Integers, FiniteSets

CONSTANTS
    CampaignRuns,    \* run ids the Campaign may come to create
    LegalRuns,       \* run ids of legal notices
    Policies,        \* policy versions that legal notices refer to
    PolicyOf,        \* PolicyOf[r]: the version that legal run r announces
    UpdateNotices,   \* the legal runs that carry the version's update event
    Members,         \* normalized recipient addresses
    Workers,         \* a worker's current claim id (a fresh UUID per attempt)
    NoClaim,         \* delivery_claim_id IS NULL
    FailureStatuses, \* the terminal results that did not reach a provider
    LeaseTicks       \* CampaignDeliveryRecipientClaimLease

ASSUME RunsAssumption ==
    /\ CampaignRuns \cap LegalRuns = {}
    /\ PolicyOf \in [LegalRuns -> Policies]
    /\ UpdateNotices \subseteq LegalRuns
ASSUME MembersAssumption == IsFiniteSet(Members)
ASSUME ClaimAssumption == NoClaim \notin Workers
ASSUME StatusAssumption ==
    /\ FailureStatuses \subseteq
          {"skipped", "permanent_failed", "blocked", "suppressed"}
    /\ "skipped" \in FailureStatuses
ASSUME LeaseAssumption == LeaseTicks \in Nat \ {0}

Runs == CampaignRuns \cup LegalRuns

VARIABLES
    campaignStatus,    \* campaign.status, "deleted" once the row is gone
    campaignSentCount, \* campaign.sent_count
    runStatus,         \* email_delivery_run.status, "absent" before creation
    due,               \* the runs whose scheduled_at has passed
    targetCount,       \* email_delivery_run.target_count
    sentCount,         \* email_delivery_run.sent_count
    skippedCount,      \* email_delivery_run.skipped_count
    status,            \* email_delivery_recipient.status per run and member
    claim,             \* delivery_claim_id
    lease,             \* what is left of the lease; 0: none or expired
    deletedPolicies    \* policy versions that were deleted

campaignVars == <<campaignStatus, campaignSentCount>>
runVars == <<runStatus, due, targetCount, sentCount, skippedCount>>
recipientVars == <<status, claim, lease>>
storeVars == <<campaignVars, runVars, recipientVars, deletedPolicies>>

ReachedProvider == {"sent", "delivered", "bounced", "complained"}
TerminalStatuses == ReachedProvider \cup FailureStatuses
RecipientStatuses == {"absent", "pending"} \cup TerminalStatuses
CompletedStatuses == {"sent", "failed", "skipped", "cancelled"}
RunStatuses == {"absent", "scheduled", "sending"} \cup CompletedStatuses
CampaignStatuses == {"draft", "scheduled", "sending", "sent", "failed", "deleted"}

\* The rows of one run, st = status[r], counted as CompletionCounts does.
Recipients(st) == {m \in Members : st[m] # "absent"}
With(st, S) == {m \in Members : st[m] \in S}
Accepted(st) == With(st, {"sent", "delivered"})

\* Scheduled or sending.
Active(r) == runStatus[r] \in {"scheduled", "sending"}

ClaimLive(r, m) == claim[r][m] # NoClaim /\ lease[r][m] > 0

StoreInit ==
    /\ campaignStatus = "draft"
    /\ campaignSentCount = 0
    /\ runStatus = [r \in Runs |-> "absent"]
    /\ due = {}
    /\ targetCount = [r \in Runs |-> 0]
    /\ sentCount = [r \in Runs |-> 0]
    /\ skippedCount = [r \in Runs |-> 0]
    /\ status = [r \in Runs |-> [m \in Members |-> "absent"]]
    /\ claim = [r \in Runs |-> [m \in Members |-> NoClaim]]
    /\ lease = [r \in Runs |-> [m \in Members |-> 0]]
    /\ deletedPolicies = {}

-----------------------------------------------------------------------------
(* Campaign lifecycle.                                                      *)

\* A draft is scheduled and its sealed run is inserted beside it.
ScheduleCampaign(r) ==
    /\ r \in CampaignRuns
    /\ campaignStatus = "draft"
    /\ runStatus[r] = "absent"
    /\ campaignStatus' = "scheduled"
    /\ runStatus' = [runStatus EXCEPT ![r] = "scheduled"]
    /\ UNCHANGED <<campaignSentCount, due, targetCount, sentCount, skippedCount,
                   recipientVars, deletedPolicies>>

\* ErrDeliveryStarted: a run that is sending refuses the cancellation.
NoCampaignRunSending == \A r \in CampaignRuns : runStatus[r] # "sending"

\* CancelActiveRuns over runStatus, once no run is sending.
ScheduledCancelled(R) ==
    [r \in Runs |-> IF r \in R /\ runStatus[r] = "scheduled"
                    THEN "cancelled" ELSE runStatus[r]]

\* Seeded fault: the Campaign returns to draft and its run stays scheduled.
CancelCampaignOnly ==
    /\ campaignStatus = "scheduled"
    /\ NoCampaignRunSending
    /\ campaignStatus' = "draft"
    /\ UNCHANGED <<campaignSentCount, runVars, recipientVars, deletedPolicies>>

CancelCampaign ==
    /\ campaignStatus = "scheduled"
    /\ NoCampaignRunSending
    /\ campaignStatus' = "draft"
    /\ runStatus' = ScheduledCancelled(CampaignRuns)
    /\ UNCHANGED <<campaignSentCount, due, targetCount, sentCount, skippedCount,
                   recipientVars, deletedPolicies>>

\* Archiving the criteria cancels the runs without asking whether one of
\* them is sending, and returns only a scheduled Campaign to draft.
ReleaseCriteriaForArchive ==
    /\ \E r \in CampaignRuns : runStatus[r] = "scheduled"
    /\ runStatus' = ScheduledCancelled(CampaignRuns)
    /\ campaignStatus' =
          IF campaignStatus = "scheduled" THEN "draft" ELSE campaignStatus
    /\ UNCHANGED <<campaignSentCount, due, targetCount, sentCount, skippedCount,
                   recipientVars, deletedPolicies>>

\* The draft starts at once for the members E that its target selects.
SendCampaignNow(r, E) ==
    /\ r \in CampaignRuns
    /\ campaignStatus = "draft"
    /\ runStatus[r] = "absent"
    /\ E # {}
    /\ NoCampaignRunSending
    /\ campaignStatus' = "sending"
    /\ campaignSentCount' = 0
    /\ runStatus' = [ScheduledCancelled(CampaignRuns) EXCEPT ![r] = "sending"]
    /\ due' = due \cup {r}
    /\ targetCount' = [targetCount EXCEPT ![r] = Cardinality(E)]
    /\ UNCHANGED <<sentCount, skippedCount, recipientVars, deletedPolicies>>

\* Only a draft without delivery history is deleted.
DeleteCampaign ==
    /\ campaignStatus = "draft"
    /\ \A r \in CampaignRuns : runStatus[r] = "absent"
    /\ campaignStatus' = "deleted"
    /\ UNCHANGED <<campaignSentCount, runVars, recipientVars, deletedPolicies>>

-----------------------------------------------------------------------------
(* Legal notice runs.                                                       *)

RunsOf(p) == {r \in LegalRuns : PolicyOf[r] = p}

SealLegalNotice(r) ==
    /\ r \in LegalRuns
    /\ PolicyOf[r] \notin deletedPolicies
    /\ runStatus[r] = "absent"
    /\ runStatus' = [runStatus EXCEPT ![r] = "scheduled"]
    /\ UNCHANGED <<campaignVars, due, targetCount, sentCount, skippedCount,
                   recipientVars, deletedPolicies>>

\* Cancels the version's scheduled runs unless one has started.
CancelScheduledRuns(p) ==
    /\ \A r \in RunsOf(p) : runStatus[r] \notin {"sending", "sent"}
    /\ \E r \in RunsOf(p) : runStatus[r] = "scheduled"
    /\ runStatus' = ScheduledCancelled(RunsOf(p))
    /\ UNCHANGED <<campaignVars, due, targetCount, sentCount, skippedCount,
                   recipientVars, deletedPolicies>>

\* After activation only the scheduled update notices go, whatever the
\* version's other runs are doing.
CancelUpdateNoticeAfterActivation(p) ==
    /\ \E r \in RunsOf(p) \cap UpdateNotices : runStatus[r] = "scheduled"
    /\ runStatus' = ScheduledCancelled(RunsOf(p) \cap UpdateNotices)
    /\ UNCHANGED <<campaignVars, due, targetCount, sentCount, skippedCount,
                   recipientVars, deletedPolicies>>

\* Seeded fault: recipients whose claim is live are left pending, and the
\* skipped recipients replace the counter instead of adding to it.
StopUnclaimedRecipients(p) ==
    LET hit(r, m) == r \in RunsOf(p) /\ status[r][m] = "pending" /\ ~ClaimLive(r, m) IN
    /\ p \notin deletedPolicies
    /\ deletedPolicies' = deletedPolicies \cup {p}
    /\ status' = [r \in Runs |-> [m \in Members |->
                    IF hit(r, m) THEN "skipped" ELSE status[r][m]]]
    /\ skippedCount' = [r \in Runs |-> Cardinality({m \in Members : hit(r, m)})]
    /\ runStatus' = [r \in Runs |->
                    IF r \in RunsOf(p) /\ Active(r) THEN "cancelled" ELSE runStatus[r]]
    /\ UNCHANGED <<campaignVars, due, targetCount, sentCount, claim, lease>>

\* Deleting a version ends every pending recipient of its runs, claimed or
\* not, and cancels the runs that are scheduled or sending.
StopRunsForDeletedPolicy(p) ==
    LET hit(r, m) == r \in RunsOf(p) /\ status[r][m] = "pending" IN
    /\ p \notin deletedPolicies
    /\ deletedPolicies' = deletedPolicies \cup {p}
    /\ status' = [r \in Runs |-> [m \in Members |->
                    IF hit(r, m) THEN "skipped" ELSE status[r][m]]]
    /\ claim' = [r \in Runs |-> [m \in Members |->
                    IF hit(r, m) THEN NoClaim ELSE claim[r][m]]]
    /\ lease' = [r \in Runs |-> [m \in Members |->
                    IF hit(r, m) THEN 0 ELSE lease[r][m]]]
    /\ skippedCount' = [r \in Runs |->
                    skippedCount[r] + Cardinality({m \in Members : hit(r, m)})]
    /\ runStatus' = [r \in Runs |->
                    IF r \in RunsOf(p) /\ runStatus[r] \in {"scheduled", "sending"}
                    THEN "cancelled" ELSE runStatus[r]]
    /\ UNCHANGED <<campaignVars, due, targetCount, sentCount>>

-----------------------------------------------------------------------------
(* Dispatch and materialization.                                            *)

TimeReaches(r) ==
    /\ runStatus[r] = "scheduled"
    /\ r \notin due
    /\ due' = due \cup {r}
    /\ UNCHANGED <<campaignVars, runStatus, targetCount, sentCount, skippedCount,
                   recipientVars, deletedPolicies>>

\* transitionCampaignDeliveryRunToDispatch with no recipient.
DispatchEmptyCampaign(r) ==
    /\ r \in CampaignRuns
    /\ runStatus' = [runStatus EXCEPT ![r] = "failed"]
    /\ campaignStatus' = "failed"
    /\ UNCHANGED <<campaignSentCount, targetCount>>

\* ... and with recipients; DispatchCampaign finds no row and the whole
\* transaction rolls back unless the Campaign is scheduled or sending.
DispatchToCampaign(r, E) ==
    /\ r \in CampaignRuns
    /\ campaignStatus \in {"scheduled", "sending"}
    /\ runStatus' = [runStatus EXCEPT ![r] = "sending"]
    /\ targetCount' = [targetCount EXCEPT ![r] = Cardinality(E)]
    /\ campaignStatus' = "sending"
    /\ campaignSentCount' = 0

\* transitionLegalNoticeDeliveryRunToDispatch.
DispatchLegalNotice(r, E) ==
    /\ r \in LegalRuns
    /\ runStatus' = [runStatus EXCEPT ![r] = IF E = {} THEN "skipped" ELSE "sending"]
    /\ targetCount' = [targetCount EXCEPT ![r] = Cardinality(E)]
    /\ UNCHANGED campaignVars

\* E: the members that the run's sealed target selects at this moment.
DispatchEmailDeliveryRun(r, E) ==
    /\ runStatus[r] = "scheduled"
    /\ r \in due
    /\ \/ E = {} /\ DispatchEmptyCampaign(r)
       \/ E # {} /\ DispatchToCampaign(r, E)
       \/ DispatchLegalNotice(r, E)
    /\ UNCHANGED <<due, sentCount, skippedCount, recipientVars, deletedPolicies>>

\* Inserts a pending row for every selected member without one and makes the
\* number of rows the target.
MaterializeCampaignDeliveryRun(r, E) ==
    /\ runStatus[r] = "sending"
    /\ LET rows == [m \in Members |->
                       IF m \in E /\ status[r][m] = "absent"
                       THEN "pending" ELSE status[r][m]] IN
       /\ status' = [status EXCEPT ![r] = rows]
       /\ targetCount' = [targetCount EXCEPT ![r] = Cardinality(Recipients(rows))]
    /\ UNCHANGED <<campaignVars, runStatus, due, sentCount, skippedCount,
                   claim, lease, deletedPolicies>>

-----------------------------------------------------------------------------
(* Recipient claims and results.                                            *)

\* Seeded faults: a claim that does not look at the lease, or at the status.
ClaimOverLease(w, r, m) ==
    /\ status[r][m] = "pending"
    /\ claim' = [claim EXCEPT ![r][m] = w]
    /\ lease' = [lease EXCEPT ![r][m] = LeaseTicks]
    /\ UNCHANGED <<campaignVars, runVars, status, deletedPolicies>>

ClaimInAnyStatus(w, r, m) ==
    /\ status[r][m] # "absent"
    /\ ~ClaimLive(r, m)
    /\ claim' = [claim EXCEPT ![r][m] = w]
    /\ lease' = [lease EXCEPT ![r][m] = LeaseTicks]
    /\ UNCHANGED <<campaignVars, runVars, status, deletedPolicies>>

\* The lease starts when every lock is held.
ClaimCampaignDeliveryRecipient(w, r, m) ==
    /\ status[r][m] = "pending"
    /\ ~ClaimLive(r, m)
    /\ claim' = [claim EXCEPT ![r][m] = w]
    /\ lease' = [lease EXCEPT ![r][m] = LeaseTicks]
    /\ UNCHANGED <<campaignVars, runVars, status, deletedPolicies>>

\* Only the exact owner releases, expired or not.
ReleaseCampaignDeliveryRecipientClaim(w, r, m) ==
    /\ status[r][m] = "pending"
    /\ claim[r][m] = w
    /\ claim' = [claim EXCEPT ![r][m] = NoClaim]
    /\ lease' = [lease EXCEPT ![r][m] = 0]
    /\ UNCHANGED <<campaignVars, runVars, status, deletedPolicies>>

\* Seeded faults in the decision: an incomplete run gets the decision's empty
\* status; settled recipients count as accepted; returned recipients count as
\* accepted.
DecideUnguarded(r, st, target) ==
    IF With(st, {"pending"}) # {} THEN "" ELSE IF Accepted(st) # {} THEN "sent" ELSE "failed"

DecideBySettled(r, st, target) ==
    IF With(st, {"pending"}) # {} THEN "sending"
    ELSE IF Recipients(st) # {} THEN "sent" ELSE "failed"

DecideByReturned(r, st, target) ==
    IF With(st, {"pending"}) # {} THEN "sending"
    ELSE IF With(st, ReachedProvider) # {} THEN "sent" ELSE "failed"

\* What the rows st of run r and its target decide: the run's completed
\* status, or "sending" while the run is incomplete.
DecideCompletion(r, st, target) ==
    IF Cardinality(Recipients(st)) < target \/ With(st, {"pending"}) # {}
    THEN "sending"
    ELSE IF Accepted(st) # {} THEN "sent"
    ELSE IF r \in LegalRuns /\ target = 0 /\ Recipients(st) = {} THEN "skipped"
    ELSE "failed"

\* Runs after every stored result, in its transaction, with st the run's rows
\* after that result.
FinalizeLockedEmailDeliveryRun(r, st) ==
    LET decision == DecideCompletion(r, st, targetCount[r])
        completesCampaign == r \in CampaignRuns /\ decision # "sending" IN
    IF runStatus[r] # "sending"
    THEN UNCHANGED <<campaignVars, runStatus, sentCount, skippedCount>>
    ELSE /\ sentCount' = [sentCount EXCEPT ![r] = Cardinality(Accepted(st))]
         /\ skippedCount' =
               [skippedCount EXCEPT ![r] = Cardinality(With(st, {"skipped"}))]
         /\ runStatus' = [runStatus EXCEPT ![r] = decision]
         /\ campaignStatus' = IF completesCampaign THEN decision ELSE campaignStatus
         /\ campaignSentCount' = IF completesCampaign /\ decision = "sent"
                                 THEN Cardinality(Accepted(st))
                                 ELSE campaignSentCount

StoreRecipientResult(r, m, s) ==
    /\ status' = [status EXCEPT ![r][m] = s]
    /\ claim' = [claim EXCEPT ![r][m] = NoClaim]
    /\ lease' = [lease EXCEPT ![r][m] = 0]
    /\ FinalizeLockedEmailDeliveryRun(r, [status[r] EXCEPT ![m] = s])
    /\ UNCHANGED <<due, targetCount, deletedPolicies>>

\* A worker's result needs its own live lease (else ErrClaimLost); a result
\* for a terminal recipient is a no-op.
MarkClaimedResult(w, r, m, s) ==
    /\ status[r][m] = "pending"
    /\ claim[r][m] = w
    /\ lease[r][m] > 0
    /\ StoreRecipientResult(r, m, s)

\* Seeded faults: an unclaimed result that overwrites a terminal one, or that
\* does not look at the claim.
MarkUnclaimedOverResult(r, m, s) ==
    /\ status[r][m] # "absent"
    /\ ~ClaimLive(r, m)
    /\ StoreRecipientResult(r, m, s)

MarkUnclaimedOverClaim(r, m, s) ==
    /\ status[r][m] = "pending"
    /\ StoreRecipientResult(r, m, s)

\* Bulk dispatch ends a suppressed or contextless recipient without a claim
\* and is refused while somebody's claim is live (ErrClaimed).
MarkUnclaimedResult(r, m, s) ==
    /\ status[r][m] = "pending"
    /\ ~ClaimLive(r, m)
    /\ StoreRecipientResult(r, m, s)

-----------------------------------------------------------------------------
(* Provider notifications.                                                  *)

NextSESProviderRecipientStatus(current, outcome) ==
    IF \/ outcome = "delivered" /\ current = "sent"
       \/ outcome = "bounced" /\ current \in {"sent", "delivered"}
       \/ outcome = "complained" /\ current \in {"sent", "delivered", "bounced"}
    THEN outcome ELSE current

\* Seeded fault: the run's counters are not refreshed.
ApplyOutcomeWithoutCounts(r, m, outcome) ==
    /\ status[r][m] \in ReachedProvider
    /\ status' = [status EXCEPT ![r][m] =
                    NextSESProviderRecipientStatus(status[r][m], outcome)]
    /\ UNCHANGED <<campaignVars, runVars, claim, lease, deletedPolicies>>

\* Only a row that carries the provider's message id matches.
ApplySESProviderOutcome(r, m, outcome) ==
    /\ status[r][m] \in ReachedProvider
    /\ LET next == NextSESProviderRecipientStatus(status[r][m], outcome)
           st == [status[r] EXCEPT ![m] = next] IN
       /\ status' = [status EXCEPT ![r] = st]
       /\ sentCount' = [sentCount EXCEPT ![r] = Cardinality(Accepted(st))]
       /\ skippedCount' =
             [skippedCount EXCEPT ![r] = Cardinality(With(st, {"skipped"}))]
    /\ UNCHANGED <<campaignVars, runStatus, due, targetCount, claim, lease,
                   deletedPolicies>>

\* One unit of the database clock passes.
LeasesTick ==
    lease' = [r \in Runs |-> [m \in Members |->
                IF lease[r][m] > 0 THEN lease[r][m] - 1 ELSE 0]]

LeaseTick ==
    /\ \E r \in Runs, m \in Members : lease[r][m] > 0
    /\ LeasesTick
    /\ UNCHANGED <<campaignVars, runVars, status, claim, deletedPolicies>>

-----------------------------------------------------------------------------
CampaignLifecycle ==
    \/ CancelCampaign
    \/ ReleaseCriteriaForArchive
    \/ DeleteCampaign
    \/ \E r \in CampaignRuns : ScheduleCampaign(r)

LegalLifecycle ==
    \/ \E r \in LegalRuns : SealLegalNotice(r)
    \/ \E p \in Policies : \/ CancelScheduledRuns(p)
                           \/ CancelUpdateNoticeAfterActivation(p)
                           \/ StopRunsForDeletedPolicy(p)

RecipientStep(r, m) ==
    \/ \E w \in Workers : ClaimCampaignDeliveryRecipient(w, r, m)
    \/ \E w \in Workers : ReleaseCampaignDeliveryRecipientClaim(w, r, m)
    \/ \E w \in Workers, s \in {"sent"} \cup FailureStatuses :
          MarkClaimedResult(w, r, m, s)
    \/ \E s \in FailureStatuses : MarkUnclaimedResult(r, m, s)
    \/ \E o \in {"delivered", "bounced", "complained"} :
          ApplySESProviderOutcome(r, m, o)

StoreNext ==
    \/ CampaignLifecycle
    \/ LegalLifecycle
    \/ \E r \in Runs : TimeReaches(r)
    \/ \E r \in CampaignRuns, E \in SUBSET Members : SendCampaignNow(r, E)
    \/ \E r \in Runs, E \in SUBSET Members : DispatchEmailDeliveryRun(r, E)
    \/ \E r \in Runs, E \in SUBSET Members : MaterializeCampaignDeliveryRun(r, E)
    \/ \E r \in Runs, m \in Members : RecipientStep(r, m)
    \/ LeaseTick

StoreSpec == StoreInit /\ [][StoreNext]_storeVars

-----------------------------------------------------------------------------
(* Properties.                                                              *)

\* Every variable has its type, and time left on a lease belongs to a claim.
StoreTypeOK ==
    /\ campaignStatus \in CampaignStatuses
    /\ campaignSentCount \in Nat
    /\ runStatus \in [Runs -> RunStatuses]
    /\ due \subseteq Runs
    /\ targetCount \in [Runs -> Nat]
    /\ sentCount \in [Runs -> Nat]
    /\ skippedCount \in [Runs -> Nat]
    /\ status \in [Runs -> [Members -> RecipientStatuses]]
    /\ claim \in [Runs -> [Members -> Workers \cup {NoClaim}]]
    /\ lease \in [Runs -> [Members -> 0..LeaseTicks]]
    /\ deletedPolicies \subseteq Policies

\* At most one run of the Campaign is active; the Campaign is scheduled,
\* sending, sent or failed exactly when one of its runs is.
CampaignAgreesWithRuns ==
    /\ \A r, q \in CampaignRuns : Active(r) /\ Active(q) => r = q
    /\ \A s \in {"scheduled", "sending", "sent", "failed"} :
          campaignStatus = s <=> \E r \in CampaignRuns : runStatus[r] = s

\* Recipients exist only in runs that started.  A completed run has no pending
\* recipient, whatever way it completed; a sending run whose recipients were
\* materialized still has one, so some result is yet to complete it.
PendingOnlyWhileSending == \A r \in Runs :
    /\ runStatus[r] \in {"absent", "scheduled"} => Recipients(status[r]) = {}
    /\ runStatus[r] \in CompletedStatuses => With(status[r], {"pending"}) = {}
    /\ runStatus[r] = "sending" /\ Recipients(status[r]) # {}
          => With(status[r], {"pending"}) # {}

\* A run is reported sent only if a provider accepted some email of it, and
\* failed, skipped or (for a Campaign) cancelled only if none stands accepted.
ResultMatchesRecipients == \A r \in Runs :
    /\ runStatus[r] = "sent" => With(status[r], ReachedProvider) # {}
    /\ runStatus[r] \in {"failed", "skipped"} => Accepted(status[r]) = {}
    /\ runStatus[r] = "cancelled" /\ r \in CampaignRuns => Recipients(status[r]) = {}
    /\ r \in CampaignRuns => runStatus[r] # "skipped"

\* A terminal recipient holds no claim.
ClaimsOnlyOnPending == \A r \in Runs, m \in Members :
    /\ claim[r][m] # NoClaim => status[r][m] = "pending"
    /\ lease[r][m] > 0 => claim[r][m] # NoClaim

\* The run's stored counters are the counts of its rows, although results
\* recompute them, a deleted policy adds to them and notifications refresh
\* them; and the target is the number of rows once there are any.
CountersMatchRows == \A r \in Runs :
    /\ sentCount[r] = Cardinality(Accepted(status[r]))
    /\ skippedCount[r] = Cardinality(With(status[r], {"skipped"}))
    /\ Recipients(status[r]) # {} => targetCount[r] = Cardinality(Recipients(status[r]))

ProviderProgress == {<<"sent", "delivered">>, <<"sent", "bounced">>,
    <<"sent", "complained">>, <<"delivered", "bounced">>,
    <<"delivered", "complained">>, <<"bounced", "complained">>}

FinalStep ==
    /\ \A r \in Runs, m \in Members :
          status[r][m] \in TerminalStatuses =>
             \/ status'[r][m] = status[r][m]
             \/ <<status[r][m], status'[r][m]>> \in ProviderProgress
    /\ \A r \in Runs : runStatus[r] \in CompletedStatuses =>
                          runStatus'[r] = runStatus[r]

\* A result is final: nothing rewrites it except a provider's notification
\* that moves it forward; and a completed run never changes status again.
ResultsAreFinal == [][FinalStep]_storeVars

-----------------------------------------------------------------------------
(* The contract of delivery, which the store implements.                    *)

\* A run that ended without recipients found nobody to send to.
PhaseOf(rs, st) ==
    CASE rs = "absent" -> "none"
      [] rs = "scheduled" -> "waiting"
      [] rs = "sending" -> "open"
      [] rs = "cancelled" -> "withdrawn"
      [] rs = "sent" -> "sent"
      [] OTHER -> IF Recipients(st) = {} THEN "empty" ELSE "failed"

OutcomeOf(s) ==
    CASE s = "absent" -> "none"
      [] s = "pending" -> "unsettled"
      [] s \in {"sent", "delivered"} -> "accepted"
      [] s \in {"bounced", "complained"} -> "returned"
      [] OTHER -> "refused"

contractPhase == [r \in Runs |-> PhaseOf(runStatus[r], status[r])]
contractOutcome == [r \in Runs |-> [m \in Members |-> OutcomeOf(status[r][m])]]

Contract == INSTANCE DeliveryContract WITH
    phase <- contractPhase, outcome <- contractOutcome

\* The transactions implement the contract: a run closes exactly once, in the
\* transaction that stores its last result, as those results justify, although
\* the code decides from counts, a target and a status it read before.
ImplementsContract == Contract!Spec

=============================================================================
