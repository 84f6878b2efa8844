------------------------ MODULE CampaignStoreProofs ------------------------
(***************************************************************************)
(* Proofs about CampaignStore for any number of runs, members and workers. *)
(***************************************************************************)
EXTENDS CampaignStore, FiniteSetTheorems, TLAPS

\* Every set of members is finite and is counted by a natural number, which
\* is zero only for the empty set.
LEMMA MemberSets ==
    ASSUME NEW S \in SUBSET Members
    PROVE  /\ IsFiniteSet(S)
           /\ Cardinality(S) \in Nat
           /\ Cardinality(S) = 0 <=> S = {}
  BY MembersAssumption, FS_Subset, FS_CardinalityType, FS_EmptySet

LEMMA CountsAreNat ==
    ASSUME NEW st, NEW S
    PROVE  /\ Cardinality(Recipients(st)) \in Nat
           /\ Cardinality(With(st, S)) \in Nat
           /\ Cardinality(Accepted(st)) \in Nat
  BY MemberSets DEF Recipients, With, Accepted

\* What a run is decided to be is a run status, and for a Campaign run also a
\* Campaign status.
LEMMA DecisionType ==
    ASSUME NEW r \in Runs, NEW st, NEW t
    PROVE  DecideCompletion(r, st, t) \in {"sending", "sent", "skipped", "failed"}
           /\ (r \in CampaignRuns => DecideCompletion(r, st, t) # "skipped")
  BY RunsAssumption DEF DecideCompletion

LEMMA FinalizeType ==
    ASSUME StoreTypeOK, NEW r \in Runs, NEW st, FinalizeLockedEmailDeliveryRun(r, st)
    PROVE  /\ campaignStatus' \in CampaignStatuses
           /\ campaignSentCount' \in Nat
           /\ runStatus' \in [Runs -> RunStatuses]
           /\ sentCount' \in [Runs -> Nat]
           /\ skippedCount' \in [Runs -> Nat]
  <1>1. CASE runStatus[r] # "sending"
    BY <1>1 DEF FinalizeLockedEmailDeliveryRun, StoreTypeOK, campaignVars
  <1>2. CASE runStatus[r] = "sending"
    <2> DEFINE d == DecideCompletion(r, st, targetCount[r])
    <2>1. d \in {"sending", "sent", "skipped", "failed"} /\ (r \in CampaignRuns => d # "skipped")
      BY DecisionType
    <2>2. d \in RunStatuses
      BY <2>1 DEF RunStatuses, CompletedStatuses
    <2>3. r \in CampaignRuns => d \in CampaignStatuses
      BY <2>1 DEF CampaignStatuses
    <2>4. Cardinality(Accepted(st)) \in Nat /\ Cardinality(With(st, {"skipped"})) \in Nat
      BY CountsAreNat
    <2> HIDE DEF d
    <2> QED
      BY <1>2, <2>2, <2>3, <2>4 DEF FinalizeLockedEmailDeliveryRun, StoreTypeOK, d
  <1> QED
    BY <1>1, <1>2

LEMMA ResultType ==
    ASSUME StoreTypeOK, NEW r \in Runs, NEW m \in Members, NEW s \in RecipientStatuses,
           StoreRecipientResult(r, m, s)
    PROVE  StoreTypeOK'
  <1>1. FinalizeLockedEmailDeliveryRun(r, [status[r] EXCEPT ![m] = s])
    BY DEF StoreRecipientResult
  <1>2. /\ campaignStatus' \in CampaignStatuses
        /\ campaignSentCount' \in Nat
        /\ runStatus' \in [Runs -> RunStatuses]
        /\ sentCount' \in [Runs -> Nat]
        /\ skippedCount' \in [Runs -> Nat]
    BY <1>1, FinalizeType
  <1>3. status' \in [Runs -> [Members -> RecipientStatuses]]
    BY DEF StoreRecipientResult, StoreTypeOK
  <1>4. /\ claim' \in [Runs -> [Members -> Workers \cup {NoClaim}]]
        /\ lease' \in [Runs -> [Members -> 0..LeaseTicks]]
    BY LeaseAssumption DEF StoreRecipientResult, StoreTypeOK
  <1>5. UNCHANGED <<due, targetCount, deletedPolicies>>
    BY DEF StoreRecipientResult
  <1> QED
    BY <1>2, <1>3, <1>4, <1>5 DEF StoreTypeOK

LEMMA CancelledType ==
    ASSUME StoreTypeOK, NEW R
    PROVE  ScheduledCancelled(R) \in [Runs -> RunStatuses]
  BY DEF ScheduledCancelled, StoreTypeOK, RunStatuses, CompletedStatuses

\* Every transaction keeps the type invariant.
LEMMA TypeStep ==
    StoreTypeOK /\ [StoreNext]_storeVars => StoreTypeOK'
  <1> SUFFICES ASSUME StoreTypeOK, [StoreNext]_storeVars PROVE StoreTypeOK'
    OBVIOUS
  <1> USE DEF campaignVars, runVars, recipientVars, storeVars
  <1>1. CASE CampaignLifecycle
    <2>1. ScheduledCancelled(CampaignRuns) \in [Runs -> RunStatuses]
      BY CancelledType
    <2>2. CASE CancelCampaign
      BY <2>1, <2>2 DEF CancelCampaign, StoreTypeOK, CampaignStatuses
    <2>3. CASE ReleaseCriteriaForArchive
      BY <2>1, <2>3 DEF ReleaseCriteriaForArchive, StoreTypeOK, CampaignStatuses
    <2>4. CASE DeleteCampaign
      BY <2>4 DEF DeleteCampaign, StoreTypeOK, CampaignStatuses
    <2>5. ASSUME NEW r \in CampaignRuns, ScheduleCampaign(r) PROVE StoreTypeOK'
      BY <2>5 DEF ScheduleCampaign, StoreTypeOK, CampaignStatuses, RunStatuses, Runs
    <2> QED
      BY <1>1, <2>2, <2>3, <2>4, <2>5 DEF CampaignLifecycle
  <1>2. CASE LegalLifecycle
    <2>1. ASSUME NEW r \in LegalRuns, SealLegalNotice(r) PROVE StoreTypeOK'
      BY <2>1 DEF SealLegalNotice, StoreTypeOK, RunStatuses, Runs
    <2>2. ASSUME NEW p \in Policies, CancelScheduledRuns(p) PROVE StoreTypeOK'
      BY <2>2, CancelledType DEF CancelScheduledRuns, StoreTypeOK
    <2>3. ASSUME NEW p \in Policies, CancelUpdateNoticeAfterActivation(p) PROVE StoreTypeOK'
      BY <2>3, CancelledType DEF CancelUpdateNoticeAfterActivation, StoreTypeOK
    <2>4. ASSUME NEW p \in Policies, StopRunsForDeletedPolicy(p) PROVE StoreTypeOK'
      <3> DEFINE hits(r) == {m \in Members : r \in RunsOf(p) /\ status[r][m] = "pending"}
      <3>1. \A r \in Runs : Cardinality(hits(r)) \in Nat
        BY MemberSets
      <3>2. skippedCount' = [r \in Runs |-> skippedCount[r] + Cardinality(hits(r))]
        BY <2>4 DEF StopRunsForDeletedPolicy
      <3>3. skippedCount' \in [Runs -> Nat]
        <4> HIDE DEF hits
        <4> QED
          BY <3>1, <3>2 DEF StoreTypeOK
      <3>4. "skipped" \in RecipientStatuses
        BY StatusAssumption DEF RecipientStatuses, TerminalStatuses
      <3>5. status' \in [Runs -> [Members -> RecipientStatuses]]
        BY <2>4, <3>4 DEF StopRunsForDeletedPolicy, StoreTypeOK
      <3>6. /\ claim' \in [Runs -> [Members -> Workers \cup {NoClaim}]]
            /\ lease' \in [Runs -> [Members -> 0..LeaseTicks]]
        BY <2>4, LeaseAssumption DEF StopRunsForDeletedPolicy, StoreTypeOK
      <3>7. runStatus' \in [Runs -> RunStatuses]
        BY <2>4 DEF StopRunsForDeletedPolicy, StoreTypeOK, RunStatuses, CompletedStatuses
      <3> QED
        BY <2>4, <3>3, <3>5, <3>6, <3>7 DEF StopRunsForDeletedPolicy, StoreTypeOK
    <2> QED
      BY <1>2, <2>1, <2>2, <2>3, <2>4 DEF LegalLifecycle
  <1>3. ASSUME NEW r \in Runs, TimeReaches(r) PROVE StoreTypeOK'
    BY <1>3 DEF TimeReaches, StoreTypeOK
  <1>4. ASSUME NEW r \in CampaignRuns, NEW E \in SUBSET Members, SendCampaignNow(r, E)
        PROVE StoreTypeOK'
    <2>1. Cardinality(E) \in Nat /\ ScheduledCancelled(CampaignRuns) \in [Runs -> RunStatuses]
      BY MemberSets, CancelledType
    <2> QED
      BY <1>4, <2>1 DEF SendCampaignNow, StoreTypeOK, CampaignStatuses, RunStatuses, Runs
  <1>5. ASSUME NEW r \in Runs, NEW E \in SUBSET Members, DispatchEmailDeliveryRun(r, E)
        PROVE StoreTypeOK'
    <2>1. Cardinality(E) \in Nat
      BY MemberSets
    <2>2. {"sending", "failed", "skipped"} \subseteq RunStatuses
      BY DEF RunStatuses, CompletedStatuses
    <2>3. UNCHANGED <<due, sentCount, skippedCount, recipientVars, deletedPolicies>>
      BY <1>5 DEF DispatchEmailDeliveryRun
    <2>4. CASE DispatchEmptyCampaign(r)
      BY <2>2, <2>3, <2>4 DEF DispatchEmptyCampaign, StoreTypeOK, CampaignStatuses
    <2>5. CASE DispatchToCampaign(r, E)
      BY <2>1, <2>2, <2>3, <2>5 DEF DispatchToCampaign, StoreTypeOK, CampaignStatuses
    <2>6. CASE DispatchLegalNotice(r, E)
      BY <2>1, <2>2, <2>3, <2>6 DEF DispatchLegalNotice, StoreTypeOK
    <2> QED
      BY <1>5, <2>4, <2>5, <2>6 DEF DispatchEmailDeliveryRun
  <1>6. ASSUME NEW r \in Runs, NEW E \in SUBSET Members, MaterializeCampaignDeliveryRun(r, E)
        PROVE StoreTypeOK'
    <2> DEFINE rows == [m \in Members |-> IF m \in E /\ status[r][m] = "absent"
                                          THEN "pending" ELSE status[r][m]]
    <2>1. rows \in [Members -> RecipientStatuses]
      BY DEF StoreTypeOK, RecipientStatuses
    <2>2. Cardinality(Recipients(rows)) \in Nat
      BY CountsAreNat
    <2>3. /\ status' = [status EXCEPT ![r] = rows]
          /\ targetCount' = [targetCount EXCEPT ![r] = Cardinality(Recipients(rows))]
      BY <1>6 DEF MaterializeCampaignDeliveryRun
    <2> HIDE DEF rows
    <2> QED
      BY <1>6, <2>1, <2>2, <2>3 DEF MaterializeCampaignDeliveryRun, StoreTypeOK
  <1>7. ASSUME NEW r \in Runs, NEW m \in Members, RecipientStep(r, m) PROVE StoreTypeOK'
    <2>1. ASSUME NEW w \in Workers, ClaimCampaignDeliveryRecipient(w, r, m) PROVE StoreTypeOK'
      BY <2>1, LeaseAssumption DEF ClaimCampaignDeliveryRecipient, StoreTypeOK
    <2>2. ASSUME NEW w \in Workers, ReleaseCampaignDeliveryRecipientClaim(w, r, m)
          PROVE StoreTypeOK'
      BY <2>2, LeaseAssumption DEF ReleaseCampaignDeliveryRecipientClaim, StoreTypeOK
    <2>3. ASSUME NEW s \in {"sent"} \cup FailureStatuses, StoreRecipientResult(r, m, s)
          PROVE StoreTypeOK'
      <3>1. s \in RecipientStatuses
        BY DEF RecipientStatuses, TerminalStatuses, ReachedProvider
      <3> QED
        BY <2>3, <3>1, ResultType
    <2>4. ASSUME NEW o \in {"delivered", "bounced", "complained"}, ApplySESProviderOutcome(r, m, o)
          PROVE StoreTypeOK'
      <3> DEFINE next == NextSESProviderRecipientStatus(status[r][m], o)
                 st == [status[r] EXCEPT ![m] = next]
      <3>1. next \in RecipientStatuses
        BY DEF NextSESProviderRecipientStatus, StoreTypeOK, RecipientStatuses,
               TerminalStatuses, ReachedProvider
      <3>2. st \in [Members -> RecipientStatuses]
        BY <3>1 DEF StoreTypeOK
      <3>3. Cardinality(Accepted(st)) \in Nat /\ Cardinality(With(st, {"skipped"})) \in Nat
        BY CountsAreNat
      <3>4. /\ status' = [status EXCEPT ![r] = st]
            /\ sentCount' = [sentCount EXCEPT ![r] = Cardinality(Accepted(st))]
            /\ skippedCount' = [skippedCount EXCEPT ![r] = Cardinality(With(st, {"skipped"}))]
        BY <2>4 DEF ApplySESProviderOutcome
      <3> HIDE DEF st, next
      <3> QED
        BY <2>4, <3>2, <3>3, <3>4 DEF ApplySESProviderOutcome, StoreTypeOK
    <2> QED
      BY <1>7, <2>1, <2>2, <2>3, <2>4 DEF RecipientStep, MarkClaimedResult, MarkUnclaimedResult
  <1>8. CASE LeaseTick
    <2>1. lease' \in [Runs -> [Members -> 0..LeaseTicks]]
      BY <1>8, LeaseAssumption DEF LeaseTick, LeasesTick, StoreTypeOK
    <2> QED
      BY <1>8, <2>1 DEF LeaseTick, StoreTypeOK
  <1>9. CASE UNCHANGED storeVars
    BY <1>9 DEF StoreTypeOK
  <1> QED
    BY <1>1, <1>2, <1>3, <1>4, <1>5, <1>6, <1>7, <1>8, <1>9 DEF StoreNext

LEMMA TypeInit == StoreInit => StoreTypeOK
  BY LeaseAssumption DEF StoreInit, StoreTypeOK, CampaignStatuses, RunStatuses, RecipientStatuses

\* Every variable keeps its type in every behaviour.
THEOREM StoreTypeCorrect == StoreSpec => []StoreTypeOK
  BY TypeInit, TypeStep, PTL DEF StoreSpec

-----------------------------------------------------------------------------
(* The inductive invariant, run by run: RunOK speaks of the values of one    *)
(* run's row (status rs, target tc, counters sc and kc) and of its           *)
(* recipients st.                                                            *)

RunOK(r, rs, st, tc, sc, kc) ==
    /\ rs \in {"absent", "scheduled"} => Recipients(st) = {}
    /\ rs \in CompletedStatuses => With(st, {"pending"}) = {}
    /\ rs = "sending" /\ Recipients(st) # {} => With(st, {"pending"}) # {}
    /\ rs = "sent" => With(st, ReachedProvider) # {}
    /\ rs \in {"failed", "skipped"} => Accepted(st) = {}
    /\ rs = "cancelled" /\ r \in CampaignRuns => Recipients(st) = {}
    /\ r \in CampaignRuns => rs # "skipped"
    /\ sc = Cardinality(Accepted(st))
    /\ kc = Cardinality(With(st, {"skipped"}))
    /\ Recipients(st) # {} => tc = Cardinality(Recipients(st))

RunsOK == \A r \in Runs :
    RunOK(r, runStatus[r], status[r], targetCount[r], sentCount[r], skippedCount[r])

\* RunsOK is the conjunction of the three invariants about runs.
LEMMA RunsOKMeaning ==
    RunsOK <=> PendingOnlyWhileSending /\ ResultMatchesRecipients /\ CountersMatchRows
  BY DEF RunsOK, RunOK, PendingOnlyWhileSending, ResultMatchesRecipients, CountersMatchRows

\* An active or absent run's status changes.
LEMMA RunWithoutRows ==
    ASSUME NEW r \in Runs, NEW rs \in {"absent", "scheduled"}, NEW st, NEW tc, NEW sc, NEW kc,
           RunOK(r, rs, st, tc, sc, kc),
           NEW rs2 \in {"scheduled", "sending", "failed", "skipped", "cancelled"},
           rs2 = "skipped" => r \notin CampaignRuns, NEW tc2
    PROVE  RunOK(r, rs2, st, tc2, sc, kc)
  <1>1. Recipients(st) = {}
    BY DEF RunOK
  <1>2. Accepted(st) = {} /\ With(st, {"pending"}) = {}
    BY <1>1 DEF Recipients, Accepted, With
  <1> QED
    BY <1>1, <1>2 DEF RunOK

\* New pending rows in a sending run.
LEMMA RunMaterialized ==
    ASSUME NEW r \in Runs, NEW st \in [Members -> RecipientStatuses], NEW tc, NEW sc, NEW kc,
           RunOK(r, "sending", st, tc, sc, kc), NEW E \in SUBSET Members,
           NEW rows, rows = [m \in Members |-> IF m \in E /\ st[m] = "absent"
                                               THEN "pending" ELSE st[m]]
    PROVE  RunOK(r, "sending", rows, Cardinality(Recipients(rows)), sc, kc)
  <1>1. Accepted(rows) = Accepted(st) /\ With(rows, {"skipped"}) = With(st, {"skipped"})
    BY DEF Accepted, With
  <1>2. Recipients(rows) # {} => With(rows, {"pending"}) # {}
    BY DEF RunOK, Recipients, With
  <1> QED
    BY <1>1, <1>2 DEF RunOK, CompletedStatuses

\* A result stored for a pending recipient: the run is sending, and what is
\* decided depends on the rows alone.
LEMMA RunResult ==
    ASSUME NEW r \in Runs, NEW rs \in RunStatuses, NEW st \in [Members -> RecipientStatuses],
           NEW tc, NEW sc, NEW kc, RunOK(r, rs, st, tc, sc, kc),
           NEW m \in Members, st[m] = "pending", NEW s \in TerminalStatuses,
           NEW after, after = [st EXCEPT ![m] = s]
    PROVE  /\ rs = "sending"
           /\ DecideCompletion(r, after, tc) =
                 IF With(after, {"pending"}) # {} THEN "sending"
                 ELSE IF Accepted(after) # {} THEN "sent" ELSE "failed"
           /\ RunOK(r, DecideCompletion(r, after, tc), after, tc,
                    Cardinality(Accepted(after)), Cardinality(With(after, {"skipped"})))
           /\ Recipients(after) # {}
  <1> DEFINE d == DecideCompletion(r, after, tc)
  <1>1. m \in With(st, {"pending"}) /\ m \in Recipients(st)
    BY DEF With, Recipients
  <1>2. rs = "sending"
    BY <1>1 DEF RunOK, RunStatuses
  <1>3. s # "absent"
    BY StatusAssumption DEF TerminalStatuses, ReachedProvider
  <1>4. Recipients(after) = Recipients(st)
    BY <1>3 DEF Recipients
  <1>5. tc = Cardinality(Recipients(after)) /\ Cardinality(Recipients(after)) \in Nat
    BY <1>1, <1>4, CountsAreNat DEF RunOK
  <1>6. ~(Cardinality(Recipients(after)) < tc)
    BY <1>5
  <1>7. d = IF With(after, {"pending"}) # {} THEN "sending"
            ELSE IF Accepted(after) # {} THEN "sent" ELSE "failed"
    BY <1>1, <1>4, <1>6 DEF DecideCompletion
  <1>8. Accepted(after) # {} => With(after, ReachedProvider) # {}
    BY DEF Accepted, With, ReachedProvider
  <1> HIDE DEF d
  <1>9. RunOK(r, d, after, tc, Cardinality(Accepted(after)), Cardinality(With(after, {"skipped"})))
    BY <1>5, <1>7, <1>8 DEF RunOK, CompletedStatuses
  <1> QED
    BY <1>1, <1>2, <1>4, <1>7, <1>9 DEF d

\* A provider's notification.
LEMMA RunNotified ==
    ASSUME NEW r \in Runs, NEW rs \in RunStatuses, NEW st \in [Members -> RecipientStatuses],
           NEW tc, NEW sc, NEW kc, RunOK(r, rs, st, tc, sc, kc),
           NEW m \in Members, st[m] \in ReachedProvider,
           NEW o \in {"delivered", "bounced", "complained"},
           NEW after, after = [st EXCEPT ![m] = NextSESProviderRecipientStatus(st[m], o)]
    PROVE  RunOK(r, rs, after, tc,
                 Cardinality(Accepted(after)), Cardinality(With(after, {"skipped"})))
  <1>1. /\ after[m] \in ReachedProvider
        /\ after[m] \in {"sent", "delivered"} => st[m] \in {"sent", "delivered"}
        /\ \A n \in Members : n # m => after[n] = st[n]
    BY DEF NextSESProviderRecipientStatus, ReachedProvider
  <1>2. Recipients(after) = Recipients(st)
    BY <1>1 DEF Recipients, ReachedProvider
  <1>3. With(after, {"pending"}) = With(st, {"pending"})
    BY <1>1 DEF With, ReachedProvider
  <1>4. m \in With(after, ReachedProvider) /\ m \in Recipients(st)
    BY <1>1 DEF With, Recipients, ReachedProvider
  <1>5. Accepted(st) = {} => Accepted(after) = {}
    BY <1>1 DEF Accepted, With
  <1> QED
    BY <1>2, <1>3, <1>4, <1>5 DEF RunOK

\* The policy of a legal notice run is deleted.
LEMMA RunStopped ==
    ASSUME NEW r \in LegalRuns, NEW rs \in RunStatuses, NEW st \in [Members -> RecipientStatuses],
           NEW tc, NEW sc, NEW kc, RunOK(r, rs, st, tc, sc, kc),
           NEW after, after = [m \in Members |-> IF st[m] = "pending" THEN "skipped" ELSE st[m]]
    PROVE  RunOK(r, IF rs \in {"scheduled", "sending"} THEN "cancelled" ELSE rs, after, tc, sc,
                 kc + Cardinality({m \in Members : st[m] = "pending"}))
  <1> DEFINE P == {m \in Members : st[m] = "pending"}
             K == With(st, {"skipped"})
  <1>1. Accepted(after) = Accepted(st) /\ Recipients(after) = Recipients(st)
        /\ With(after, {"pending"}) = {}
        /\ (With(st, ReachedProvider) # {} => With(after, ReachedProvider) # {})
    BY DEF Accepted, Recipients, With, ReachedProvider
  <1>2. With(after, {"skipped"}) = K \cup P /\ K \cap P = {}
    BY DEF With
  <1>3. IsFiniteSet(K) /\ IsFiniteSet(P) /\ Cardinality(K) \in Nat /\ Cardinality(P) \in Nat
    BY MemberSets DEF With
  <1>4. Cardinality(K \cup P) = Cardinality(K) + Cardinality(P)
    <2>1. Cardinality(K \cup P) = Cardinality(K) + Cardinality(P) - Cardinality(K \cap P)
      BY <1>3, FS_Union
    <2>2. Cardinality(K \cap P) = 0
      BY <1>2, FS_EmptySet
    <2> QED
      BY <1>3, <2>1, <2>2
  <1>5. r \notin CampaignRuns
    BY RunsAssumption
  <1> HIDE DEF P, K
  <1>6. kc + Cardinality(P) = Cardinality(With(after, {"skipped"}))
    BY <1>2, <1>4 DEF RunOK, K
  <1> QED
    BY <1>1, <1>5, <1>6 DEF RunOK, CompletedStatuses, P

-----------------------------------------------------------------------------
(* Runs that a step does not touch keep RunOK.                               *)

rowOf(r) == <<runStatus[r], status[r], targetCount[r], sentCount[r], skippedCount[r]>>

LEMMA OthersKept ==
    ASSUME RunsOK, NEW R \in SUBSET Runs, \A q \in Runs \ R : rowOf(q)' = rowOf(q),
           \A q \in R : RunOK(q, runStatus'[q], status'[q], targetCount'[q],
                              sentCount'[q], skippedCount'[q])
    PROVE  RunsOK'
  <1> SUFFICES ASSUME NEW q \in Runs
               PROVE  RunOK(q, runStatus'[q], status'[q], targetCount'[q],
                            sentCount'[q], skippedCount'[q])
    BY DEF RunsOK
  <1>1. CASE q \in R
    BY <1>1
  <1>2. CASE q \notin R
    <2>1. /\ runStatus'[q] = runStatus[q]
          /\ status'[q] = status[q]
          /\ targetCount'[q] = targetCount[q]
          /\ sentCount'[q] = sentCount[q]
          /\ skippedCount'[q] = skippedCount[q]
      BY <1>2 DEF rowOf
    <2>2. RunOK(q, runStatus[q], status[q], targetCount[q], sentCount[q], skippedCount[q])
      BY DEF RunsOK
    <2> QED
      BY <2>1, <2>2
  <1> QED
    BY <1>1, <1>2

LEMMA OtherRunsKept ==
    ASSUME RunsOK, NEW r \in Runs, \A q \in Runs \ {r} : rowOf(q)' = rowOf(q),
           RunOK(r, runStatus'[r], status'[r], targetCount'[r], sentCount'[r], skippedCount'[r])
    PROVE  RunsOK'
  <1> DEFINE R == {r}
  <1>1. R \in SUBSET Runs /\ \A q \in Runs \ R : rowOf(q)' = rowOf(q)
    OBVIOUS
  <1>2. \A q \in R : RunOK(q, runStatus'[q], status'[q], targetCount'[q],
                           sentCount'[q], skippedCount'[q])
    OBVIOUS
  <1> HIDE DEF R
  <1> QED
    BY <1>1, <1>2, OthersKept

LEMMA RunsCancelled ==
    ASSUME StoreTypeOK, RunsOK, NEW R \in SUBSET Runs, runStatus' = ScheduledCancelled(R),
           UNCHANGED <<targetCount, sentCount, skippedCount, status>>
    PROVE  RunsOK'
  <1> DEFINE C == {r \in R : runStatus[r] = "scheduled"}
  <1>1. \A q \in Runs \ C : rowOf(q)' = rowOf(q)
    BY DEF ScheduledCancelled, rowOf
  <1>2. ASSUME NEW q \in C
        PROVE  RunOK(q, runStatus'[q], status'[q], targetCount'[q], sentCount'[q], skippedCount'[q])
    <2>1. runStatus'[q] = "cancelled" /\ runStatus[q] = "scheduled"
      BY <1>2 DEF ScheduledCancelled
    <2>2. RunOK(q, "scheduled", status[q], targetCount[q], sentCount[q], skippedCount[q])
      BY <2>1 DEF RunsOK
    <2>3. RunOK(q, "cancelled", status[q], targetCount[q], sentCount[q], skippedCount[q])
      BY <2>2, RunWithoutRows
    <2> QED
      BY <2>1, <2>3
  <1> QED
    BY <1>1, <1>2, OthersKept

\* One run without recipients gets a new status and maybe a new target.
LEMMA RunMoves ==
    ASSUME StoreTypeOK, RunsOK, NEW r \in Runs, runStatus[r] \in {"absent", "scheduled"},
           runStatus'[r] \in {"scheduled", "sending", "failed", "skipped", "cancelled"},
           runStatus'[r] = "skipped" => r \notin CampaignRuns,
           \A q \in Runs \ {r} : runStatus'[q] = runStatus[q] /\ targetCount'[q] = targetCount[q],
           UNCHANGED <<sentCount, skippedCount, status>>
    PROVE  RunsOK'
  <1>1. \A q \in Runs \ {r} : rowOf(q)' = rowOf(q)
    BY DEF rowOf
  <1>2. RunOK(r, runStatus[r], status[r], targetCount[r], sentCount[r], skippedCount[r])
    BY DEF RunsOK
  <1>3. RunOK(r, runStatus'[r], status[r], targetCount'[r], sentCount[r], skippedCount[r])
    BY <1>2, RunWithoutRows
  <1> QED
    BY <1>1, <1>3, OtherRunsKept

\* The rows of a run after a result, and what they decide.
Settled(r, m, s) == [status[r] EXCEPT ![m] = s]

Decision(rows) ==
    IF With(rows, {"pending"}) # {} THEN "sending"
    ELSE IF Accepted(rows) # {} THEN "sent" ELSE "failed"

\* A stored result finalizes its run's row, whose status was sending.
LEMMA ResultStep ==
    ASSUME StoreTypeOK, RunsOK, NEW r \in Runs, NEW m \in Members,
           NEW s \in {"sent"} \cup FailureStatuses, status[r][m] = "pending",
           StoreRecipientResult(r, m, s)
    PROVE  /\ RunsOK'
           /\ runStatus[r] = "sending"
           /\ status' = [status EXCEPT ![r] = Settled(r, m, s)]
           /\ runStatus' = [runStatus EXCEPT ![r] = Decision(Settled(r, m, s))]
           /\ Recipients(Settled(r, m, s)) # {}
           /\ campaignStatus' =
                 IF r \in CampaignRuns /\ Decision(Settled(r, m, s)) # "sending"
                 THEN Decision(Settled(r, m, s)) ELSE campaignStatus
  <1> DEFINE after == [status[r] EXCEPT ![m] = s]
             d == DecideCompletion(r, after, targetCount[r])
  <1>1. s \in TerminalStatuses
    BY DEF TerminalStatuses, ReachedProvider
  <1>2. /\ runStatus[r] \in RunStatuses
        /\ status[r] \in [Members -> RecipientStatuses]
    BY DEF StoreTypeOK
  <1>3. RunOK(r, runStatus[r], status[r], targetCount[r], sentCount[r], skippedCount[r])
    BY DEF RunsOK
  <1>4. /\ runStatus[r] = "sending"
        /\ d = IF With(after, {"pending"}) # {} THEN "sending"
               ELSE IF Accepted(after) # {} THEN "sent" ELSE "failed"
        /\ RunOK(r, d, after, targetCount[r],
                 Cardinality(Accepted(after)), Cardinality(With(after, {"skipped"})))
        /\ Recipients(after) # {}
    BY <1>1, <1>2, <1>3, RunResult
  <1>5. FinalizeLockedEmailDeliveryRun(r, after) /\ targetCount' = targetCount
    BY DEF StoreRecipientResult
  <1>6. status' = [status EXCEPT ![r] = after]
    BY DEF StoreRecipientResult, StoreTypeOK
  <1> HIDE DEF after, d
  <1>7. /\ sentCount' = [sentCount EXCEPT ![r] = Cardinality(Accepted(after))]
        /\ skippedCount' = [skippedCount EXCEPT ![r] = Cardinality(With(after, {"skipped"}))]
        /\ runStatus' = [runStatus EXCEPT ![r] = d]
        /\ campaignStatus' = IF r \in CampaignRuns /\ d # "sending" THEN d ELSE campaignStatus
    BY <1>4, <1>5 DEF FinalizeLockedEmailDeliveryRun, d
  <1>8. \A q \in Runs \ {r} : rowOf(q)' = rowOf(q)
    BY <1>5, <1>6, <1>7 DEF rowOf, StoreTypeOK
  <1>9. RunOK(r, runStatus'[r], status'[r], targetCount'[r], sentCount'[r], skippedCount'[r])
    <2>1. /\ runStatus'[r] = d
          /\ status'[r] = after
          /\ targetCount'[r] = targetCount[r]
          /\ sentCount'[r] = Cardinality(Accepted(after))
          /\ skippedCount'[r] = Cardinality(With(after, {"skipped"}))
      BY <1>5, <1>6, <1>7 DEF StoreTypeOK
    <2> QED
      BY <1>4, <2>1
  <1>10. RunsOK'
    BY <1>8, <1>9, OtherRunsKept
  <1>11. after = Settled(r, m, s) /\ d = Decision(after)
    BY <1>4 DEF after, Settled, Decision
  <1> QED
    BY <1>4, <1>6, <1>7, <1>10, <1>11

LEMMA RunsStep ==
    StoreTypeOK /\ RunsOK /\ [StoreNext]_storeVars => RunsOK'
  <1> SUFFICES ASSUME StoreTypeOK, RunsOK, [StoreNext]_storeVars PROVE RunsOK'
    OBVIOUS
  <1> USE DEF campaignVars, runVars, recipientVars, storeVars
  <1>1. CASE CampaignLifecycle
    <2>1. CampaignRuns \in SUBSET Runs
      BY DEF Runs
    <2>2. CASE CancelCampaign
      BY <2>1, <2>2, RunsCancelled DEF CancelCampaign
    <2>3. CASE ReleaseCriteriaForArchive
      BY <2>1, <2>3, RunsCancelled DEF ReleaseCriteriaForArchive
    <2>4. CASE DeleteCampaign
      <3>1. UNCHANGED <<runStatus, status, targetCount, sentCount, skippedCount>>
        BY <2>4 DEF DeleteCampaign
      <3> QED
        BY <3>1 DEF RunsOK
    <2>5. ASSUME NEW r \in CampaignRuns, ScheduleCampaign(r) PROVE RunsOK'
      <3>1. r \in Runs /\ runStatus[r] = "absent" /\ runStatus'[r] = "scheduled"
        BY <2>5 DEF ScheduleCampaign, StoreTypeOK, Runs
      <3>2. /\ \A q \in Runs \ {r} : runStatus'[q] = runStatus[q] /\ targetCount'[q] = targetCount[q]
            /\ UNCHANGED <<sentCount, skippedCount, status>>
        BY <2>5 DEF ScheduleCampaign, StoreTypeOK
      <3> QED
        BY <3>1, <3>2, RunMoves
    <2> QED
      BY <1>1, <2>2, <2>3, <2>4, <2>5 DEF CampaignLifecycle
  <1>2. CASE LegalLifecycle
    <2>1. ASSUME NEW r \in LegalRuns, SealLegalNotice(r) PROVE RunsOK'
      <3>1. r \in Runs /\ runStatus[r] = "absent" /\ runStatus'[r] = "scheduled"
        BY <2>1 DEF SealLegalNotice, StoreTypeOK, Runs
      <3>2. /\ \A q \in Runs \ {r} : runStatus'[q] = runStatus[q] /\ targetCount'[q] = targetCount[q]
            /\ UNCHANGED <<sentCount, skippedCount, status>>
        BY <2>1 DEF SealLegalNotice, StoreTypeOK
      <3> QED
        BY <3>1, <3>2, RunMoves
    <2>2. ASSUME NEW p \in Policies, CancelScheduledRuns(p) PROVE RunsOK'
      <3>1. RunsOf(p) \in SUBSET Runs
        BY DEF RunsOf, Runs
      <3> QED
        BY <2>2, <3>1, RunsCancelled DEF CancelScheduledRuns
    <2>3. ASSUME NEW p \in Policies, CancelUpdateNoticeAfterActivation(p) PROVE RunsOK'
      <3>1. RunsOf(p) \cap UpdateNotices \in SUBSET Runs
        BY DEF RunsOf, Runs
      <3> QED
        BY <2>3, <3>1, RunsCancelled DEF CancelUpdateNoticeAfterActivation
    <2>4. ASSUME NEW p \in Policies, StopRunsForDeletedPolicy(p) PROVE RunsOK'
      <3>1. RunsOf(p) \in SUBSET Runs /\ RunsOf(p) \subseteq LegalRuns
        BY DEF RunsOf, Runs
      <3>2. ASSUME NEW q \in Runs \ RunsOf(p) PROVE rowOf(q)' = rowOf(q)
        <4>1. status'[q] = status[q] /\ runStatus'[q] = runStatus[q]
          BY <2>4 DEF StopRunsForDeletedPolicy, StoreTypeOK
        <4>2. skippedCount'[q] = skippedCount[q]
          <5>1. skippedCount'[q] = skippedCount[q] +
                   Cardinality({m \in Members : q \in RunsOf(p) /\ status[q][m] = "pending"})
            BY <2>4 DEF StopRunsForDeletedPolicy
          <5>2. {m \in Members : q \in RunsOf(p) /\ status[q][m] = "pending"} = {}
            OBVIOUS
          <5>3. Cardinality({}) = 0 /\ skippedCount[q] \in Nat
            BY MemberSets DEF StoreTypeOK
          <5> QED
            BY <5>1, <5>2, <5>3
        <4> QED
          BY <2>4, <4>1, <4>2 DEF StopRunsForDeletedPolicy, rowOf
      <3>3. ASSUME NEW q \in RunsOf(p)
            PROVE  RunOK(q, runStatus'[q], status'[q], targetCount'[q], sentCount'[q], skippedCount'[q])
        <4> DEFINE after == [m \in Members |-> IF status[q][m] = "pending"
                                               THEN "skipped" ELSE status[q][m]]
                   P == {m \in Members : status[q][m] = "pending"}
                   rs == IF runStatus[q] \in {"scheduled", "sending"}
                         THEN "cancelled" ELSE runStatus[q]
        <4>1. q \in LegalRuns /\ q \in Runs
          BY <3>1
        <4>2. status'[q] = after /\ runStatus'[q] = rs
              /\ targetCount'[q] = targetCount[q] /\ sentCount'[q] = sentCount[q]
          BY <2>4, <4>1 DEF StopRunsForDeletedPolicy
        <4>3. skippedCount'[q] = skippedCount[q] + Cardinality(P)
          <5>1. {m \in Members : q \in RunsOf(p) /\ status[q][m] = "pending"} = P
            OBVIOUS
          <5>2. skippedCount'[q] = skippedCount[q] +
                   Cardinality({m \in Members : q \in RunsOf(p) /\ status[q][m] = "pending"})
            BY <2>4, <4>1 DEF StopRunsForDeletedPolicy
          <5> QED
            BY <5>1, <5>2
        <4>4. RunOK(q, runStatus[q], status[q], targetCount[q], sentCount[q], skippedCount[q])
          BY <4>1 DEF RunsOK
        <4>5. runStatus[q] \in RunStatuses /\ status[q] \in [Members -> RecipientStatuses]
          BY <4>1 DEF StoreTypeOK
        <4>6. RunOK(q, rs, after, targetCount[q], sentCount[q], skippedCount[q] + Cardinality(P))
          BY <4>1, <4>4, <4>5, RunStopped
        <4> HIDE DEF rs, after, P
        <4> QED
          BY <4>2, <4>3, <4>6
      <3> QED
        BY <3>1, <3>2, <3>3, OthersKept
    <2> QED
      BY <1>2, <2>1, <2>2, <2>3, <2>4 DEF LegalLifecycle
  <1>3. ASSUME NEW r \in Runs, TimeReaches(r) PROVE RunsOK'
    <2>1. UNCHANGED <<runStatus, status, targetCount, sentCount, skippedCount>>
      BY <1>3 DEF TimeReaches
    <2> QED
      BY <2>1 DEF RunsOK
  <1>4. ASSUME NEW r \in CampaignRuns, NEW E \in SUBSET Members, SendCampaignNow(r, E)
        PROVE RunsOK'
    <2> DEFINE C == {q \in CampaignRuns : runStatus[q] = "scheduled"} \cup {r}
    <2>1. C \in SUBSET Runs /\ r \in Runs
      BY DEF Runs
    <2>2. \A q \in Runs \ C : rowOf(q)' = rowOf(q)
      BY <1>4 DEF SendCampaignNow, ScheduledCancelled, rowOf, StoreTypeOK
    <2>3. ASSUME NEW q \in C
          PROVE  RunOK(q, runStatus'[q], status'[q], targetCount'[q], sentCount'[q], skippedCount'[q])
      <3>1. /\ runStatus[q] \in {"absent", "scheduled"}
            /\ runStatus'[q] \in {"sending", "cancelled"}
            /\ UNCHANGED <<status, sentCount, skippedCount>>
        BY <1>4, <2>1, <2>3 DEF SendCampaignNow, ScheduledCancelled, StoreTypeOK
      <3>2. RunOK(q, runStatus[q], status[q], targetCount[q], sentCount[q], skippedCount[q])
        BY <2>1 DEF RunsOK
      <3> QED
        BY <2>1, <3>1, <3>2, RunWithoutRows
    <2> HIDE DEF C
    <2> QED
      BY <2>1, <2>2, <2>3, OthersKept
  <1>5. ASSUME NEW r \in Runs, NEW E \in SUBSET Members, DispatchEmailDeliveryRun(r, E)
        PROVE RunsOK'
    <2>1. /\ runStatus[r] \in {"absent", "scheduled"}
          /\ UNCHANGED <<sentCount, skippedCount, status>>
      BY <1>5 DEF DispatchEmailDeliveryRun
    <2>2. /\ runStatus'[r] \in {"sending", "failed", "skipped"}
          /\ runStatus'[r] = "skipped" => r \notin CampaignRuns
          /\ \A q \in Runs \ {r} : runStatus'[q] = runStatus[q] /\ targetCount'[q] = targetCount[q]
      BY <1>5, RunsAssumption DEF DispatchEmailDeliveryRun, DispatchEmptyCampaign,
         DispatchToCampaign, DispatchLegalNotice, StoreTypeOK
    <2> QED
      BY <2>1, <2>2, RunMoves
  <1>6. ASSUME NEW r \in Runs, NEW E \in SUBSET Members, MaterializeCampaignDeliveryRun(r, E)
        PROVE RunsOK'
    <2> DEFINE rows == [m \in Members |-> IF m \in E /\ status[r][m] = "absent"
                                          THEN "pending" ELSE status[r][m]]
    <2>1. /\ status' = [status EXCEPT ![r] = rows]
          /\ targetCount' = [targetCount EXCEPT ![r] = Cardinality(Recipients(rows))]
          /\ runStatus[r] = "sending"
          /\ UNCHANGED <<runStatus, sentCount, skippedCount>>
      BY <1>6 DEF MaterializeCampaignDeliveryRun
    <2>2. RunOK(r, "sending", status[r], targetCount[r], sentCount[r], skippedCount[r])
      BY <2>1 DEF RunsOK
    <2>3. status[r] \in [Members -> RecipientStatuses]
      BY DEF StoreTypeOK
    <2>4. RunOK(r, "sending", rows, Cardinality(Recipients(rows)), sentCount[r], skippedCount[r])
      BY <2>2, <2>3, RunMaterialized
    <2> HIDE DEF rows
    <2>5. \A q \in Runs \ {r} : rowOf(q)' = rowOf(q)
      BY <2>1 DEF rowOf, StoreTypeOK
    <2>6. RunOK(r, runStatus'[r], status'[r], targetCount'[r], sentCount'[r], skippedCount'[r])
      BY <2>1, <2>4 DEF StoreTypeOK
    <2> QED
      BY <2>5, <2>6, OtherRunsKept
  <1>7. ASSUME NEW r \in Runs, NEW m \in Members, RecipientStep(r, m) PROVE RunsOK'
    <2>1. ASSUME NEW w \in Workers, \/ ClaimCampaignDeliveryRecipient(w, r, m)
                                    \/ ReleaseCampaignDeliveryRecipientClaim(w, r, m)
          PROVE RunsOK'
      <3>1. UNCHANGED <<runStatus, status, targetCount, sentCount, skippedCount>>
        BY <2>1 DEF ClaimCampaignDeliveryRecipient, ReleaseCampaignDeliveryRecipientClaim
      <3> QED
        BY <3>1 DEF RunsOK
    <2>2. ASSUME NEW s \in {"sent"} \cup FailureStatuses, status[r][m] = "pending",
                 StoreRecipientResult(r, m, s)
          PROVE RunsOK'
      BY <2>2, ResultStep
    <2>3. ASSUME NEW o \in {"delivered", "bounced", "complained"}, ApplySESProviderOutcome(r, m, o)
          PROVE RunsOK'
      <3> DEFINE st == [status[r] EXCEPT ![m] = NextSESProviderRecipientStatus(status[r][m], o)]
      <3>1. /\ status' = [status EXCEPT ![r] = st]
            /\ sentCount' = [sentCount EXCEPT ![r] = Cardinality(Accepted(st))]
            /\ skippedCount' = [skippedCount EXCEPT ![r] = Cardinality(With(st, {"skipped"}))]
            /\ status[r][m] \in ReachedProvider
            /\ UNCHANGED <<runStatus, targetCount>>
        BY <2>3 DEF ApplySESProviderOutcome
      <3>2. RunOK(r, runStatus[r], status[r], targetCount[r], sentCount[r], skippedCount[r])
        BY DEF RunsOK
      <3>3. runStatus[r] \in RunStatuses /\ status[r] \in [Members -> RecipientStatuses]
        BY DEF StoreTypeOK
      <3>4. RunOK(r, runStatus[r], st, targetCount[r],
                  Cardinality(Accepted(st)), Cardinality(With(st, {"skipped"})))
        BY <3>1, <3>2, <3>3, RunNotified
      <3> HIDE DEF st
      <3>5. \A q \in Runs \ {r} : rowOf(q)' = rowOf(q)
        BY <3>1 DEF rowOf, StoreTypeOK
      <3>6. RunOK(r, runStatus'[r], status'[r], targetCount'[r], sentCount'[r], skippedCount'[r])
        BY <3>1, <3>4 DEF StoreTypeOK
      <3> QED
        BY <3>5, <3>6, OtherRunsKept
    <2> QED
      BY <1>7, <2>1, <2>2, <2>3 DEF RecipientStep, MarkClaimedResult, MarkUnclaimedResult
  <1>8. CASE LeaseTick \/ UNCHANGED storeVars
    <2>1. UNCHANGED <<runStatus, status, targetCount, sentCount, skippedCount>>
      BY <1>8 DEF LeaseTick
    <2> QED
      BY <2>1 DEF RunsOK
  <1> QED
    BY <1>1, <1>2, <1>3, <1>4, <1>5, <1>6, <1>7, <1>8 DEF StoreNext

-----------------------------------------------------------------------------
(* The Campaign and its runs.                                                *)

\* The statuses of the Campaign and its runs agree after a step that moves one
\* run from absent or active to a status that the Campaign then also has.
LEMMA AgreementMoves ==
    ASSUME StoreTypeOK, CampaignAgreesWithRuns, NEW r \in CampaignRuns,
           \/ runStatus[r] \in {"scheduled", "sending"}
           \/ runStatus[r] = "absent" /\ campaignStatus = "draft",
           NEW s \in {"scheduled", "sending", "sent", "failed"},
           campaignStatus' = s, runStatus' = [runStatus EXCEPT ![r] = s]
    PROVE  CampaignAgreesWithRuns'
  <1>1. r \in Runs /\ CampaignRuns \subseteq Runs
    BY DEF Runs
  <1>2. runStatus'[r] = s /\ \A q \in CampaignRuns \ {r} : runStatus'[q] = runStatus[q]
    BY <1>1 DEF StoreTypeOK
  <1>3. \A q \in CampaignRuns \ {r} :
           runStatus[q] \notin {"scheduled", "sending", "sent", "failed"}
    BY DEF CampaignAgreesWithRuns, Active
  <1> QED
    BY <1>2, <1>3 DEF CampaignAgreesWithRuns, Active

LEMMA AgreementCancelled ==
    ASSUME StoreTypeOK, CampaignAgreesWithRuns,
           campaignStatus = "scheduled", campaignStatus' = "draft",
           runStatus' = ScheduledCancelled(CampaignRuns)
    PROVE  CampaignAgreesWithRuns'
  <1>1. \A q \in CampaignRuns : runStatus'[q] =
           IF runStatus[q] = "scheduled" THEN "cancelled" ELSE runStatus[q]
    BY DEF ScheduledCancelled, Runs
  <1> QED
    BY <1>1 DEF CampaignAgreesWithRuns, Active

LEMMA AgreementKept ==
    ASSUME CampaignAgreesWithRuns, campaignStatus' = campaignStatus,
           \A q \in CampaignRuns : runStatus'[q] = runStatus[q]
    PROVE  CampaignAgreesWithRuns'
  BY DEF CampaignAgreesWithRuns, Active

LEMMA AgreementStep ==
    StoreTypeOK /\ RunsOK /\ CampaignAgreesWithRuns /\ [StoreNext]_storeVars
        => CampaignAgreesWithRuns'
  <1> SUFFICES ASSUME StoreTypeOK, RunsOK, CampaignAgreesWithRuns, [StoreNext]_storeVars
               PROVE  CampaignAgreesWithRuns'
    OBVIOUS
  <1> USE DEF campaignVars, runVars, recipientVars, storeVars
  <1>0. \A q \in CampaignRuns : q \in Runs /\ q \notin LegalRuns
    BY RunsAssumption DEF Runs
  <1>1. CASE CampaignLifecycle
    <2>1. CASE CancelCampaign
      BY <2>1, AgreementCancelled DEF CancelCampaign
    <2>2. CASE ReleaseCriteriaForArchive
      <3>1. campaignStatus = "scheduled"
        BY <2>2 DEF ReleaseCriteriaForArchive, CampaignAgreesWithRuns
      <3> QED
        BY <2>2, <3>1, AgreementCancelled DEF ReleaseCriteriaForArchive
    <2>3. CASE DeleteCampaign
      BY <2>3 DEF DeleteCampaign, CampaignAgreesWithRuns, Active
    <2>4. ASSUME NEW r \in CampaignRuns, ScheduleCampaign(r) PROVE CampaignAgreesWithRuns'
      BY <2>4, AgreementMoves DEF ScheduleCampaign
    <2> QED
      BY <1>1, <2>1, <2>2, <2>3, <2>4 DEF CampaignLifecycle
  <1>2. CASE LegalLifecycle
    <2>1. \A p : RunsOf(p) \subseteq LegalRuns
      BY DEF RunsOf
    <2>2. ASSUME NEW r \in LegalRuns, SealLegalNotice(r) PROVE CampaignAgreesWithRuns'
      <3>1. \A q \in CampaignRuns : runStatus'[q] = runStatus[q]
        BY <1>0, <2>2 DEF SealLegalNotice, StoreTypeOK
      <3> QED
        BY <2>2, <3>1, AgreementKept DEF SealLegalNotice
    <2>3. ASSUME NEW p \in Policies, \/ CancelScheduledRuns(p)
                                     \/ CancelUpdateNoticeAfterActivation(p)
                                     \/ StopRunsForDeletedPolicy(p)
          PROVE CampaignAgreesWithRuns'
      <3>1. \A q \in CampaignRuns : runStatus'[q] = runStatus[q]
        BY <1>0, <2>1, <2>3 DEF CancelScheduledRuns, CancelUpdateNoticeAfterActivation,
           StopRunsForDeletedPolicy, ScheduledCancelled
      <3>2. campaignStatus' = campaignStatus
        BY <2>3 DEF CancelScheduledRuns, CancelUpdateNoticeAfterActivation,
           StopRunsForDeletedPolicy
      <3> QED
        BY <3>1, <3>2, AgreementKept
    <2> QED
      BY <1>2, <2>2, <2>3 DEF LegalLifecycle
  <1>3. ASSUME NEW r \in CampaignRuns, NEW E \in SUBSET Members, SendCampaignNow(r, E)
        PROVE CampaignAgreesWithRuns'
    <2>1. \A q \in CampaignRuns : runStatus[q] # "scheduled"
      BY <1>3 DEF SendCampaignNow, CampaignAgreesWithRuns
    <2>2. ScheduledCancelled(CampaignRuns) = runStatus
      BY <2>1 DEF ScheduledCancelled, StoreTypeOK
    <2> QED
      BY <1>3, <2>2, AgreementMoves DEF SendCampaignNow
  <1>4. ASSUME NEW r \in Runs, NEW E \in SUBSET Members, DispatchEmailDeliveryRun(r, E)
        PROVE CampaignAgreesWithRuns'
    <2>1. runStatus[r] = "scheduled"
      BY <1>4 DEF DispatchEmailDeliveryRun
    <2>2. CASE DispatchEmptyCampaign(r)
      BY <2>1, <2>2, AgreementMoves DEF DispatchEmptyCampaign
    <2>3. CASE DispatchToCampaign(r, E)
      BY <2>1, <2>3, AgreementMoves DEF DispatchToCampaign
    <2>4. CASE DispatchLegalNotice(r, E)
      <3>1. \A q \in CampaignRuns : runStatus'[q] = runStatus[q]
        BY <1>0, <2>4 DEF DispatchLegalNotice, StoreTypeOK
      <3> QED
        BY <2>4, <3>1, AgreementKept DEF DispatchLegalNotice
    <2> QED
      BY <1>4, <2>2, <2>3, <2>4 DEF DispatchEmailDeliveryRun
  <1>5. ASSUME NEW r \in Runs, NEW m \in Members, NEW s \in {"sent"} \cup FailureStatuses,
               status[r][m] = "pending", StoreRecipientResult(r, m, s)
        PROVE  CampaignAgreesWithRuns'
    <2> DEFINE d == Decision(Settled(r, m, s))
    <2>1. /\ runStatus[r] = "sending"
          /\ runStatus' = [runStatus EXCEPT ![r] = d]
          /\ campaignStatus' = IF r \in CampaignRuns /\ d # "sending" THEN d ELSE campaignStatus
      BY <1>5, ResultStep
    <2>2. d \in {"sending", "sent", "failed"}
      BY DEF Decision
    <2> HIDE DEF d
    <2>3. CASE r \in CampaignRuns
      <3>1. campaignStatus = "sending"
        BY <2>1, <2>3 DEF CampaignAgreesWithRuns
      <3>2. campaignStatus' = d
        BY <2>1, <2>2, <2>3, <3>1
      <3> QED
        BY <2>1, <2>2, <2>3, <3>2, AgreementMoves
    <2>4. CASE r \notin CampaignRuns
      <3>1. \A q \in CampaignRuns : runStatus'[q] = runStatus[q]
        BY <1>0, <2>1, <2>4 DEF StoreTypeOK
      <3> QED
        BY <2>1, <2>4, <3>1, AgreementKept
    <2> QED
      BY <2>3, <2>4
  <1>6. CASE UNCHANGED <<campaignStatus, runStatus>>
    BY <1>6, AgreementKept
  <1>7. ASSUME NEW r \in Runs, NEW m \in Members, RecipientStep(r, m)
        PROVE CampaignAgreesWithRuns'
    <2>1. ASSUME NEW w \in Workers, \/ ClaimCampaignDeliveryRecipient(w, r, m)
                                    \/ ReleaseCampaignDeliveryRecipientClaim(w, r, m)
          PROVE CampaignAgreesWithRuns'
      BY <1>6, <2>1 DEF ClaimCampaignDeliveryRecipient, ReleaseCampaignDeliveryRecipientClaim
    <2>2. ASSUME NEW o, ApplySESProviderOutcome(r, m, o) PROVE CampaignAgreesWithRuns'
      BY <1>6, <2>2 DEF ApplySESProviderOutcome
    <2> QED
      BY <1>5, <1>7, <2>1, <2>2 DEF RecipientStep, MarkClaimedResult, MarkUnclaimedResult
  <1>8. \A r \in Runs, E \in SUBSET Members :
           TimeReaches(r) \/ MaterializeCampaignDeliveryRun(r, E) \/ LeaseTick
              => UNCHANGED <<campaignStatus, runStatus>>
    BY DEF TimeReaches, MaterializeCampaignDeliveryRun, LeaseTick
  <1>9. LeaseTick \/ UNCHANGED storeVars => UNCHANGED <<campaignStatus, runStatus>>
    BY DEF LeaseTick
  <1>10. \A r \in Runs : TimeReaches(r) => UNCHANGED <<campaignStatus, runStatus>>
    BY DEF TimeReaches
  <1> QED
    BY <1>1, <1>2, <1>3, <1>4, <1>6, <1>7, <1>8, <1>9, <1>10 DEF StoreNext

\* No claim survives its recipient's result.
LEMMA ClaimsStep ==
    StoreTypeOK /\ ClaimsOnlyOnPending /\ [StoreNext]_storeVars => ClaimsOnlyOnPending'
  <1> SUFFICES ASSUME StoreTypeOK, ClaimsOnlyOnPending, [StoreNext]_storeVars
               PROVE  ClaimsOnlyOnPending'
    OBVIOUS
  <1> USE DEF campaignVars, runVars, recipientVars, storeVars
  <1>1. CASE UNCHANGED <<status, claim, lease>>
    BY <1>1 DEF ClaimsOnlyOnPending
  <1>2. CASE CampaignLifecycle
    BY <1>1, <1>2 DEF CampaignLifecycle, CancelCampaign, ReleaseCriteriaForArchive,
       DeleteCampaign, ScheduleCampaign
  <1>3. CASE LegalLifecycle
    <2>1. ASSUME NEW p \in Policies, StopRunsForDeletedPolicy(p) PROVE ClaimsOnlyOnPending'
      BY <2>1 DEF StopRunsForDeletedPolicy, ClaimsOnlyOnPending, StoreTypeOK
    <2> QED
      BY <1>1, <1>3, <2>1 DEF LegalLifecycle, SealLegalNotice, CancelScheduledRuns,
         CancelUpdateNoticeAfterActivation
  <1>4. ASSUME NEW r \in Runs, NEW E \in SUBSET Members, MaterializeCampaignDeliveryRun(r, E)
        PROVE ClaimsOnlyOnPending'
    <2>1. \A q \in Runs, n \in Members : status[q][n] = "pending" => status'[q][n] = "pending"
      BY <1>4 DEF MaterializeCampaignDeliveryRun, StoreTypeOK
    <2>2. UNCHANGED <<claim, lease>>
      BY <1>4 DEF MaterializeCampaignDeliveryRun
    <2> QED
      BY <2>1, <2>2 DEF ClaimsOnlyOnPending
  <1>5. ASSUME NEW r \in Runs, NEW m \in Members, RecipientStep(r, m) PROVE ClaimsOnlyOnPending'
    <2>1. ASSUME NEW w \in Workers, ClaimCampaignDeliveryRecipient(w, r, m)
          PROVE ClaimsOnlyOnPending'
      BY <2>1, ClaimAssumption DEF ClaimCampaignDeliveryRecipient, ClaimsOnlyOnPending, StoreTypeOK
    <2>2. ASSUME NEW w \in Workers, ReleaseCampaignDeliveryRecipientClaim(w, r, m)
          PROVE ClaimsOnlyOnPending'
      BY <2>2 DEF ReleaseCampaignDeliveryRecipientClaim, ClaimsOnlyOnPending, StoreTypeOK
    <2>3. ASSUME NEW s, StoreRecipientResult(r, m, s) PROVE ClaimsOnlyOnPending'
      BY <2>3 DEF StoreRecipientResult, ClaimsOnlyOnPending, StoreTypeOK
    <2>4. ASSUME NEW o, ApplySESProviderOutcome(r, m, o) PROVE ClaimsOnlyOnPending'
      <3>1. /\ \A q \in Runs, n \in Members :
                   q # r \/ n # m => status'[q][n] = status[q][n]
            /\ status[r][m] # "pending"
            /\ UNCHANGED <<claim, lease>>
        BY <2>4 DEF ApplySESProviderOutcome, StoreTypeOK, ReachedProvider
      <3> QED
        BY <3>1 DEF ClaimsOnlyOnPending
    <2> QED
      BY <1>5, <2>1, <2>2, <2>3, <2>4 DEF RecipientStep, MarkClaimedResult, MarkUnclaimedResult
  <1>6. CASE LeaseTick
    <2>1. \A q \in Runs, n \in Members : lease'[q][n] > 0 => lease[q][n] > 0
      BY <1>6, LeaseAssumption DEF LeaseTick, LeasesTick, StoreTypeOK
    <2>2. UNCHANGED <<claim, status>>
      BY <1>6 DEF LeaseTick
    <2> QED
      BY <2>1, <2>2 DEF ClaimsOnlyOnPending
  <1>7. \A r \in Runs, E \in SUBSET Members :
           TimeReaches(r) \/ SendCampaignNow(r, E) \/ DispatchEmailDeliveryRun(r, E)
              => UNCHANGED <<status, claim, lease>>
    BY DEF TimeReaches, SendCampaignNow, DispatchEmailDeliveryRun
  <1> QED
    BY <1>1, <1>2, <1>3, <1>4, <1>5, <1>6, <1>7 DEF StoreNext, Runs

-----------------------------------------------------------------------------
\* The inductive invariant.
StoreInv ==
    /\ StoreTypeOK
    /\ RunsOK
    /\ CampaignAgreesWithRuns
    /\ ClaimsOnlyOnPending

LEMMA StoreInvInit == StoreInit => StoreInv
  <1> SUFFICES ASSUME StoreInit PROVE StoreInv
    OBVIOUS
  <1>1. RunsOK
    <2> SUFFICES ASSUME NEW r \in Runs
                 PROVE  RunOK(r, runStatus[r], status[r], targetCount[r],
                              sentCount[r], skippedCount[r])
      BY DEF RunsOK
    <2>1. /\ runStatus[r] = "absent" /\ targetCount[r] = 0
          /\ sentCount[r] = 0 /\ skippedCount[r] = 0
          /\ \A m \in Members : status[r][m] = "absent"
      BY DEF StoreInit
    <2>2. Recipients(status[r]) = {} /\ Accepted(status[r]) = {}
          /\ With(status[r], {"skipped"}) = {}
      BY <2>1 DEF Recipients, Accepted, With
    <2>3. Cardinality({}) = 0
      BY MemberSets
    <2> QED
      BY <2>1, <2>2, <2>3 DEF RunOK, CompletedStatuses
  <1>2. CampaignAgreesWithRuns
    BY DEF StoreInit, CampaignAgreesWithRuns, Active, Runs
  <1>3. ClaimsOnlyOnPending
    BY DEF StoreInit, ClaimsOnlyOnPending
  <1> QED
    BY <1>1, <1>2, <1>3, TypeInit DEF StoreInv

LEMMA StoreInvStep == StoreInv /\ [StoreNext]_storeVars => StoreInv'
  BY TypeStep, RunsStep, AgreementStep, ClaimsStep DEF StoreInv

\* The conjunction of the properties below is inductive: every transaction
\* keeps it.
THEOREM StoreInvariant == StoreSpec => []StoreInv
  BY StoreInvInit, StoreInvStep, PTL DEF StoreSpec

\* A Campaign and its runs always agree: at most one run is active, and the
\* Campaign is scheduled, sending, sent or failed exactly when a run of it is.
THEOREM CampaignAgreement == StoreSpec => []CampaignAgreesWithRuns
  <1>1. StoreInv => CampaignAgreesWithRuns
    BY DEF StoreInv
  <1> QED
    BY <1>1, StoreInvariant, PTL

\* A run never completes over a pending recipient and never stays open once
\* its last recipient is settled.
THEOREM RunsCompleteOnTime == StoreSpec => []PendingOnlyWhileSending
  <1>1. StoreInv => PendingOnlyWhileSending
    BY RunsOKMeaning DEF StoreInv
  <1> QED
    BY <1>1, StoreInvariant, PTL

\* A completed run's status is the one its recipients justify.
THEOREM RunResultsJustified == StoreSpec => []ResultMatchesRecipients
  <1>1. StoreInv => ResultMatchesRecipients
    BY RunsOKMeaning DEF StoreInv
  <1> QED
    BY <1>1, StoreInvariant, PTL

\* The stored counters are always the counts of the rows.
THEOREM CountersCorrect == StoreSpec => []CountersMatchRows
  <1>1. StoreInv => CountersMatchRows
    BY RunsOKMeaning DEF StoreInv
  <1> QED
    BY <1>1, StoreInvariant, PTL

\* A settled recipient holds no claim.
THEOREM ClaimsCleared == StoreSpec => []ClaimsOnlyOnPending
  <1>1. StoreInv => ClaimsOnlyOnPending
    BY DEF StoreInv
  <1> QED
    BY <1>1, StoreInvariant, PTL
============================================================================
