----------------------- MODULE DeliveryContractProofs -----------------------
(***************************************************************************)
(* CampaignStore implements DeliveryContract, and its results are final.   *)
(***************************************************************************)
EXTENDS CampaignStoreProofs

\* Facts about one row and its image in the contract.
LEMMA OutcomeFacts ==
    ASSUME NEW s \in RecipientStatuses
    PROVE  /\ OutcomeOf(s) = "none" <=> s = "absent"
           /\ OutcomeOf(s) = "unsettled" <=> s = "pending"
           /\ OutcomeOf(s) = "accepted" <=> s \in {"sent", "delivered"}
           /\ OutcomeOf(s) = "returned" <=> s \in {"bounced", "complained"}
           /\ OutcomeOf(s) = "refused" <=> s \in FailureStatuses
  BY StatusAssumption DEF OutcomeOf, RecipientStatuses, TerminalStatuses, ReachedProvider

LEMMA PhaseFacts ==
    ASSUME NEW st
    PROVE  /\ PhaseOf("absent", st) = "none"
           /\ PhaseOf("scheduled", st) = "waiting"
           /\ PhaseOf("sending", st) = "open"
           /\ PhaseOf("cancelled", st) = "withdrawn"
           /\ PhaseOf("sent", st) = "sent"
           /\ Recipients(st) = {} => PhaseOf("failed", st) = "empty" /\ PhaseOf("skipped", st) = "empty"
           /\ Recipients(st) # {} => PhaseOf("failed", st) = "failed"
  BY DEF PhaseOf

LEMMA PhaseOfRows ==
    ASSUME NEW rs, NEW st, NEW st2, Recipients(st) = Recipients(st2)
    PROVE  PhaseOf(rs, st) = PhaseOf(rs, st2)
  BY DEF PhaseOf

LEMMA RunAtPhase ==
    ASSUME StoreTypeOK, NEW r \in Runs
    PROVE  /\ contractPhase[r] = PhaseOf(runStatus[r], status[r])
           /\ \A m \in Members : contractOutcome[r][m] = OutcomeOf(status[r][m])
           /\ \A m \in Members : status[r][m] \in RecipientStatuses
  BY DEF contractPhase, contractOutcome, StoreTypeOK

\* A step that leaves status and the run statuses alone is invisible.
LEMMA Invisible ==
    ASSUME UNCHANGED <<runStatus, status>>
    PROVE  UNCHANGED <<contractPhase, contractOutcome>>
  BY DEF contractPhase, contractOutcome

LEMMA OutcomesKept ==
    ASSUME UNCHANGED status
    PROVE  UNCHANGED contractOutcome
  BY DEF contractOutcome

\* A step that gives one run a new status and leaves every row alone.
LEMMA PhaseMoves ==
    ASSUME StoreTypeOK, NEW r \in Runs, NEW rs, runStatus' = [runStatus EXCEPT ![r] = rs],
           UNCHANGED status
    PROVE  /\ contractPhase' = [contractPhase EXCEPT ![r] = PhaseOf(rs, status[r])]
           /\ UNCHANGED contractOutcome
  <1>1. \A q \in Runs : runStatus'[q] = IF q = r THEN rs ELSE runStatus[q]
    BY DEF StoreTypeOK
  <1>2. \A q \in Runs : PhaseOf(runStatus'[q], status'[q]) =
           IF q = r THEN PhaseOf(rs, status[r]) ELSE PhaseOf(runStatus[q], status[q])
    BY <1>1
  <1>3. contractPhase' = [q \in Runs |-> PhaseOf(runStatus'[q], status'[q])]
    BY DEF contractPhase
  <1>4. contractPhase = [q \in Runs |-> PhaseOf(runStatus[q], status[q])]
    BY DEF contractPhase
  <1> QED
    BY <1>2, <1>3, <1>4, OutcomesKept

\* Scheduled runs are withdrawn.
LEMMA CancelRefines ==
    ASSUME StoreTypeOK, NEW R \in SUBSET Runs, \E r \in R : runStatus[r] = "scheduled",
           runStatus' = ScheduledCancelled(R), UNCHANGED status
    PROVE  Contract!Next
  <1> DEFINE C == {r \in R : runStatus[r] = "scheduled"}
  <1>1. C \in SUBSET Runs /\ C # {}
    OBVIOUS
  <1>2. \A r \in C : contractPhase[r] = "waiting"
    BY PhaseFacts DEF contractPhase
  <1>3. \A q \in Runs : runStatus'[q] = IF q \in C THEN "cancelled" ELSE runStatus[q]
    BY DEF ScheduledCancelled
  <1>4. \A q \in Runs : PhaseOf(runStatus'[q], status'[q]) =
           IF q \in C THEN "withdrawn" ELSE contractPhase[q]
    BY <1>3, PhaseFacts DEF contractPhase
  <1>5. contractPhase' = [q \in Runs |-> PhaseOf(runStatus'[q], status'[q])]
    BY DEF contractPhase
  <1>6. contractPhase' = [q \in Runs |-> IF q \in C THEN "withdrawn" ELSE contractPhase[q]]
    BY <1>4, <1>5
  <1> HIDE DEF C
  <1>7. Contract!Withdraw(C)
    BY <1>1, <1>2, <1>6, OutcomesKept DEF Contract!Withdraw
  <1> QED
    BY <1>1, <1>7 DEF Contract!Next

\* A run is created, opens or finds nobody.
LEMMA MoveRefines ==
    ASSUME StoreTypeOK, RunsOK, NEW r \in Runs, NEW rs, UNCHANGED status,
           runStatus' = [runStatus EXCEPT ![r] = rs],
           \/ runStatus[r] = "absent" /\ rs \in {"scheduled", "sending"}
           \/ runStatus[r] = "scheduled" /\ rs \in {"sending", "failed", "skipped"}
    PROVE  Contract!Next
  <1>1. /\ contractPhase' = [contractPhase EXCEPT ![r] = PhaseOf(rs, status[r])]
        /\ UNCHANGED contractOutcome
    BY PhaseMoves
  <1>2. Recipients(status[r]) = {}
    BY DEF RunsOK, RunOK
  <1>3. /\ runStatus[r] = "absent" => contractPhase[r] = "none"
        /\ runStatus[r] = "scheduled" => contractPhase[r] = "waiting"
    BY PhaseFacts DEF contractPhase
  <1>4. /\ rs = "scheduled" => PhaseOf(rs, status[r]) = "waiting"
        /\ rs = "sending" => PhaseOf(rs, status[r]) = "open"
        /\ rs \in {"failed", "skipped"} => PhaseOf(rs, status[r]) = "empty"
    BY <1>2, PhaseFacts
  <1>5. Contract!Create(r) \/ Contract!Open(r) \/ Contract!FindNobody(r)
    BY <1>1, <1>3, <1>4 DEF Contract!Create, Contract!Open, Contract!FindNobody
  <1> QED
    BY <1>5 DEF Contract!Next

\* A stored result settles its recipient and closes the run if it is the last.
LEMMA ResultRefines ==
    ASSUME StoreTypeOK, RunsOK, NEW r \in Runs, NEW m \in Members,
           NEW s \in {"sent"} \cup FailureStatuses, status[r][m] = "pending",
           StoreRecipientResult(r, m, s)
    PROVE  Contract!Next
  <1> DEFINE rows == Settled(r, m, s)
             o == OutcomeOf(s)
             after == [contractOutcome[r] EXCEPT ![m] = o]
  <1>1. /\ runStatus[r] = "sending"
        /\ status' = [status EXCEPT ![r] = rows]
        /\ runStatus' = [runStatus EXCEPT ![r] = Decision(rows)]
        /\ Recipients(rows) # {}
    BY ResultStep
  <1>2. s \in RecipientStatuses /\ o \in {"accepted", "refused"}
    <2>1. s \in RecipientStatuses
      BY DEF RecipientStatuses, TerminalStatuses, ReachedProvider
    <2> QED
      BY <2>1, OutcomeFacts
  <1>3. contractPhase[r] = "open" /\ contractOutcome[r][m] = "unsettled"
    BY <1>1, RunAtPhase, PhaseFacts, OutcomeFacts
  <1>4. \A n \in Members : rows[n] \in RecipientStatuses /\ after[n] = OutcomeOf(rows[n])
    <2>1. \A n \in Members : rows[n] = IF n = m THEN s ELSE status[r][n]
      BY DEF Settled, StoreTypeOK
    <2>2. \A n \in Members : after[n] = IF n = m THEN o ELSE OutcomeOf(status[r][n])
      BY DEF contractOutcome
    <2> HIDE DEF rows, after
    <2> QED
      BY <1>2, <2>1, <2>2, RunAtPhase
  <1>5. after = [n \in Members |-> OutcomeOf(rows[n])]
    <2>1. after \in [Members -> {after[n] : n \in Members}]
      BY DEF contractOutcome
    <2> HIDE DEF after
    <2> QED
      BY <1>4, <2>1
  <1>6. contractOutcome' = [contractOutcome EXCEPT ![r] = after]
    <2>1. \A q \in Runs : status'[q] = IF q = r THEN rows ELSE status[q]
      BY <1>1 DEF StoreTypeOK
    <2> HIDE DEF rows, after
    <2> QED
      BY <1>5, <2>1 DEF contractOutcome
  <1>7. contractPhase' = [contractPhase EXCEPT ![r] = PhaseOf(Decision(rows), rows)]
    <2>1. \A q \in Runs : status'[q] = IF q = r THEN rows ELSE status[q]
      BY <1>1 DEF StoreTypeOK
    <2>2. \A q \in Runs : runStatus'[q] = IF q = r THEN Decision(rows) ELSE runStatus[q]
      BY <1>1 DEF StoreTypeOK
    <2> HIDE DEF rows
    <2>3. \A q \in Runs : PhaseOf(runStatus'[q], status'[q]) =
             IF q = r THEN PhaseOf(Decision(rows), rows) ELSE PhaseOf(runStatus[q], status[q])
      BY <2>1, <2>2
    <2>4. contractPhase' = [q \in Runs |-> PhaseOf(runStatus'[q], status'[q])]
      BY DEF contractPhase
    <2>5. contractPhase = [q \in Runs |-> PhaseOf(runStatus[q], status[q])]
      BY DEF contractPhase
    <2> QED
      BY <2>3, <2>4, <2>5
  <1>8. /\ With(rows, {"pending"}) # {} <=> \E n \in Members : after[n] = "unsettled"
        /\ Accepted(rows) # {} <=> \E n \in Members : after[n] = "accepted"
    <2> HIDE DEF rows, after
    <2>1. \A n \in Members : /\ after[n] = "unsettled" <=> rows[n] = "pending"
                             /\ after[n] = "accepted" <=> rows[n] \in {"sent", "delivered"}
      BY <1>4, OutcomeFacts
    <2> QED
      BY <2>1 DEF With, Accepted
  <1>9. PhaseOf(Decision(rows), rows) =
           IF \E n \in Members : after[n] = "unsettled" THEN "open"
           ELSE IF \E n \in Members : after[n] = "accepted" THEN "sent" ELSE "failed"
    <2> HIDE DEF rows, after
    <2> QED
      BY <1>1, <1>8, PhaseFacts DEF Decision
  <1>10. contractPhase' = IF \E n \in Members : after[n] = "unsettled" THEN contractPhase
                          ELSE [contractPhase EXCEPT ![r] =
                                  IF \E n \in Members : after[n] = "accepted"
                                  THEN "sent" ELSE "failed"]
    <2> HIDE DEF rows, after
    <2>1. contractPhase = [contractPhase EXCEPT ![r] = contractPhase[r]]
      BY DEF contractPhase
    <2> QED
      BY <1>3, <1>7, <1>9, <2>1
  <1>11. Contract!Settle(r, m, o)
    BY <1>2, <1>3, <1>6, <1>10 DEF Contract!Settle
  <1> QED
    BY <1>2, <1>11 DEF Contract!Next

\* Newly selected members are enlisted.
LEMMA MaterializeRefines ==
    ASSUME StoreTypeOK, NEW r \in Runs, NEW E \in SUBSET Members,
           MaterializeCampaignDeliveryRun(r, E)
    PROVE  Contract!Next
  <1> DEFINE S == {m \in E : status[r][m] = "absent"}
             rows == [m \in Members |-> IF m \in E /\ status[r][m] = "absent"
                                        THEN "pending" ELSE status[r][m]]
  <1>1. runStatus[r] = "sending" /\ runStatus' = runStatus
        /\ status' = [status EXCEPT ![r] = rows]
    BY DEF MaterializeCampaignDeliveryRun
  <1>2. \A q \in Runs : status'[q] = IF q = r THEN rows ELSE status[q]
    BY <1>1 DEF StoreTypeOK
  <1>3. contractPhase[r] = "open" /\ S \in SUBSET Members
        /\ \A m \in S : contractOutcome[r][m] = "none"
    BY <1>1, RunAtPhase, PhaseFacts, OutcomeFacts
  <1>4. UNCHANGED contractPhase
    <2> HIDE DEF rows
    <2>1. \A q \in Runs : PhaseOf(runStatus'[q], status'[q]) = PhaseOf(runStatus[q], status[q])
      BY <1>1, <1>2, PhaseFacts
    <2>2. contractPhase' = [q \in Runs |-> PhaseOf(runStatus'[q], status'[q])]
      BY DEF contractPhase
    <2> QED
      BY <2>1, <2>2 DEF contractPhase
  <1>5. \A m \in Members : OutcomeOf(rows[m]) =
           IF m \in S THEN "unsettled" ELSE contractOutcome[r][m]
    BY RunAtPhase, OutcomeFacts DEF OutcomeOf
  <1>6. contractOutcome' = [contractOutcome EXCEPT ![r] =
           [m \in Members |-> IF m \in S THEN "unsettled" ELSE contractOutcome[r][m]]]
    <2> HIDE DEF rows, S
    <2>1. [m \in Members |-> OutcomeOf(rows[m])] =
             [m \in Members |-> IF m \in S THEN "unsettled" ELSE contractOutcome[r][m]]
      BY <1>5
    <2>2. contractOutcome' = [contractOutcome EXCEPT ![r] = [m \in Members |-> OutcomeOf(rows[m])]]
      BY <1>2 DEF contractOutcome
    <2> QED
      BY <2>1, <2>2
  <1>7. Contract!Enlist(r, S)
    <2> HIDE DEF S
    <2> QED
      BY <1>3, <1>4, <1>6 DEF Contract!Enlist
  <1> HIDE DEF S
  <1> QED
    BY <1>3, <1>7 DEF Contract!Next

\* A notification returns an accepted email or is invisible.
LEMMA NotifiedRefines ==
    ASSUME StoreTypeOK, NEW r \in Runs, NEW m \in Members,
           NEW o \in {"delivered", "bounced", "complained"}, ApplySESProviderOutcome(r, m, o)
    PROVE  Contract!Next \/ UNCHANGED <<contractPhase, contractOutcome>>
  <1> DEFINE next == NextSESProviderRecipientStatus(status[r][m], o)
             rows == [status[r] EXCEPT ![m] = next]
  <1>1. status' = [status EXCEPT ![r] = rows] /\ runStatus' = runStatus
        /\ status[r][m] \in ReachedProvider
    BY DEF ApplySESProviderOutcome
  <1>2. /\ next \in ReachedProvider
        /\ \/ OutcomeOf(next) = OutcomeOf(status[r][m])
           \/ OutcomeOf(status[r][m]) = "accepted" /\ OutcomeOf(next) = "returned"
    BY <1>1 DEF NextSESProviderRecipientStatus, ReachedProvider, OutcomeOf
  <1> HIDE DEF next
  <1>3. \A q \in Runs, n \in Members :
           status'[q][n] = IF q = r /\ n = m THEN next ELSE status[q][n]
    BY <1>1 DEF StoreTypeOK
  <1>4. \A q \in Runs : Recipients(status'[q]) = Recipients(status[q])
    BY <1>1, <1>2, <1>3 DEF Recipients, ReachedProvider
  <1>5. \A q \in Runs : PhaseOf(runStatus'[q], status'[q]) = PhaseOf(runStatus[q], status[q])
    BY <1>1, <1>4, PhaseOfRows
  <1>6. UNCHANGED contractPhase
    BY <1>5 DEF contractPhase
  <1>7. \A q \in Runs, n \in Members : OutcomeOf(status'[q][n]) =
           IF q = r /\ n = m THEN OutcomeOf(next) ELSE contractOutcome[q][n]
    BY <1>3, RunAtPhase
  <1>8. contractOutcome' = [q \in Runs |-> [n \in Members |->
           IF q = r /\ n = m THEN OutcomeOf(next) ELSE contractOutcome[q][n]]]
    BY <1>7 DEF contractOutcome
  <1>9. contractOutcome \in [Runs -> [Members -> Contract!Outcomes]]
    BY OutcomeFacts, RunAtPhase DEF contractOutcome, OutcomeOf, Contract!Outcomes
  <1>10. contractOutcome[r][m] = OutcomeOf(status[r][m])
    BY RunAtPhase
  <1>11. CASE OutcomeOf(next) = OutcomeOf(status[r][m])
    <2>1. contractOutcome' = contractOutcome
      BY <1>8, <1>9, <1>10, <1>11
    <2> QED
      BY <1>6, <2>1
  <1>12. CASE OutcomeOf(status[r][m]) = "accepted" /\ OutcomeOf(next) = "returned"
    <2>1. contractOutcome' = [contractOutcome EXCEPT ![r][m] = "returned"]
      BY <1>8, <1>9, <1>12
    <2>2. Contract!Return(r, m)
      BY <1>6, <1>10, <1>12, <2>1 DEF Contract!Return
    <2> QED
      BY <2>2 DEF Contract!Next
  <1> QED
    BY <1>2, <1>11, <1>12

\* A deleted policy stops its runs.
LEMMA StopRefines ==
    ASSUME StoreTypeOK, NEW p \in Policies, StopRunsForDeletedPolicy(p)
    PROVE  Contract!Next
  <1> DEFINE R == RunsOf(p)
  <1>1. R \in SUBSET Runs
    BY DEF RunsOf, Runs
  <1> HIDE DEF R
  <1>2. /\ \A q \in Runs, n \in Members : status'[q][n] =
              IF q \in R /\ status[q][n] = "pending" THEN "skipped" ELSE status[q][n]
        /\ \A q \in Runs : runStatus'[q] =
              IF q \in R /\ runStatus[q] \in {"scheduled", "sending"}
              THEN "cancelled" ELSE runStatus[q]
    BY DEF StopRunsForDeletedPolicy, R
  <1>3. OutcomeOf("skipped") = "refused"
    BY DEF OutcomeOf
  <1>4. \A q \in Runs, n \in Members : OutcomeOf(status'[q][n]) =
           IF q \in R /\ contractOutcome[q][n] = "unsettled" THEN "refused"
           ELSE contractOutcome[q][n]
    BY <1>2, <1>3, RunAtPhase, OutcomeFacts
  <1>5. contractOutcome' = [q \in Runs |-> [n \in Members |->
           IF q \in R /\ contractOutcome[q][n] = "unsettled" THEN "refused"
           ELSE contractOutcome[q][n]]]
    BY <1>4 DEF contractOutcome
  <1>6. \A q \in Runs : Recipients(status'[q]) = Recipients(status[q])
    BY <1>2 DEF Recipients
  <1>7. \A q \in Runs : contractPhase[q] \in {"waiting", "open"}
                           <=> runStatus[q] \in {"scheduled", "sending"}
    BY RunAtPhase DEF PhaseOf
  <1>8. \A q \in Runs : PhaseOf(runStatus'[q], status'[q]) =
           IF q \in R /\ contractPhase[q] \in {"waiting", "open"} THEN "withdrawn"
           ELSE contractPhase[q]
    <2> SUFFICES ASSUME NEW q \in Runs
                 PROVE  PhaseOf(runStatus'[q], status'[q]) =
                           IF q \in R /\ contractPhase[q] \in {"waiting", "open"}
                           THEN "withdrawn" ELSE contractPhase[q]
      OBVIOUS
    <2>1. PhaseOf(runStatus'[q], status'[q]) = PhaseOf(runStatus'[q], status[q])
      BY <1>6, PhaseOfRows
    <2>2. contractPhase[q] = PhaseOf(runStatus[q], status[q])
      BY RunAtPhase
    <2> QED
      BY <1>2, <1>7, <2>1, <2>2, PhaseFacts
  <1>9. contractPhase' = [q \in Runs |->
           IF q \in R /\ contractPhase[q] \in {"waiting", "open"} THEN "withdrawn"
           ELSE contractPhase[q]]
    BY <1>8 DEF contractPhase
  <1>10. Contract!Stop(R)
    BY <1>5, <1>9 DEF Contract!Stop
  <1> QED
    BY <1>1, <1>10 DEF Contract!Next


\* Every transaction is a step of the contract or invisible to it.
LEMMA StepRefines ==
    StoreInv /\ [StoreNext]_storeVars
        => [Contract!Next]_<<contractPhase, contractOutcome>>
  <1> SUFFICES ASSUME StoreInv, [StoreNext]_storeVars
               PROVE  Contract!Next \/ UNCHANGED <<contractPhase, contractOutcome>>
    OBVIOUS
  <1> USE DEF campaignVars, runVars, recipientVars, storeVars
  <1>0. StoreTypeOK /\ RunsOK /\ CampaignAgreesWithRuns
        /\ CampaignRuns \subseteq Runs /\ LegalRuns \subseteq Runs
    BY DEF StoreInv, Runs
  <1>1. CASE UNCHANGED <<runStatus, status>>
    BY <1>1, Invisible
  <1>2. CASE CampaignLifecycle
    <2>1. CASE CancelCampaign
      <3>1. \E r \in CampaignRuns : runStatus[r] = "scheduled"
        BY <1>0, <2>1 DEF CancelCampaign, CampaignAgreesWithRuns
      <3> QED
        BY <1>0, <2>1, <3>1, CancelRefines DEF CancelCampaign
    <2>2. CASE ReleaseCriteriaForArchive
      BY <1>0, <2>2, CancelRefines DEF ReleaseCriteriaForArchive
    <2>3. CASE DeleteCampaign
      BY <1>1, <2>3 DEF DeleteCampaign
    <2>4. ASSUME NEW r \in CampaignRuns, ScheduleCampaign(r) PROVE Contract!Next
      BY <1>0, <2>4, MoveRefines DEF ScheduleCampaign
    <2> QED
      BY <1>2, <2>1, <2>2, <2>3, <2>4 DEF CampaignLifecycle
  <1>3. CASE LegalLifecycle
    <2>1. \A p : RunsOf(p) \in SUBSET Runs /\ RunsOf(p) \cap UpdateNotices \in SUBSET Runs
      BY <1>0 DEF RunsOf
    <2>2. ASSUME NEW r \in LegalRuns, SealLegalNotice(r) PROVE Contract!Next
      BY <1>0, <2>2, MoveRefines DEF SealLegalNotice
    <2>3. ASSUME NEW p \in Policies, CancelScheduledRuns(p) PROVE Contract!Next
      BY <1>0, <2>1, <2>3, CancelRefines DEF CancelScheduledRuns
    <2>4. ASSUME NEW p \in Policies, CancelUpdateNoticeAfterActivation(p) PROVE Contract!Next
      BY <1>0, <2>1, <2>4, CancelRefines DEF CancelUpdateNoticeAfterActivation
    <2>5. ASSUME NEW p \in Policies, StopRunsForDeletedPolicy(p) PROVE Contract!Next
      BY <1>0, <2>5, StopRefines
    <2> QED
      BY <1>3, <2>2, <2>3, <2>4, <2>5 DEF LegalLifecycle
  <1>4. ASSUME NEW r \in Runs, TimeReaches(r)
        PROVE  UNCHANGED <<contractPhase, contractOutcome>>
    BY <1>1, <1>4, Invisible DEF TimeReaches
  <1>5. ASSUME NEW r \in CampaignRuns, NEW E \in SUBSET Members, SendCampaignNow(r, E)
        PROVE Contract!Next
    <2>1. \A q \in CampaignRuns : runStatus[q] # "scheduled"
      BY <1>0, <1>5 DEF SendCampaignNow, CampaignAgreesWithRuns
    <2>2. ScheduledCancelled(CampaignRuns) = runStatus
      BY <1>0, <2>1 DEF ScheduledCancelled, StoreTypeOK
    <2> QED
      BY <1>0, <1>5, <2>2, MoveRefines DEF SendCampaignNow
  <1>6. ASSUME NEW r \in Runs, NEW E \in SUBSET Members, DispatchEmailDeliveryRun(r, E)
        PROVE Contract!Next
    <2>1. runStatus[r] = "scheduled" /\ UNCHANGED status
      BY <1>6 DEF DispatchEmailDeliveryRun
    <2>2. \E rs \in {"sending", "failed", "skipped"} : runStatus' = [runStatus EXCEPT ![r] = rs]
      BY <1>6 DEF DispatchEmailDeliveryRun, DispatchEmptyCampaign, DispatchToCampaign,
         DispatchLegalNotice
    <2> QED
      BY <1>0, <2>1, <2>2, MoveRefines
  <1>7. ASSUME NEW r \in Runs, NEW E \in SUBSET Members, MaterializeCampaignDeliveryRun(r, E)
        PROVE Contract!Next
    BY <1>0, <1>7, MaterializeRefines
  <1>8. ASSUME NEW r \in Runs, NEW m \in Members, RecipientStep(r, m)
        PROVE Contract!Next \/ UNCHANGED <<contractPhase, contractOutcome>>
    <2>1. ASSUME NEW w \in Workers, \/ ClaimCampaignDeliveryRecipient(w, r, m)
                                    \/ ReleaseCampaignDeliveryRecipientClaim(w, r, m)
          PROVE UNCHANGED <<contractPhase, contractOutcome>>
      <3>1. UNCHANGED <<runStatus, status>>
        BY <2>1 DEF ClaimCampaignDeliveryRecipient, ReleaseCampaignDeliveryRecipientClaim
      <3> QED
        BY <3>1, Invisible
    <2>2. ASSUME NEW s \in {"sent"} \cup FailureStatuses, status[r][m] = "pending",
                 StoreRecipientResult(r, m, s)
          PROVE Contract!Next
      BY <1>0, <2>2, ResultRefines
    <2>3. ASSUME NEW o \in {"delivered", "bounced", "complained"},
                 ApplySESProviderOutcome(r, m, o)
          PROVE Contract!Next \/ UNCHANGED <<contractPhase, contractOutcome>>
      BY <1>0, <2>3, NotifiedRefines
    <2> QED
      BY <1>8, <2>1, <2>2, <2>3 DEF RecipientStep, MarkClaimedResult, MarkUnclaimedResult
  <1>9. LeaseTick \/ UNCHANGED storeVars => UNCHANGED <<runStatus, status>>
    BY DEF LeaseTick
  <1> QED
    BY <1>1, <1>2, <1>3, <1>4, <1>5, <1>6, <1>7, <1>8, <1>9 DEF StoreNext

LEMMA InitRefines == StoreInit => Contract!Init
  <1> SUFFICES ASSUME StoreInit PROVE Contract!Init
    OBVIOUS
  <1>1. /\ contractPhase = [r \in Runs |-> "none"]
        /\ contractOutcome = [r \in Runs |-> [m \in Members |-> "none"]]
    BY DEF StoreInit, contractPhase, contractOutcome, PhaseOf, OutcomeOf
  <1> QED
    BY <1>1 DEF Contract!Init

\* The store implements the contract: a run settles each recipient once and
\* closes in the transaction that stores the last result, as the results
\* justify, for any number of runs, members and workers.
THEOREM StoreImplementsContract == StoreSpec => ImplementsContract
  BY InitRefines, StepRefines, StoreInvariant, PTL DEF StoreSpec, ImplementsContract, Contract!Spec

-----------------------------------------------------------------------------
(* Finality.                                                                 *)

\* A step that touches no terminal row and no completed run.
LEMMA FinalIfRowsKept ==
    ASSUME \A r \in Runs, m \in Members :
              status[r][m] \in TerminalStatuses => status'[r][m] = status[r][m],
           \A r \in Runs : runStatus[r] \in CompletedStatuses => runStatus'[r] = runStatus[r]
    PROVE  FinalStep
  BY DEF FinalStep

LEMMA FinalityStep == StoreInv /\ [StoreNext]_storeVars => [FinalStep]_storeVars
  <1> SUFFICES ASSUME StoreInv, StoreNext PROVE FinalStep
    OBVIOUS
  <1> USE DEF campaignVars, runVars, recipientVars, storeVars
  <1>0. /\ StoreTypeOK /\ RunsOK /\ CampaignRuns \subseteq Runs /\ LegalRuns \subseteq Runs
        /\ {"absent", "scheduled", "sending"} \cap CompletedStatuses = {}
        /\ {"absent", "pending"} \cap TerminalStatuses = {}
    BY StatusAssumption
       DEF StoreInv, Runs, CompletedStatuses, TerminalStatuses, ReachedProvider
  <1>1. \A R : \A r \in Runs : runStatus[r] \in CompletedStatuses
                                  => ScheduledCancelled(R)[r] = runStatus[r]
    BY <1>0 DEF ScheduledCancelled
  <1>2. CASE CampaignLifecycle
    <2>1. UNCHANGED status
      BY <1>2 DEF CampaignLifecycle, CancelCampaign, ReleaseCriteriaForArchive,
         DeleteCampaign, ScheduleCampaign
    <2>2. \A r \in Runs : runStatus[r] \in CompletedStatuses => runStatus'[r] = runStatus[r]
      BY <1>0, <1>1, <1>2 DEF CampaignLifecycle, CancelCampaign, ReleaseCriteriaForArchive,
         DeleteCampaign, ScheduleCampaign, StoreTypeOK
    <2> QED
      BY <2>1, <2>2, FinalIfRowsKept
  <1>3. CASE LegalLifecycle
    <2>1. ASSUME NEW p \in Policies, StopRunsForDeletedPolicy(p) PROVE FinalStep
      <3>1. \A r \in Runs, m \in Members :
               status[r][m] \in TerminalStatuses => status'[r][m] = status[r][m]
        BY <1>0, <2>1 DEF StopRunsForDeletedPolicy
      <3>2. \A r \in Runs : runStatus[r] \in CompletedStatuses => runStatus'[r] = runStatus[r]
        BY <1>0, <2>1 DEF StopRunsForDeletedPolicy
      <3> QED
        BY <3>1, <3>2, FinalIfRowsKept
    <2>2. ASSUME \/ \E r \in LegalRuns : SealLegalNotice(r)
                 \/ \E p \in Policies : \/ CancelScheduledRuns(p)
                                        \/ CancelUpdateNoticeAfterActivation(p)
          PROVE  FinalStep
      <3>1. UNCHANGED status
        BY <2>2 DEF SealLegalNotice, CancelScheduledRuns, CancelUpdateNoticeAfterActivation
      <3>2. \A r \in Runs : runStatus[r] \in CompletedStatuses => runStatus'[r] = runStatus[r]
        BY <1>0, <1>1, <2>2 DEF SealLegalNotice, CancelScheduledRuns,
           CancelUpdateNoticeAfterActivation, StoreTypeOK
      <3> QED
        BY <3>1, <3>2, FinalIfRowsKept
    <2> QED
      BY <1>3, <2>1, <2>2 DEF LegalLifecycle
  <1>4. ASSUME NEW r \in CampaignRuns, NEW E \in SUBSET Members, SendCampaignNow(r, E)
        PROVE FinalStep
    <2>1. UNCHANGED status
      BY <1>4 DEF SendCampaignNow
    <2>2. \A q \in Runs : runStatus[q] \in CompletedStatuses => runStatus'[q] = runStatus[q]
      <3>1. ScheduledCancelled(CampaignRuns) \in [Runs -> RunStatuses]
        BY <1>0, CancelledType
      <3> QED
        BY <1>0, <1>1, <1>4, <3>1 DEF SendCampaignNow
    <2> QED
      BY <2>1, <2>2, FinalIfRowsKept
  <1>5. ASSUME NEW r \in Runs, NEW E \in SUBSET Members, DispatchEmailDeliveryRun(r, E)
        PROVE FinalStep
    <2>1. UNCHANGED status /\ runStatus[r] = "scheduled"
          /\ \E rs : runStatus' = [runStatus EXCEPT ![r] = rs]
      BY <1>5 DEF DispatchEmailDeliveryRun, DispatchEmptyCampaign, DispatchToCampaign,
         DispatchLegalNotice
    <2>2. \A q \in Runs : runStatus[q] \in CompletedStatuses => runStatus'[q] = runStatus[q]
      BY <1>0, <2>1 DEF StoreTypeOK
    <2> QED
      BY <2>1, <2>2, FinalIfRowsKept
  <1>6. ASSUME NEW r \in Runs, NEW E \in SUBSET Members, MaterializeCampaignDeliveryRun(r, E)
        PROVE FinalStep
    <2>1. \A q \in Runs, m \in Members :
             status[q][m] \in TerminalStatuses => status'[q][m] = status[q][m]
      BY <1>0, <1>6 DEF MaterializeCampaignDeliveryRun, StoreTypeOK
    <2> QED
      BY <1>6, <2>1, FinalIfRowsKept DEF MaterializeCampaignDeliveryRun
  <1>7. ASSUME NEW r \in Runs, NEW m \in Members, RecipientStep(r, m) PROVE FinalStep
    <2>1. ASSUME NEW w \in Workers, \/ ClaimCampaignDeliveryRecipient(w, r, m)
                                    \/ ReleaseCampaignDeliveryRecipientClaim(w, r, m)
          PROVE FinalStep
      BY <2>1, FinalIfRowsKept
         DEF ClaimCampaignDeliveryRecipient, ReleaseCampaignDeliveryRecipientClaim
    <2>2. ASSUME NEW s \in {"sent"} \cup FailureStatuses, status[r][m] = "pending",
                 StoreRecipientResult(r, m, s)
          PROVE FinalStep
      <3>1. runStatus[r] = "sending" /\ \E d : runStatus' = [runStatus EXCEPT ![r] = d]
        BY <1>0, <2>2, ResultStep
      <3>2. \A q \in Runs : runStatus[q] \in CompletedStatuses => runStatus'[q] = runStatus[q]
        BY <1>0, <3>1 DEF StoreTypeOK
      <3>3. \A q \in Runs, n \in Members :
               status[q][n] \in TerminalStatuses => status'[q][n] = status[q][n]
        BY <1>0, <2>2 DEF StoreRecipientResult, StoreTypeOK
      <3> QED
        BY <3>2, <3>3, FinalIfRowsKept
    <2>3. ASSUME NEW o \in {"delivered", "bounced", "complained"},
                 ApplySESProviderOutcome(r, m, o)
          PROVE FinalStep
      <3> DEFINE next == NextSESProviderRecipientStatus(status[r][m], o)
      <3>1. next = status[r][m] \/ <<status[r][m], next>> \in ProviderProgress
        BY DEF NextSESProviderRecipientStatus, ProviderProgress
      <3>2. status' = [status EXCEPT ![r] = [status[r] EXCEPT ![m] = next]]
            /\ runStatus' = runStatus
        BY <2>3 DEF ApplySESProviderOutcome
      <3> HIDE DEF next
      <3>3. \A q \in Runs, n \in Members :
               status'[q][n] = IF q = r /\ n = m THEN next ELSE status[q][n]
        BY <1>0, <3>2 DEF StoreTypeOK
      <3> QED
        BY <3>1, <3>2, <3>3 DEF FinalStep
    <2> QED
      BY <1>7, <2>1, <2>2, <2>3 DEF RecipientStep, MarkClaimedResult, MarkUnclaimedResult
  <1>8. ASSUME LeaseTick \/ \E r \in Runs : TimeReaches(r) PROVE FinalStep
    BY <1>8, FinalIfRowsKept DEF LeaseTick, TimeReaches
  <1> QED
    BY <1>2, <1>3, <1>4, <1>5, <1>6, <1>7, <1>8 DEF StoreNext

\* Results are final: only a provider's notification moves a terminal
\* recipient, and only forward; a completed run keeps its status.
THEOREM StoreResultsFinal == StoreSpec => ResultsAreFinal
  BY FinalityStep, StoreInvariant, PTL DEF StoreSpec, ResultsAreFinal
=============================================================================
