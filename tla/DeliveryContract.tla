-------------------------- MODULE DeliveryContract --------------------------
(***************************************************************************)
(* What email delivery promises of a run, without claims, leases, targets, *)
(* counters or the Campaign row: a run waits, opens, takes in recipients,  *)
(* settles each of them once, and closes in the very step that settles the *)
(* last one, with a result that the settled recipients justify.            *)
(* CampaignStore implements it.                                            *)
(***************************************************************************)
CONSTANTS Runs, Members

VARIABLES
    phase,   \* phase[r]: the run's phase, or its result once it is closed
    outcome  \* outcome[r][m]: what became of the member's email

Closed == {"sent", "failed", "empty", "withdrawn"}
Phases == {"none", "waiting", "open"} \cup Closed
Outcomes == {"none", "unsettled", "accepted", "returned", "refused"}

Init ==
    /\ phase = [r \in Runs |-> "none"]
    /\ outcome = [r \in Runs |-> [m \in Members |-> "none"]]

Create(r) ==
    /\ phase[r] = "none"
    /\ phase' = [phase EXCEPT ![r] = "waiting"]
    /\ UNCHANGED outcome

\* Waiting runs are withdrawn together.
Withdraw(R) ==
    /\ R # {}
    /\ \A r \in R : phase[r] = "waiting"
    /\ phase' = [r \in Runs |-> IF r \in R THEN "withdrawn" ELSE phase[r]]
    /\ UNCHANGED outcome

\* A run opens, or finds nobody to send to.
Open(r) ==
    /\ phase[r] \in {"none", "waiting"}
    /\ phase' = [phase EXCEPT ![r] = "open"]
    /\ UNCHANGED outcome

FindNobody(r) ==
    /\ phase[r] = "waiting"
    /\ phase' = [phase EXCEPT ![r] = "empty"]
    /\ UNCHANGED outcome

\* An open run takes in members that it does not have yet.
Enlist(r, S) ==
    /\ phase[r] = "open"
    /\ \A m \in S : outcome[r][m] = "none"
    /\ outcome' = [outcome EXCEPT ![r] =
                      [m \in Members |-> IF m \in S THEN "unsettled" ELSE outcome[r][m]]]
    /\ UNCHANGED phase

Settle(r, m, o) ==
    LET after == [outcome[r] EXCEPT ![m] = o]
        result == IF \E n \in Members : after[n] = "accepted" THEN "sent" ELSE "failed"
    IN
    /\ phase[r] = "open"
    /\ outcome[r][m] = "unsettled"
    /\ o \in {"accepted", "refused"}
    /\ outcome' = [outcome EXCEPT ![r] = after]
    /\ phase' = IF \E n \in Members : after[n] = "unsettled"
                THEN phase ELSE [phase EXCEPT ![r] = result]

\* The provider reports an accepted email as bounced or complained about.
Return(r, m) ==
    /\ outcome[r][m] = "accepted"
    /\ outcome' = [outcome EXCEPT ![r][m] = "returned"]
    /\ UNCHANGED phase

\* Runs are stopped for good: nothing of them stays unsettled.
Stop(R) ==
    /\ outcome' = [r \in Runs |-> [m \in Members |->
          IF r \in R /\ outcome[r][m] = "unsettled" THEN "refused" ELSE outcome[r][m]]]
    /\ phase' = [r \in Runs |->
          IF r \in R /\ phase[r] \in {"waiting", "open"} THEN "withdrawn" ELSE phase[r]]

Next ==
    \/ \E r \in Runs : Create(r) \/ Open(r) \/ FindNobody(r)
    \/ \E R \in SUBSET Runs : Withdraw(R) \/ Stop(R)
    \/ \E r \in Runs, S \in SUBSET Members : Enlist(r, S)
    \/ \E r \in Runs, m \in Members :
          Return(r, m) \/ \E o \in {"accepted", "refused"} : Settle(r, m, o)

Spec == Init /\ [][Next]_<<phase, outcome>>
=============================================================================
