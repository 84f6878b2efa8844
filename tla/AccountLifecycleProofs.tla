----------------------- MODULE AccountLifecycleProofs -----------------------
(***************************************************************************)
(* The safety properties of AccountLifecycle, for any accounts, any number *)
(* of waiting requests and any number of failed flows.                     *)
(*                                                                         *)
(* The invariants are not inductive alone: they rest on what a fenced flow *)
(* knows between two of its calls (FlowInv), which holds because nothing   *)
(* else writes the account while its Identity lock is held.  All of it but *)
(* AnAdminRemains is about one account (AccountInv), so that a step has to *)
(* be looked at for the account it acts on only.                           *)
(***************************************************************************)
EXTENDS AccountLifecycle, Integers, TLAPS

Ended == {"tombstoned", "gone"}

(* What a flow has established by the call it makes next. *)
FlowInv(u) ==
    /\ fence[u] = [job |-> "ban", at |-> "metadata"]
          => identity[u] = "inactive"
    /\ fence[u] = [job |-> "lift", at |-> "metadata"]
          => identity[u] = "active"
    /\ \A mode \in Modes :
          fence[u].job = mode =>
             /\ identity[u] = "absent"
             /\ fence[u].at \in {"anchor", "finalize", "complete"}
                   => role[u] = "none"
             /\ fence[u].at \in {"finalize", "complete"} => ~anchor[u]
             /\ fence[u].at = "complete" => member[u] \in Ended
             /\ mode = "hard" /\ fence[u].at # "complete"
                   => member[u] = "unonboarded"
             /\ mode = "tombstone" => member[u] # "gone"

(* The properties of one account. *)
EndInv(u) ==
    /\ audits[u] = IF member[u] \in Ended THEN 1 ELSE 0
    /\ member[u] \in Ended => ~anchor[u]
    /\ ~anchor[u] => role[u] = "none" /\ identity[u] = "absent"

PlanInv(u) ==
    u \notin overtaken =>
        /\ Dispatched(u) => request[u] = "none" /\ identity[u] # "active"
        /\ identity[u] = "absent" /\ member[u] \notin Ended
              => \/ Dispatched(u)
                 \/ "hard" \in command[u] /\ member[u] = "unonboarded"

AccountInv(u) == FlowInv(u) /\ EndInv(u) /\ PlanInv(u)

IInv ==
    /\ TypeOK
    /\ \A u \in Users : AccountInv(u)
    /\ AnAdminRemains

(* The columns of one account. *)
RowOf(u) ==
    <<member[u], anchor[u], identity[u], role[u], request[u], command[u],
      fence[u], audits[u]>>

-----------------------------------------------------------------------------
(* The flows are in their set.                                             *)

LEMMA FlowTypes ==
    /\ NoFlow \in Flows \cup {NoFlow}
    /\ [job |-> "deactivate", at |-> "sessions"] \in Flows
    /\ [job |-> "ban", at |-> "metadata"] \in Flows
    /\ [job |-> "ban", at |-> "sessions"] \in Flows
    /\ [job |-> "lift", at |-> "metadata"] \in Flows
    /\ \A mode \in Modes :
          /\ [job |-> mode, at |-> "relationships"] \in Flows
          /\ [job |-> mode, at |-> "anchor"] \in Flows
          /\ [job |-> mode, at |-> "finalize"] \in Flows
          /\ [job |-> mode, at |-> "complete"] \in Flows
  BY DEF Flows, Modes

(* An account whose columns a step leaves alone keeps its invariant. *)
LEMMA RowFrame ==
    ASSUME NEW v \in Users, AccountInv(v), RowOf(v)' = RowOf(v),
           v \notin overtaken' => v \notin overtaken
    PROVE  AccountInv(v)'
  BY DEF RowOf, AccountInv, FlowInv, EndInv, PlanInv, Dispatched

(* So does the set of all accounts when the step keeps the one it acts on. *)
LEMMA StepFrame ==
    ASSUME \A v \in Users : AccountInv(v), NEW u \in Users, AccountInv(u)',
           \A v \in Users \ {u} : RowOf(v)' = RowOf(v),
           overtaken \subseteq overtaken'
    PROVE  (\A v \in Users : AccountInv(v))'
<1> SUFFICES ASSUME NEW v \in Users PROVE AccountInv(v)'
  OBVIOUS
<1>1. CASE v = u
  BY <1>1
<1>2. CASE v # u
  BY <1>2, RowFrame
<1> QED BY <1>1, <1>2

(* An active administrator whom a step does not touch is still one. *)
LEMMA AdminFrame ==
    ASSUME NEW v \in Users, ActiveAdmin(v), RowOf(v)' = RowOf(v),
           ban'[v] = ban[v]
    PROVE  ActiveAdmin(v)'
  BY DEF RowOf, ActiveAdmin, Live, Active, Linked, Pending

(* A step that acts on an account which is no active administrator. *)
LEMMA OtherAdminRemains ==
    ASSUME AnAdminRemains, NEW u \in Users,
           \/ overtaken # {}
           \/ ~ActiveAdmin(u)
           \/ ActiveAdmin(u)'
           \/ \E v \in Users \ {u} : ActiveAdmin(v),
           \A v \in Users \ {u} : RowOf(v)' = RowOf(v) /\ ban'[v] = ban[v],
           overtaken \subseteq overtaken'
    PROVE  AnAdminRemains'
<1> SUFFICES ASSUME overtaken' = {} PROVE \E v \in Users : ActiveAdmin(v)'
  BY DEF AnAdminRemains
<1>1. PICK w \in Users : ActiveAdmin(w)
  BY DEF AnAdminRemains
<1>2. CASE w # u
  BY <1>1, <1>2, AdminFrame
<1>3. CASE w = u
  <2>1. CASE ActiveAdmin(u)'
    BY <2>1
  <2>2. CASE \E v \in Users \ {u} : ActiveAdmin(v)
    BY <2>2, AdminFrame
  <2> QED BY <1>1, <1>3, <2>1, <2>2
<1> QED BY <1>2, <1>3

(* A flow that bans or deletes an account acts on no active administrator. *)
LEMMA FlowNotAdmin ==
    ASSUME NEW u \in Users, FlowInv(u),
           \/ fence[u] = [job |-> "ban", at |-> "metadata"]
           \/ fence[u].job \in Modes
    PROVE  ~ActiveAdmin(u)
  BY DEF FlowInv, ActiveAdmin, Live, Active

(* The shape of every step: it acts on one account u. *)
LEMMA StepKeeps ==
    ASSUME IInv, NEW u \in Users, TypeOK', AccountInv(u)',
           \A v \in Users \ {u} : RowOf(v)' = RowOf(v) /\ ban'[v] = ban[v],
           overtaken \subseteq overtaken',
           \/ overtaken # {}
           \/ ~ActiveAdmin(u)
           \/ ActiveAdmin(u)'
           \/ \E v \in Users \ {u} : ActiveAdmin(v)
    PROVE  IInv'
<1>1. (\A v \in Users : AccountInv(v))'
  BY StepFrame DEF IInv
<1>2. AnAdminRemains'
  BY OtherAdminRemains DEF IInv
<1> QED BY <1>1, <1>2 DEF IInv

(* An account whose role is guarded by the last-administrator fence. *)
LEMMA FencedAdmin ==
    ASSUME NEW u \in Users, KeepsAnAdmin(u)
    PROVE  ~ActiveAdmin(u) \/ \E v \in Users \ {u} : ActiveAdmin(v)
  BY DEF KeepsAnAdmin, ActiveAdmin

LEMMA LoginKeeps ==
    ASSUME IInv, NEW u \in Targets, Login(u)
    PROVE  IInv'
<1> USE AccountAssumption DEF IInv
<1>1. TypeOK'
  BY DEF Login, TypeOK
<1>2. AccountInv(u)'
  BY DEF Login, TypeOK, AccountInv, FlowInv, EndInv, PlanInv, Dispatched
<1>3. \A v \in Users \ {u} : RowOf(v)' = RowOf(v) /\ ban'[v] = ban[v]
  BY DEF Login, TypeOK, RowOf
<1>4. overtaken \subseteq overtaken'
  BY DEF Login
<1>5. \/ ~ActiveAdmin(u)
      \/ ActiveAdmin(u)'
      \/ \E v \in Users \ {u} : ActiveAdmin(v)
  BY DEF Login, TypeOK, ActiveAdmin, Live, Active, Linked, Pending
<1> QED BY <1>1, <1>2, <1>3, <1>4, <1>5, StepKeeps

LEMMA ValidateKeeps ==
    ASSUME IInv, NEW u \in Targets, NEW entry \in Entries, Validate(u, entry)
    PROVE  IInv'
<1> USE AccountAssumption DEF IInv
<1>1. TypeOK'
  BY DEF Validate, TypeOK
<1>2. AccountInv(u)'
  BY DEF Validate, TypeOK, AccountInv, FlowInv, EndInv, PlanInv, Dispatched
<1>3. \A v \in Users \ {u} : RowOf(v)' = RowOf(v) /\ ban'[v] = ban[v]
  BY DEF Validate, TypeOK, RowOf
<1>4. overtaken \subseteq overtaken'
  BY DEF Validate
<1>5. \/ ~ActiveAdmin(u)
      \/ ActiveAdmin(u)'
      \/ \E v \in Users \ {u} : ActiveAdmin(v)
  BY DEF Validate, Active, Linked, TypeOK, ActiveAdmin, Live, Active, Linked,
         Pending
<1> QED BY <1>1, <1>2, <1>3, <1>4, <1>5, StepKeeps

LEMMA RefuseKeeps ==
    ASSUME IInv, NEW u \in Targets, NEW entry \in Entries, Refuse(u, entry)
    PROVE  IInv'
<1> USE AccountAssumption DEF IInv
<1>1. TypeOK'
  BY DEF Refuse, TypeOK
<1>2. AccountInv(u)'
  BY DEF Refuse, TypeOK, AccountInv, FlowInv, EndInv, PlanInv, Dispatched
<1>3. \A v \in Users \ {u} : RowOf(v)' = RowOf(v) /\ ban'[v] = ban[v]
  BY DEF Refuse, TypeOK, RowOf
<1>4. overtaken \subseteq overtaken'
  BY DEF Refuse
<1>5. \/ ~ActiveAdmin(u)
      \/ ActiveAdmin(u)'
      \/ \E v \in Users \ {u} : ActiveAdmin(v)
  BY DEF Refuse, TypeOK, ActiveAdmin, Live, Active, Linked, Pending
<1> QED BY <1>1, <1>2, <1>3, <1>4, <1>5, StepKeeps

LEMMA RequestDeletionKeeps ==
    ASSUME IInv, NEW u \in Targets, RequestDeletion(u)
    PROVE  IInv'
<1> USE AccountAssumption DEF IInv
<1>1. TypeOK'
  BY DEF RequestDeletion, TypeOK, Overtake, RequestStates, PendingStates
<1>2. AccountInv(u)'
  BY DEF RequestDeletion, TypeOK, Overtake, AccountInv, FlowInv, EndInv,
         PlanInv, Dispatched
<1>3. \A v \in Users \ {u} : RowOf(v)' = RowOf(v) /\ ban'[v] = ban[v]
  BY DEF RequestDeletion, TypeOK, Overtake, RowOf
<1>4. overtaken \subseteq overtaken'
  BY DEF RequestDeletion, Overtake
<1>5. \/ ~ActiveAdmin(u)
      \/ ActiveAdmin(u)'
      \/ \E v \in Users \ {u} : ActiveAdmin(v)
  BY DEF RequestDeletion, Overtake, Pending, PendingStates, TypeOK,
         ActiveAdmin, Live, Active, Linked, Pending, PendingStates
<1> QED BY <1>1, <1>2, <1>3, <1>4, <1>5, StepKeeps

LEMMA CompleteOnboardingKeeps ==
    ASSUME IInv, NEW u \in Targets, CompleteOnboarding(u)
    PROVE  IInv'
<1> USE AccountAssumption DEF IInv
<1>1. TypeOK'
  BY DEF CompleteOnboarding, TypeOK, Overtake, Members
<1>2. AccountInv(u)'
  BY DEF CompleteOnboarding, TypeOK, Overtake, Unlocked, AccountInv, FlowInv,
         EndInv, PlanInv, Ended, Dispatched, NoFlow
<1>3. \A v \in Users \ {u} : RowOf(v)' = RowOf(v) /\ ban'[v] = ban[v]
  BY DEF CompleteOnboarding, TypeOK, Overtake, RowOf
<1>4. overtaken \subseteq overtaken'
  BY DEF CompleteOnboarding, Overtake
<1>5. \/ ~ActiveAdmin(u)
      \/ ActiveAdmin(u)'
      \/ \E v \in Users \ {u} : ActiveAdmin(v)
  BY DEF CompleteOnboarding, Overtake, TypeOK, ActiveAdmin
<1> QED BY <1>1, <1>2, <1>3, <1>4, <1>5, StepKeeps

LEMMA ConfirmDeletionKeeps ==
    ASSUME IInv, NEW u \in Targets, ConfirmDeletion(u)
    PROVE  IInv'
<1> USE AccountAssumption DEF IInv
<1>1. TypeOK'
  BY DEF ConfirmDeletion, TypeOK, RequestStates, PendingStates
<1>2. AccountInv(u)'
  BY DEF ConfirmDeletion, TypeOK, AccountInv, FlowInv, EndInv, PlanInv,
         Dispatched
<1>3. \A v \in Users \ {u} : RowOf(v)' = RowOf(v) /\ ban'[v] = ban[v]
  BY DEF ConfirmDeletion, TypeOK, RowOf
<1>4. overtaken \subseteq overtaken'
  BY DEF ConfirmDeletion
<1>5. \/ ~ActiveAdmin(u)
      \/ ActiveAdmin(u)'
      \/ \E v \in Users \ {u} : ActiveAdmin(v)
  BY FencedAdmin DEF ConfirmDeletion
<1> QED BY <1>1, <1>2, <1>3, <1>4, <1>5, StepKeeps

LEMMA CancelDeletionKeeps ==
    ASSUME IInv, NEW u \in Targets, CancelDeletion(u)
    PROVE  IInv'
<1> USE AccountAssumption DEF IInv
<1>1. TypeOK'
  BY DEF CancelDeletion, TypeOK, EndRequest, RequestStates, TerminalStates
<1>2. AccountInv(u)'
  BY DEF CancelDeletion, TypeOK, EndRequest, AccountInv, FlowInv, EndInv,
         PlanInv, Dispatched
<1>3. \A v \in Users \ {u} : RowOf(v)' = RowOf(v) /\ ban'[v] = ban[v]
  BY DEF CancelDeletion, TypeOK, EndRequest, RowOf
<1>4. overtaken \subseteq overtaken'
  BY DEF CancelDeletion, EndRequest
<1>5. \/ ~ActiveAdmin(u)
      \/ ActiveAdmin(u)'
      \/ \E v \in Users \ {u} : ActiveAdmin(v)
  BY DEF CancelDeletion, EndRequest, TypeOK, ActiveAdmin, Live, Pending,
         PendingStates
<1> QED BY <1>1, <1>2, <1>3, <1>4, <1>5, StepKeeps

LEMMA StartRecoveryKeeps ==
    ASSUME IInv, NEW u \in Targets, StartRecovery(u)
    PROVE  IInv'
<1> USE AccountAssumption DEF IInv
<1>1. TypeOK'
  BY DEF StartRecovery, TypeOK, PendingStates, RequestStates, PendingStates
<1>2. AccountInv(u)'
  BY DEF StartRecovery, TypeOK, Pending, PendingStates, AccountInv, FlowInv,
         EndInv, PlanInv, Dispatched
<1>3. \A v \in Users \ {u} : RowOf(v)' = RowOf(v) /\ ban'[v] = ban[v]
  BY DEF StartRecovery, TypeOK, RowOf
<1>4. overtaken \subseteq overtaken'
  BY DEF StartRecovery
<1>5. \/ ~ActiveAdmin(u)
      \/ ActiveAdmin(u)'
      \/ \E v \in Users \ {u} : ActiveAdmin(v)
  BY DEF StartRecovery, TypeOK, ActiveAdmin, Live, Pending, PendingStates
<1> QED BY <1>1, <1>2, <1>3, <1>4, <1>5, StepKeeps

LEMMA ConfirmRecoveryKeeps ==
    ASSUME IInv, NEW u \in Targets, ConfirmRecovery(u)
    PROVE  IInv'
<1> USE AccountAssumption DEF IInv
<1>1. TypeOK'
  BY DEF ConfirmRecovery, TypeOK, EndRequest, RequestStates, TerminalStates
<1>2. AccountInv(u)'
  BY DEF ConfirmRecovery, TypeOK, EndRequest, AccountInv, FlowInv, EndInv,
         PlanInv, Dispatched
<1>3. \A v \in Users \ {u} : RowOf(v)' = RowOf(v) /\ ban'[v] = ban[v]
  BY DEF ConfirmRecovery, TypeOK, EndRequest, RowOf
<1>4. overtaken \subseteq overtaken'
  BY DEF ConfirmRecovery, EndRequest
<1>5. \/ ~ActiveAdmin(u)
      \/ ActiveAdmin(u)'
      \/ \E v \in Users \ {u} : ActiveAdmin(v)
  BY DEF ConfirmRecovery, EndRequest, TypeOK, ActiveAdmin, Live, Pending,
         PendingStates
<1> QED BY <1>1, <1>2, <1>3, <1>4, <1>5, StepKeeps

LEMMA GraceEndsKeeps ==
    ASSUME IInv, NEW u \in Targets, GraceEnds(u)
    PROVE  IInv'
<1> USE AccountAssumption DEF IInv
<1>1. TypeOK'
  BY DEF GraceEnds, TypeOK
<1>2. AccountInv(u)'
  BY DEF GraceEnds, TypeOK, AccountInv, FlowInv, EndInv, PlanInv, Dispatched
<1>3. \A v \in Users \ {u} : RowOf(v)' = RowOf(v) /\ ban'[v] = ban[v]
  BY DEF GraceEnds, TypeOK, RowOf
<1>4. overtaken \subseteq overtaken'
  BY DEF GraceEnds
<1>5. \/ ~ActiveAdmin(u)
      \/ ActiveAdmin(u)'
      \/ \E v \in Users \ {u} : ActiveAdmin(v)
  BY DEF GraceEnds, TypeOK, ActiveAdmin, Live
<1> QED BY <1>1, <1>2, <1>3, <1>4, <1>5, StepKeeps

LEMMA SetAccountRoleKeeps ==
    ASSUME IInv, NEW u \in Targets, NEW a \in Users, NEW r \in {"user", "admin"},
           SetAccountRole(a, u, r)
    PROVE  IInv'
<1> USE AccountAssumption DEF IInv
<1>1. TypeOK'
  BY DEF SetAccountRole, TypeOK, Roles
<1>2. AccountInv(u)'
  BY DEF SetAccountRole, TypeOK, Live, Active, AccountInv, FlowInv, EndInv,
         PlanInv, Dispatched
<1>3. \A v \in Users \ {u} : RowOf(v)' = RowOf(v) /\ ban'[v] = ban[v]
  BY DEF SetAccountRole, TypeOK, RowOf
<1>4. overtaken \subseteq overtaken'
  BY DEF SetAccountRole
<1>5. \/ ~ActiveAdmin(u)
      \/ ActiveAdmin(u)'
      \/ \E v \in Users \ {u} : ActiveAdmin(v)
  BY DEF SetAccountRole, TypeOK, ActiveAdmin, Live, Active, Linked
<1> QED BY <1>1, <1>2, <1>3, <1>4, <1>5, StepKeeps

LEMMA DeleteAccountKeeps ==
    ASSUME IInv, NEW u \in Targets, NEW a \in Users, DeleteAccount(a, u)
    PROVE  IInv'
<1> USE AccountAssumption DEF IInv
<1>1. TypeOK'
  BY DEF DeleteAccount, TypeOK, Overtake, RequestStates, PendingStates
<1>2. AccountInv(u)'
  BY DEF DeleteAccount, TypeOK, Overtake, AccountInv, FlowInv, EndInv,
         PlanInv, Dispatched
<1>3. \A v \in Users \ {u} : RowOf(v)' = RowOf(v) /\ ban'[v] = ban[v]
  BY DEF DeleteAccount, TypeOK, Overtake, RowOf
<1>4. overtaken \subseteq overtaken'
  BY DEF DeleteAccount, Overtake
<1>5. \/ ~ActiveAdmin(u)
      \/ ActiveAdmin(u)'
      \/ \E v \in Users \ {u} : ActiveAdmin(v)
  BY FencedAdmin DEF DeleteAccount
<1> QED BY <1>1, <1>2, <1>3, <1>4, <1>5, StepKeeps

LEMMA EnqueueHardDeleteKeeps ==
    ASSUME IInv, NEW u \in Targets, EnqueueHardDelete(u)
    PROVE  IInv'
<1> USE AccountAssumption DEF IInv
<1>1. TypeOK'
  BY DEF EnqueueHardDelete, TypeOK, Modes
<1>2. AccountInv(u)'
  BY DEF EnqueueHardDelete, TypeOK, AccountInv, FlowInv, EndInv, PlanInv,
         Dispatched
<1>3. \A v \in Users \ {u} : RowOf(v)' = RowOf(v) /\ ban'[v] = ban[v]
  BY DEF EnqueueHardDelete, TypeOK, RowOf
<1>4. overtaken \subseteq overtaken'
  BY DEF EnqueueHardDelete
<1>5. \/ ~ActiveAdmin(u)
      \/ ActiveAdmin(u)'
      \/ \E v \in Users \ {u} : ActiveAdmin(v)
  BY DEF EnqueueHardDelete, TypeOK, ActiveAdmin, Linked
<1> QED BY <1>1, <1>2, <1>3, <1>4, <1>5, StepKeeps

LEMMA BanAccountKeeps ==
    ASSUME IInv, NEW u \in Targets, NEW a \in Users, BanAccount(a, u)
    PROVE  IInv'
<1> USE AccountAssumption DEF IInv
<1>1. TypeOK'
  BY FlowTypes DEF BanAccount, TypeOK, SetIdentityState, Hold, Identities
<1>2. AccountInv(u)'
  BY DEF BanAccount, TypeOK, SetIdentityState, Hold, AccountInv, FlowInv,
         EndInv, PlanInv, Dispatched, Modes
<1>3. \A v \in Users \ {u} : RowOf(v)' = RowOf(v) /\ ban'[v] = ban[v]
  BY DEF BanAccount, TypeOK, SetIdentityState, Hold, RowOf
<1>4. overtaken \subseteq overtaken'
  BY DEF BanAccount, SetIdentityState, Hold
<1>5. \/ ~ActiveAdmin(u)
      \/ ActiveAdmin(u)'
      \/ \E v \in Users \ {u} : ActiveAdmin(v)
  BY DEF BanAccount, SetIdentityState, Hold, TypeOK, ActiveAdmin
<1> QED BY <1>1, <1>2, <1>3, <1>4, <1>5, StepKeeps

LEMMA BanMetadataKeeps ==
    ASSUME IInv, NEW u \in Targets, NEW value \in {"timed", "permanent"},
           BanMetadata(u, value)
    PROVE  IInv'
<1> USE AccountAssumption DEF IInv
<1>1. TypeOK'
  BY FlowTypes DEF BanMetadata, TypeOK, UpdateMetadata, Hold, Bans
<1>2. AccountInv(u)'
  BY DEF BanMetadata, TypeOK, UpdateMetadata, Hold, AccountInv, FlowInv,
         EndInv, PlanInv, Dispatched
<1>3. \A v \in Users \ {u} : RowOf(v)' = RowOf(v) /\ ban'[v] = ban[v]
  BY DEF BanMetadata, TypeOK, UpdateMetadata, Hold, RowOf
<1>4. overtaken \subseteq overtaken'
  BY DEF BanMetadata, UpdateMetadata, Hold
<1>5. ~ActiveAdmin(u)
  BY FlowNotAdmin DEF BanMetadata, AccountInv
<1> QED BY <1>1, <1>2, <1>3, <1>4, <1>5, StepKeeps

LEMMA RevokeSessionsKeeps ==
    ASSUME IInv, NEW u \in Targets, RevokeSessions(u)
    PROVE  IInv'
<1> USE AccountAssumption DEF IInv
<1>1. TypeOK'
  BY DEF RevokeSessions, TypeOK, Hold
<1>2. AccountInv(u)'
  BY DEF RevokeSessions, TypeOK, Hold, AccountInv, FlowInv, EndInv, PlanInv,
         Dispatched, NoFlow, Modes
<1>3. \A v \in Users \ {u} : RowOf(v)' = RowOf(v) /\ ban'[v] = ban[v]
  BY DEF RevokeSessions, TypeOK, Hold, RowOf
<1>4. overtaken \subseteq overtaken'
  BY DEF RevokeSessions, Hold
<1>5. \/ ~ActiveAdmin(u)
      \/ ActiveAdmin(u)'
      \/ \E v \in Users \ {u} : ActiveAdmin(v)
  BY DEF RevokeSessions, Hold, TypeOK, ActiveAdmin, Live, Active, Linked,
         Pending
<1> QED BY <1>1, <1>2, <1>3, <1>4, <1>5, StepKeeps

LEMMA ClearBanKeeps ==
    ASSUME IInv, NEW u \in Targets, ClearBan(u)
    PROVE  IInv'
<1> USE AccountAssumption DEF IInv
<1>1. TypeOK'
  BY FlowTypes DEF ClearBan, TypeOK, SetIdentityState, Hold, Overtake,
                   Identities
<1>2. AccountInv(u)'
  BY DEF ClearBan, TypeOK, SetIdentityState, Hold, Overtake, AccountInv,
         FlowInv, EndInv, PlanInv, Dispatched, Modes
<1>3. \A v \in Users \ {u} : RowOf(v)' = RowOf(v) /\ ban'[v] = ban[v]
  BY DEF ClearBan, TypeOK, SetIdentityState, Hold, Overtake, RowOf
<1>4. overtaken \subseteq overtaken'
  BY DEF ClearBan, SetIdentityState, Hold, Overtake
<1>5. \/ ~ActiveAdmin(u)
      \/ ActiveAdmin(u)'
      \/ \E v \in Users \ {u} : ActiveAdmin(v)
  BY DEF ClearBan, SetIdentityState, Hold, Overtake, TypeOK, ActiveAdmin,
         Live, Active, Linked, Pending
<1> QED BY <1>1, <1>2, <1>3, <1>4, <1>5, StepKeeps

LEMMA LiftMetadataKeeps ==
    ASSUME IInv, NEW u \in Targets, LiftMetadata(u)
    PROVE  IInv'
<1> USE AccountAssumption DEF IInv
<1>1. TypeOK'
  BY DEF LiftMetadata, TypeOK, UpdateMetadata, Hold, Bans
<1>2. AccountInv(u)'
  BY DEF LiftMetadata, TypeOK, UpdateMetadata, Hold, AccountInv, FlowInv,
         EndInv, PlanInv, Dispatched, NoFlow, Modes
<1>3. \A v \in Users \ {u} : RowOf(v)' = RowOf(v) /\ ban'[v] = ban[v]
  BY DEF LiftMetadata, TypeOK, UpdateMetadata, Hold, RowOf
<1>4. overtaken \subseteq overtaken'
  BY DEF LiftMetadata, UpdateMetadata, Hold
<1>5. \/ ~ActiveAdmin(u)
      \/ ActiveAdmin(u)'
      \/ \E v \in Users \ {u} : ActiveAdmin(v)
  BY DEF LiftMetadata, UpdateMetadata, Hold, TypeOK, ActiveAdmin, Live,
         Active, Linked, Pending
<1> QED BY <1>1, <1>2, <1>3, <1>4, <1>5, StepKeeps

LEMMA EnsureInactiveKeeps ==
    ASSUME IInv, NEW u \in Targets, EnsureInactive(u)
    PROVE  IInv'
<1> USE AccountAssumption DEF IInv
<1>1. TypeOK'
  <2>1. CASE identity[u] = "active"
    <3>1. /\ SetIdentityState(u, "inactive")
          /\ Hold(u, [job |-> "deactivate", at |-> "sessions"])
          /\ UNCHANGED sessions
      BY <2>1 DEF EnsureInactive
    <3>2. UNCHANGED <<member, anchor, ban, role, request, due, command,
                      inflight, audits, overtaken, faults>>
      BY DEF EnsureInactive
    <3> QED BY <3>1, <3>2, FlowTypes
            DEF TypeOK, SetIdentityState, Hold, Identities
  <2>2. CASE identity[u] = "inactive"
    BY <2>2 DEF EnsureInactive, TypeOK
  <2> QED BY <2>1, <2>2 DEF EnsureInactive
<1>2. AccountInv(u)'
  BY DEF EnsureInactive, TypeOK, SetIdentityState, Hold, AccountInv, FlowInv,
         EndInv, PlanInv, Dispatched, Modes
<1>3. \A v \in Users \ {u} : RowOf(v)' = RowOf(v) /\ ban'[v] = ban[v]
  BY DEF EnsureInactive, TypeOK, SetIdentityState, Hold, RowOf
<1>4. overtaken \subseteq overtaken'
  BY DEF EnsureInactive, SetIdentityState, Hold
<1>5. \/ ~ActiveAdmin(u)
      \/ ActiveAdmin(u)'
      \/ \E v \in Users \ {u} : ActiveAdmin(v)
  BY DEF EnsureInactive, SetIdentityState, Hold, TypeOK, ActiveAdmin, Live,
         Pending
<1> QED BY <1>1, <1>2, <1>3, <1>4, <1>5, StepKeeps

LEMMA EnsureActiveKeeps ==
    ASSUME IInv, NEW u \in Targets, EnsureActive(u)
    PROVE  IInv'
<1> USE AccountAssumption DEF IInv
<1>1. TypeOK'
  BY DEF EnsureActive, TypeOK, SetIdentityState, Identities, TerminalStates
<1>2. AccountInv(u)'
  BY DEF EnsureActive, TypeOK, SetIdentityState, Free, Terminal,
         TerminalStates, AccountInv, FlowInv, EndInv, PlanInv, Dispatched,
         NoFlow
<1>3. \A v \in Users \ {u} : RowOf(v)' = RowOf(v) /\ ban'[v] = ban[v]
  BY DEF EnsureActive, TypeOK, SetIdentityState, RowOf
<1>4. overtaken \subseteq overtaken'
  BY DEF EnsureActive, SetIdentityState
<1>5. \/ ~ActiveAdmin(u)
      \/ ActiveAdmin(u)'
      \/ \E v \in Users \ {u} : ActiveAdmin(v)
  BY DEF EnsureActive, SetIdentityState, TypeOK, ActiveAdmin, Live, Active
<1> QED BY <1>1, <1>2, <1>3, <1>4, <1>5, StepKeeps

LEMMA DispatchKeeps ==
    ASSUME IInv, NEW u \in Targets, Dispatch(u)
    PROVE  IInv'
<1> USE AccountAssumption DEF IInv
<1>1. TypeOK'
  BY DEF Dispatch, TypeOK, RequestStates, Modes
<1>2. AccountInv(u)'
  BY DEF Dispatch, TypeOK, AccountInv, FlowInv, EndInv, PlanInv
<1>3. \A v \in Users \ {u} : RowOf(v)' = RowOf(v) /\ ban'[v] = ban[v]
  BY DEF Dispatch, TypeOK, RowOf
<1>4. overtaken \subseteq overtaken'
  BY DEF Dispatch
<1>5. \/ ~ActiveAdmin(u)
      \/ ActiveAdmin(u)'
      \/ \E v \in Users \ {u} : ActiveAdmin(v)
  BY FencedAdmin DEF Dispatch
<1> QED BY <1>1, <1>2, <1>3, <1>4, <1>5, StepKeeps

LEMMA DeleteIdentityKeeps ==
    ASSUME IInv, NEW u \in Targets, NEW mode \in Modes,
           DeleteIdentity(u, mode)
    PROVE  IInv'
<1> USE AccountAssumption DEF IInv
<1>1. TypeOK'
  BY FlowTypes DEF DeleteIdentity, TypeOK, Hold, Identities, Bans
<1>2. AccountInv(u)'
  BY DEF DeleteIdentity, TypeOK, Hold, Stale, AccountInv, FlowInv, EndInv,
         PlanInv, Dispatched, Modes
<1>3. \A v \in Users \ {u} : RowOf(v)' = RowOf(v) /\ ban'[v] = ban[v]
  BY DEF DeleteIdentity, TypeOK, Hold, RowOf
<1>4. overtaken \subseteq overtaken'
  BY DEF DeleteIdentity, Hold
<1>5. overtaken # {} \/ ~ActiveAdmin(u)
  BY DEF DeleteIdentity, Stale, Modes, AccountInv, PlanInv, Dispatched,
         ActiveAdmin, Live, Active
<1> QED BY <1>1, <1>2, <1>3, <1>4, <1>5, StepKeeps

LEMMA DeleteRelationshipsKeeps ==
    ASSUME IInv, NEW u \in Targets, NEW mode \in Modes,
           DeleteRelationships(u, mode)
    PROVE  IInv'
<1> USE AccountAssumption DEF IInv
<1>1. TypeOK'
  BY FlowTypes DEF DeleteRelationships, TypeOK, Hold, Roles
<1>2. AccountInv(u)'
  BY DEF DeleteRelationships, TypeOK, Hold, AccountInv, FlowInv, EndInv,
         PlanInv, Dispatched
<1>3. \A v \in Users \ {u} : RowOf(v)' = RowOf(v) /\ ban'[v] = ban[v]
  BY DEF DeleteRelationships, TypeOK, Hold, RowOf
<1>4. overtaken \subseteq overtaken'
  BY DEF DeleteRelationships, Hold
<1>5. ~ActiveAdmin(u)
  BY FlowNotAdmin DEF DeleteRelationships, AccountInv
<1> QED BY <1>1, <1>2, <1>3, <1>4, <1>5, StepKeeps

LEMMA DeleteAnchorKeeps ==
    ASSUME IInv, NEW u \in Targets, NEW mode \in Modes, DeleteAnchor(u, mode)
    PROVE  IInv'
<1> USE AccountAssumption DEF IInv
<1>1. TypeOK'
  BY FlowTypes DEF DeleteAnchor, TypeOK, Hold
<1>2. AccountInv(u)'
  BY DEF DeleteAnchor, TypeOK, Hold, AccountInv, FlowInv, EndInv, PlanInv,
         Dispatched
<1>3. \A v \in Users \ {u} : RowOf(v)' = RowOf(v) /\ ban'[v] = ban[v]
  BY DEF DeleteAnchor, TypeOK, Hold, RowOf
<1>4. overtaken \subseteq overtaken'
  BY DEF DeleteAnchor, Hold
<1>5. ~ActiveAdmin(u)
  BY FlowNotAdmin DEF DeleteAnchor, AccountInv
<1> QED BY <1>1, <1>2, <1>3, <1>4, <1>5, StepKeeps

LEMMA FinalizeKeeps ==
    ASSUME IInv, NEW u \in Targets, NEW mode \in Modes, Finalize(u, mode)
    PROVE  IInv'
<1> USE AccountAssumption DEF IInv
<1>1. TypeOK'
  BY FlowTypes DEF Finalize, TypeOK, Hold, Members, Modes
<1>2. AccountInv(u)'
  BY DEF Finalize, TypeOK, Hold, AccountInv, FlowInv, EndInv, PlanInv, Ended,
         Dispatched, Modes
<1>3. \A v \in Users \ {u} : RowOf(v)' = RowOf(v) /\ ban'[v] = ban[v]
  BY DEF Finalize, TypeOK, Hold, RowOf
<1>4. overtaken \subseteq overtaken'
  BY DEF Finalize, Hold
<1>5. ~ActiveAdmin(u)
  BY FlowNotAdmin DEF Finalize, AccountInv
<1> QED BY <1>1, <1>2, <1>3, <1>4, <1>5, StepKeeps

LEMMA CompleteCommandKeeps ==
    ASSUME IInv, NEW u \in Targets, NEW mode \in Modes,
           CompleteCommand(u, mode)
    PROVE  IInv'
<1> USE AccountAssumption DEF IInv
<1>1. TypeOK'
  BY DEF CompleteCommand, TypeOK, Hold
<1>2. AccountInv(u)'
  BY DEF CompleteCommand, TypeOK, Hold, Stale, AccountInv, FlowInv, EndInv,
         PlanInv, Dispatched, NoFlow
<1>3. \A v \in Users \ {u} : RowOf(v)' = RowOf(v) /\ ban'[v] = ban[v]
  BY DEF CompleteCommand, TypeOK, Hold, RowOf
<1>4. overtaken \subseteq overtaken'
  BY DEF CompleteCommand, Hold
<1>5. \/ ~ActiveAdmin(u)
      \/ ActiveAdmin(u)'
      \/ \E v \in Users \ {u} : ActiveAdmin(v)
  BY DEF CompleteCommand, Hold, TypeOK, ActiveAdmin, Live, Active, Linked,
         Pending
<1> QED BY <1>1, <1>2, <1>3, <1>4, <1>5, StepKeeps

LEMMA FlowFailsKeeps ==
    ASSUME IInv, NEW u \in Targets, FlowFails(u)
    PROVE  IInv'
<1> USE AccountAssumption DEF IInv
<1>1. TypeOK'
  BY DEF FlowFails, TypeOK, Hold
<1>2. AccountInv(u)'
  BY DEF FlowFails, TypeOK, Hold, AccountInv, FlowInv, EndInv, PlanInv,
         Dispatched, NoFlow, Modes
<1>3. \A v \in Users \ {u} : RowOf(v)' = RowOf(v) /\ ban'[v] = ban[v]
  BY DEF FlowFails, TypeOK, Hold, RowOf
<1>4. overtaken \subseteq overtaken'
  BY DEF FlowFails, Hold
<1>5. \/ ~ActiveAdmin(u)
      \/ ActiveAdmin(u)'
      \/ \E v \in Users \ {u} : ActiveAdmin(v)
  BY DEF FlowFails, Hold, TypeOK, ActiveAdmin, Live, Active, Linked, Pending
<1> QED BY <1>1, <1>2, <1>3, <1>4, <1>5, StepKeeps

-----------------------------------------------------------------------------
(* The invariant.                                                          *)

LEMMA InitHolds == Init => IInv
<1> SUFFICES ASSUME Init PROVE IInv
  OBVIOUS
<1>1. TypeOK
  BY AccountAssumption
     DEF Init, TypeOK, Members, Identities, Bans, Roles, RequestStates
<1>2. ASSUME NEW u \in Users PROVE AccountInv(u)
  BY DEF Init, AccountInv, FlowInv, EndInv, PlanInv, Ended, Dispatched,
         NoFlow, Modes
<1>3. AnAdminRemains
  BY DEF Init, AnAdminRemains, ActiveAdmin, Live, Active, Linked, Pending,
         PendingStates
<1> QED BY <1>1, <1>2, <1>3 DEF IInv

LEMMA StutterKeeps == IInv /\ UNCHANGED vars => IInv'
  BY DEF vars, IInv, TypeOK, AccountInv, FlowInv, EndInv, PlanInv, Dispatched,
         AnAdminRemains, ActiveAdmin, Live, Active, Linked, Pending

LEMMA NextKeeps == IInv /\ Next => IInv'
<1> SUFFICES ASSUME IInv, Next PROVE IInv'
  OBVIOUS
<1>1. PICK u \in Targets :
         \/ Principal(u) \/ Administrator(u) \/ System(u)
         \/ \E mode \in Modes : Worker(u, mode)
  BY DEF Next
<1>2. CASE Principal(u)
  BY <1>2, LoginKeeps, RequestDeletionKeeps, CompleteOnboardingKeeps,
     ConfirmDeletionKeeps, CancelDeletionKeeps, StartRecoveryKeeps,
     ConfirmRecoveryKeeps, ValidateKeeps, RefuseKeeps DEF Principal
<1>3. CASE Administrator(u)
  BY <1>3, DeleteAccountKeeps, BanAccountKeeps, ClearBanKeeps,
     SetAccountRoleKeeps DEF Administrator, UnbanAccount
<1>4. CASE System(u)
  BY <1>4, GraceEndsKeeps, EnqueueHardDeleteKeeps, ClearBanKeeps,
     BanMetadataKeeps, LiftMetadataKeeps, RevokeSessionsKeeps,
     EnsureInactiveKeeps, EnsureActiveKeeps, DispatchKeeps, FlowFailsKeeps
     DEF System, ClearExpiredTimedBan
<1>5. CASE \E mode \in Modes : Worker(u, mode)
  BY <1>5, DeleteIdentityKeeps, DeleteRelationshipsKeeps, DeleteAnchorKeeps,
     FinalizeKeeps, CompleteCommandKeeps DEF Worker
<1> QED BY <1>1, <1>2, <1>3, <1>4, <1>5

(* The inductive invariant of the account flows holds in every state. *)
THEOREM AccountInvariant == Spec => []IInv
  BY InitHolds, StutterKeeps, NextKeeps, PTL DEF Spec

(* The variables of the account model stay in their sets. *)
THEOREM AccountTypes == Spec => []TypeOK
<1>1. IInv => TypeOK
  BY DEF IInv
<1> QED BY <1>1, AccountInvariant, PTL

(* The last-administrator fence of demotions, confirmations, immediate     *)
(* deletions and dispatches leaves an active administrator.                *)
THEOREM AdminTheorem == Spec => []AnAdminRemains
<1>1. IInv => AnAdminRemains
  BY DEF IInv
<1> QED BY <1>1, AccountInvariant, PTL

(* A dispatched deletion has no request row left to cancel, and its        *)
(* Identity stays deactivated until the worker deletes it.                 *)
THEOREM DispatchFinalTheorem == Spec => []DispatchIsFinal
<1>1. IInv => DispatchIsFinal
  BY DEF IInv, AccountInv, PlanInv, DispatchIsFinal
<1> QED BY <1>1, AccountInvariant, PTL

(* The deletion worker writes one account.deleted record per account,      *)
(* however often its attempts fail and are redelivered.                    *)
THEOREM RecordedOnceTheorem == Spec => []DeletedOnceRecorded
<1>1. IInv => DeletedOnceRecorded
  BY DEF IInv, AccountInv, EndInv, Ended, DeletedOnceRecorded
<1> QED BY <1>1, AccountInvariant, PTL

(* The deletion worker ends the authorities in one order: the Identity,    *)
(* the relationships, the anchor and the Member.                           *)
THEOREM OrderTheorem == Spec => []AuthoritiesEndInOrder
<1>1. IInv => AuthoritiesEndInOrder
  BY DEF IInv, AccountInv, EndInv, Ended, AuthoritiesEndInOrder
<1> QED BY <1>1, AccountInvariant, PTL

(* An account whose deletion failed half-way is still named by a command   *)
(* that the worker resumes.                                                *)
THEOREM ResumedTheorem == Spec => []HalfDeletedIsResumed
<1>1. IInv => HalfDeletedIsResumed
  BY DEF IInv, AccountInv, PlanInv, Ended, HalfDeletedIsResumed
<1> QED BY <1>1, AccountInvariant, PTL

-----------------------------------------------------------------------------
(* What a step may not do.                                                 *)

DriftStep(u) ==
    /\ Terminal(u) /\ identity[u] = "inactive"
    /\ ban[u] = "none" /\ newer[u]
    /\ Terminal(u)' /\ identity'[u] = "inactive" /\ ban'[u] = "none"
    => newer'[u]

BanStep(u) ==
    ban[u] = "none" /\ ban'[u] # "none" => identity'[u] = "inactive"

LEMMA StepIsAllowed ==
    ASSUME IInv, Next, NEW v \in Users
    PROVE  DriftStep(v) /\ BanStep(v)
<1>1. PICK u \in Targets :
         \/ Principal(u) \/ Administrator(u) \/ System(u)
         \/ \E mode \in Modes : Worker(u, mode)
  BY DEF Next
<1> USE AccountAssumption DEF IInv, TypeOK, DriftStep, BanStep
<1>2. CASE Principal(u)
  <2>1. UNCHANGED <<identity, ban>>
    BY <1>2 DEF Principal, Login, RequestDeletion, CompleteOnboarding,
       ConfirmDeletion, CancelDeletion, StartRecovery, ConfirmRecovery,
       Validate, Refuse, EndRequest
  <2>2. CASE RequestDeletion(u)
    BY <2>1, <2>2 DEF RequestDeletion, Terminal, TerminalStates
  <2>3. CASE CancelDeletion(u) \/ ConfirmRecovery(u)
    BY <2>1, <2>3 DEF CancelDeletion, ConfirmRecovery, EndRequest
  <2>4. CASE UNCHANGED newer
    BY <2>1, <2>4
  <2> QED BY <1>2, <2>2, <2>3, <2>4 DEF Principal, Login, CompleteOnboarding,
             ConfirmDeletion, StartRecovery, Validate, Refuse
<1>3. CASE Administrator(u)
  <2>1. CASE \E a \in Users : DeleteAccount(a, u)
    BY <2>1 DEF DeleteAccount, Terminal, TerminalStates
  <2>2. CASE \E a \in Users : BanAccount(a, u)
    BY <2>2 DEF BanAccount, SetIdentityState, IsBanned
  <2>3. CASE ClearBan(u)
    BY <2>3 DEF ClearBan, SetIdentityState
  <2>4. CASE \E a \in Users, r \in {"user", "admin"} : SetAccountRole(a, u, r)
    BY <2>4 DEF SetAccountRole
  <2> QED BY <1>3, <2>1, <2>2, <2>3, <2>4 DEF Administrator, UnbanAccount
<1>4. CASE System(u)
  <2>1. CASE UNCHANGED <<ban, newer>>
    BY <2>1
  <2>2. CASE ClearBan(u)
    BY <2>2 DEF ClearBan, SetIdentityState
  <2>3. CASE \E value \in {"timed", "permanent"} : BanMetadata(u, value)
    BY <2>3 DEF BanMetadata, UpdateMetadata, AccountInv, FlowInv
  <2>4. CASE LiftMetadata(u)
    BY <2>4 DEF LiftMetadata, UpdateMetadata, AccountInv, FlowInv
  <2>5. CASE identity[u] = "active" /\ EnsureInactive(u)
    BY <2>5 DEF EnsureInactive, SetIdentityState
  <2>6. CASE EnsureActive(u)
    BY <2>6 DEF EnsureActive, SetIdentityState
  <2> QED BY <1>4, <2>1, <2>2, <2>3, <2>4, <2>5, <2>6
          DEF System, GraceEnds, EnqueueHardDelete, ClearExpiredTimedBan,
              RevokeSessions, EnsureInactive, Dispatch, FlowFails
<1>5. CASE \E mode \in Modes : Worker(u, mode)
  <2>1. UNCHANGED newer
    BY <1>5 DEF Worker, DeleteIdentity, DeleteRelationships, DeleteAnchor,
       Finalize, CompleteCommand
  <2>2. ban' = ban \/ ban' = [ban EXCEPT ![u] = "none"]
    BY <1>5 DEF Worker, DeleteIdentity, DeleteRelationships, DeleteAnchor,
       Finalize, CompleteCommand
  <2> QED BY <2>1, <2>2
<1> QED BY <1>1, <1>2, <1>3, <1>4, <1>5

(* No step hides a cancelled or recovered account that waits to be         *)
(* reactivated from the reconciler's comparison of timestamps.             *)
THEOREM DriftTheorem == Spec => DriftStaysVisible
<1>1. IInv /\ [Next]_vars =>
         [\A u \in Users :
             /\ Terminal(u) /\ identity[u] = "inactive"
             /\ ban[u] = "none" /\ newer[u]
             /\ Terminal(u)' /\ identity'[u] = "inactive" /\ ban'[u] = "none"
             => newer'[u]]_vars
  BY StepIsAllowed DEF DriftStep
<1> QED BY <1>1, AccountInvariant, PTL DEF Spec, DriftStaysVisible

(* BanAccount writes its metadata only while the Identity is inactive. *)
THEOREM BanTheorem == Spec => BanFailsClosed
<1>1. IInv /\ [Next]_vars =>
         [\A u \in Users :
             ban[u] = "none" /\ ban'[u] # "none"
                => identity'[u] = "inactive"]_vars
  BY StepIsAllowed DEF BanStep
<1> QED BY <1>1, AccountInvariant, PTL DEF Spec, BanFailsClosed

(* What the end of u's deletion rests on. *)
EndStep(u) ==
    /\ identity[u] = "absent" =>
          identity'[u] = "absent" /\ role'[u] \in {role[u], "none"}
    /\ ~anchor[u] => ~anchor'[u]
    /\ member[u] \in Ended => member'[u] = member[u]
    /\ Dispatched(u) /\ ~Dispatched(u)' => member'[u] \in Ended

LEMMA StepIsOneWay ==
    ASSUME IInv, Next, NEW v \in Users
    PROVE  EndStep(v)
<1>1. PICK u \in Targets :
         \/ Principal(u) \/ Administrator(u) \/ System(u)
         \/ \E mode \in Modes : Worker(u, mode)
  BY DEF Next
<1> USE AccountAssumption DEF IInv, TypeOK
<1>2. CASE Principal(u)
  <2>1. UNCHANGED <<anchor, identity, role, command>>
    BY <1>2 DEF Principal, Login, RequestDeletion, CompleteOnboarding,
       ConfirmDeletion, CancelDeletion, StartRecovery, ConfirmRecovery,
       Validate, Refuse, EndRequest
  <2>2. \/ UNCHANGED member
        \/ member[u] = "unonboarded" /\ member' = [member EXCEPT ![u] = "onboarded"]
    BY <1>2 DEF Principal, Login, RequestDeletion, CompleteOnboarding,
       ConfirmDeletion, CancelDeletion, StartRecovery, ConfirmRecovery,
       Validate, Refuse, EndRequest
  <2> QED BY <2>1, <2>2 DEF EndStep, Ended, Dispatched
<1>3. CASE Administrator(u) \/ System(u)
  <2>1. UNCHANGED <<member, anchor>>
    BY <1>3 DEF Administrator, System, DeleteAccount, BanAccount, UnbanAccount,
       SetAccountRole, GraceEnds, EnqueueHardDelete, ClearExpiredTimedBan,
       BanMetadata, LiftMetadata, RevokeSessions, EnsureInactive, EnsureActive,
       Dispatch, FlowFails, ClearBan
  <2>2. \/ UNCHANGED identity
        \/ identity[u] # "absent" /\ \E s : identity' = [identity EXCEPT ![u] = s]
    BY <1>3 DEF Administrator, System, DeleteAccount, BanAccount, UnbanAccount,
       SetAccountRole, GraceEnds, EnqueueHardDelete, ClearExpiredTimedBan,
       BanMetadata, LiftMetadata, RevokeSessions, EnsureInactive, EnsureActive,
       Dispatch, FlowFails, ClearBan, SetIdentityState
  <2>3. \/ UNCHANGED role
        \/ identity[u] # "absent" /\ \E r : role' = [role EXCEPT ![u] = r]
    BY <1>3 DEF Administrator, System, DeleteAccount, BanAccount, UnbanAccount,
       SetAccountRole, GraceEnds, EnqueueHardDelete, ClearExpiredTimedBan,
       BanMetadata, LiftMetadata, RevokeSessions, EnsureInactive, EnsureActive,
       Dispatch, FlowFails, ClearBan, Live, Active
  <2>4. \/ UNCHANGED command
        \/ \E m : command' = [command EXCEPT ![u] = @ \cup {m}]
    BY <1>3 DEF Administrator, System, DeleteAccount, BanAccount, UnbanAccount,
       SetAccountRole, GraceEnds, EnqueueHardDelete, ClearExpiredTimedBan,
       BanMetadata, LiftMetadata, RevokeSessions, EnsureInactive, EnsureActive,
       Dispatch, FlowFails, ClearBan
  <2>5. Dispatched(v) => Dispatched(v)'
    BY <2>4 DEF Dispatched
  <2> QED BY <2>1, <2>2, <2>3, <2>5 DEF EndStep
<1>4. ASSUME NEW mode \in Modes, Worker(u, mode)
      PROVE  EndStep(v)
  <2>1. CASE DeleteIdentity(u, mode)
    BY <2>1 DEF DeleteIdentity, EndStep, Dispatched
  <2>2. CASE DeleteRelationships(u, mode)
    BY <2>2 DEF DeleteRelationships, EndStep, Dispatched
  <2>3. CASE DeleteAnchor(u, mode)
    BY <2>3 DEF DeleteAnchor, EndStep, Dispatched
  <2>4. CASE Finalize(u, mode)
    <3>1. member[u] \in Ended => member'[u] = member[u]
      BY <2>4 DEF Finalize, AccountInv, FlowInv, Ended, Modes
    <3> QED BY <2>4, <3>1 DEF Finalize, EndStep, Dispatched
  <2>5. CASE CompleteCommand(u, mode)
    <3>1. mode = "tombstone" => member[u] \in Ended
      BY <2>5 DEF CompleteCommand, Stale, AccountInv, FlowInv
    <3>2. UNCHANGED <<member, anchor, identity, role>>
      BY <2>5 DEF CompleteCommand
    <3>3. Dispatched(v) /\ ~Dispatched(v)' => v = u /\ mode = "tombstone"
      BY <2>5 DEF CompleteCommand, Dispatched
    <3> QED BY <3>1, <3>2, <3>3 DEF EndStep
  <2> QED BY <1>4, <2>1, <2>2, <2>3, <2>4, <2>5 DEF Worker
<1> QED BY <1>1, <1>2, <1>3, <1>4

(* Nothing brings back an Identity, an anchor or a Member that the         *)
(* deletion worker has ended, and no tombstone is given up half-way.       *)
THEOREM OneWayTheorem == Spec => DeletionNeverReverts
<1>1. IInv /\ [Next]_vars =>
         [\A u \in Users :
             /\ identity[u] = "absent" =>
                   identity'[u] = "absent" /\ role'[u] \in {role[u], "none"}
             /\ ~anchor[u] => ~anchor'[u]
             /\ member[u] \in {"tombstoned", "gone"} => member'[u] = member[u]
             /\ Dispatched(u) /\ ~Dispatched(u)' =>
                   member'[u] \in {"tombstoned", "gone"}]_vars
  BY StepIsOneWay DEF EndStep, Ended
<1> QED BY <1>1, AccountInvariant, PTL DEF Spec, DeletionNeverReverts
=============================================================================
