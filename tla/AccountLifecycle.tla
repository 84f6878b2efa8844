-------------------------- MODULE AccountLifecycle --------------------------
(***************************************************************************)
(* The life of an account: a Member row, its account_identity anchor, its  *)
(* Kratos Identity, its SpiceDB role and its user_deletion_request row.    *)
(*                                                                         *)
(* Three authorities are written one after the other with no transaction   *)
(* over them: PostgreSQL, Kratos and SpiceDB.  What keeps them together is *)
(* a pair of PostgreSQL advisory locks.  Units.Fenced, and every mutation  *)
(* with Subjects, holds the global authorization lock and one Identity     *)
(* lock over all its external calls; a token transition, a dispatch and    *)
(* the principal's own requests hold the Identity lock only.  A fenced     *)
(* flow may fail after any of its external calls: what it has written      *)
(* stays, the locks are released, and a reconciler, a redelivered command  *)
(* or nobody takes over.                                                   *)
(***************************************************************************)
EXTENDS Naturals, FiniteSets

CONSTANTS
    Users,         \* accounts: one Member and one Identity each
    Targets,       \* the accounts that are acted on; the others only act
    MaxInflight,   \* requests that may wait for their fence at a time
    MaxFaults      \* fenced flows that may fail in a behaviour

ASSUME AccountAssumption ==
    /\ IsFiniteSet(Users)
    /\ Targets \subseteq Users
    /\ MaxInflight \in Nat
    /\ MaxFaults \in Nat

VARIABLES
    member,     \* the Member row: unonboarded, onboarded, tombstoned or gone
    anchor,     \* the account_identity row and the Member's link to it
    identity,   \* the Kratos Identity: active, inactive or absent
    ban,        \* metadata_admin of the Identity: none, timed or permanent
    sessions,   \* the Identity has an active Kratos session
    role,       \* the direct global role in SpiceDB: none, user or admin
    request,    \* lifecycle_state of the user_deletion_request row, or none
    due,        \* scheduled_at of that row has passed
    newer,      \* a terminal row's updated_at is after the Identity's
    command,    \* the deletion commands of the account in the queue
    fence,      \* the fenced flow that holds the account's Identity lock
    inflight,   \* requests validated before their fence and not yet applied
    audits,     \* account.deleted records of the account
    overtaken,  \* history: accounts changed after their deletion had begun
    faults      \* fenced flows that have failed

vars == <<member, anchor, identity, ban, sessions, role, request, due, newer,
          command, fence, inflight, audits, overtaken, faults>>

-----------------------------------------------------------------------------

Members    == {"unonboarded", "onboarded", "tombstoned", "gone"}
Identities == {"active", "inactive", "absent"}
Bans       == {"none", "timed", "permanent"}
Roles      == {"none", "user", "admin"}
Modes      == {"tombstone", "hard"}
Entries    == {"request", "delete", "onboard"}

PendingStates  == {"scheduled", "recovery_confirmation_pending"}
TerminalStates == {"cancelled", "recovered"}
RequestStates  ==
    {"none", "confirmation_pending"} \cup PendingStates \cup TerminalStates

\* A fenced flow and the external call it makes next.
Flows == [job : {"deactivate"}, at : {"sessions"}]
           \cup [job : {"ban"}, at : {"metadata", "sessions"}]
           \cup [job : {"lift"}, at : {"metadata"}]
           \cup [job : Modes,
                 at  : {"relationships", "anchor", "finalize", "complete"}]
NoFlow == [job |-> "none", at |-> "none"]

\* Nobody holds the global authorization lock, or u's Identity lock.
Free == \A v \in Users : fence[v] = NoFlow
Unlocked(u) == fence[u] = NoFlow

\* deletionPendingStates and the two terminal facts.
Pending(u)  == request[u] \in PendingStates
Terminal(u) == request[u] \in TerminalStates

\* identityread.JoinLinked: the Member and an existing Identity point at
\* each other, and the Member is not deleted.
Linked(u) ==
    /\ anchor[u]
    /\ identity[u] # "absent"
    /\ member[u] \in {"unonboarded", "onboarded"}

\* authorizationtarget.ActiveForIdentity: linked, active and not banned.
Active(u) == Linked(u) /\ identity[u] = "active" /\ ban[u] = "none"

\* authorizationtarget.RequireLive: active with no pending deletion.
Live(u) == Active(u) /\ ~Pending(u)

\* freshAdmin: the fenced principal is active, onboarded and an admin.  A
\* pending deletion of the principal is not looked at.
FreshAdmin(a) == Active(a) /\ member[a] = "onboarded" /\ role[a] = "admin"

\* The accounts ActiveAdminCount counts.
ActiveAdmin(u) == Live(u) /\ member[u] = "onboarded" /\ role[u] = "admin"

\* Seeded fault: the remaining administrators are counted by role alone.
KeepsAnAdminByRole(u) ==
    role[u] = "admin" => \E v \in Users \ {u} : role[v] = "admin"

\* validateLastActiveAdminDeletion, under the last-administrator fence.
KeepsAnAdmin(u) ==
    role[u] = "admin" => \E v \in Users \ {u} : ActiveAdmin(v)

\* auth.Identity.IsBanned: an inactive Identity counts as banned.
IsBanned(u) == identity[u] = "inactive" \/ ban[u] # "none"

\* A tombstone of u is queued: its request row is gone for good.
Dispatched(u) == "tombstone" \in command[u]

-----------------------------------------------------------------------------

Init ==
    /\ member \in [Users -> {"unonboarded", "onboarded"}]
    /\ role \in [Users -> {"user", "admin"}]
    /\ \E u \in Users : member[u] = "onboarded" /\ role[u] = "admin"
    /\ \A u \in Users : role[u] = "admin" => member[u] = "onboarded"
    /\ anchor = [u \in Users |-> TRUE]
    /\ identity = [u \in Users |-> "active"]
    /\ ban = [u \in Users |-> "none"]
    /\ sessions = [u \in Users |-> FALSE]
    /\ request = [u \in Users |-> "none"]
    /\ due = [u \in Users |-> FALSE]
    /\ newer = [u \in Users |-> FALSE]
    /\ command = [u \in Users |-> {}]
    /\ fence = [u \in Users |-> NoFlow]
    /\ inflight = {}
    /\ audits = [u \in Users |-> 0]
    /\ overtaken = {}
    /\ faults = 0

-----------------------------------------------------------------------------
(* The Kratos writes: each one moves the Identity's updated_at past the    *)
(* request row's.                                                          *)

SetIdentityState(u, state) ==
    /\ identity' = [identity EXCEPT ![u] = state]
    /\ newer' = [newer EXCEPT ![u] = FALSE]

UpdateMetadata(u, value) ==
    /\ ban' = [ban EXCEPT ![u] = value]
    /\ newer' = [newer EXCEPT ![u] = FALSE]

Hold(u, flow) == fence' = [fence EXCEPT ![u] = flow]

\* History: u is changed although its deletion has already begun.
Overtake(u) ==
    overtaken' = IF Dispatched(u) \/ identity[u] = "absent"
                 THEN overtaken \cup {u} ELSE overtaken

-----------------------------------------------------------------------------
(* The principal's own requests.  Each is validated before it waits for    *)
(* the Identity lock; PrincipalFence locks and checks nothing again.       *)

\* A principal signs in at Kratos, which refuses an inactive Identity.
Login(u) ==
    /\ identity[u] = "active"
    /\ sessions' = [sessions EXCEPT ![u] = TRUE]
    /\ UNCHANGED <<member, anchor, identity, ban, role, request, due, newer,
                   command, fence, inflight, audits, overtaken, faults>>

\* ValidateActivePair of a deletion request or of an administrator's
\* immediate deletion, and the authenticated principal of an onboarding.
Validate(u, entry) ==
    /\ Cardinality(inflight) < MaxInflight
    /\ Active(u)
    /\ entry = "onboard" => member[u] = "unonboarded"
    /\ entry = "delete" => member[u] = "onboarded"
    /\ inflight' = inflight \cup {<<u, entry>>}
    /\ UNCHANGED <<member, anchor, identity, ban, sessions, role, request,
                   due, newer, command, fence, audits, overtaken, faults>>

\* The client gives up, or the checks under the fence refuse the request.
Refuse(u, entry) ==
    /\ inflight' = inflight \ {<<u, entry>>}
    /\ UNCHANGED <<member, anchor, identity, ban, sessions, role, request,
                   due, newer, command, fence, audits, overtaken, faults>>

\* storeDeletionRequest: a pending deletion stands, any other row is replaced.
RequestDeletion(u) ==
    /\ <<u, "request">> \in inflight
    /\ Unlocked(u)
    /\ ~Pending(u)
    /\ inflight' = inflight \ {<<u, "request">>}
    /\ request' = [request EXCEPT ![u] = "confirmation_pending"]
    /\ due' = [due EXCEPT ![u] = FALSE]
    /\ newer' = [newer EXCEPT ![u] = FALSE]
    /\ Overtake(u)
    /\ UNCHANGED <<member, anchor, identity, ban, sessions, role, command,
                   fence, audits, faults>>

\* CompleteOnboarding: the row must still be linked and not onboarded.
CompleteOnboarding(u) ==
    /\ <<u, "onboard">> \in inflight
    /\ Unlocked(u)
    /\ anchor[u] /\ member[u] = "unonboarded"
    /\ inflight' = inflight \ {<<u, "onboard">>}
    /\ member' = [member EXCEPT ![u] = "onboarded"]
    /\ Overtake(u)
    /\ UNCHANGED <<anchor, identity, ban, sessions, role, request, due,
                   newer, command, fence, audits, faults>>

-----------------------------------------------------------------------------
(* Transitions by an emailed token, under the Identity lock.               *)

\* ConfirmAccountDeletion up to its commit; EnsureInactive follows.
ConfirmDeletion(u) ==
    /\ Unlocked(u)
    /\ request[u] = "confirmation_pending"
    /\ KeepsAnAdmin(u)
    /\ request' = [request EXCEPT ![u] = "scheduled"]
    /\ UNCHANGED <<member, anchor, identity, ban, sessions, role, due, newer,
                   command, fence, inflight, audits, overtaken, faults>>

\* EndDeletionRequest: clock_timestamp() is later than any Identity write.
EndRequest(u, state) ==
    /\ Unlocked(u)
    /\ request' = [request EXCEPT ![u] = state]
    /\ due' = [due EXCEPT ![u] = FALSE]
    /\ newer' = [newer EXCEPT ![u] = TRUE]
    /\ UNCHANGED <<member, anchor, identity, ban, sessions, role, command,
                   fence, inflight, audits, overtaken, faults>>

\* CancelAccountDeletion: its token expires when the deletion is due.
CancelDeletion(u) ==
    /\ request[u] = "scheduled" /\ ~due[u]
    /\ EndRequest(u, "cancelled")

\* startRecovery: the deadline goes on, the cancel token is replaced.
StartRecovery(u) ==
    /\ Unlocked(u)
    /\ Pending(u) /\ ~due[u]
    /\ request' = [request EXCEPT ![u] = "recovery_confirmation_pending"]
    /\ UNCHANGED <<member, anchor, identity, ban, sessions, role, due, newer,
                   command, fence, inflight, audits, overtaken, faults>>

\* ConfirmAccountRecovery: its token may outlive the deadline.
ConfirmRecovery(u) ==
    /\ request[u] = "recovery_confirmation_pending"
    /\ EndRequest(u, "recovered")

\* The grace period of a pending deletion ends.
GraceEnds(u) ==
    /\ Pending(u) /\ ~due[u]
    /\ due' = [due EXCEPT ![u] = TRUE]
    /\ UNCHANGED <<member, anchor, identity, ban, sessions, role, request,
                   newer, command, fence, inflight, audits, overtaken, faults>>

-----------------------------------------------------------------------------
(* Administrators' mutations: they hold the global lock to their commit.   *)

\* replaceAccountRole, with the last-administrator fence; the interceptor
\* admits onboarded principals only.  The SpiceDB write and the commit are one
\* step: AuthzMutation shows that they agree.
SetAccountRole(a, u, r) ==
    /\ Free
    /\ a # u /\ ActiveAdmin(a)
    /\ Live(u) /\ role[u] # r
    /\ r # "admin" => KeepsAnAdmin(u)
    /\ role' = [role EXCEPT ![u] = r]
    /\ UNCHANGED <<member, anchor, identity, ban, sessions, request, due,
                   newer, command, fence, inflight, audits, overtaken, faults>>

\* scheduleImmediateDeletion up to its commit: the deletion is due at once.
\* EnsureInactive and Dispatch follow, by the same call or by the workers.
DeleteAccount(a, u) ==
    /\ <<u, "delete">> \in inflight
    /\ Free
    /\ a # u /\ FreshAdmin(a)
    /\ Linked(u) /\ member[u] = "onboarded"
    /\ KeepsAnAdmin(u)
    /\ ~Pending(u)
    /\ inflight' = inflight \ {<<u, "delete">>}
    /\ request' = [request EXCEPT ![u] = "scheduled"]
    /\ due' = [due EXCEPT ![u] = TRUE]
    /\ newer' = [newer EXCEPT ![u] = FALSE]
    /\ Overtake(u)
    /\ UNCHANGED <<member, anchor, identity, ban, sessions, role, command,
                   fence, audits, faults>>

\* enqueueUnonboardedHardDelete, and enqueueExpiredUnonboardedMember of the
\* retention job, which holds the Identity lock only.
EnqueueHardDelete(u) ==
    /\ Unlocked(u)
    /\ Linked(u) /\ member[u] = "unonboarded"
    /\ command' = [command EXCEPT ![u] = @ \cup {"hard"}]
    /\ UNCHANGED <<member, anchor, identity, ban, sessions, role, request,
                   due, newer, fence, inflight, audits, overtaken, faults>>

\* Seeded fault: an Identity that is already inactive is banned again.
BanAccountAgain(a, u) ==
    /\ Free
    /\ a # u /\ FreshAdmin(a)
    /\ anchor[u] /\ identity[u] # "absent"
    /\ role[u] = "user"
    /\ SetIdentityState(u, "inactive")
    /\ Hold(u, [job |-> "ban", at |-> "metadata"])
    /\ UNCHANGED <<member, anchor, ban, sessions, role, request, due, command,
                   inflight, audits, overtaken, faults>>

\* Seeded fault: the metadata is written before the Identity's state.
BanMetadataFirst(a, u) ==
    /\ Free
    /\ a # u /\ FreshAdmin(a)
    /\ anchor[u] /\ identity[u] # "absent"
    /\ role[u] = "user"
    /\ ~IsBanned(u)
    /\ Hold(u, [job |-> "ban", at |-> "metadata"])
    /\ UNCHANGED <<member, anchor, identity, ban, sessions, role, request,
                   due, newer, command, inflight, audits, overtaken, faults>>

\* BanAccount up to the first Kratos write: inactivity comes first.
BanAccount(a, u) ==
    /\ Free
    /\ a # u /\ FreshAdmin(a)
    /\ anchor[u] /\ identity[u] # "absent"
    /\ role[u] = "user"
    /\ ~IsBanned(u)
    /\ SetIdentityState(u, "inactive")
    /\ Hold(u, [job |-> "ban", at |-> "metadata"])
    /\ UNCHANGED <<member, anchor, ban, sessions, role, request, due, command,
                   inflight, audits, overtaken, faults>>

BanMetadata(u, value) ==
    /\ fence[u] = [job |-> "ban", at |-> "metadata"]
    /\ UpdateMetadata(u, value)
    /\ Hold(u, [job |-> "ban", at |-> "sessions"])
    /\ UNCHANGED <<member, anchor, identity, sessions, role, request, due,
                   command, inflight, audits, overtaken, faults>>

\* The last call of a ban and of a deactivation.
RevokeSessions(u) ==
    /\ fence[u].at = "sessions"
    /\ sessions' = [sessions EXCEPT ![u] = FALSE]
    /\ Hold(u, NoFlow)
    /\ UNCHANGED <<member, anchor, identity, ban, role, request, due, newer,
                   command, inflight, audits, overtaken, faults>>

\* UserStateService.ClearBan up to the first Kratos write.
ClearBan(u) ==
    /\ Free
    /\ anchor[u] /\ identity[u] # "absent"
    /\ ~Pending(u)
    /\ SetIdentityState(u, "active")
    /\ Hold(u, [job |-> "lift", at |-> "metadata"])
    /\ Overtake(u)
    /\ UNCHANGED <<member, anchor, ban, sessions, role, request, due, command,
                   inflight, audits, faults>>

\* UnbanAccount: whatever made the Identity inactive counts as a ban.
UnbanAccount(a, u) == FreshAdmin(a) /\ IsBanned(u) /\ ClearBan(u)

\* ClearExpiredTimedBan: the expiry of the timed ban has passed.
ClearExpiredTimedBan(u) == ban[u] = "timed" /\ ClearBan(u)

LiftMetadata(u) ==
    /\ fence[u] = [job |-> "lift", at |-> "metadata"]
    /\ UpdateMetadata(u, "none")
    /\ Hold(u, NoFlow)
    /\ UNCHANGED <<member, anchor, identity, sessions, role, request, due,
                   command, inflight, audits, overtaken, faults>>

-----------------------------------------------------------------------------
(* The reconciler, leader-elected, and the same flows called by the        *)
(* handlers.  A candidate is read again under its fence.                   *)

\* Seeded fault: an Identity that is inactive already is left alone.
EnsureInactiveOnce(u) ==
    /\ Free
    /\ Pending(u)
    /\ identity[u] = "active"
    /\ SetIdentityState(u, "inactive")
    /\ Hold(u, [job |-> "deactivate", at |-> "sessions"])
    /\ UNCHANGED <<member, anchor, ban, sessions, role, request, due, command,
                   inflight, audits, overtaken, faults>>

\* ensureScheduledIdentityInactive up to its first Kratos write.
EnsureInactive(u) ==
    /\ Free
    /\ Pending(u)
    /\ \/ /\ identity[u] = "active"
          /\ SetIdentityState(u, "inactive")
          /\ Hold(u, [job |-> "deactivate", at |-> "sessions"])
          /\ UNCHANGED sessions
       \/ /\ identity[u] = "inactive" /\ sessions[u]
          /\ sessions' = [sessions EXCEPT ![u] = FALSE]
          /\ UNCHANGED <<identity, newer, fence>>
    /\ UNCHANGED <<member, anchor, ban, role, request, due, command, inflight,
                   audits, overtaken, faults>>

\* Seeded fault: the timestamps are compared the wrong way round.
EnsureActiveIfOlder(u) ==
    /\ Free
    /\ Terminal(u)
    /\ identity[u] = "inactive" /\ ~newer[u] /\ ban[u] = "none"
    /\ SetIdentityState(u, "active")
    /\ UNCHANGED <<member, anchor, ban, sessions, role, request, due, command,
                   fence, inflight, audits, overtaken, faults>>

\* Seeded fault: the Identity is written as active without being read again.
EnsureActiveUnread(u) ==
    /\ Free
    /\ Terminal(u)
    /\ newer[u] /\ ban[u] = "none"
    /\ SetIdentityState(u, "active")
    /\ UNCHANGED <<member, anchor, ban, sessions, role, request, due, command,
                   fence, inflight, audits, overtaken, faults>>

\* ensureTerminalIdentityActive: an Identity written after the terminal
\* transition, or banned, stays as it is.
EnsureActive(u) ==
    /\ Free
    /\ Terminal(u)
    /\ identity[u] = "inactive" /\ newer[u] /\ ban[u] = "none"
    /\ SetIdentityState(u, "active")
    /\ UNCHANGED <<member, anchor, ban, sessions, role, request, due, command,
                   fence, inflight, audits, overtaken, faults>>

-----------------------------------------------------------------------------
(* The scheduler's dispatch and the deletion worker.                       *)

\* Seeded fault: the request row stays beside the command.
DispatchKeepsRequest(u) ==
    /\ Unlocked(u)
    /\ Pending(u) /\ due[u]
    /\ KeepsAnAdmin(u)
    /\ identity[u] = "inactive"
    /\ command' = [command EXCEPT ![u] = @ \cup {"tombstone"}]
    /\ UNCHANGED <<member, anchor, identity, ban, sessions, role, request,
                   due, newer, fence, inflight, audits, overtaken, faults>>

\* dispatchLockedUserDeletion: the command replaces the request row.
Dispatch(u) ==
    /\ Unlocked(u)
    /\ Pending(u) /\ due[u]
    /\ KeepsAnAdmin(u)
    /\ identity[u] = "inactive"
    /\ command' = [command EXCEPT ![u] = @ \cup {"tombstone"}]
    /\ request' = [request EXCEPT ![u] = "none"]
    /\ due' = [due EXCEPT ![u] = FALSE]
    /\ UNCHANGED <<member, anchor, identity, ban, sessions, role, newer,
                   fence, inflight, audits, overtaken, faults>>

\* Seeded fault: a command whose Identity is gone is taken for finished.
StaleWithoutIdentity(u, mode) ==
    mode = "hard" /\ (member[u] # "unonboarded" \/ identity[u] = "absent")

\* A hard-delete command whose Member is onboarded or deleted is stale.
Stale(u, mode) == mode = "hard" /\ member[u] # "unonboarded"

\* Seeded fault: only a linked Member is deleted, so a replay cannot resume.
DeleteLinkedIdentity(u, mode) ==
    /\ Free
    /\ mode \in command[u]
    /\ ~Stale(u, mode) /\ member[u] # "gone"
    /\ anchor[u]
    /\ identity' = [identity EXCEPT ![u] = "absent"]
    /\ ban' = [ban EXCEPT ![u] = "none"]
    /\ sessions' = [sessions EXCEPT ![u] = FALSE]
    /\ Hold(u, [job |-> mode, at |-> "relationships"])
    /\ UNCHANGED <<member, anchor, role, request, due, newer, command,
                   inflight, audits, overtaken, faults>>

\* Seeded fault: the anchor goes before the relationships.
DeleteIdentityThenAnchor(u, mode) ==
    /\ Free
    /\ mode \in command[u]
    /\ ~Stale(u, mode) /\ member[u] # "gone"
    /\ anchor[u] \/ identity[u] = "absent"
    /\ identity' = [identity EXCEPT ![u] = "absent"]
    /\ ban' = [ban EXCEPT ![u] = "none"]
    /\ sessions' = [sessions EXCEPT ![u] = FALSE]
    /\ Hold(u, [job |-> mode, at |-> "anchor"])
    /\ UNCHANGED <<member, anchor, role, request, due, newer, command,
                   inflight, audits, overtaken, faults>>

\* PrepareTombstone or PrepareUnonboardedHardDelete, then the Identity:
\* deleted while the Member is linked, confirmed absent otherwise.
DeleteIdentity(u, mode) ==
    /\ Free
    /\ mode \in command[u]
    /\ ~Stale(u, mode) /\ member[u] # "gone"
    /\ anchor[u] \/ identity[u] = "absent"
    /\ identity' = [identity EXCEPT ![u] = "absent"]
    /\ ban' = [ban EXCEPT ![u] = "none"]
    /\ sessions' = [sessions EXCEPT ![u] = FALSE]
    /\ Hold(u, [job |-> mode, at |-> "relationships"])
    /\ UNCHANGED <<member, anchor, role, request, due, newer, command,
                   inflight, audits, overtaken, faults>>

\* DeleteAllAccountIdentityRelationships.
DeleteRelationships(u, mode) ==
    /\ fence[u] = [job |-> mode, at |-> "relationships"]
    /\ role' = [role EXCEPT ![u] = "none"]
    /\ Hold(u, [job |-> mode, at |-> "anchor"])
    /\ UNCHANGED <<member, anchor, identity, ban, sessions, request, due,
                   newer, command, inflight, audits, overtaken, faults>>

\* DeleteAccountIdentityAnchor clears the Member's link with the row.
DeleteAnchor(u, mode) ==
    /\ fence[u] = [job |-> mode, at |-> "anchor"]
    /\ anchor' = [anchor EXCEPT ![u] = FALSE]
    /\ Hold(u, [job |-> mode, at |-> "finalize"])
    /\ UNCHANGED <<member, identity, ban, sessions, role, request, due, newer,
                   command, inflight, audits, overtaken, faults>>

\* Seeded fault: every attempt appends the account.deleted record.
FinalizeAndRecord(u, mode) ==
    /\ fence[u] = [job |-> mode, at |-> "finalize"]
    /\ member' = [member EXCEPT ![u] = IF mode = "hard" THEN "gone"
                                                         ELSE "tombstoned"]
    /\ audits' = [audits EXCEPT ![u] = @ + 1]
    /\ Hold(u, [job |-> mode, at |-> "complete"])
    /\ UNCHANGED <<anchor, identity, ban, sessions, role, request, due, newer,
                   command, inflight, overtaken, faults>>

\* FinalizeTombstone or FinalizeUnonboardedHardDelete, in one transaction
\* with the account.deleted record; a replay of a tombstone records nothing.
Finalize(u, mode) ==
    /\ fence[u] = [job |-> mode, at |-> "finalize"]
    /\ member' = [member EXCEPT ![u] = IF mode = "hard" THEN "gone"
                                                         ELSE "tombstoned"]
    /\ audits' = [audits EXCEPT ![u] = IF member[u] = "tombstoned"
                                       THEN @ ELSE @ + 1]
    /\ Hold(u, [job |-> mode, at |-> "complete"])
    /\ UNCHANGED <<anchor, identity, ban, sessions, role, request, due, newer,
                   command, inflight, overtaken, faults>>

\* The completion email is queued and the command leaves the queue.
CompleteCommand(u, mode) ==
    /\ \/ /\ fence[u] = [job |-> mode, at |-> "complete"]
          /\ Hold(u, NoFlow)
       \/ /\ Free
          /\ mode \in command[u] /\ Stale(u, mode)
          /\ UNCHANGED fence
    /\ command' = [command EXCEPT ![u] = @ \ {mode}]
    /\ UNCHANGED <<member, anchor, identity, ban, sessions, role, request,
                   due, newer, inflight, audits, overtaken, faults>>

\* An external call fails, the 15 s of a mutation run out or the process
\* dies: the locks are released and what was written stays.
FlowFails(u) ==
    /\ faults < MaxFaults
    /\ ~Unlocked(u)
    /\ Hold(u, NoFlow)
    /\ faults' = faults + 1
    /\ UNCHANGED <<member, anchor, identity, ban, sessions, role, request,
                   due, newer, command, inflight, audits, overtaken>>

-----------------------------------------------------------------------------

Principal(u) ==
    \/ Login(u) \/ RequestDeletion(u) \/ CompleteOnboarding(u)
    \/ ConfirmDeletion(u) \/ CancelDeletion(u)
    \/ StartRecovery(u) \/ ConfirmRecovery(u)
    \/ \E entry \in Entries : Validate(u, entry) \/ Refuse(u, entry)

Administrator(u) ==
    \/ \E a \in Users : DeleteAccount(a, u) \/ BanAccount(a, u)
    \/ \E a \in Users : UnbanAccount(a, u)
    \/ \E a \in Users, r \in {"user", "admin"} : SetAccountRole(a, u, r)

System(u) ==
    \/ GraceEnds(u) \/ EnqueueHardDelete(u) \/ ClearExpiredTimedBan(u)
    \/ \E value \in {"timed", "permanent"} : BanMetadata(u, value)
    \/ LiftMetadata(u) \/ RevokeSessions(u)
    \/ EnsureInactive(u) \/ EnsureActive(u) \/ Dispatch(u)
    \/ FlowFails(u)

Worker(u, mode) ==
    \/ DeleteIdentity(u, mode) \/ DeleteRelationships(u, mode)
    \/ DeleteAnchor(u, mode) \/ Finalize(u, mode) \/ CompleteCommand(u, mode)

Next ==
    \E u \in Targets :
        \/ Principal(u) \/ Administrator(u) \/ System(u)
        \/ \E mode \in Modes : Worker(u, mode)

Spec == Init /\ [][Next]_vars

\* The calls of a flow follow one another; the advisory locks queue their
\* waiters, so that a reconciler or worker that keeps asking gets its turn.
Fairness ==
    \A u \in Targets :
        /\ WF_vars(RevokeSessions(u))
        /\ WF_vars(LiftMetadata(u))
        /\ WF_vars(\E value \in {"timed", "permanent"} : BanMetadata(u, value))
        /\ SF_vars(EnsureInactive(u))
        /\ SF_vars(EnsureActive(u))
        /\ \A mode \in Modes :
              /\ SF_vars(DeleteIdentity(u, mode))
              /\ WF_vars(DeleteRelationships(u, mode))
              /\ WF_vars(DeleteAnchor(u, mode))
              /\ WF_vars(Finalize(u, mode))
              /\ WF_vars(CompleteCommand(u, mode))

FairSpec == Spec /\ Fairness

-----------------------------------------------------------------------------
(* Properties.                                                             *)

\* The variables stay in their sets.
TypeOK ==
    /\ member \in [Users -> Members]
    /\ anchor \in [Users -> BOOLEAN]
    /\ identity \in [Users -> Identities]
    /\ ban \in [Users -> Bans]
    /\ sessions \in [Users -> BOOLEAN]
    /\ role \in [Users -> Roles]
    /\ request \in [Users -> RequestStates]
    /\ due \in [Users -> BOOLEAN]
    /\ newer \in [Users -> BOOLEAN]
    /\ command \in [Users -> SUBSET Modes]
    /\ fence \in [Users -> Flows \cup {NoFlow}]
    /\ inflight \subseteq Users \X Entries
    /\ audits \in [Users -> Nat]
    /\ overtaken \subseteq Users
    /\ faults \in 0 .. MaxFaults

\* The last-administrator fence: whatever demotions, confirmations, immediate
\* deletions, bans and dispatches interleave, an active administrator remains,
\* as long as no account was changed after its deletion had begun.
AnAdminRemains == overtaken = {} => \E u \in Users : ActiveAdmin(u)

\* A dispatched deletion is final: while its command waits the request row is
\* gone, so that a cancellation that succeeded is never followed by the
\* deletion, and the Identity stays deactivated.
DispatchIsFinal ==
    \A u \in Users \ overtaken :
        Dispatched(u) => request[u] = "none" /\ identity[u] # "active"

\* The account.deleted record is written once, with the Member's end, however
\* often the worker fails and the command is redelivered.
DeletedOnceRecorded ==
    \A u \in Users :
        audits[u] = IF member[u] \in {"tombstoned", "gone"} THEN 1 ELSE 0

\* The authorities end in one order: the Identity, its relationships, the
\* anchor, the Member.  None of them outlives the next.
AuthoritiesEndInOrder ==
    \A u \in Users :
        /\ member[u] \in {"tombstoned", "gone"} => ~anchor[u]
        /\ ~anchor[u] => role[u] = "none" /\ identity[u] = "absent"

\* A half-deleted account has an owner: a Member whose Identity is gone is
\* still named by a command that the worker resumes.
HalfDeletedIsResumed ==
    \A u \in Users \ overtaken :
        identity[u] = "absent" /\ member[u] \notin {"tombstoned", "gone"}
            => \/ Dispatched(u)
               \/ "hard" \in command[u] /\ member[u] = "unonboarded"

\* A cancelled or recovered account that waits to be reactivated stays visible
\* to the reconciler, which compares the two updated_at timestamps.
DriftStaysVisible ==
    [][\A u \in Users :
          /\ Terminal(u) /\ identity[u] = "inactive"
          /\ ban[u] = "none" /\ newer[u]
          /\ Terminal(u)' /\ identity'[u] = "inactive" /\ ban'[u] = "none"
          => newer'[u]]_vars

\* Metadata is never the only fact of a ban: it is written while the Identity
\* is inactive.
BanFailsClosed ==
    [][\A u \in Users :
          ban[u] = "none" /\ ban'[u] # "none" => identity'[u] = "inactive"]_vars

\* Deletion is one-way.  A deleted Identity is not created again, nor given a
\* role; a removed anchor stays removed; a Member that has ended stays as it
\* ended, although hard deletes, tombstones, reconciliation, bans and role
\* changes of the same account wait for its locks; and a tombstone's command
\* leaves the queue only once the Member has ended.
DeletionNeverReverts ==
    [][\A u \in Users :
          /\ identity[u] = "absent" =>
                identity'[u] = "absent" /\ role'[u] \in {role[u], "none"}
          /\ ~anchor[u] => ~anchor'[u]
          /\ member[u] \in {"tombstoned", "gone"} => member'[u] = member[u]
          /\ Dispatched(u) /\ ~Dispatched(u)' =>
                member'[u] \in {"tombstoned", "gone"}]_vars

\* A pending deletion locks its principal out: the Identity becomes inactive
\* and its sessions are revoked, unless the deletion ends first.
PendingLocksOut ==
    \A u \in Users :
        Pending(u) ~> ~Pending(u) \/ (identity[u] # "active" /\ ~sessions[u])

\* A cancelled or recovered account is reactivated, unless it is replaced by a
\* new request or the Identity is written or banned in the meantime.
CancelRestores ==
    \A u \in Users :
        Terminal(u) /\ newer[u] /\ ban[u] = "none"
            ~> identity[u] # "inactive" \/ ~Terminal(u)

\* A dispatched deletion ends, however its attempts fail.
DispatchedEnds ==
    \A u \in Users :
        Dispatched(u) ~> member[u] \in {"tombstoned", "gone"}

\* "a demotion and a deletion of the remaining admins cannot both pass": an
\* active administrator remains, whatever was changed after a dispatch.
LastAdminIsKept == \E u \in Users : ActiveAdmin(u)
=============================================================================
