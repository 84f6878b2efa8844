---------------------------- MODULE AuthzMutation ----------------------------
(***************************************************************************)
(* authzmutation.Execute: a product transaction in PostgreSQL and its      *)
(* relationship batch in SpiceDB change together or not at all, without a  *)
(* common commit.  A global advisory lock serializes the mutations; the    *)
(* batch is written while the transaction is open, guarded by the exact    *)
(* pre-state; an error afterwards restores the pre-state before the        *)
(* rollback.  A write whose answer is lost is resolved by reading back.    *)
(*                                                                         *)
(* The lock belongs to the transaction and the transaction to the          *)
(* request's context: when the context ends, database/sql rolls back and   *)
(* the lock is free, while Execute goes on, adrift, and compensates under  *)
(* a context of its own that no lock protects.                             *)
(*                                                                         *)
(* A relationship is a key; db holds the keys that the committed rows call *)
(* for, zed the keys that exist in SpiceDB.                                *)
(***************************************************************************)
EXTENDS Integers

CONSTANTS
    Procs,       \* API processes' requests, one mutation at a time each
    Keys,        \* relationship keys
    Touches,     \* the key sets that each one's batches may have
    NoProc,      \* the lock is free
    MaxAttempts, \* relationshipWriteMaxAttempts
    Faults,      \* the kinds of fault that happen: "lost" transactions,
                 \* "crash" of a process, "late" writes
    MaxFaults    \* bound on how many there are

ASSUME ProcsAssumption == NoProc \notin Procs
ASSUME TouchesAssumption == Touches \in [Procs -> SUBSET (SUBSET Keys)]
ASSUME AttemptsAssumption == MaxAttempts \in Nat \ {0}
ASSUME FaultsAssumption == MaxFaults \in Nat

VARIABLES
    db,       \* relationships that the committed rows call for
    zed,      \* relationships in SpiceDB
    lock,     \* holder of the global advisory lock
    pc,       \* where each process is in Execute
    batch,    \* its keys, what it wants of them, what the rows had
    mode,     \* "forward" write or "restore" (compensation)
    attempt,  \* write attempts so far in this mode
    had,      \* hadAmbiguity
    last,     \* the last write error was ambiguous
    inflight, \* writes of the current mutation that may still be applied
    orphans,  \* such writes of mutations that ended
    faults,   \* how many faults there have been
    told,     \* keys that an operator was told may disagree
    unseen    \* keys that a crash, a late write or an unlocked one touched,
              \* which nobody is told of

storeVars == <<db, zed>>
procVars == <<pc, batch, mode, attempt, had, last>>
lateVars == <<inflight, orphans>>
vars == <<storeVars, lock, procVars, lateVars, faults, told, unseen>>

Modes == {"forward", "restore"}
Locations == {"idle", "callback", "write", "inspect", "written",
              "rollback", "reported"}
Batches == [keys : SUBSET Keys, want : SUBSET Keys, pre : SUBSET Keys]
NoBatch == [keys |-> {}, want |-> {}, pre |-> {}]
Requests == [keys : SUBSET Keys, from : SUBSET Keys, to : SUBSET Keys]

\* The write that p's mode asks for: expectedRelationshipPreconditions.
Forward(b) == [keys |-> b.keys, from |-> b.pre, to |-> b.want]
Restore(b) == [keys |-> b.keys, from |-> b.want, to |-> b.pre]
Request(p) == IF mode[p] = "forward" THEN Forward(batch[p]) ELSE Restore(batch[p])

\* SpiceDB checks the preconditions and applies the batch atomically.
Holds(q) == zed \cap q.keys = q.from
Applied(q) == (zed \ q.keys) \cup q.to

Fault(kind) ==
    /\ kind \in Faults
    /\ faults < MaxFaults
    /\ faults' = faults + 1

Agree(k) == k \in zed <=> k \in db

\* What a write of p does to other mutations when p lost the lock: it sets a
\* key against rows that changed since p read them, or takes a key from
\* under a mutation about to commit.
Changed == {k \in Keys : ~(k \in zed <=> k \in zed')}
Overrun(p) == {k \in Changed :
    \/ ~(k \in zed' <=> k \in db) /\ ~(k \in db <=> k \in batch[p].pre)
    \/ \E q \in Procs \ {p} : lock = q /\ pc[q] = "written" /\ k \in batch[q].keys}

Init ==
    /\ db = {}
    /\ zed = {}
    /\ lock = NoProc
    /\ pc = [p \in Procs |-> "idle"]
    /\ batch = [p \in Procs |-> NoBatch]
    /\ mode = [p \in Procs |-> "forward"]
    /\ attempt = [p \in Procs |-> 0]
    /\ had = [p \in Procs |-> FALSE]
    /\ last = [p \in Procs |-> FALSE]
    /\ inflight = [p \in Procs |-> {}]
    /\ orphans = {}
    /\ faults = 0
    /\ told = {}
    /\ unseen = {}

-----------------------------------------------------------------------------
(* Execute.                                                                  *)

\* Seeded fault: the transaction does not wait for the global lock.
BeginUnlocked(p) ==
    /\ pc[p] = "idle"
    /\ lock' = p
    /\ pc' = [pc EXCEPT ![p] = "callback"]
    /\ UNCHANGED <<storeVars, batch, mode, attempt, had, last, lateVars, faults,
                   told, unseen>>

\* Begin and LockTransaction; waiting for the lock is not being able to step.
Begin(p) ==
    /\ pc[p] = "idle"
    /\ lock = NoProc
    /\ lock' = p
    /\ pc' = [pc EXCEPT ![p] = "callback"]
    /\ UNCHANGED <<storeVars, batch, mode, attempt, had, last, lateVars, faults,
                   told, unseen>>

\* The write loop's own variables start afresh and do not outlive it.
FreshLoop(p) ==
    /\ attempt' = [attempt EXCEPT ![p] = 0]
    /\ had' = [had EXCEPT ![p] = FALSE]
    /\ last' = [last EXCEPT ![p] = FALSE]

\* The transaction ends and with it the lock, unless it is gone already; what
\* SpiceDB has not answered it may still do.
End(p) ==
    /\ lock' = IF lock = p THEN NoProc ELSE lock
    /\ pc' = [pc EXCEPT ![p] = "idle"]
    /\ inflight' = [inflight EXCEPT ![p] = {}]
    /\ orphans' = orphans \cup inflight[p]
    /\ batch' = [batch EXCEPT ![p] = NoBatch]
    /\ mode' = [mode EXCEPT ![p] = "forward"]
    /\ FreshLoop(p)

\* The callback fails, panics or never writes.
CallbackFails(p) ==
    /\ pc[p] = "callback"
    /\ pc' = [pc EXCEPT ![p] = "rollback"]
    /\ UNCHANGED <<storeVars, lock, batch, mode, attempt, had, last,
                   lateVars, faults, told, unseen>>

\* A write loop starts: writeExpectedRelationships in mode m for batch b.
StartWriting(p, m, b) ==
    /\ pc' = [pc EXCEPT ![p] = "write"]
    /\ batch' = [batch EXCEPT ![p] = b]
    /\ mode' = [mode EXCEPT ![p] = m]
    /\ FreshLoop(p)

\* The callback has changed its rows, for which its transaction must be open,
\* and writes its batch K -> want.
WriteRelationships(p, K, want) ==
    /\ pc[p] = "callback"
    /\ lock = p
    /\ K # {}
    /\ StartWriting(p, "forward", [keys |-> K, want |-> want, pre |-> db \cap K])
    /\ UNCHANGED <<storeVars, lock, lateVars, faults, told, unseen>>

\* compensateWhileLocked: whatever the name says, nothing here holds the lock.
CompensateWhileLocked(p) == StartWriting(p, "restore", batch[p])

\* How the write loop ends, in Execute's terms: a forward success continues
\* the callback, a definite error needs no compensation, an uncertain one
\* does; a restore that does not succeed is reported.
ReturnOK(p) ==
    /\ pc' = [pc EXCEPT ![p] = IF mode[p] = "forward" THEN "written" ELSE "rollback"]
    /\ FreshLoop(p)
    /\ UNCHANGED <<batch, mode, told>>

ReturnError(p) ==
    /\ pc' = [pc EXCEPT ![p] = IF mode[p] = "forward" THEN "rollback" ELSE "reported"]
    /\ told' = IF mode[p] = "restore" THEN told \cup batch[p].keys ELSE told
    /\ FreshLoop(p)
    /\ UNCHANGED <<batch, mode>>

\* Seeded fault: an uncertain write is not compensated.
UncertainTakenAsError(p) == ReturnError(p)

ReturnUncertain(p) ==
    \/ mode[p] = "forward" /\ CompensateWhileLocked(p) /\ UNCHANGED told
    \/ mode[p] = "restore" /\ ReturnError(p)

\* The error of one write is inspected or returned.
Inspect(p, isAmbiguous) ==
    /\ pc' = [pc EXCEPT ![p] = "inspect"]
    /\ had' = [had EXCEPT ![p] = @ \/ isAmbiguous]
    /\ last' = [last EXCEPT ![p] = isAmbiguous]
    /\ UNCHANGED <<batch, mode, attempt, told>>

WriteSucceeds(p) ==
    /\ pc[p] = "write"
    /\ Holds(Request(p))
    /\ zed' = Applied(Request(p))
    /\ ReturnOK(p)
    /\ unseen' = unseen \cup Overrun(p)
    /\ UNCHANGED <<db, lock, lateVars, faults>>

\* FailedPrecondition: a restore, or any write after an ambiguous one, looks.
PreconditionFails(p) ==
    /\ pc[p] = "write"
    /\ ~Holds(Request(p))
    /\ IF mode[p] = "restore" \/ had[p] THEN Inspect(p, FALSE) ELSE ReturnError(p)
    /\ UNCHANGED <<storeVars, lock, lateVars, faults, unseen>>

\* Any other definite refusal.
WriteRefused(p) ==
    /\ pc[p] = "write"
    /\ IF had[p] THEN Inspect(p, FALSE) ELSE ReturnError(p)
    /\ UNCHANGED <<storeVars, lock, lateVars, faults, unseen>>

\* Canceled, DeadlineExceeded, Unknown, Internal or Unavailable: the write was
\* applied, was not, or is yet to be.
WriteAmbiguous(p) ==
    /\ pc[p] = "write"
    /\ Inspect(p, TRUE)
    /\ \/ /\ Holds(Request(p))
          /\ zed' = Applied(Request(p))
          /\ UNCHANGED <<inflight, faults>>
       \/ UNCHANGED <<zed, inflight, faults>>
       \/ /\ Fault("late")
          /\ inflight' = [inflight EXCEPT ![p] = @ \cup {Request(p)}]
          /\ UNCHANGED zed
    /\ unseen' = unseen \cup Overrun(p)
    /\ UNCHANGED <<db, lock, orphans>>

\* Seeded fault: the retries are not counted.
InspectStateForever(p) ==
    /\ pc[p] = "inspect"
    /\ \/ zed \cap batch[p].keys = Request(p).to /\ ReturnOK(p)
       \/ /\ zed \cap batch[p].keys # Request(p).to
          /\ pc' = [pc EXCEPT ![p] = "write"]
          /\ UNCHANGED <<batch, mode, attempt, had, last, told>>
    /\ UNCHANGED <<storeVars, lock, lateVars, faults, unseen>>

\* The fully consistent read finds the desired state, the pre-state, which
\* an ambiguous error retries while attempts and the context last, or a mix.
InspectState(p) ==
    LET found == zed \cap batch[p].keys
        desired == Request(p).to
        before == Request(p).from
    IN
    /\ pc[p] = "inspect"
    /\ \/ found = desired /\ ReturnOK(p)
       \/ found # desired /\ found = before /\ ~last[p] /\ ReturnError(p)
       \/ found # desired /\ found = before /\ last[p] /\ ReturnUncertain(p)
       \/ /\ found # desired /\ found = before /\ last[p]
          /\ attempt[p] < MaxAttempts - 1
          /\ attempt' = [attempt EXCEPT ![p] = @ + 1]
          /\ pc' = [pc EXCEPT ![p] = "write"]
          /\ last' = [last EXCEPT ![p] = FALSE]
          /\ UNCHANGED <<batch, mode, had, told>>
       \/ /\ found \notin {desired, before}
          /\ IF had[p] THEN ReturnUncertain(p) ELSE ReturnError(p)
    /\ UNCHANGED <<storeVars, lock, lateVars, faults, unseen>>

\* Seeded fault: a failed read passes for the desired state.
InspectFailureAccepted(p) ==
    /\ pc[p] = "inspect"
    /\ ReturnOK(p)
    /\ UNCHANGED <<storeVars, lock, lateVars, faults, unseen>>

InspectFails(p) ==
    /\ pc[p] = "inspect"
    /\ IF had[p] THEN ReturnUncertain(p) ELSE ReturnError(p)
    /\ UNCHANGED <<storeVars, lock, lateVars, faults, unseen>>

\* The callback fails after its write: a second write, a later error, a panic.
CallbackFailsAfterWrite(p) ==
    /\ pc[p] = "written"
    /\ CompensateWhileLocked(p)
    /\ UNCHANGED <<storeVars, lock, lateVars, faults, told, unseen>>

\* Of a transaction that is gone already this is an error in the log, whether
\* anything disagrees or not.
Rollback(p) ==
    /\ pc[p] \in {"rollback", "reported"}
    /\ End(p)
    /\ UNCHANGED <<storeVars, faults, told, unseen>>

Committed(p) == (db \ batch[p].keys) \cup batch[p].want

Commit(p) ==
    /\ pc[p] = "written"
    /\ lock = p
    /\ db' = Committed(p)
    /\ End(p)
    /\ UNCHANGED <<zed, faults, told, unseen>>

\* The commit's answer is lost, or there is nothing left to commit: it is
\* reported and nothing is compensated.
CommitUncertain(p) ==
    /\ pc[p] = "written"
    /\ db' \in IF lock = p THEN {db, Committed(p)} ELSE {db}
    /\ told' = told \cup batch[p].keys
    /\ End(p)
    /\ UNCHANGED <<zed, faults, unseen>>

-----------------------------------------------------------------------------
(* The environment.                                                          *)

\* The request is cancelled or its 15 s are over and database/sql rolls the
\* transaction back, or the connection dies: the lock is free and Execute
\* finds out from a later call, if it makes one.
TransactionLost(p) ==
    /\ lock = p
    /\ Fault("lost")
    /\ lock' = NoProc
    /\ UNCHANGED <<storeVars, procVars, lateVars, told, unseen>>

\* The process dies: PostgreSQL rolls back, a write that was sent may be
\* applied.
Crash(p) ==
    /\ Fault("crash")
    /\ pc[p] # "idle"
    /\ \/ UNCHANGED zed
       \/ pc[p] = "write" /\ Holds(Request(p)) /\ zed' = Applied(Request(p))
    /\ unseen' = unseen \cup batch[p].keys
    /\ End(p)
    /\ UNCHANGED <<db, told>>

\* A write is applied after its call gave up.  Inside the write loop of its own
\* mutation the code can still notice; afterwards nobody can.
LateWriteInMutation(p, q) ==
    /\ q \in inflight[p]
    /\ inflight' = [inflight EXCEPT ![p] = @ \ {q}]
    /\ zed' = IF Holds(q) THEN Applied(q) ELSE zed
    /\ unseen' = unseen \cup
          IF pc[p] \in {"write", "inspect"} THEN Overrun(p) ELSE Changed
    /\ UNCHANGED <<db, lock, procVars, orphans, faults, told>>

LateWriteAfterwards(q) ==
    /\ q \in orphans
    /\ orphans' = orphans \ {q}
    /\ zed' = IF Holds(q) THEN Applied(q) ELSE zed
    /\ unseen' = unseen \cup Changed
    /\ UNCHANGED <<db, lock, procVars, inflight, faults, told>>

Step(p) ==
    \/ CallbackFails(p)
    \/ \E K \in Touches[p] : \E want \in SUBSET K : WriteRelationships(p, K, want)
    \/ WriteSucceeds(p) \/ PreconditionFails(p) \/ WriteRefused(p) \/ WriteAmbiguous(p)
    \/ InspectState(p) \/ InspectFails(p)
    \/ CallbackFailsAfterWrite(p)
    \/ Rollback(p) \/ Commit(p) \/ CommitUncertain(p)

Next ==
    \/ \E p \in Procs : Begin(p) \/ Step(p) \/ TransactionLost(p) \/ Crash(p)
    \/ \E p \in Procs : \E q \in inflight[p] : LateWriteInMutation(p, q)
    \/ \E q \in orphans : LateWriteAfterwards(q)

Spec == Init /\ [][Next]_vars

\* A request's goroutine runs on, every call to SpiceDB has a deadline and the
\* compensation has one of its own.
FairSpec == Spec /\ \A p \in Procs : WF_vars(Step(p))

-----------------------------------------------------------------------------
(* Properties.                                                               *)

\* Every variable has its type and only a process inside a mutation holds the
\* lock.
TypeOK ==
    /\ db \subseteq Keys /\ zed \subseteq Keys
    /\ lock \in Procs \cup {NoProc}
    /\ pc \in [Procs -> Locations]
    /\ \A p \in Procs : lock = p => pc[p] # "idle"
    /\ batch \in [Procs -> Batches]
    /\ mode \in [Procs -> Modes]
    /\ attempt \in [Procs -> 0..(MaxAttempts - 1)]
    /\ had \in [Procs -> BOOLEAN] /\ last \in [Procs -> BOOLEAN]
    /\ inflight \in [Procs -> SUBSET Requests]
    /\ orphans \subseteq Requests
    /\ faults \in 0..MaxFaults
    /\ told \subseteq Keys /\ unseen \subseteq Keys

\* Execute still has to commit or to undo what p did.
Accounts(p) ==
    \/ pc[p] \in {"write", "inspect"} /\ (mode[p] = "restore" \/ had[p])
    \/ pc[p] = "written"

\* p has set k, the rows are still those that p read, and p is not done.
Responsible(p, k) ==
    /\ Accounts(p)
    /\ k \in batch[p].keys
    /\ k \in zed <=> k \in batch[p].want
    /\ k \in db <=> k \in batch[p].pre

\* A relationship that disagrees with the committed rows is one that a mutation
\* still inside Execute has set and will commit or undo, one that an operator
\* was told of, or one that a crash, a late write or an unlocked write
\* touched: a rolled-back or refused mutation leaves nothing behind, whether
\* it kept its lock or not, and no incident spreads to another batch's keys.
AuthorityAgrees ==
    \A k \in Keys \ (told \cup unseen) :
        Agree(k) \/ \E p \in Procs : Responsible(p, k)

\* Rows never change ahead of SpiceDB: where a commit changes what the rows
\* call for, whether its answer arrives or not, SpiceDB already has it, after
\* any number of lost answers, retries and read-backs.
CommitIsWritten == [][
    \A k \in Keys \ unseen : ~(k \in db' <=> k \in db) => (k \in zed' <=> k \in db') ]_vars

\* The lock is enough while it is held: as long as no transaction was lost
\* under its mutation, no process died and no write was late, the stores agree
\* between mutations except where an operator was told.
SerializedIsExact ==
    faults = 0 /\ lock = NoProc => \A k \in Keys \ told : Agree(k)

\* The inductive invariant behind them.  A batch is guarded by what the rows
\* had, and still have while the lock is held; only its own two writes can
\* still be applied, and none before the first ambiguous answer.
BatchExact(p) ==
    /\ batch[p].want \subseteq batch[p].keys
    /\ batch[p].pre \subseteq batch[p].keys
    /\ lock = p => batch[p].pre = db \cap batch[p].keys
    /\ pc[p] \in {"idle", "callback"} => batch[p] = NoBatch
    /\ inflight[p] \subseteq {Forward(batch[p]), Restore(batch[p])}
    /\ pc[p] \in {"idle", "callback"} => mode[p] = "forward" /\ inflight[p] = {}
    /\ pc[p] = "write" /\ mode[p] = "forward" /\ ~had[p] => inflight[p] = {}
    /\ pc[p] = "inspect" /\ mode[p] = "forward" => had[p]

BatchesExact == \A p \in Procs : BatchExact(p)

\* What the holder of the lock is about to commit is written.
WrittenExact == \A p \in Procs : lock = p /\ pc[p] = "written" =>
    \A k \in batch[p].keys \ unseen : k \in zed <=> k \in batch[p].want

\* Without a fault every mutation keeps its lock and touches nobody else's key.
FaultlessExact == faults = 0 =>
    /\ unseen = {} /\ orphans = {}
    /\ \A p \in Procs : inflight[p] = {} /\ (pc[p] # "idle" => lock = p)

\* The conjunction is inductive.
AuthzInv ==
    TypeOK /\ BatchesExact /\ WrittenExact /\ FaultlessExact /\ AuthorityAgrees

\* Whatever SpiceDB answers, a mutation ends, the lock that every other one
\* waits for included.
MutationEnds == \A p \in Procs : pc[p] # "idle" ~> pc[p] = "idle"

\* "keep the transaction open through commit or exact compensation and
\* rollback": when no mutation is under way and no operator was told, the
\* stores agree.
CompensatedOnRollback ==
    (\A p \in Procs : pc[p] = "idle") /\ told = {} => zed = db

=============================================================================
