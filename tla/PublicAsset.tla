---------------------------- MODULE PublicAsset ----------------------------
(***************************************************************************)
(* The life of a public asset: allocated for a source File, streamed to    *)
(* the object store, made ready, bound to the slots of its owners, asked   *)
(* to be deleted, and erased by the cleanup job.  PostgreSQL holds the     *)
(* File, the asset rows and the bindings; the bucket holds the objects and *)
(* takes part in no transaction.  The module follows                       *)
(* internal/mediaasset (Lifecycle and PublicAssetCleanup), the promotion   *)
(* of internal/filemedia/source_asset_promotion.go and the deletion of a   *)
(* File in internal/filemedia/domain/deletion.go.                          *)
(*                                                                         *)
(* Requests run side by side, each a sequence of transactions and calls to *)
(* the bucket.  A transaction that only takes row locks and commits is one *)
(* step; one that reads before it locks (bind, release), or calls the      *)
(* bucket while it holds a lock (the removal of an unready row), has a     *)
(* step for each part, and its lock keeps the others waiting.  The row     *)
(* lock of a transaction of one step is its guard ~Locked.                 *)
(*                                                                         *)
(* A day, the retention of an unready row, may pass between any two steps, *)
(* so that the cleanup job may find any unready row expired: a resumed     *)
(* allocation keeps the created_at of the first one.                       *)
(***************************************************************************)
EXTENDS Integers

CONSTANTS
    Files,          \* source Files of dedicated public uploads
    Assets,         \* the identifiers an allocation draws from
    Rendered,       \* assets without a source File, rendered before the start
    OwnerSlots,     \* bindings that are no reference to a File: avatars, OG images
    ContentSlots,   \* bindings of an owner whose row also references the File
    Requests,       \* requests served at the same time
    Cleaners,       \* runs of the cleanup job at the same time
    MaxFaults,      \* failures of the bucket, the cache or a process
    None            \* no asset, no slot, no File

ASSUME RenderedAssumption == Rendered \subseteq Assets
ASSUME FaultsAssumption == MaxFaults \in Nat
ASSUME SlotsAssumption == OwnerSlots \cap ContentSlots = {}
ASSUME NoneAssumption ==
    None \notin Files \cup Assets \cup OwnerSlots \cup ContentSlots

Slots == OwnerSlots \cup ContentSlots

VARIABLES
    file,       \* [Files -> {"live", "requested"}]
    status,     \* the status of an asset's row; "unused" before, "gone" after
    source,     \* the File an asset was allocated for
    object,     \* the assets whose object is in the bucket
    slot,       \* the asset bound to a slot
    req,        \* what each request does
    clean,      \* what each run of the cleanup job does
    kept,       \* ghost: assets that were bound when their File's deletion was requested
    late,       \* ghost: objects written after they had been erased for good
    torn,       \* ghost: objects that a promotion cut short, or that a removal
                \* deleted before it was rolled back
    faults

vars == <<file, status, source, object, slot, req, clean, kept, late, torn, faults>>
rows == <<file, status, source, slot, kept>>
bucket == <<object, late, torn>>

Unready == {"allocated", "failed"}
Statuses ==
    {"unused", "allocated", "failed", "ready", "delete_pending", "deleted", "gone"}

Idle == [pc |-> "idle", slot |-> None, asset |-> None, seen |-> None, held |-> {}]
Resting == [pc |-> "idle", asset |-> None]

Init ==
    /\ file = [f \in Files |-> "live"]
    /\ status = [a \in Assets |-> IF a \in Rendered THEN "ready" ELSE "unused"]
    /\ source = [a \in Assets |-> None]
    /\ object = Rendered
    /\ slot = [s \in Slots |-> None]
    /\ req = [q \in Requests |-> Idle]
    /\ clean = [c \in Cleaners |-> Resting]
    /\ kept = {} /\ late = {} /\ torn = {}
    /\ faults = 0

---------------------------------------------------------------------------
(* Row locks that outlast a step.                                          *)

\* Seeded fault: the job gives the row back before it calls the bucket.
LockedByRequests(a) == \E q \in Requests : a \in req[q].held

\* A row that some transaction in progress holds.
Locked(a) ==
    \/ \E q \in Requests : a \in req[q].held
    \/ \E c \in Cleaners : clean[c].pc \in {"expire", "expire_erased"} /\ clean[c].asset = a

\* The File whose row an attachment holds until it commits.
FileLocked(f) ==
    \E q \in Requests : req[q].pc = "attach" /\ source[req[q].asset] = f

Bound(a) == \E s \in Slots : slot[s] = a

\* The assets of a File that are neither deleted nor removed.
LiveAssets(f) ==
    {a \in Assets : source[a] = f /\ status[a] \notin {"unused", "deleted", "gone"}}

---------------------------------------------------------------------------
(* Promotion of a source File.                                             *)

\* Seeded fault: a failed asset is not resumed but replaced by a new one.
AllocateOverFailed(q, f, a) ==
    /\ req[q].pc = "idle"
    /\ file[f] = "live" /\ ~FileLocked(f)
    /\ ~Locked(a)
    /\ \/ \A b \in LiveAssets(f) : status[b] = "failed"
          /\ status[a] = "unused"
       \/ a \in LiveAssets(f) /\ status[a] = "allocated"
    /\ status' = [status EXCEPT ![a] = "allocated"]
    /\ source' = [source EXCEPT ![a] = f]
    /\ req' = [req EXCEPT ![q] = [Idle EXCEPT !.pc = "stream", !.asset = a]]
    /\ UNCHANGED <<file, slot, kept, bucket, clean, faults>>

\* The File's row is locked and its newest asset that is not deleted is read:
\* none, and one is allocated; an unready one is taken over, a failed one
\* resumed; one that is to be deleted refuses.  A ready one ends the request.
PreparePromotion(q, f, a) ==
    /\ req[q].pc = "idle"
    /\ file[f] = "live" /\ ~FileLocked(f)
    /\ ~Locked(a)
    /\ \/ LiveAssets(f) = {} /\ status[a] = "unused"
       \/ a \in LiveAssets(f) /\ status[a] \in Unready
    /\ status' = [status EXCEPT ![a] = "allocated"]
    /\ source' = [source EXCEPT ![a] = f]
    /\ req' = [req EXCEPT ![q] = [Idle EXCEPT !.pc = "stream", !.asset = a]]
    /\ UNCHANGED <<file, slot, kept, bucket, clean, faults>>

\* An object that no later step erases: its row is at its end, or the job
\* has erased it and only commits.
EraseIsOver(a) ==
    \/ status[a] \in {"deleted", "gone"}
    \/ \E c \in Cleaners :
          clean[c].pc \in {"expire_erased", "pending_erased"} /\ clean[c].asset = a

Put(a) ==
    /\ object' = object \cup {a}
    /\ late' = IF EraseIsOver(a) THEN late \cup {a} ELSE late

Remove(a) ==
    /\ object' = object \ {a}
    /\ late' = late \ {a}

\* The object is written, whatever has become of the row.
StreamSource(q) ==
    /\ req[q].pc = "stream"
    /\ Put(req[q].asset) /\ torn' = torn \ {req[q].asset}
    /\ req' = [req EXCEPT ![q].pc = "complete"]
    /\ UNCHANGED <<rows, clean, faults>>

\* The source cannot be read or the upload fails; the bucket may have taken
\* the object all the same.
StreamFails(q) ==
    /\ req[q].pc = "stream"
    /\ faults < MaxFaults /\ faults' = faults + 1
    /\ \/ UNCHANGED bucket
       \/ Put(req[q].asset) /\ torn' = torn \ {req[q].asset}
    /\ req' = [req EXCEPT ![q].pc = "fail"]
    /\ UNCHANGED <<rows, clean>>

\* The source ended early.  The object is deleted again, with whatever another
\* promotion of the File has put under the same key, or stays if that fails.
StreamEndsShort(q) ==
    LET a == req[q].asset IN
    /\ req[q].pc = "stream"
    /\ faults < MaxFaults /\ faults' = faults + 1
    /\ Remove(a) \/ Put(a)
    /\ torn' = torn \cup {a}
    /\ req' = [req EXCEPT ![q].pc = "fail"]
    /\ UNCHANGED <<rows, clean>>

\* Seeded fault: only the asset is locked, the File is not looked at again.
CompleteWithoutFile(q) ==
    LET a == req[q].asset IN
    /\ req[q].pc = "complete"
    /\ ~Locked(a)
    /\ status' = IF status[a] \in Unready THEN [status EXCEPT ![a] = "ready"] ELSE status
    /\ req' = [req EXCEPT ![q] = Idle]
    /\ UNCHANGED <<file, source, slot, kept, bucket, clean, faults>>

\* Seeded fault: whatever became of the row during the upload, it is made ready.
CompleteInAnyStatus(q) ==
    LET a == req[q].asset IN
    /\ req[q].pc = "complete"
    /\ ~FileLocked(source[a]) /\ ~Locked(a)
    /\ status' = IF file[source[a]] = "live" THEN [status EXCEPT ![a] = "ready"] ELSE status
    /\ req' = [req EXCEPT ![q] = Idle]
    /\ UNCHANGED <<file, source, slot, kept, bucket, clean, faults>>

\* File and asset are locked; a failed asset is resumed, an allocated one
\* becomes ready, a ready one is accepted (the same File has the same
\* digest), any other status and a File that is being deleted refuse.
CompletePromotion(q) ==
    LET a == req[q].asset IN
    /\ req[q].pc = "complete"
    /\ ~FileLocked(source[a]) /\ ~Locked(a)
    /\ status' = IF file[source[a]] = "live" /\ status[a] \in Unready
                 THEN [status EXCEPT ![a] = "ready"]
                 ELSE status
    /\ req' = [req EXCEPT ![q] = Idle]
    /\ UNCHANGED <<file, source, slot, kept, bucket, clean, faults>>

\* Only an allocated asset is recorded as failed.
FailPromotion(q) ==
    LET a == req[q].asset IN
    /\ req[q].pc = "fail"
    /\ ~Locked(a)
    /\ status' = IF status[a] = "allocated" THEN [status EXCEPT ![a] = "failed"] ELSE status
    /\ req' = [req EXCEPT ![q] = Idle]
    /\ UNCHANGED <<file, source, slot, kept, bucket, clean, faults>>

\* The process dies, or every write of the request fails: what is committed
\* stays, what is locked is given back.
RequestStops(q) ==
    /\ req[q].pc # "idle"
    /\ faults < MaxFaults /\ faults' = faults + 1
    /\ req' = [req EXCEPT ![q] = Idle]
    /\ UNCHANGED <<rows, bucket, clean>>

---------------------------------------------------------------------------
(* Bindings.                                                               *)

\* The binding is read without a lock; the asset was ready when it was looked
\* up.  BindPublicAsset locks no File.
BindPublicAsset(q, s, a) ==
    /\ req[q].pc = "idle"
    /\ status[a] = "ready"
    /\ req' = [req EXCEPT ![q] = [pc |-> "bind", slot |-> s, asset |-> a,
                                   seen |-> slot[s], held |-> {}]]
    /\ UNCHANGED <<rows, bucket, clean, faults>>

\* An owner that references the File locks it first, and until it commits.
BindReadyAssetForSourceFile(q, s, a) ==
    /\ req[q].pc = "idle"
    /\ status[a] = "ready" /\ source[a] # None
    /\ file[source[a]] = "live" /\ ~FileLocked(source[a])
    /\ req' = [req EXCEPT ![q] = [pc |-> "attach", slot |-> s, asset |-> a,
                                   seen |-> slot[s], held |-> {}]]
    /\ UNCHANGED <<rows, bucket, clean, faults>>

\* A slot without a binding has nothing to release.
ReleasePublicAssetBindings(q, s) ==
    /\ req[q].pc = "idle"
    /\ slot[s] # None
    /\ req' = [req EXCEPT ![q] = [pc |-> "release", slot |-> s, asset |-> None,
                                   seen |-> slot[s], held |-> {}]]
    /\ UNCHANGED <<rows, bucket, clean, faults>>

\* The rows of the new and of the replaced asset are locked, in the order of
\* their ids; an asset that is not ready any more refuses.
LockAssets(q) ==
    LET ids == {req[q].asset, req[q].seen} \ {None}
        refused == req[q].pc # "release" /\ status[req[q].asset] # "ready"
    IN
    /\ req[q].pc \in {"bind", "attach", "release"} /\ req[q].held = {}
    /\ \A a \in ids : ~Locked(a)
    /\ req' = IF refused THEN [req EXCEPT ![q] = Idle] ELSE [req EXCEPT ![q].held = ids]
    /\ UNCHANGED <<rows, bucket, clean, faults>>

\* An asset that has just lost a binding: without a source File and without
\* another binding it is to be deleted.
MarkUnboundDeletePending(a) ==
    status' = IF a # None /\ status[a] = "ready" /\ source[a] = None
                 /\ \A s \in Slots : slot'[s] # a
              THEN [status EXCEPT ![a] = "delete_pending"]
              ELSE status

\* Seeded fault: whatever the slot holds by now is replaced, its asset not locked.
StoreUncompared(q) ==
    LET s == req[q].slot IN
    /\ req[q].held # {}
    /\ slot' = [slot EXCEPT ![s] = req[q].asset]
    /\ MarkUnboundDeletePending(slot[s])
    /\ req' = [req EXCEPT ![q] = Idle]
    /\ UNCHANGED <<file, source, kept, bucket, clean, faults>>

\* The binding is locked and compared with what was read; it is inserted,
\* replaced or deleted, and the asset it named may be left without a use.
StoreBinding(q) ==
    LET s == req[q].slot
        a == req[q].asset
    IN
    /\ req[q].held # {}
    /\ IF slot[s] = req[q].seen
       THEN /\ slot' = [slot EXCEPT ![s] = a]
            /\ MarkUnboundDeletePending(slot[s])
       ELSE UNCHANGED <<slot, status>>
    /\ req' = [req EXCEPT ![q] = Idle]
    /\ UNCHANGED <<file, source, kept, bucket, clean, faults>>

---------------------------------------------------------------------------
(* Requests for deletion.                                                  *)

\* Only a ready or a failed asset without a binding; the caller is the
\* clean-up of a deleted Member's avatar, or a job that found it unused.
RequestPublicAssetDeletion(a) ==
    /\ status[a] \in {"ready", "failed"}
    /\ ~Locked(a) /\ ~Bound(a)
    /\ status' = [status EXCEPT ![a] = "delete_pending"]
    /\ UNCHANGED <<file, source, slot, kept, bucket, req, clean, faults>>

\* An owner's reference keeps the File; otherwise the unbound assets that are
\* ready or failed go with it, and those that are being written are left to
\* the cleanup job.
MarkFileDeletionRequested(f) ==
    LET own == {a \in Assets : source[a] = f} IN
    /\ file[f] = "live" /\ ~FileLocked(f)
    /\ \A s \in ContentSlots : slot[s] \notin own
    /\ \A a \in own : ~Locked(a)
    /\ file' = [file EXCEPT ![f] = "requested"]
    /\ status' = [a \in Assets |->
                    IF a \in own /\ ~Bound(a) /\ status[a] \in {"ready", "failed"}
                    THEN "delete_pending" ELSE status[a]]
    /\ kept' = kept \cup {a \in own : Bound(a)}
    /\ UNCHANGED <<source, slot, bucket, req, clean, faults>>

---------------------------------------------------------------------------
(* The cleanup job.                                                        *)

\* An asset of the list of those to be deleted.
ListPending(c, a) ==
    /\ clean[c].pc = "idle"
    /\ status[a] = "delete_pending"
    /\ clean' = [clean EXCEPT ![c] = [pc |-> "pending", asset |-> a]]
    /\ UNCHANGED <<rows, bucket, req, faults>>

\* A row that is still unready is locked.
LockExpiredUnready(c, a) ==
    /\ clean[c].pc = "idle"
    /\ status[a] \in Unready /\ ~Locked(a)
    /\ clean' = [clean EXCEPT ![c] = [pc |-> "expire", asset |-> a]]
    /\ UNCHANGED <<rows, bucket, req, faults>>

\* The bindings are counted outside of any lock, then the object is deleted.
ErasePending(c) ==
    /\ clean[c].pc = "pending"
    /\ ~Bound(clean[c].asset)
    /\ Remove(clean[c].asset) /\ UNCHANGED torn
    /\ clean' = [clean EXCEPT ![c].pc = "pending_erased"]
    /\ UNCHANGED <<rows, req, faults>>

\* After the cache is purged the row is marked, if it is still to be deleted.
MarkAssetDeleted(c) ==
    LET a == clean[c].asset IN
    /\ clean[c].pc = "pending_erased"
    /\ ~Locked(a)
    /\ status' = IF status[a] = "delete_pending"
                 THEN [status EXCEPT ![a] = "deleted"] ELSE status
    /\ clean' = [clean EXCEPT ![c] = Resting]
    /\ UNCHANGED <<file, source, slot, kept, bucket, req, faults>>

\* The object of an unready asset is deleted under the lock of its row.
EraseExpired(c) ==
    /\ clean[c].pc = "expire"
    /\ Remove(clean[c].asset) /\ UNCHANGED torn
    /\ clean' = [clean EXCEPT ![c].pc = "expire_erased"]
    /\ UNCHANGED <<rows, req, faults>>

\* And the row is removed in the same transaction.
DeleteExpiredAsset(c) ==
    /\ clean[c].pc = "expire_erased"
    /\ status' = [status EXCEPT ![clean[c].asset] = "gone"]
    /\ clean' = [clean EXCEPT ![c] = Resting]
    /\ UNCHANGED <<file, source, slot, kept, bucket, req, faults>>

\* The bucket, the cache or the commit fails, or the process dies.  An
\* interrupted removal rolls back the row and not the bucket.
CleanupStops(c) ==
    LET a == clean[c].asset IN
    /\ clean[c].pc # "idle"
    /\ faults < MaxFaults /\ faults' = faults + 1
    /\ torn' = IF clean[c].pc = "expire_erased" /\ a \notin object
               THEN torn \cup {a} ELSE torn
    /\ clean' = [clean EXCEPT ![c] = Resting]
    /\ UNCHANGED <<rows, object, late, req>>

---------------------------------------------------------------------------
Promotion(q) ==
    \/ \E f \in Files, a \in Assets : PreparePromotion(q, f, a)
    \/ StreamSource(q) \/ StreamFails(q) \/ StreamEndsShort(q)
    \/ CompletePromotion(q) \/ FailPromotion(q)

Binding(q) ==
    \/ \E s \in OwnerSlots, a \in Assets : BindPublicAsset(q, s, a)
    \/ \E s \in ContentSlots, a \in Assets : BindReadyAssetForSourceFile(q, s, a)
    \/ \E s \in Slots : ReleasePublicAssetBindings(q, s)
    \/ LockAssets(q) \/ StoreBinding(q)

Deletion ==
    \/ \E a \in Assets : RequestPublicAssetDeletion(a)
    \/ \E f \in Files : MarkFileDeletionRequested(f)

Cleanup(c) ==
    \/ \E a \in Assets : ListPending(c, a) \/ LockExpiredUnready(c, a)
    \/ ErasePending(c) \/ MarkAssetDeleted(c)
    \/ EraseExpired(c) \/ DeleteExpiredAsset(c)

Next ==
    \/ \E q \in Requests : Promotion(q) \/ Binding(q) \/ RequestStops(q)
    \/ \E c \in Cleaners : Cleanup(c) \/ CleanupStops(c)
    \/ Deletion

Spec == Init /\ [][Next]_vars

---------------------------------------------------------------------------
(* Properties.                                                             *)

\* Every variable has its type, and a request or a run of the job names what
\* its step needs.
TypeOK ==
    /\ file \in [Files -> {"live", "requested"}]
    /\ status \in [Assets -> Statuses]
    /\ source \in [Assets -> Files \cup {None}]
    /\ slot \in [Slots -> Assets \cup {None}]
    /\ req \in [Requests -> [pc : {"idle", "stream", "complete", "fail",
                                   "bind", "attach", "release"},
                             slot : Slots \cup {None}, asset : Assets \cup {None},
                             seen : Assets \cup {None}, held : SUBSET Assets]]
    /\ clean \in [Cleaners -> [pc : {"idle", "pending", "pending_erased",
                                     "expire", "expire_erased"},
                               asset : Assets \cup {None}]]
    /\ object \subseteq Assets /\ kept \subseteq Assets
    /\ late \subseteq Assets /\ torn \subseteq Assets
    /\ faults \in 0..MaxFaults
    /\ \A q \in Requests :
          /\ req[q].pc \in {"stream", "complete", "fail", "attach"} =>
                /\ req[q].asset \in Assets
                /\ source[req[q].asset] \in Files
          /\ req[q].pc = "bind" => req[q].asset \in Assets /\ req[q].slot \in OwnerSlots
          /\ req[q].pc = "attach" => req[q].slot \in ContentSlots
          /\ req[q].pc = "release" =>
                req[q].asset = None /\ req[q].seen \in Assets /\ req[q].slot \in Slots
          /\ req[q].held # {} =>
                /\ req[q].pc \in {"bind", "attach", "release"}
                /\ req[q].held = {req[q].asset, req[q].seen} \ {None}
    /\ \A c \in Cleaners : clean[c].pc # "idle" => clean[c].asset \in Assets

\* What a slot is bound to is ready: neither the release of another slot, nor
\* a deletion request, nor the deletion of the File, nor the job takes an
\* asset away that is bound or about to be.
BoundIsReady == \A s \in Slots : slot[s] # None => status[slot[s]] = "ready"

\* A ready asset has its object.  The exceptions are the two places where the
\* code spoils the object of a row that stays: a removal that is rolled back
\* after it erased, and a promotion whose source ended early.
ReadyHasObject == \A a \in Assets : status[a] = "ready" => a \in object \cup torn

\* A row that is deleted or removed leaves no object, but for an upload that
\* was still under way when the job erased it.
DeletedIsErased ==
    \A a \in Assets : status[a] \in {"deleted", "gone"} /\ a \in object => a \in late

\* The rows and the bucket agree in both directions although no transaction
\* spans them.
RowsAgreeWithBucket == ReadyHasObject /\ DeletedIsErased

\* A File has one asset at a time, whatever promotions, failures, removals and
\* deletions of earlier ones overlap.
OneLiveAsset == \A f \in Files : \A a, b \in LiveAssets(f) : a = b

\* Once a File's deletion is requested no content owner uses its asset, and
\* none of its assets is or becomes ready but one that an owner without a
\* reference to the File had bound by then.
DeletedFileIsWithdrawn ==
    \A a \in Assets :
       source[a] # None /\ status[a] = "ready" /\ file[source[a]] = "requested" =>
          /\ a \in kept
          /\ \A s \in ContentSlots : slot[s] # a

---------------------------------------------------------------------------
(* The contract of the lifecycle, which the requests and the job implement. *)

LifeOf(s) ==
    CASE s = "unused" -> "unused"
      [] s \in Unready -> "writing"
      [] s = "ready" -> "published"
      [] s = "delete_pending" -> "withdrawn"
      [] OTHER -> "erased"

contractLife == [a \in Assets |-> LifeOf(status[a])]

Contract == INSTANCE AssetContract WITH life <- contractLife, use <- slot

\* However promotions, binds, releases, deletions and runs of the job overlap
\* and fail between their transactions, an asset goes one way from its
\* allocation to its end, nothing withdraws or erases it while a slot has it,
\* and a late upload or a late bind never brings a withdrawn one back.
ImplementsAssetContract == Contract!Spec
============================================================================
