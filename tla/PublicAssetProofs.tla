------------------------- MODULE PublicAssetProofs -------------------------
(***************************************************************************)
(* The safety properties of PublicAsset, for any Files, assets, slots,     *)
(* requests, runs of the cleanup job and failures.                         *)
(*                                                                         *)
(* None of them is inductive alone.  That a bound asset stays ready rests  *)
(* on what the row locks of a bind keep from changing (BindInv); that rows *)
(* and bucket agree on what the job knows between the call to the bucket   *)
(* and its commit, and a promotion between its upload and its commit       *)
(* (EraseInv); that a deleted File is withdrawn on the lock of the File an *)
(* attachment holds (FileInv).                                             *)
(***************************************************************************)
EXTENDS PublicAsset, TLAPS

(* What a request may rely on until it commits. *)
BindInv ==
    /\ BoundIsReady
    /\ \A q \in Requests : req[q].asset # None => status[req[q].asset] # "unused"
    /\ \A q \in Requests :
          req[q].held # {} /\ req[q].pc # "release" => status[req[q].asset] = "ready"
    /\ \A p, q \in Requests : p # q => req[p].held \cap req[q].held = {}

(* What the job knows of the row it works on. *)
JobInv ==
    /\ \A c \in Cleaners :
          /\ clean[c].pc \in {"expire", "expire_erased"} => status[clean[c].asset] \in Unready
          /\ clean[c].pc \in {"pending", "pending_erased"} =>
                status[clean[c].asset] \in {"delete_pending", "deleted"}
    /\ \A c, d \in Cleaners :
          /\ clean[c].pc \in {"expire", "expire_erased"}
          /\ clean[d].pc \in {"expire", "expire_erased"}
          /\ clean[c].asset = clean[d].asset
          => c = d

(* Which objects are there between a call to the bucket and its commit. *)
EraseInv ==
    /\ RowsAgreeWithBucket
    /\ \A c \in Cleaners :
          clean[c].pc \in {"expire_erased", "pending_erased"} /\ clean[c].asset \in object =>
             clean[c].asset \in late
    /\ \A q \in Requests :
          req[q].pc = "complete" /\ status[req[q].asset] \in Unready =>
             \/ req[q].asset \in object \cup torn
             \/ \E c \in Cleaners :
                   clean[c].pc = "expire_erased" /\ clean[c].asset = req[q].asset

(* What the lock of a File keeps. *)
FileInv ==
    /\ OneLiveAsset
    /\ DeletedFileIsWithdrawn
    /\ \A q \in Requests : req[q].pc = "attach" => file[source[req[q].asset]] = "live"

IInv == TypeOK /\ BindInv /\ JobInv /\ EraseInv /\ FileInv

-----------------------------------------------------------------------------
(* Promotions.  The job waits for their commits, and they for its.         *)

LEMMA PreparePromotionStep ==
    ASSUME IInv, NEW q \in Requests, NEW f \in Files, NEW a \in Assets, PreparePromotion(q, f, a)
    PROVE  IInv'
<1>1. TypeOK'
  BY DEF IInv, TypeOK, PreparePromotion, bucket, Idle, Statuses
<1>2. BindInv'
  BY DEF IInv, TypeOK, BindInv, BoundIsReady, PreparePromotion, Idle, Unready
<1>3. JobInv'
  BY DEF IInv, JobInv, PreparePromotion, Unready
<1>4. EraseInv'
  BY NoneAssumption DEF IInv, BindInv, EraseInv, RowsAgreeWithBucket, ReadyHasObject,
     DeletedIsErased, PreparePromotion, bucket
<1>5. FileInv'
  BY DEF IInv, TypeOK, FileInv, OneLiveAsset, DeletedFileIsWithdrawn, PreparePromotion,
     LiveAssets
<1>. QED  BY <1>1, <1>2, <1>3, <1>4, <1>5 DEF IInv

LEMMA StreamSourceStep ==
    ASSUME IInv, NEW q \in Requests, StreamSource(q)
    PROVE  IInv'
<1>1. TypeOK'
  BY NoneAssumption DEF IInv, TypeOK, StreamSource, rows, Put
<1>2. BindInv'
  BY DEF IInv, BindInv, BoundIsReady, StreamSource, rows
<1>3. JobInv'
  BY DEF IInv, JobInv, StreamSource, rows
<1>4. EraseInv'
  BY DEF IInv, EraseInv, RowsAgreeWithBucket, ReadyHasObject, DeletedIsErased, StreamSource,
     rows, Put, EraseIsOver
<1>5. FileInv'
  BY DEF IInv, FileInv, OneLiveAsset, DeletedFileIsWithdrawn, StreamSource, rows, LiveAssets
<1>. QED  BY <1>1, <1>2, <1>3, <1>4, <1>5 DEF IInv

LEMMA StreamFailsStep ==
    ASSUME IInv, NEW q \in Requests, StreamFails(q)
    PROVE  IInv'
<1>1. TypeOK'
  <2>1. req[q].asset \in Assets
    BY DEF IInv, TypeOK, StreamFails
  <2>2. object' \subseteq Assets /\ late' \subseteq Assets /\ torn' \subseteq Assets
    BY <2>1 DEF IInv, TypeOK, StreamFails, bucket, Put
  <2>3. faults' \in 0..MaxFaults
    BY FaultsAssumption DEF IInv, TypeOK, StreamFails
  <2>. QED  BY <2>2, <2>3 DEF IInv, TypeOK, StreamFails, rows
<1>2. BindInv'
  BY DEF IInv, BindInv, BoundIsReady, StreamFails, rows
<1>3. JobInv'
  BY DEF IInv, JobInv, StreamFails, rows
<1>4. EraseInv'
  BY DEF IInv, EraseInv, RowsAgreeWithBucket, ReadyHasObject, DeletedIsErased, StreamFails,
     rows, bucket, Put, EraseIsOver
<1>5. FileInv'
  BY DEF IInv, FileInv, OneLiveAsset, DeletedFileIsWithdrawn, StreamFails, rows, LiveAssets
<1>. QED  BY <1>1, <1>2, <1>3, <1>4, <1>5 DEF IInv

LEMMA StreamEndsShortStep ==
    ASSUME IInv, NEW q \in Requests, StreamEndsShort(q)
    PROVE  IInv'
<1>1. TypeOK'
  <2>1. req[q].asset \in Assets
    BY DEF IInv, TypeOK, StreamEndsShort
  <2>2. object' \subseteq Assets /\ late' \subseteq Assets /\ torn' \subseteq Assets
    BY <2>1 DEF IInv, TypeOK, StreamEndsShort, Put, Remove
  <2>3. faults' \in 0..MaxFaults
    BY FaultsAssumption DEF IInv, TypeOK, StreamEndsShort
  <2>. QED  BY <2>2, <2>3 DEF IInv, TypeOK, StreamEndsShort, rows
<1>2. BindInv'
  BY DEF IInv, BindInv, BoundIsReady, StreamEndsShort, rows
<1>3. JobInv'
  BY DEF IInv, JobInv, StreamEndsShort, rows
<1>4. EraseInv'
  BY DEF IInv, EraseInv, RowsAgreeWithBucket, ReadyHasObject, DeletedIsErased, StreamEndsShort,
     rows, Put, Remove, EraseIsOver
<1>5. FileInv'
  BY DEF IInv, FileInv, OneLiveAsset, DeletedFileIsWithdrawn, StreamEndsShort, rows, LiveAssets
<1>. QED  BY <1>1, <1>2, <1>3, <1>4, <1>5 DEF IInv

LEMMA CompletePromotionStep ==
    ASSUME IInv, NEW q \in Requests, CompletePromotion(q)
    PROVE  IInv'
<1>1. TypeOK'
  BY DEF IInv, TypeOK, CompletePromotion, bucket, Idle, Statuses
<1>2. BindInv'
  BY DEF IInv, BindInv, BoundIsReady, CompletePromotion, Idle
<1>3. JobInv'
  BY DEF IInv, JobInv, CompletePromotion, Unready, Locked
<1>4. EraseInv'
  BY DEF IInv, EraseInv, RowsAgreeWithBucket, ReadyHasObject, DeletedIsErased,
     CompletePromotion, bucket, Idle, Locked
<1>5. FileInv'
  BY DEF IInv, FileInv, OneLiveAsset, DeletedFileIsWithdrawn, CompletePromotion, Idle,
     LiveAssets, Unready
<1>. QED  BY <1>1, <1>2, <1>3, <1>4, <1>5 DEF IInv

LEMMA FailPromotionStep ==
    ASSUME IInv, NEW q \in Requests, FailPromotion(q)
    PROVE  IInv'
<1>1. TypeOK'
  BY DEF IInv, TypeOK, FailPromotion, bucket, Idle, Statuses
<1>2. BindInv'
  BY DEF IInv, BindInv, BoundIsReady, FailPromotion, Idle
<1>3. JobInv'
  BY DEF IInv, JobInv, FailPromotion, Locked
<1>4. EraseInv'
  BY DEF IInv, EraseInv, RowsAgreeWithBucket, ReadyHasObject, DeletedIsErased, FailPromotion,
     bucket, Idle, Unready
<1>5. FileInv'
  BY DEF IInv, FileInv, OneLiveAsset, DeletedFileIsWithdrawn, FailPromotion, Idle, LiveAssets
<1>. QED  BY <1>1, <1>2, <1>3, <1>4, <1>5 DEF IInv

LEMMA RequestStopsStep ==
    ASSUME IInv, NEW q \in Requests, RequestStops(q)
    PROVE  IInv'
<1>1. TypeOK'
  BY FaultsAssumption DEF IInv, TypeOK, RequestStops, rows, bucket, Idle
<1>2. BindInv'
  BY DEF IInv, BindInv, BoundIsReady, RequestStops, rows, Idle
<1>3. JobInv'
  BY DEF IInv, JobInv, RequestStops, rows
<1>4. EraseInv'
  BY DEF IInv, EraseInv, RowsAgreeWithBucket, ReadyHasObject, DeletedIsErased, RequestStops,
     rows, bucket, Idle
<1>5. FileInv'
  BY DEF IInv, FileInv, OneLiveAsset, DeletedFileIsWithdrawn, RequestStops, rows, Idle,
     LiveAssets
<1>. QED  BY <1>1, <1>2, <1>3, <1>4, <1>5 DEF IInv

-----------------------------------------------------------------------------
(* Bindings.  Only the last step of a bind or a release writes rows.       *)

LEMMA BindPublicAssetStep ==
    ASSUME IInv, NEW q \in Requests, NEW s \in OwnerSlots, NEW a \in Assets, BindPublicAsset(q, s, a)
    PROVE  IInv'
<1>1. TypeOK'
  BY DEF IInv, TypeOK, BindPublicAsset, rows, bucket, Slots
<1>2. BindInv'
  BY DEF IInv, BindInv, BoundIsReady, BindPublicAsset, rows
<1>3. JobInv'
  BY DEF IInv, JobInv, BindPublicAsset, rows
<1>4. EraseInv'
  BY DEF IInv, EraseInv, RowsAgreeWithBucket, ReadyHasObject, DeletedIsErased, BindPublicAsset,
     rows, bucket
<1>5. FileInv'
  BY DEF IInv, FileInv, OneLiveAsset, DeletedFileIsWithdrawn, BindPublicAsset, rows, LiveAssets
<1>. QED  BY <1>1, <1>2, <1>3, <1>4, <1>5 DEF IInv

LEMMA BindReadyAssetForSourceFileStep ==
    ASSUME IInv, NEW q \in Requests, NEW s \in ContentSlots, NEW a \in Assets, BindReadyAssetForSourceFile(q, s, a)
    PROVE  IInv'
<1>1. TypeOK'
  BY DEF IInv, TypeOK, BindReadyAssetForSourceFile, rows, bucket, Slots
<1>2. BindInv'
  BY DEF IInv, BindInv, BoundIsReady, BindReadyAssetForSourceFile, rows
<1>3. JobInv'
  BY DEF IInv, JobInv, BindReadyAssetForSourceFile, rows
<1>4. EraseInv'
  BY DEF IInv, EraseInv, RowsAgreeWithBucket, ReadyHasObject, DeletedIsErased,
     BindReadyAssetForSourceFile, rows, bucket
<1>5. FileInv'
  BY DEF IInv, FileInv, OneLiveAsset, DeletedFileIsWithdrawn, BindReadyAssetForSourceFile, rows,
     LiveAssets
<1>. QED  BY <1>1, <1>2, <1>3, <1>4, <1>5 DEF IInv

LEMMA ReleasePublicAssetBindingsStep ==
    ASSUME IInv, NEW q \in Requests, NEW s \in Slots, ReleasePublicAssetBindings(q, s)
    PROVE  IInv'
<1>1. TypeOK'
  BY DEF IInv, TypeOK, ReleasePublicAssetBindings, rows, bucket
<1>2. BindInv'
  BY DEF IInv, BindInv, BoundIsReady, ReleasePublicAssetBindings, rows
<1>3. JobInv'
  BY DEF IInv, JobInv, ReleasePublicAssetBindings, rows
<1>4. EraseInv'
  BY DEF IInv, EraseInv, RowsAgreeWithBucket, ReadyHasObject, DeletedIsErased,
     ReleasePublicAssetBindings, rows, bucket
<1>5. FileInv'
  BY DEF IInv, FileInv, OneLiveAsset, DeletedFileIsWithdrawn, ReleasePublicAssetBindings, rows,
     LiveAssets
<1>. QED  BY <1>1, <1>2, <1>3, <1>4, <1>5 DEF IInv

LEMMA LockAssetsStep ==
    ASSUME IInv, NEW q \in Requests, LockAssets(q)
    PROVE  IInv'
<1>1. TypeOK'
  BY DEF IInv, TypeOK, LockAssets, rows, bucket, Idle
<1>2. BindInv'
  BY DEF IInv, BindInv, BoundIsReady, LockAssets, rows, Idle, Locked
<1>3. JobInv'
  BY DEF IInv, JobInv, LockAssets, rows
<1>4. EraseInv'
  BY DEF IInv, EraseInv, RowsAgreeWithBucket, ReadyHasObject, DeletedIsErased, LockAssets, rows,
     bucket, Idle
<1>5. FileInv'
  BY DEF IInv, FileInv, OneLiveAsset, DeletedFileIsWithdrawn, LockAssets, rows, Idle, LiveAssets
<1>. QED  BY <1>1, <1>2, <1>3, <1>4, <1>5 DEF IInv

LEMMA StoreBindingStep ==
    ASSUME IInv, NEW q \in Requests, StoreBinding(q)
    PROVE  IInv'
<1>1. TypeOK'
  BY DEF IInv, TypeOK, StoreBinding, bucket, MarkUnboundDeletePending, Idle, Statuses
<1>2. BindInv'
  <2>. DEFINE s == req[q].slot
              a == req[q].asset
              b == req[q].seen
  <2>1. /\ req[q].held = {a, b} \ {None}
        /\ a # None => a \in Assets /\ status[a] = "ready"
        /\ s \in Slots
    BY NoneAssumption DEF IInv, TypeOK, BindInv, StoreBinding, Slots
  <2>2. /\ req' = [req EXCEPT ![q] = Idle]
        /\ slot' = slot \/ slot' = [slot EXCEPT ![s] = a]
        /\ status' = status \/ status' = [status EXCEPT ![b] = "delete_pending"]
        /\ status' # status =>
              /\ slot' = [slot EXCEPT ![s] = a] /\ slot[s] = b
              /\ b # None /\ status[b] = "ready"
              /\ \A t \in Slots : slot'[t] # b
    BY DEF StoreBinding, MarkUnboundDeletePending
  <2>3. BoundIsReady'
    BY <2>1, <2>2, NoneAssumption DEF IInv, TypeOK, BindInv, BoundIsReady, Slots
  <2>4. ASSUME NEW p \in Requests, p # q, req[p].asset # None
        PROVE  /\ status'[req[p].asset] # "unused"
               /\ req[p].held # {} /\ req[p].pc # "release" => status'[req[p].asset] = "ready"
    <3>1. req[p].asset \in Assets /\ status[req[p].asset] # "unused"
      BY <2>4 DEF IInv, TypeOK, BindInv
    <3>2. status'[req[p].asset] # "unused"
      BY <3>1, <2>2 DEF IInv, TypeOK
    <3>3. req[p].held # {} /\ req[p].pc # "release" =>
             req[p].asset \in req[p].held /\ status[req[p].asset] = "ready"
      BY <2>4, <3>1, NoneAssumption DEF IInv, TypeOK, BindInv
    <3>4. b # None => b \in req[q].held
      BY <2>1
    <3>5. req[p].held \cap req[q].held = {}
      BY <2>4 DEF IInv, BindInv
    <3>. QED  BY <3>1, <3>2, <3>3, <3>4, <3>5, <2>2 DEF IInv, TypeOK
  <2>5. /\ \A p \in Requests : p # q => req'[p] = req[p]
        /\ req'[q] = Idle
    BY <2>2 DEF IInv, TypeOK
  <2>6. \A p \in Requests : req'[p].asset # None => status'[req'[p].asset] # "unused"
    BY <2>4, <2>5 DEF Idle
  <2>7. \A p \in Requests :
           req'[p].held # {} /\ req'[p].pc # "release" => status'[req'[p].asset] = "ready"
    <3>. SUFFICES ASSUME NEW p \in Requests, p # q, req[p].held # {}, req[p].pc # "release"
                  PROVE  status'[req[p].asset] = "ready"
      BY <2>5 DEF Idle
    <3>1. req[p].asset # None
      BY NoneAssumption DEF IInv, TypeOK
    <3>. QED  BY <3>1, <2>4
  <2>8. \A p, r \in Requests : p # r => req'[p].held \cap req'[r].held = {}
    BY <2>5 DEF IInv, BindInv, Idle
  <2>. QED  BY <2>3, <2>6, <2>7, <2>8 DEF BindInv
<1>3. JobInv'
  BY DEF IInv, TypeOK, JobInv, StoreBinding, MarkUnboundDeletePending, Unready
<1>4. EraseInv'
  BY DEF IInv, TypeOK, EraseInv, RowsAgreeWithBucket, ReadyHasObject, DeletedIsErased,
     StoreBinding, bucket, MarkUnboundDeletePending, Idle
<1>5. FileInv'
  BY NoneAssumption, SlotsAssumption DEF IInv, TypeOK, FileInv, OneLiveAsset,
     DeletedFileIsWithdrawn, StoreBinding, MarkUnboundDeletePending, Idle, LiveAssets, Slots
<1>. QED  BY <1>1, <1>2, <1>3, <1>4, <1>5 DEF IInv

-----------------------------------------------------------------------------
(* Requests for deletion, which wait for the rows a bind has locked.       *)

LEMMA RequestPublicAssetDeletionStep ==
    ASSUME IInv, NEW a \in Assets, RequestPublicAssetDeletion(a)
    PROVE  IInv'
<1>1. TypeOK'
  BY DEF IInv, TypeOK, RequestPublicAssetDeletion, bucket, Statuses
<1>2. BindInv'
  BY NoneAssumption DEF IInv, TypeOK, BindInv, BoundIsReady, RequestPublicAssetDeletion, Locked,
     Bound
<1>3. JobInv'
  BY DEF IInv, JobInv, RequestPublicAssetDeletion, Locked
<1>4. EraseInv'
  BY DEF IInv, EraseInv, RowsAgreeWithBucket, ReadyHasObject, DeletedIsErased,
     RequestPublicAssetDeletion, bucket, Unready
<1>5. FileInv'
  BY DEF IInv, FileInv, OneLiveAsset, DeletedFileIsWithdrawn, RequestPublicAssetDeletion,
     LiveAssets
<1>. QED  BY <1>1, <1>2, <1>3, <1>4, <1>5 DEF IInv

LEMMA MarkFileDeletionRequestedStep ==
    ASSUME IInv, NEW f \in Files, MarkFileDeletionRequested(f)
    PROVE  IInv'
<1>1. TypeOK'
  BY DEF IInv, TypeOK, MarkFileDeletionRequested, bucket, Statuses
<1>2. BindInv'
  BY NoneAssumption DEF IInv, TypeOK, BindInv, BoundIsReady, MarkFileDeletionRequested, Locked,
     Bound
<1>3. JobInv'
  BY DEF IInv, TypeOK, JobInv, MarkFileDeletionRequested, Locked
<1>4. EraseInv'
  BY DEF IInv, TypeOK, EraseInv, RowsAgreeWithBucket, ReadyHasObject, DeletedIsErased,
     MarkFileDeletionRequested, bucket, Unready
<1>5. FileInv'
  BY DEF IInv, FileInv, OneLiveAsset, DeletedFileIsWithdrawn, MarkFileDeletionRequested,
     LiveAssets, FileLocked
<1>. QED  BY <1>1, <1>2, <1>3, <1>4, <1>5 DEF IInv

-----------------------------------------------------------------------------
(* The cleanup job.                                                        *)

LEMMA ListPendingStep ==
    ASSUME IInv, NEW c \in Cleaners, NEW a \in Assets, ListPending(c, a)
    PROVE  IInv'
<1>1. TypeOK'
  BY DEF IInv, TypeOK, ListPending, rows, bucket
<1>2. BindInv'
  BY DEF IInv, BindInv, BoundIsReady, ListPending, rows
<1>3. JobInv'
  BY DEF IInv, JobInv, ListPending, rows
<1>4. EraseInv'
  BY DEF IInv, EraseInv, RowsAgreeWithBucket, ReadyHasObject, DeletedIsErased, ListPending,
     rows, bucket
<1>5. FileInv'
  BY DEF IInv, FileInv, OneLiveAsset, DeletedFileIsWithdrawn, ListPending, rows, LiveAssets
<1>. QED  BY <1>1, <1>2, <1>3, <1>4, <1>5 DEF IInv

LEMMA LockExpiredUnreadyStep ==
    ASSUME IInv, NEW c \in Cleaners, NEW a \in Assets, LockExpiredUnready(c, a)
    PROVE  IInv'
<1>1. TypeOK'
  BY DEF IInv, TypeOK, LockExpiredUnready, rows, bucket
<1>2. BindInv'
  BY DEF IInv, BindInv, BoundIsReady, LockExpiredUnready, rows
<1>3. JobInv'
  BY DEF IInv, JobInv, LockExpiredUnready, rows, Locked
<1>4. EraseInv'
  BY DEF IInv, EraseInv, RowsAgreeWithBucket, ReadyHasObject, DeletedIsErased,
     LockExpiredUnready, rows, bucket
<1>5. FileInv'
  BY DEF IInv, FileInv, OneLiveAsset, DeletedFileIsWithdrawn, LockExpiredUnready, rows,
     LiveAssets
<1>. QED  BY <1>1, <1>2, <1>3, <1>4, <1>5 DEF IInv

LEMMA ErasePendingStep ==
    ASSUME IInv, NEW c \in Cleaners, ErasePending(c)
    PROVE  IInv'
<1>1. TypeOK'
  BY DEF IInv, TypeOK, ErasePending, rows, Remove
<1>2. BindInv'
  BY DEF IInv, BindInv, BoundIsReady, ErasePending, rows, Bound
<1>3. JobInv'
  BY DEF IInv, JobInv, ErasePending, rows
<1>4. EraseInv'
  <2>. DEFINE b == clean[c].asset
  <2>1. /\ b \in Assets /\ status[b] \in {"delete_pending", "deleted"}
        /\ object' = object \ {b} /\ late' = late \ {b} /\ torn' = torn
        /\ clean' = [clean EXCEPT ![c].pc = "pending_erased"]
        /\ req' = req /\ status' = status
    BY DEF IInv, TypeOK, JobInv, ErasePending, Remove, rows, Bound
  <2>2. RowsAgreeWithBucket'
    BY <2>1 DEF IInv, EraseInv, RowsAgreeWithBucket, ReadyHasObject, DeletedIsErased
  <2>3. \A d \in Cleaners :
           clean'[d].pc \in {"expire_erased", "pending_erased"} /\ clean'[d].asset \in object' =>
              clean'[d].asset \in late'
    BY <2>1 DEF IInv, TypeOK, EraseInv
  <2>4. \A q \in Requests :
           req'[q].pc = "complete" /\ status'[req'[q].asset] \in Unready =>
              \/ req'[q].asset \in object' \cup torn'
              \/ \E d \in Cleaners :
                    clean'[d].pc = "expire_erased" /\ clean'[d].asset = req'[q].asset
    <3>. SUFFICES ASSUME NEW q \in Requests, req[q].pc = "complete",
                         status[req[q].asset] \in Unready
                  PROVE  \/ req[q].asset \in object' \cup torn'
                         \/ \E d \in Cleaners :
                               clean'[d].pc = "expire_erased" /\ clean'[d].asset = req[q].asset
      BY <2>1
    <3>1. req[q].asset # b
      BY <2>1 DEF Unready
    <3>2. CASE req[q].asset \in object \cup torn
      BY <3>1, <3>2, <2>1
    <3>3. CASE \E d \in Cleaners :
                  clean[d].pc = "expire_erased" /\ clean[d].asset = req[q].asset
      BY <3>3, <3>1, <2>1 DEF IInv, TypeOK
    <3>. QED  BY <3>2, <3>3 DEF IInv, EraseInv
  <2>. QED  BY <2>2, <2>3, <2>4 DEF EraseInv
<1>5. FileInv'
  BY DEF IInv, FileInv, OneLiveAsset, DeletedFileIsWithdrawn, ErasePending, rows, LiveAssets,
     Bound
<1>. QED  BY <1>1, <1>2, <1>3, <1>4, <1>5 DEF IInv

LEMMA MarkAssetDeletedStep ==
    ASSUME IInv, NEW c \in Cleaners, MarkAssetDeleted(c)
    PROVE  IInv'
<1>1. TypeOK'
  BY DEF IInv, TypeOK, MarkAssetDeleted, bucket, Resting, Statuses
<1>2. BindInv'
  BY DEF IInv, BindInv, BoundIsReady, MarkAssetDeleted
<1>3. JobInv'
  BY DEF IInv, JobInv, MarkAssetDeleted, Resting, Locked
<1>4. EraseInv'
  BY DEF IInv, EraseInv, RowsAgreeWithBucket, ReadyHasObject, DeletedIsErased, MarkAssetDeleted,
     bucket, Resting, Unready
<1>5. FileInv'
  BY DEF IInv, FileInv, OneLiveAsset, DeletedFileIsWithdrawn, MarkAssetDeleted, LiveAssets
<1>. QED  BY <1>1, <1>2, <1>3, <1>4, <1>5 DEF IInv

LEMMA EraseExpiredStep ==
    ASSUME IInv, NEW c \in Cleaners, EraseExpired(c)
    PROVE  IInv'
<1>1. TypeOK'
  BY DEF IInv, TypeOK, EraseExpired, rows, Remove
<1>2. BindInv'
  BY DEF IInv, BindInv, BoundIsReady, EraseExpired, rows
<1>3. JobInv'
  BY DEF IInv, JobInv, EraseExpired, rows
<1>4. EraseInv'
  BY DEF IInv, TypeOK, JobInv, EraseInv, RowsAgreeWithBucket, ReadyHasObject, DeletedIsErased,
     EraseExpired, rows, Remove, Unready
<1>5. FileInv'
  BY DEF IInv, FileInv, OneLiveAsset, DeletedFileIsWithdrawn, EraseExpired, rows, LiveAssets
<1>. QED  BY <1>1, <1>2, <1>3, <1>4, <1>5 DEF IInv

LEMMA DeleteExpiredAssetStep ==
    ASSUME IInv, NEW c \in Cleaners, DeleteExpiredAsset(c)
    PROVE  IInv'
<1>1. TypeOK'
  BY DEF IInv, TypeOK, DeleteExpiredAsset, bucket, Resting, Statuses
<1>2. BindInv'
  BY DEF IInv, JobInv, BindInv, BoundIsReady, DeleteExpiredAsset, Unready
<1>3. JobInv'
  BY DEF IInv, TypeOK, JobInv, DeleteExpiredAsset, Resting, Unready
<1>4. EraseInv'
  BY DEF IInv, TypeOK, EraseInv, RowsAgreeWithBucket, ReadyHasObject, DeletedIsErased,
     DeleteExpiredAsset, bucket, Resting, Unready
<1>5. FileInv'
  BY DEF IInv, FileInv, OneLiveAsset, DeletedFileIsWithdrawn, DeleteExpiredAsset, LiveAssets
<1>. QED  BY <1>1, <1>2, <1>3, <1>4, <1>5 DEF IInv

LEMMA CleanupStopsStep ==
    ASSUME IInv, NEW c \in Cleaners, CleanupStops(c)
    PROVE  IInv'
<1>1. TypeOK'
  BY FaultsAssumption DEF IInv, TypeOK, CleanupStops, rows, Resting
<1>2. BindInv'
  BY DEF IInv, BindInv, BoundIsReady, CleanupStops, rows
<1>3. JobInv'
  BY DEF IInv, JobInv, CleanupStops, rows, Resting
<1>4. EraseInv'
  BY DEF IInv, EraseInv, RowsAgreeWithBucket, ReadyHasObject, DeletedIsErased, CleanupStops,
     rows, Resting
<1>5. FileInv'
  BY DEF IInv, FileInv, OneLiveAsset, DeletedFileIsWithdrawn, CleanupStops, rows, LiveAssets
<1>. QED  BY <1>1, <1>2, <1>3, <1>4, <1>5 DEF IInv

-----------------------------------------------------------------------------
(* The theorems.                                                           *)

LEMMA InitHolds == Init => IInv
<1>. SUFFICES ASSUME Init PROVE IInv
  OBVIOUS
<1>1. TypeOK
  BY RenderedAssumption, FaultsAssumption, NoneAssumption DEF Init, TypeOK, Idle, Resting,
     Slots, Statuses
<1>2. BindInv /\ JobInv
  BY DEF Init, BindInv, JobInv, BoundIsReady, Idle, Resting
<1>3. EraseInv /\ FileInv
  BY NoneAssumption DEF Init, EraseInv, RowsAgreeWithBucket, ReadyHasObject, DeletedIsErased,
     FileInv, OneLiveAsset, DeletedFileIsWithdrawn, LiveAssets, Idle, Resting
<1>. QED  BY <1>1, <1>2, <1>3 DEF IInv

LEMMA StepHolds ==
    ASSUME IInv, [Next]_vars
    PROVE  IInv'
<1>1. CASE \E q \in Requests : Promotion(q)
  BY <1>1, PreparePromotionStep, StreamSourceStep, StreamFailsStep, StreamEndsShortStep,
     CompletePromotionStep, FailPromotionStep DEF Promotion
<1>2. CASE \E q \in Requests : Binding(q)
  BY <1>2, BindPublicAssetStep, BindReadyAssetForSourceFileStep,
     ReleasePublicAssetBindingsStep, LockAssetsStep, StoreBindingStep DEF Binding
<1>3. CASE \E q \in Requests : RequestStops(q)
  BY <1>3, RequestStopsStep
<1>4. CASE Deletion
  BY <1>4, RequestPublicAssetDeletionStep, MarkFileDeletionRequestedStep DEF Deletion
<1>5. CASE \E c \in Cleaners : Cleanup(c)
  BY <1>5, ListPendingStep, LockExpiredUnreadyStep, ErasePendingStep, MarkAssetDeletedStep,
     EraseExpiredStep, DeleteExpiredAssetStep DEF Cleanup
<1>6. CASE \E c \in Cleaners : CleanupStops(c)
  BY <1>6, CleanupStopsStep
<1>7. CASE UNCHANGED vars
  BY <1>7 DEF vars, IInv, TypeOK, BindInv, BoundIsReady, JobInv, EraseInv, RowsAgreeWithBucket,
     ReadyHasObject, DeletedIsErased, FileInv, OneLiveAsset, DeletedFileIsWithdrawn, LiveAssets
<1>. QED  BY <1>1, <1>2, <1>3, <1>4, <1>5, <1>6, <1>7 DEF Next

(* The inductive invariant holds in every state: a request finds what its  *)
(* row locks protect, and the job what it read, until they commit.         *)
THEOREM AssetInvariant == Spec => []IInv
<1>. QED  BY InitHolds, StepHolds, PTL DEF Spec

(* Every variable has its type, and each step of a promotion, a binding or *)
(* the job names the rows it needs.                                        *)
THEOREM AssetTypes == Spec => []TypeOK
<1>1. IInv => TypeOK
  BY DEF IInv
<1>. QED  BY <1>1, AssetInvariant, PTL

(* An asset that a slot is bound to is ready, whatever releases, deletion  *)
(* requests and runs of the job overlap the binds.                         *)
THEOREM BoundTheorem == Spec => []BoundIsReady
<1>1. IInv => BoundIsReady
  BY DEF IInv, BindInv
<1>. QED  BY <1>1, AssetInvariant, PTL

(* A ready asset has its object and a deleted one has none, but for the    *)
(* torn and the late objects, although promotions and the job call the     *)
(* bucket outside of any transaction or under the lock of a row.           *)
THEOREM BucketTheorem == Spec => []RowsAgreeWithBucket
<1>1. IInv => RowsAgreeWithBucket
  BY DEF IInv, EraseInv
<1>. QED  BY <1>1, AssetInvariant, PTL

(* Promotions that overlap, fail and are resumed leave a File one asset.   *)
THEOREM OneAssetTheorem == Spec => []OneLiveAsset
<1>1. IInv => OneLiveAsset
  BY DEF IInv, FileInv
<1>. QED  BY <1>1, AssetInvariant, PTL

(* A promotion or an attachment under way when the File's deletion is      *)
(* requested never makes an asset of it ready, or binds one to content.    *)
THEOREM WithdrawnTheorem == Spec => []DeletedFileIsWithdrawn
<1>1. IInv => DeletedFileIsWithdrawn
  BY DEF IInv, FileInv
<1>. QED  BY <1>1, AssetInvariant, PTL

-----------------------------------------------------------------------------
(* The contract.  An action changes the row of one asset, but for a        *)
(* binding, which may withdraw the asset it replaces, and the deletion of  *)
(* a File, which withdraws those nobody has bound.                         *)

LEMMA LifeFacts ==
    ASSUME NEW s \in Statuses
    PROVE  /\ LifeOf(s) = "unused" <=> s = "unused"
           /\ LifeOf(s) = "writing" <=> s \in Unready
           /\ LifeOf(s) = "published" <=> s = "ready"
           /\ LifeOf(s) = "withdrawn" <=> s = "delete_pending"
           /\ LifeOf(s) = "erased" <=> s \in {"deleted", "gone"}
  BY DEF LifeOf, Statuses, Unready

LEMMA LifeAt ==
    ASSUME TypeOK, NEW a \in Assets
    PROVE  contractLife[a] = LifeOf(status[a]) /\ status[a] \in Statuses
  BY DEF contractLife, TypeOK

LEMMA LifeMoves ==
    ASSUME TypeOK, NEW a \in Assets, NEW s \in Statuses, status' = [status EXCEPT ![a] = s]
    PROVE  contractLife' = [contractLife EXCEPT ![a] = LifeOf(s)]
<1>1. \A b \in Assets : LifeOf(status'[b]) = IF b = a THEN LifeOf(s) ELSE LifeOf(status[b])
  BY DEF TypeOK
<1>. QED  BY <1>1 DEF contractLife

(* A row that goes from one unready status to another. *)
LEMMA StillWriting ==
    ASSUME TypeOK, NEW a \in Assets, status[a] \in Unready, NEW s \in Unready,
           status' = [status EXCEPT ![a] = s]
    PROVE  UNCHANGED contractLife
<1>0. s \in Statuses
  BY DEF Unready, Statuses
<1>1. LifeOf(s) = contractLife[a]
  BY <1>0, LifeAt, LifeFacts
<1>2. contractLife' = [contractLife EXCEPT ![a] = LifeOf(s)]
  BY <1>0, LifeMoves
<1>. QED  BY <1>1, <1>2 DEF contractLife

LEMMA Invisible ==
    ASSUME UNCHANGED <<status, slot>>
    PROVE  UNCHANGED <<contractLife, slot>>
  BY DEF contractLife

LEMMA InUseIsBound == \A a : Contract!InUse(a) <=> Bound(a)
  BY DEF Contract!InUse, Bound

(* Only a ready asset is bound. *)
LEMMA UnreadyIsUnused ==
    ASSUME IInv, NEW a \in Assets, status[a] # "ready"
    PROVE  ~Bound(a)
  BY NoneAssumption DEF IInv, BindInv, BoundIsReady, Bound

(* Several assets go to be deleted at once. *)
LEMMA LifeWithdrawn ==
    ASSUME TypeOK, NEW W \in SUBSET Assets,
           status' = [a \in Assets |-> IF a \in W THEN "delete_pending" ELSE status[a]]
    PROVE  contractLife' = Contract!Withdrawn(W)
<1>1. \A a \in Assets : LifeOf(status'[a]) = IF a \in W THEN "withdrawn" ELSE LifeOf(status[a])
  BY LifeFacts DEF Statuses
<1>2. \A a \in Assets : contractLife[a] = LifeOf(status[a])
  BY DEF contractLife
<1>. QED  BY <1>1, <1>2 DEF contractLife, Contract!Withdrawn

LEMMA PromotionRefines ==
    ASSUME IInv, NEW q \in Requests, Promotion(q)
    PROVE  Contract!Next \/ UNCHANGED <<contractLife, slot>>
<1>1. TypeOK
  BY DEF IInv
<1>2. ASSUME NEW f \in Files, NEW a \in Assets, PreparePromotion(q, f, a)
      PROVE  Contract!Next \/ UNCHANGED <<contractLife, slot>>
  <2>1. CASE status[a] = "unused"
    <3>1. contractLife' = [contractLife EXCEPT ![a] = "writing"]
      BY <1>1, <1>2, LifeMoves, LifeFacts DEF PreparePromotion, Statuses, Unready
    <3>2. Contract!Write(a)
      BY <1>1, <1>2, <2>1, <3>1, LifeAt, LifeFacts DEF Contract!Write, PreparePromotion
    <3>. QED  BY <3>2 DEF Contract!Next
  <2>2. CASE status[a] \in Unready
    BY <1>1, <1>2, <2>2, StillWriting DEF PreparePromotion, Unready
  <2>. QED  BY <1>2, <2>1, <2>2 DEF PreparePromotion
<1>3. CASE StreamSource(q) \/ StreamFails(q) \/ StreamEndsShort(q)
  BY <1>3, Invisible DEF StreamSource, StreamFails, StreamEndsShort, rows
<1>4. CASE CompletePromotion(q)
  <2>1. req[q].asset \in Assets
    BY <1>1, <1>4 DEF CompletePromotion, TypeOK
  <2>2. PICK a \in Assets : a = req[q].asset
    BY <2>1
  <2>3. CASE status[a] \in Unready /\ status' = [status EXCEPT ![a] = "ready"]
    <3>1. contractLife' = [contractLife EXCEPT ![a] = "published"]
      BY <1>1, <2>3, LifeMoves, LifeFacts DEF Statuses
    <3>2. Contract!Publish(a)
      BY <1>1, <1>4, <2>3, <3>1, LifeAt, LifeFacts DEF Contract!Publish, CompletePromotion
    <3>. QED  BY <3>2 DEF Contract!Next
  <2>4. CASE status' = status
    BY <1>4, <2>4, Invisible DEF CompletePromotion
  <2>. QED  BY <1>4, <2>2, <2>3, <2>4 DEF CompletePromotion
<1>5. CASE FailPromotion(q)
  <2>1. PICK a \in Assets : a = req[q].asset
    BY <1>1, <1>5 DEF FailPromotion, TypeOK
  <2>2. CASE status[a] = "allocated" /\ status' = [status EXCEPT ![a] = "failed"]
    BY <1>1, <1>5, <2>2, StillWriting DEF FailPromotion, Unready
  <2>3. CASE status' = status
    BY <1>5, <2>3, Invisible DEF FailPromotion
  <2>. QED  BY <1>5, <2>1, <2>2, <2>3 DEF FailPromotion
<1>. QED  BY <1>2, <1>3, <1>4, <1>5 DEF Promotion

LEMMA StoreBindingRefines ==
    ASSUME IInv, NEW q \in Requests, StoreBinding(q)
    PROVE  Contract!Next \/ UNCHANGED <<contractLife, slot>>
<1> DEFINE s == req[q].slot
           a == req[q].asset
           old == slot[s]
<1>1. TypeOK /\ s \in Slots /\ a \in Assets \cup {None}
  BY DEF IInv, TypeOK, StoreBinding, Slots
<1>2. a # None => contractLife[a] = "published"
  <2>1. a # None => status[a] = "ready"
    BY <1>1 DEF IInv, TypeOK, BindInv, StoreBinding
  <2>. QED  BY <1>1, <2>1, LifeAt, LifeFacts
<1>3. CASE slot[s] # req[q].seen
  BY <1>3, Invisible DEF StoreBinding
<1>4. CASE slot[s] = req[q].seen
  <2>1. slot' = [slot EXCEPT ![s] = a] /\ MarkUnboundDeletePending(old)
    BY <1>4 DEF StoreBinding
  <2>2. ASSUME NEW W \in SUBSET Assets, contractLife' = Contract!Withdrawn(W),
               \A b \in W : contractLife[b] = "published" /\ \A t \in Slots : slot'[t] # b
        PROVE  Contract!Next
    <3>1. Contract!Use(s, a, W)
      BY <1>2, <2>1, <2>2 DEF Contract!Use
    <3>. QED  BY <1>1, <3>1 DEF Contract!Next
  <2>3. CASE status' = status
    <3>1. contractLife' = Contract!Withdrawn({})
      BY <2>3 DEF contractLife, Contract!Withdrawn
    <3>. QED  BY <2>2, <3>1
  <2>4. CASE /\ old # None /\ status[old] = "ready" /\ \A t \in Slots : slot'[t] # old
             /\ status' = [status EXCEPT ![old] = "delete_pending"]
    <3>1. PICK b \in Assets : b = old
      BY <1>1, <2>4 DEF TypeOK
    <3>2. status' = [c \in Assets |-> IF c \in {b} THEN "delete_pending" ELSE status[c]]
      BY <1>1, <2>4, <3>1 DEF TypeOK
    <3>3. contractLife' = Contract!Withdrawn({b})
      BY <1>1, <3>2, LifeWithdrawn
    <3>4. contractLife[b] = "published"
      BY <1>1, <2>4, <3>1, LifeAt, LifeFacts
    <3>. QED  BY <2>2, <2>4, <3>1, <3>3, <3>4
  <2>. QED  BY <2>1, <2>3, <2>4 DEF MarkUnboundDeletePending
<1>. QED  BY <1>3, <1>4

LEMMA BindingRefines ==
    ASSUME IInv, NEW q \in Requests, Binding(q)
    PROVE  Contract!Next \/ UNCHANGED <<contractLife, slot>>
<1>1. CASE \/ \E s \in OwnerSlots, a \in Assets : BindPublicAsset(q, s, a)
           \/ \E s \in ContentSlots, a \in Assets : BindReadyAssetForSourceFile(q, s, a)
           \/ \E s \in Slots : ReleasePublicAssetBindings(q, s)
           \/ LockAssets(q)
  BY <1>1, Invisible DEF BindPublicAsset, BindReadyAssetForSourceFile,
     ReleasePublicAssetBindings, LockAssets, rows
<1>. QED  BY <1>1, StoreBindingRefines DEF Binding

LEMMA DeletionRefines ==
    ASSUME IInv, Deletion
    PROVE  Contract!Next
<1>1. TypeOK
  BY DEF IInv
<1>2. ASSUME NEW W \in SUBSET Assets, UNCHANGED slot,
             \A a \in W : ~Bound(a) /\ status[a] \in {"ready", "failed"},
             status' = [a \in Assets |-> IF a \in W THEN "delete_pending" ELSE status[a]]
      PROVE  Contract!Next
  <2>1. contractLife' = Contract!Withdrawn(W)
    BY <1>1, <1>2, LifeWithdrawn
  <2>2. \A a \in W : contractLife[a] \in {"writing", "published"}
    BY <1>1, <1>2, LifeAt, LifeFacts DEF Unready
  <2>3. Contract!Withdraw(W)
    BY <1>2, <2>1, <2>2, InUseIsBound DEF Contract!Withdraw
  <2>. QED  BY <2>3 DEF Contract!Next
<1>3. ASSUME NEW a \in Assets, RequestPublicAssetDeletion(a)
      PROVE  Contract!Next
  <2>1. status' = [b \in Assets |-> IF b \in {a} THEN "delete_pending" ELSE status[b]]
    BY <1>1, <1>3 DEF RequestPublicAssetDeletion, TypeOK
  <2>. QED  BY <1>2, <1>3, <2>1 DEF RequestPublicAssetDeletion
<1>4. ASSUME NEW f \in Files, MarkFileDeletionRequested(f)
      PROVE  Contract!Next
  <2> DEFINE W == {a \in Assets : source[a] = f /\ ~Bound(a) /\ status[a] \in {"ready", "failed"}}
  <2>1. status' = [a \in Assets |-> IF a \in W THEN "delete_pending" ELSE status[a]]
    BY <1>4 DEF MarkFileDeletionRequested
  <2>. QED  BY <1>2, <1>4, <2>1 DEF MarkFileDeletionRequested
<1>. QED  BY <1>3, <1>4 DEF Deletion

LEMMA CleanupRefines ==
    ASSUME IInv, NEW c \in Cleaners, Cleanup(c)
    PROVE  Contract!Next \/ UNCHANGED <<contractLife, slot>>
<1>1. TypeOK
  BY DEF IInv
<1>2. CASE \/ \E a \in Assets : ListPending(c, a) \/ LockExpiredUnready(c, a)
           \/ ErasePending(c) \/ EraseExpired(c)
  BY <1>2, Invisible DEF ListPending, LockExpiredUnready, ErasePending, EraseExpired, rows
<1>3. ASSUME NEW a \in Assets, status[a] \in Unready \cup {"delete_pending"},
             NEW s \in {"deleted", "gone"}, status' = [status EXCEPT ![a] = s], UNCHANGED slot
      PROVE  Contract!Next
  <2>0. s \in Statuses /\ LifeOf(s) = "erased"
    BY <1>3, LifeFacts DEF Statuses
  <2>1. contractLife' = [contractLife EXCEPT ![a] = "erased"]
    BY <1>1, <1>3, <2>0, LifeMoves
  <2>2. ~Bound(a)
    BY <1>3, UnreadyIsUnused DEF Unready
  <2>3. contractLife[a] \in {"writing", "withdrawn"}
    BY <1>1, <1>3, LifeAt, LifeFacts
  <2>4. Contract!Erase(a)
    BY <1>3, <2>1, <2>2, <2>3, InUseIsBound DEF Contract!Erase
  <2>. QED  BY <2>4 DEF Contract!Next
<1>4. CASE MarkAssetDeleted(c)
  <2>1. PICK a \in Assets : a = clean[c].asset
    BY <1>1, <1>4 DEF MarkAssetDeleted, TypeOK
  <2>2. CASE status[a] = "delete_pending" /\ status' = [status EXCEPT ![a] = "deleted"]
    BY <1>3, <1>4, <2>2 DEF MarkAssetDeleted
  <2>3. CASE status' = status
    BY <1>4, <2>3, Invisible DEF MarkAssetDeleted
  <2>. QED  BY <1>4, <2>1, <2>2, <2>3 DEF MarkAssetDeleted
<1>5. CASE DeleteExpiredAsset(c)
  <2>1. PICK a \in Assets : a = clean[c].asset
    BY <1>1, <1>5 DEF DeleteExpiredAsset, TypeOK
  <2>2. status[a] \in Unready
    BY <1>5, <2>1 DEF IInv, JobInv, DeleteExpiredAsset
  <2>. QED  BY <1>3, <1>5, <2>1, <2>2 DEF DeleteExpiredAsset
<1>. QED  BY <1>2, <1>4, <1>5 DEF Cleanup

LEMMA StepRefines == IInv /\ [Next]_vars => [Contract!Next]_<<contractLife, slot>>
<1>. SUFFICES ASSUME IInv, [Next]_vars
              PROVE  Contract!Next \/ UNCHANGED <<contractLife, slot>>
  OBVIOUS
<1>1. CASE \E q \in Requests : RequestStops(q)
  BY <1>1, Invisible DEF RequestStops, rows
<1>2. CASE \E c \in Cleaners : CleanupStops(c)
  BY <1>2, Invisible DEF CleanupStops, rows
<1>3. CASE UNCHANGED vars
  BY <1>3, Invisible DEF vars
<1>. QED  BY <1>1, <1>2, <1>3, PromotionRefines, BindingRefines, DeletionRefines,
     CleanupRefines DEF Next

LEMMA InitRefines == Init => Contract!Init
<1>. SUFFICES ASSUME Init PROVE Contract!Init
  OBVIOUS
<1>1. \A a \in Assets : LifeOf(status[a]) = IF a \in Rendered THEN "published" ELSE "unused"
  BY LifeFacts DEF Init, Statuses
<1>. QED  BY <1>1 DEF Init, Contract!Init, contractLife

(* The requests and the job implement the contract, for any number of them *)
(* and any failures: an asset goes one way, and is never withdrawn or      *)
(* erased while it is in use.                                              *)
THEOREM AssetsImplementContract == Spec => ImplementsAssetContract
<1>. QED  BY InitRefines, StepRefines, AssetInvariant, PTL
     DEF Spec, ImplementsAssetContract, Contract!Spec

============================================================================
