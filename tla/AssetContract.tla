--------------------------- MODULE AssetContract ---------------------------
(***************************************************************************)
(* What the media asset lifecycle promises its users, without promotions,  *)
(* row locks, Files, the bucket or the cleanup job: an asset is written,   *)
(* published, withdrawn and erased, in this order and once; a slot only    *)
(* ever takes a published asset into use; and what is in use is neither    *)
(* withdrawn nor erased.  PublicAsset implements it.                       *)
(***************************************************************************)
CONSTANTS Assets, Rendered, Slots, None

VARIABLES
    life,   \* life[a]: how far the asset has come
    use     \* use[s]: the asset in use in the slot, or None

Lives == {"unused", "writing", "published", "withdrawn", "erased"}

Init ==
    /\ life = [a \in Assets |-> IF a \in Rendered THEN "published" ELSE "unused"]
    /\ use = [s \in Slots |-> None]

InUse(a) == \E s \in Slots : use[s] = a

Write(a) ==
    /\ life[a] = "unused"
    /\ life' = [life EXCEPT ![a] = "writing"]
    /\ UNCHANGED use

Publish(a) ==
    /\ life[a] = "writing"
    /\ life' = [life EXCEPT ![a] = "published"]
    /\ UNCHANGED use

\* The assets W go out of circulation.
Withdrawn(W) == [a \in Assets |-> IF a \in W THEN "withdrawn" ELSE life[a]]

\* A slot takes up a published asset or None; the asset it had may be
\* withdrawn in the same step if no other slot has it.
Use(s, a, W) ==
    /\ a # None => life[a] = "published"
    /\ use' = [use EXCEPT ![s] = a]
    /\ \A b \in W : life[b] = "published" /\ \A t \in Slots : use'[t] # b
    /\ life' = Withdrawn(W)

Withdraw(W) ==
    /\ \A b \in W : life[b] \in {"writing", "published"} /\ ~InUse(b)
    /\ life' = Withdrawn(W)
    /\ UNCHANGED use

\* What was never published may be erased without being withdrawn.
Erase(a) ==
    /\ life[a] \in {"writing", "withdrawn"} /\ ~InUse(a)
    /\ life' = [life EXCEPT ![a] = "erased"]
    /\ UNCHANGED use

Next ==
    \/ \E a \in Assets : Write(a) \/ Publish(a) \/ Erase(a)
    \/ \E W \in SUBSET Assets : Withdraw(W)
    \/ \E s \in Slots, a \in Assets \cup {None}, W \in SUBSET Assets : Use(s, a, W)

Spec == Init /\ [][Next]_<<life, use>>
=============================================================================
