---------------------------- MODULE JobContract ----------------------------
(***************************************************************************)
(* What the scheduled jobs and the queue promise of a row, without         *)
(* leaders, lists, visibility timeouts, read counts or retries: it falls   *)
(* due, becomes one command unless it is withdrawn, is taken up by workers *)
(* while it is queued, any number of times and even at the same time, and  *)
(* is settled once, by a worker that has it.  Nothing withdraws a command, *)
(* nothing takes up a settled one, and a worker that still has one changes *)
(* nothing by letting go of it.                                            *)
(* JobPipeline implements it.                                              *)
(***************************************************************************)
CONSTANTS Replicas, Items, NoItem

VARIABLES
    phase,    \* phase[m]: how far the row has come
    holding   \* holding[i]: the command the worker of i has, or NoItem

Settled == {"done", "dead"}
Phases == {"waiting", "due", "queued"} \cup Settled

Init ==
    /\ phase = [m \in Items |-> "waiting"]
    /\ holding = [i \in Replicas |-> NoItem]

FallDue(m) ==
    /\ phase[m] = "waiting"
    /\ phase' = [phase EXCEPT ![m] = "due"]
    /\ UNCHANGED holding

\* The request that made the row due is withdrawn.
Withdraw(m) ==
    /\ phase[m] = "due"
    /\ phase' = [phase EXCEPT ![m] = "waiting"]
    /\ UNCHANGED holding

Command(m) ==
    /\ phase[m] = "due"
    /\ phase' = [phase EXCEPT ![m] = "queued"]
    /\ UNCHANGED holding

Take(i, m) ==
    /\ phase[m] = "queued"
    /\ holding[i] = NoItem
    /\ holding' = [holding EXCEPT ![i] = m]
    /\ UNCHANGED phase

Settle(i, o) ==
    /\ holding[i] # NoItem
    /\ phase[holding[i]] = "queued"
    /\ phase' = [phase EXCEPT ![holding[i]] = o]
    /\ holding' = [holding EXCEPT ![i] = NoItem]

\* The worker fails, is cut off, or comes too late.
LetGo(i) ==
    /\ holding[i] # NoItem
    /\ holding' = [holding EXCEPT ![i] = NoItem]
    /\ UNCHANGED phase

Next ==
    \/ \E m \in Items : FallDue(m) \/ Withdraw(m) \/ Command(m)
    \/ \E i \in Replicas, m \in Items : Take(i, m)
    \/ \E i \in Replicas : LetGo(i) \/ \E o \in Settled : Settle(i, o)

Spec == Init /\ [][Next]_<<phase, holding>>
=============================================================================
