-------------------------- MODULE SchedulerLeader --------------------------
(***************************************************************************)
(* Leader election among the replicas' schedulers: one session-level       *)
(* advisory lock, taken on a connection borrowed from the pool, and a flag *)
(* in memory that the cron jobs read.                                      *)
(*                                                                         *)
(* The lock and the flag are different things.  The server takes the lock  *)
(* away when it notices that a connection is dead; the elector lowers its  *)
(* flag when it notices, at its next refresh.  The connection goes back to *)
(* a pool when it is closed healthy, and would carry the lock with it.     *)
(***************************************************************************)
EXTENDS Replica

CONSTANTS
    Nobody,      \* the lock is free
    Orphan,      \* a connection its client has dropped and the server has not
    Pooled       \* a healthy connection back in the pool

ASSUME LeaderAssumption ==
    /\ {Nobody, Orphan, Pooled} \cap Replicas = {}
    /\ Nobody # Orphan /\ Nobody # Pooled /\ Orphan # Pooled

VARIABLES
    lock,        \* who holds the advisory lock on the server
    session,     \* [Replicas -> {"none", "open", "broken"}], the borrowed connection
    leader,      \* [Replicas -> BOOLEAN], isLeader
    elector      \* [Replicas -> Steps], where the elector's loop stands

leaderVars == <<lock, session, leader, elector>>

(* "loop": the elector waits for its ticker, or refreshes. *)
Steps == {"loop", "unlock", "close", "ended"}

LeaderInit ==
    /\ lock = Nobody
    /\ session = [i \in Replicas |-> "none"]
    /\ leader = [i \in Replicas |-> FALSE]
    /\ elector = [i \in Replicas |-> "loop"]

Goto(i, step) == elector' = [elector EXCEPT ![i] = step]

(* Start, without a session: borrow a connection.  A failure leaves the    *)
(* loop as it is until the next tick.                                      *)
Connect(i) ==
    /\ elector[i] = "loop"
    /\ session[i] = "none"
    /\ Running(i)
    /\ session' = [session EXCEPT ![i] = "open"]
    /\ UNCHANGED <<procVars, lock, leader, elector>>

(* The connection of i breaks; neither end has noticed yet. *)
Break(i) ==
    /\ session[i] = "open"
    /\ Fault
    /\ session' = [session EXCEPT ![i] = "broken"]
    /\ UNCHANGED <<proc, lock, leader, elector>>

(* The server notices a dead connection and drops its lock. *)
Reap ==
    /\ \/ lock = Orphan
       \/ \E i \in Replicas : lock = i /\ session[i] = "broken"
    /\ lock' = Nobody
    /\ UNCHANGED <<procVars, session, leader, elector>>

(* Seeded fault: the session goes back to the pool without the unlock. *)
ReleaseWithoutUnlock(i) ==
    /\ leader' = [leader EXCEPT ![i] = FALSE]
    /\ Goto(i, IF session[i] = "none" THEN "ended" ELSE "close")

(* releaseSession lowers the flag first, then gives the lock back if the   *)
(* flag was up, then the connection.  Without a session only the end of    *)
(* the loop calls it.                                                      *)
releaseSession(i) ==
    /\ leader' = [leader EXCEPT ![i] = FALSE]
    /\ Goto(i, IF session[i] = "none" THEN "ended"
               ELSE IF leader[i] THEN "unlock" ELSE "close")

(* Seeded fault: a failed Ping is logged and the session kept. *)
PingIgnored(i) ==
    /\ elector[i] = "loop"
    /\ leader[i]
    /\ session[i] = "broken"
    /\ UNCHANGED <<procVars, lock, session, leader, elector>>

(* refreshLeadership of a leader: Ping, which changes nothing unless it    *)
(* fails, on a dead connection.                                            *)
PingFails(i) ==
    /\ elector[i] = "loop"
    /\ leader[i]
    /\ session[i] = "broken"
    /\ releaseSession(i)
    /\ UNCHANGED <<procVars, lock, session>>

(* refreshLeadership of the others: TryAcquire.  An answer that is lost    *)
(* leaves a lock that the server may have granted on a dead connection.    *)
TryAcquire(i) ==
    /\ elector[i] = "loop"
    /\ session[i] # "none"
    /\ ~leader[i]
    /\ \/ /\ Running(i)
          /\ session[i] = "open"
          /\ leader' = [leader EXCEPT ![i] = lock = Nobody]
          /\ lock' = IF lock = Nobody THEN i ELSE lock
          /\ UNCHANGED <<session, elector, faults>>
       \/ /\ session[i] = "open"
          /\ CallFails(i)
          /\ session' = [session EXCEPT ![i] = "broken"]
          /\ lock' \in {lock} \cup IF lock = Nobody THEN {i} ELSE {}
          /\ releaseSession(i)
       \/ /\ session[i] = "broken"
          /\ releaseSession(i)
          /\ UNCHANGED <<session, lock, faults>>
    /\ UNCHANGED proc

(* The context has ended: the select of Start returns, or a Ping fails at  *)
(* once on a connection that stays healthy.                                *)
StopElector(i) ==
    /\ elector[i] = "loop"
    /\ proc[i] = "stopping"
    /\ releaseSession(i)
    /\ UNCHANGED <<procVars, lock, session>>

(* releaseSession of a former leader: Unlock, on a context of its own.  An *)
(* error means a dead connection, released or not.                         *)
Unlock(i) ==
    /\ elector[i] = "unlock"
    /\ Goto(i, "close")
    /\ \/ /\ session[i] = "open"
          /\ lock' = IF lock = i THEN Nobody ELSE lock
          /\ UNCHANGED <<session, faults>>
       \/ /\ session[i] = "open"
          /\ Fault
          /\ session' = [session EXCEPT ![i] = "broken"]
          /\ lock' \in {lock} \cup IF lock = i THEN {Nobody} ELSE {}
       \/ /\ session[i] = "broken"
          /\ UNCHANGED <<session, lock, faults>>
    /\ UNCHANGED <<proc, leader>>

(* releaseSession: Close.  A healthy connection returns to the pool with   *)
(* whatever it holds, a broken one is dropped and the server still has to  *)
(* notice.  A stopping elector is done.                                    *)
CloseSession(i) ==
    /\ elector[i] = "close"
    /\ session' = [session EXCEPT ![i] = "none"]
    /\ lock' = IF lock # i THEN lock
               ELSE IF session[i] = "open" THEN Pooled ELSE Orphan
    /\ Goto(i, IF Running(i) THEN "loop" ELSE "ended")
    /\ UNCHANGED <<procVars, leader>>

(* The process is gone and its connections with it. *)
ElectorDies(i) ==
    /\ session' = [session EXCEPT ![i] = "none"]
    /\ leader' = [leader EXCEPT ![i] = FALSE]
    /\ elector' = [elector EXCEPT ![i] = "ended"]
    /\ lock' = IF lock = i THEN Orphan ELSE lock

(* A fresh elector in a fresh process. *)
ElectorStarts(i) ==
    /\ elector' = [elector EXCEPT ![i] = "loop"]
    /\ UNCHANGED <<lock, session, leader>>

LeaderStep(i) ==
    \/ Connect(i)
    \/ Break(i)
    \/ PingFails(i)
    \/ TryAcquire(i)
    \/ StopElector(i)
    \/ Unlock(i)
    \/ CloseSession(i)
=============================================================================
