------------------------------ MODULE Replica ------------------------------
(***************************************************************************)
(* The life of an API process.  Several replicas run the same binary       *)
(* against one PostgreSQL; each runs a scheduler with its leader elector   *)
(* and the workers of the queue consumers.  A replica is "up" until a      *)
(* signal or a fatal component cancels the context every component shares, *)
(* "stopping" while its components wind down, and "down" until it is       *)
(* started again.                                                          *)
(*                                                                         *)
(* Shutdowns, crashes, broken connections and failed or overrunning calls  *)
(* are each one of at most MaxFaults faults.                               *)
(***************************************************************************)
EXTENDS Naturals

CONSTANTS
    Replicas,    \* the processes
    MaxFaults    \* bound on the faults of a behaviour

ASSUME ReplicaAssumption == MaxFaults \in Nat

VARIABLES
    proc,        \* [Replicas -> {"up", "stopping", "down"}]
    faults       \* faults so far

procVars == <<proc, faults>>

(* The context of i is not cancelled. *)
Running(i) == proc[i] = "up"

(* One more fault. *)
Fault == faults < MaxFaults /\ faults' = faults + 1

(* A call on i's context fails: for free when the context is cancelled,    *)
(* and otherwise as a fault.                                               *)
CallFails(i) ==
    \/ proc[i] = "stopping" /\ UNCHANGED faults
    \/ Running(i) /\ Fault

ProcInit ==
    /\ proc = [i \in Replicas |-> "up"]
    /\ faults = 0

(* A signal, or the first fatal component, cancels the shared context. *)
awaitShutdown(i) ==
    /\ Running(i)
    /\ Fault
    /\ proc' = [proc EXCEPT ![i] = "stopping"]
=============================================================================
