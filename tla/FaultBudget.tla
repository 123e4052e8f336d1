----------------------------- MODULE FaultBudget -----------------------------
(***************************************************************************)
(* The faults of an instance of the modules that compose sie-config with   *)
(* its consumers: of the kinds in Faults each happens at most once, and    *)
(* MaxFaults of them altogether.                                           *)
(***************************************************************************)
EXTENDS Naturals, FiniteSets

CONSTANTS Faults,     \* the kinds of faults that may happen, each once
          MaxFaults   \* bound on how many of them do

ASSUME FaultsAssumption == MaxFaults \in Nat

VARIABLE faults       \* the kinds of faults that have happened

Fault(kind) == /\ kind \in Faults \ faults /\ Cardinality(faults) < MaxFaults
               /\ faults' = faults \cup {kind}

NoFault == UNCHANGED faults
=============================================================================
