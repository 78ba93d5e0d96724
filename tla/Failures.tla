------------------------------ MODULE Failures ------------------------------
(***************************************************************************)
(* What may go wrong in a call to a node or to the database, in either     *)
(* direction.  Every way a call can fail has a name.  A step that takes    *)
(* the outcome of a failure `f' is allowed when f is in Faults and the     *)
(* budget of MaxFaults failures is not used up.                            *)
(*                                                                         *)
(* After some failures the relayer no longer looks after a transfer: it    *)
(* has logged the error, and nothing in memory or in the database is left  *)
(* that would send the transfer again before the next restart.  `dropped'  *)
(* is a history variable that records these transfers; no guard reads it.  *)
(***************************************************************************)
EXTENDS Integers

CONSTANTS
    Faults,          \* the failures the environment may inject
    MaxFaults        \* bound: failures in one behaviour

ASSUME BudgetAssumption == MaxFaults \in Nat

VARIABLES
    faults,          \* failures still to come
    dropped          \* the transfers that a failure made the relayer give up

faultVars == <<faults, dropped>>

FailuresTypeOK == faults \in 0..MaxFaults

FailuresInit == faults = MaxFaults /\ dropped = {}

Fails(f) == f \in Faults /\ faults > 0 /\ faults' = faults - 1

(* A failure that starts something over, or that nobody suffers from.      *)
Fault(f) == Fails(f) /\ UNCHANGED dropped

(* A failure after which the relayer gives up transfer k.                  *)
Loss(f, k) == Fails(f) /\ dropped' = dropped \cup {k}

NoFault == UNCHANGED faultVars

=============================================================================
