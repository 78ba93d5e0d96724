------------------------------- MODULE Buckets -------------------------------
(***************************************************************************)
(* Reading a bucket of the BoltDB file as a whole (src/db/db.go).          *)
(***************************************************************************)
EXTENDS Naturals, FiniteSets

CONSTANT MaxNum      \* db.MAX_NUM, the most entries GetAll* returns

ASSUME MaxNumAssumption == MaxNum \in Nat \ {0}

(* GetAllCheck, GetAllRetry and GetAllNeoRetry stop after MaxNum entries.  *)
(* Bolt hands them out in the order of their bytes, which says nothing     *)
(* about their age: any MaxNum of them may be the ones returned.           *)
IsBatch(S, batch) ==
    /\ batch \subseteq S
    /\ IF Cardinality(S) <= MaxNum THEN batch = S
                                   ELSE Cardinality(batch) = MaxNum

=============================================================================
