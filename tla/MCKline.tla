------------------------------ MODULE MCKline -------------------------------
(***************************************************************************)
(* KlineStore over four timestamps: three in the first month, so that a    *)
(* month can hold a base and two deltas, and one in the second.            *)
(***************************************************************************)
EXTENDS KlineInvariant

MCTs == 1..4

MCMonths == {"jan", "feb"}

MCMonthOf == [t \in MCTs |-> IF t <= 3 THEN "jan" ELSE "feb"]
=============================================================================
