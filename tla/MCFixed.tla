------------------------------ MODULE MCFixed -------------------------------
(***************************************************************************)
(* FixedStore over three days, two of them in one month.                   *)
(***************************************************************************)
EXTENDS FixedStore

MCTs == 1..4

MCMonthOf == [t \in MCTs |-> IF t <= 3 THEN "jan" ELSE "feb"]

MCDayOf == [t \in MCTs |-> IF t <= 2 THEN "jan1" ELSE IF t = 3 THEN "jan2" ELSE "feb1"]
=============================================================================
