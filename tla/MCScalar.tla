------------------------------ MODULE MCScalar ------------------------------
(***************************************************************************)
(* ScalarStore over two months (two timestamps and one), or over a single  *)
(* month, whose versions can cover, contain or miss each other.            *)
(***************************************************************************)
EXTENDS ScalarStore

MCTs == 1..3

MCTwoMonths == {"jan", "feb"}

MCPair == 1..2

MCOneMonth == {"jan"}

MCMonthOfTwo == [t \in MCTs |-> IF t <= 2 THEN "jan" ELSE "feb"]

MCMonthOfOne == [t \in MCPair |-> "jan"]
=============================================================================
