----------------------------- MODULE MCOwnership ----------------------------
(***************************************************************************)
(* Two processes: the first has a writable and a read-only handle, the     *)
(* second a writable one.  Of the two batches of a month the second covers *)
(* the first and not the other way round.                                  *)
(***************************************************************************)
EXTENDS StoreOwnership

MCProcs == {"p", "q"}

MCHandles == {"p_rw", "p_ro", "q_rw"}

MCProcOf == [h \in MCHandles |-> IF h = "q_rw" THEN "q" ELSE "p"]

MCBatches == {[month |-> "jan", start |-> 1, end |-> 2],
              [month |-> "jan", start |-> 1, end |-> 3]}
=============================================================================
