------------------------------- MODULE MCViews ------------------------------
(***************************************************************************)
(* Three timestamps in two months: a request may grow a month, start one,  *)
(* or span both, and a month of a scalar series is rewritten.              *)
(***************************************************************************)
EXTENDS ReadViews, TLC

MCMonthOf == (1 :> 1) @@ (2 :> 1) @@ (3 :> 2)

\* One month, both months given out of order, the end of the first month and
\* the second, and a timestamp given twice.
MCInputs == {<<1>>, <<3, 1>>, <<2, 3>>, <<2, 2>>}

\* The end of the first month and all of the second: a chunk may be read
\* whole, in part, or left out.
MCWindows == {<<2, 3>>}
=============================================================================
