---------------------------- MODULE MonthVersions ---------------------------
(***************************************************************************)
(* What put_scalar_chunk and append_scalar_chunk promise: every month of a *)
(* scalar series is a register that holds one whole version, a write       *)
(* replaces it at once, and success is reported for the version that is    *)
(* readable.  No files, sidecars, manifests or crashes.                    *)
(***************************************************************************)
CONSTANTS Row, Months

VARIABLES content,  \* the readable rows of each month
          open,     \* the write whose outcome is not settled, none or one
          acked     \* the last acknowledged version of each month

vars == <<content, open, acked>>

Init ==
  /\ content = [m \in Months |-> {}]
  /\ open = {}
  /\ acked = [m \in Months |-> {}]

Submit ==
  /\ open = {}
  /\ \E m \in Months, rows \in SUBSET Row : open' = {[month |-> m, rows |-> rows]}
  /\ UNCHANGED <<content, acked>>

\* The month switches to the new version.
Publish ==
  /\ \E w \in open : content' = [content EXCEPT ![w.month] = w.rows]
  /\ UNCHANGED <<open, acked>>

Acknowledge ==
  /\ \E w \in open : /\ content[w.month] = w.rows
                     /\ acked' = [acked EXCEPT ![w.month] = w.rows]
  /\ open' = {}
  /\ UNCHANGED content

\* A write that failed is settled, published or not.
Settle ==
  /\ open # {}
  /\ open' = {}
  /\ UNCHANGED <<content, acked>>

Next == Submit \/ Publish \/ Acknowledge \/ Settle

Spec == Init /\ [][Next]_vars
=============================================================================
