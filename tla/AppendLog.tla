----------------------------- MODULE AppendLog ------------------------------
(***************************************************************************)
(* What an append-only FastK series promises to its callers, with no files,*)
(* manifests or crashes: batches of rows become readable whole or not at   *)
(* all, an acknowledged batch is readable, readable rows stay readable.    *)
(***************************************************************************)
CONSTANT Row

VARIABLES rows,    \* the rows a reader sees
          open,    \* the batch whose outcome is not settled yet
          acked    \* the rows of acknowledged batches

vars == <<rows, open, acked>>

Init == rows = {} /\ open = {} /\ acked = {}

\* A caller hands over a batch of new rows.
Submit ==
  /\ open = {}
  /\ open' \subseteq Row /\ open' # {} /\ open' \cap rows = {}
  /\ UNCHANGED <<rows, acked>>

\* The whole batch becomes readable.
Publish ==
  /\ open # {}
  /\ rows' = rows \cup open
  /\ UNCHANGED <<open, acked>>

\* Success is reported, and only for a batch that is readable.
Acknowledge ==
  /\ open # {} /\ open \subseteq rows
  /\ acked' = acked \cup open
  /\ open' = {}
  /\ UNCHANGED rows

\* A batch whose caller saw a failure is settled, published or not.
Settle ==
  /\ open # {}
  /\ open' = {}
  /\ UNCHANGED <<rows, acked>>

Next == Submit \/ Publish \/ Acknowledge \/ Settle

Spec == Init /\ [][Next]_vars
=============================================================================
