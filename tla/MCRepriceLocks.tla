--------------------------- MODULE MCRepriceLocks ---------------------------
(***************************************************************************)
(* RepriceLocks for TLC: every reader refreshes every lot.                 *)
(***************************************************************************)
EXTENDS RepriceLocks

AllLots == [r \in Readers |-> Lots]
=============================================================================
