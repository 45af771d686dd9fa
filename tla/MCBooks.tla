------------------------------- MODULE MCBooks -------------------------------
(***************************************************************************)
(* Books for TLC: two symbols on one socket or on a socket each.           *)
(***************************************************************************)
EXTENDS Books, TLC

CONSTANTS btc, eth, k1, k2

OneSocket == btc :> k1 @@ eth :> k1
TwoSockets == btc :> k1 @@ eth :> k2
=============================================================================
