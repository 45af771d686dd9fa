---------------------------- MODULE StopContract ----------------------------
(***************************************************************************)
(* What a stop promises the position that owns it: it watches one return   *)
(* after the other, it may give up a lot at any of them, it never keeps a  *)
(* lot whose return is at or below the largest allowed loss, and once it   *)
(* has given a lot up it is never asked back.  Lots.tla uses a stop only   *)
(* through this contract.                                                  *)
(***************************************************************************)
EXTENDS Integers

CONSTANTS MaxLoss, Returns

VARIABLES live, pnl

Init == live = TRUE /\ pnl \in Returns

Watch ==
  /\ live
  /\ pnl' \in Returns
  /\ live' \in BOOLEAN
  /\ live' => pnl' > -MaxLoss

Spec == Init /\ [][Watch]_<<live, pnl>>
=============================================================================
