------------------------------- MODULE MCLots -------------------------------
(* Constant values for the TLC runs of Lots. *)
EXTENDS Lots

LossOnly   == {-1}
LossOrGain == {-1, 1}
=============================================================================
