------------------------------- MODULE MCEdges -------------------------------
(* The edges of a desk with two of everything, for TLC. *)
EXTENDS Edges, TLC

CONSTANTS a, b     \* signers

TwoSigners == {a, b}
SignersSymmetry == Permutations(TwoSigners)

TwoDashboards == {"d1", "d2"}
OneTick == {"tick"}
ThreeFrames == [frames |-> 3, streams |-> 0]
ThreeStreams == [frames |-> 0, streams |-> 3]

ReaderAndWriter == {"reader", "writer"}
OneReader == {"reader"}

\* Two ledgers, and stored frames whose stamps differ in the tick and in the
\* timestamp; one session row and one stored row are kept.
TwoBooks == {"paper", "live"}
OneLotEach == <<"paper", "live">>
OneMark == {1}
ViewStamps == {<<1, 1, 1>>, <<1, 2, 0>>}
ViewPctOf == [s \in ViewStamps |-> IF s[2] = 1 THEN 1 ELSE -1]
=============================================================================
