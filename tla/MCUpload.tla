------------------------------ MODULE MCUpload ------------------------------
(* Finite instances of Upload for TLC.                                     *)
EXTENDS Upload, TLC

CONSTANTS p1, p2, h1, h2

OnePeer   == {p1}
TwoPeers  == {p1, p2}
OneHash   == {h1}
TwoHashes == {h1, h2}
OwnedNone == {}

OneRequest == {<<h1>>}
=============================================================================
