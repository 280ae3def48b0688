----------------------------- MODULE MCTransfer -----------------------------
(* Finite instances of Transfer for TLC.                                   *)
EXTENDS Transfer, TLC

CONSTANTS h1, h2

OneHash   == {h1}
TwoHashes == {h1, h2}
FirstOnly  == {h1}
SecondOnly == {h2}
OwnedNone == {}
OneChunk  == {<<h1>>}
TwoChunks == {<<h1, h2>>}
=============================================================================
