----------------------------- MODULE MCDownload -----------------------------
(* Finite instances of Download for TLC.                                   *)
EXTENDS Download, TLC

CONSTANTS p1, p2, h1, h2

TwoPeers    == {p1, p2}
TwoPeerList == <<p1, p2>>

TwoHashes == {h1, h2}
OwnedNone == {}

AllFiles == {<<h1, h2>>, <<h1, h1>>}

IoMayFail == {TRUE, FALSE}
=============================================================================
