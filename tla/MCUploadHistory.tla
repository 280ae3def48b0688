-------------------------- MODULE MCUploadHistory --------------------------
(* A finite instance of UploadHistory for TLC.                             *)
EXTENDS UploadHistory

CONSTANTS p1, h1

OnePeer    == {p1}
OneHash    == {h1}
NoRequests == {}
=============================================================================
