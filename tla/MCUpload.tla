------------------------------ MODULE MCUpload ------------------------------
(* Instances of Upload for TLC.                                            *)
EXTENDS Upload, TLC

CONSTANTS u1, u2, u3

Slotted == {u1, u2, u3}
JustFirst == {u1}
JustSecond == {u2}
Nobody == {}

TwoChunks == {1, 2}
LastChunk == {2}
NoChunk == {}

WholeFile == {{1, 2}}
ShortAndLong == {{1}, {1, 2}}
=============================================================================
