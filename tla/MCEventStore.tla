---------------------------- MODULE MCEventStore ----------------------------
(* Instances of EventStore for TLC.                                        *)
EXTENDS EventStore, TLC

CONSTANTS s1, s2, s3, r1, r2

ThreeStreams == {s1, s2, s3}
TwoStreams   == {s1, s2}
TwoReaders   == {r1, r2}
OneReader    == {r1}
ReadersSymmetry == Permutations(TwoReaders)
=============================================================================
