---------------------------- MODULE MCTransport ----------------------------
(* Instances of Transport: the shortest frame, which may be a PONG, and    *)
(* one that fits into the ring alone but not twice.                        *)
EXTENDS Transport

MCFrameLens == {1, 2}
MCQuietLens == {1}
=============================================================================
