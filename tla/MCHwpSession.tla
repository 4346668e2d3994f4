---------------------------- MODULE MCHwpSession ----------------------------
(* Small instances of HwpSession: the sighashes a host may send are those  *)
(* of every transaction it can build from the outputs and digests at hand. *)
EXTENDS HwpSession, SequencesExt, TLC

CONSTANTS o1, o2, t1, none, nodigest

NoTransparent == { << <<>>, <<>> >> }
OneInput      == { << <<>>, <<>> >>, << <<t1>>, <<>> >>, << <<t1>>, <<t1>> >> }

SighashesOf(digests) == [digest : digests, acts : BoundedSeq(Outputs, MaxActions)]
OrchardSighashes     == SighashesOf(NoTransparent)
MixedSighashes       == SighashesOf(OneInput)
=============================================================================
