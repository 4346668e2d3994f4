---------------------------- MODULE LossyChannel ----------------------------
(***************************************************************************)
(* What the handlers may rely on when they are given a frame: the host     *)
(* wrote it, whole, and after every frame handled before.  Frames may be   *)
(* lost; none is repeated, reordered, cut, merged or made up.              *)
(* Frames are numbered in the order the host writes them.                  *)
(***************************************************************************)
EXTENDS Naturals

CONSTANT MaxFrames    \* bound: frames the host writes

VARIABLES sent,     \* frames written so far
          last,     \* the frame given out last, 0 at first
          handling  \* its handler runs

Init == sent = 0 /\ last = 0 /\ handling = FALSE

Send == sent < MaxFrames /\ sent' = sent + 1 /\ UNCHANGED <<last, handling>>

Deliver ==
    /\ ~handling /\ handling' = TRUE
    /\ last' \in (last + 1)..sent
    /\ UNCHANGED sent

Done == handling /\ handling' = FALSE /\ UNCHANGED <<sent, last>>

Next == Send \/ Deliver \/ Done

Spec == Init /\ [][Next]_<<sent, last, handling>>
=============================================================================
