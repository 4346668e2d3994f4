------------------------------- MODULE Signer -------------------------------
(***************************************************************************)
(* The signing context of libzcash-orchard-c (OrchardSignerCtx) as the     *)
(* firmware uses it.  The library is a git submodule that is not part of   *)
(* this repository, so every operator below is EXTERNAL: it is written     *)
(* from the calls main/main.c and main/wallet.c make, the error codes they *)
(* test for and the state they read.  Where the repository does not settle *)
(* what the library does, the operator returns every outcome that fits the *)
(* callers: XOk is the set of contexts a successful call may leave behind, *)
(* XErrors the set of errors the call may return instead (no change).      *)
(*                                                                         *)
(* Data is abstract.  An output stands for an Orchard action together with *)
(* the recipient and value its note commitment binds; a digest of the      *)
(* transparent part IS the pair of lists it commits to; a ZIP-244 sighash  *)
(* IS the pair <transparent digest, actions> (coin_type is not hashed).    *)
(***************************************************************************)
EXTENDS Naturals, Sequences

CONSTANTS Outputs,      \* Orchard outputs (recipient, value) a host may send
          TItems,       \* transparent inputs / outputs a host may send
          Digests,      \* transparent digests a TxMeta may announce
          NoDigest,     \* the zeroed digest field
          Coins,        \* ZIP-32 coin types in use
          MaxActions,   \* ORCHARD_SIGNER_MAX_ACTIONS
          MaxItems      \* most transparent inputs (outputs) of a transaction

ASSUME SignerAssumption ==
    /\ MaxActions \in Nat \ {0}
    /\ MaxItems \in Nat
    /\ Coins \subseteq Nat \ {0}
    /\ Digests \subseteq Seq(TItems) \X Seq(TItems)
    /\ NoDigest \notin Seq(TItems) \X Seq(TItems)

SignerStates == {"IDLE", "RECEIVING_ACTIONS", "RECEIVING_TRANSPARENT", "VERIFIED"}

Digest  == (Seq(TItems) \X Seq(TItems)) \cup {NoDigest}
Sighash == [digest : Digest, acts : Seq(Outputs)]
TxMeta  == [coin : Coins \cup {0}, digest : Digest]

NoHash == [digest |-> NoDigest, acts |-> <<>>]
NoMeta == [coin |-> 0, digest |-> NoDigest]

SignerCtx ==
    [state : SignerStates, coin : Coins \cup {0}, meta : TxMeta,
     expected : 0..MaxActions, acts : Seq(Outputs), confirmed : SUBSET Nat,
     hash : Sighash, tverified : BOOLEAN, tinExp : Nat, toutExp : Nat,
     tins : Seq(TItems), touts : Seq(TItems)]

\* An empty session; the coin type is the one field FVK_REQ sets outside it.
Fresh(coin) ==
    [state |-> "IDLE", coin |-> coin, meta |-> NoMeta, expected |-> 0,
     acts |-> <<>>, confirmed |-> {}, hash |-> NoHash, tverified |-> FALSE,
     tinExp |-> 0, toutExp |-> 0, tins |-> <<>>, touts |-> <<>>]

\* orchard_signer_reset: ends the session.  Whether the stored coin type
\* survives a reset is the library's business: both are allowed.
Resets(c) == {Fresh(k) : k \in {0, c.coin}}

SighashOf(c)    == [digest |-> c.meta.digest, acts |-> c.acts]
TransparentOf(c) == <<c.tins, c.touts>>

-----------------------------------------------------------------------------
(* orchard_signer_feed_meta: defect names what is wrong with the 133-byte  *)
(* TxMeta payload itself.                                                  *)

FeedMetaOk(c, m, total, defect) ==
    IF defect = "none" /\ total <= MaxActions /\ c.coin \in {0, m.coin}
    THEN {[Fresh(k) EXCEPT !.state = "RECEIVING_ACTIONS", !.meta = m,
                           !.expected = total] : k \in {c.coin, m.coin}}
    ELSE {}

FeedMetaErrors(c, m, total, defect) ==
    {e \in {"NETWORK_MISMATCH", "SAPLING_NOT_EMPTY", "TOO_MANY_ACTIONS",
            "BAD_META", "BAD_STATE"} :
        \/ e = "NETWORK_MISMATCH"  /\ c.coin \notin {0, m.coin}
        \/ e = "SAPLING_NOT_EMPTY" /\ defect = "sapling"
        \/ e = "TOO_MANY_ACTIONS"  /\ total > MaxActions
        \/ e = "BAD_META"          /\ (defect = "length" \/ total = 0)
        \/ e = "BAD_STATE"         /\ c.state # "IDLE"}

(* orchard_signer_feed_action_with_note: the session test, then the note   *)
(* commitment (Sinsemilla, which yields the CPU), then the action is       *)
(* hashed and stored in whatever context is there by then.                 *)

AcceptsAction(c)   == c.state = "RECEIVING_ACTIONS" /\ Len(c.acts) < c.expected
AbsorbAction(c, o) == [c EXCEPT !.acts = Append(@, o)]

(* orchard_signer_confirm_action, i counted from 1.  Outside               *)
(* RECEIVING_ACTIONS a valid index may be confirmed or refused.            *)

ConfirmOk(c, i) ==
    IF i <= Len(c.acts) THEN {[c EXCEPT !.confirmed = @ \cup {i}]} ELSE {}
ConfirmFails(c, i) ==
    i > Len(c.acts) \/ c.state # "RECEIVING_ACTIONS"

(* orchard_signer_verify: all announced actions present, all confirmed,    *)
(* and the sighash computed on the device is the one given.  It is not     *)
(* assumed to insist on a verified transparent part.                       *)

AllConfirmed(c) == Len(c.acts) = c.expected /\ c.confirmed = 1..c.expected

VerifyOk(c, h) ==
    IF /\ c.state \in {"RECEIVING_ACTIONS", "VERIFIED"}
       /\ AllConfirmed(c)
       /\ SighashOf(c) = h
    THEN {[c EXCEPT !.state = "VERIFIED", !.hash = h]} ELSE {}

VerifyErrors(c, h) ==
    {e \in {"SIGHASH_MISMATCH", "NOT_CONFIRMED", "BAD_STATE"} :
        \/ e = "SIGHASH_MISMATCH" /\ AllConfirmed(c) /\ SighashOf(c) # h
        \/ e = "NOT_CONFIRMED"    /\ ~AllConfirmed(c)
        \/ e = "BAD_STATE"        /\ c.state # "RECEIVING_ACTIONS"}

\* orchard_signer_check and the test orchard_signer_sign repeats.
MaySign(c, h) == c.state = "VERIFIED" /\ c.hash = h

(* orchard_signer_begin_transparent / feed_transparent_* / verify_...      *)

BeginTransparentOk(c, nin) ==
    IF c.state = "RECEIVING_ACTIONS" /\ nin <= MaxItems
    THEN {[c EXCEPT !.state = "RECEIVING_TRANSPARENT", !.tverified = FALSE,
                    !.tinExp = nin, !.toutExp = 0,
                    !.tins = <<>>, !.touts = <<>>]}
    ELSE {}

BeginTransparentFails(c, nin) ==
    c.state # "RECEIVING_ACTIONS" \/ nin > MaxItems \/ Len(c.acts) < c.expected

AcceptsTIn(c)  == c.state = "RECEIVING_TRANSPARENT" /\ Len(c.tins)  < c.tinExp
AcceptsTOut(c) == c.state = "RECEIVING_TRANSPARENT" /\ Len(c.touts) < c.toutExp

TransparentMatches(c, d) ==
    /\ Len(c.tins) = c.tinExp /\ Len(c.touts) = c.toutExp
    /\ TransparentOf(c) = c.meta.digest /\ d = c.meta.digest

VerifyTransparentOk(c, d) ==
    IF c.state = "RECEIVING_TRANSPARENT" /\ TransparentMatches(c, d)
    THEN {[c EXCEPT !.state = "RECEIVING_ACTIONS", !.tverified = TRUE]} ELSE {}

VerifyTransparentErrors(c, d) ==
    {e \in {"TRANSPARENT_MISMATCH", "BAD_STATE"} :
        \/ e = "TRANSPARENT_MISMATCH" /\ c.state = "RECEIVING_TRANSPARENT"
                                      /\ ~TransparentMatches(c, d)
        \/ e = "BAD_STATE"            /\ c.state # "RECEIVING_TRANSPARENT"}
=============================================================================
