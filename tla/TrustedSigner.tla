--------------------------- MODULE TrustedSigner ---------------------------
(***************************************************************************)
(* What the wallet promises its user, without frames, tasks or cables: the *)
(* outputs of a transaction appear on the screen one at a time, a press    *)
(* approves the one on the screen, only a transaction whose outputs are    *)
(* exactly the approved ones is ever authorised, and only the transaction  *)
(* authorised when a signature was begun is signed.  Authorisation may be  *)
(* withdrawn at any moment; a signature already begun may still come out.  *)
(*                                                                         *)
(* Sets of at most one element stand for "a transaction or none".          *)
(***************************************************************************)
EXTENDS Naturals, Sequences

CONSTANTS Outputs,    \* what a screen can show
          NoOutput,   \* the blank screen
          Txs         \* transactions: records with a field acts

VARIABLES
    screen,      \* the output waiting for the button
    approved,    \* outputs approved in the latest review, in order
    authorised,  \* the transaction that may be signed
    pending,     \* the transaction being signed
    issued       \* the transaction of the signature on its way out

vars == <<screen, approved, authorised, pending, issued>>

Init ==
    /\ screen = NoOutput /\ approved = <<>>
    /\ authorised = {} /\ pending = {} /\ issued = {}

Quiet == pending = {} /\ issued = {}

\* Nothing, or a transaction with just these outputs.
MayAuthorise(txs, outs) == \A tx \in txs : tx \in Txs /\ tx.acts = outs

\* A review opens with the first output, or is over at once: there is none.
OpenReview ==
    /\ Quiet
    /\ approved' = <<>>
    /\ \/ screen' \in Outputs /\ authorised' = {}
       \/ screen' = NoOutput /\ MayAuthorise(authorised', <<>>)
    /\ UNCHANGED <<pending, issued>>

\* A press: on to the next output or, after the last, authorise.
Approve ==
    /\ Quiet
    /\ screen \in Outputs
    /\ approved' = Append(approved, screen)
    /\ \/ screen' \in Outputs /\ authorised' = {}
       \/ screen' = NoOutput /\ MayAuthorise(authorised', approved')
    /\ UNCHANGED <<pending, issued>>

\* A refusal, a timeout, an error, a host that left.
Withdraw ==
    /\ screen' \in {screen, NoOutput}
    /\ authorised' = {}
    /\ UNCHANGED <<approved, pending, issued>>

Begin ==
    /\ Quiet /\ screen = NoOutput
    /\ pending' = authorised
    /\ UNCHANGED <<screen, approved, authorised, issued>>

\* A signature comes out: begun earlier, or (transparent) made at once.
Issue ==
    /\ issued = {}
    /\ issued' = IF pending # {} THEN pending ELSE authorised
    /\ pending' = {}
    /\ UNCHANGED <<screen, approved, authorised>>

GiveUp ==
    /\ pending' = {}
    /\ UNCHANGED <<screen, approved, authorised, issued>>

Deliver ==
    /\ issued' = {}
    /\ UNCHANGED <<screen, approved, authorised, pending>>

Next ==
    OpenReview \/ Approve \/ Withdraw \/ Begin \/ Issue \/ GiveUp \/ Deliver

Spec == Init /\ [][Next]_vars

\* The promise itself: whatever may be, is being or has been signed has as
\* its outputs the ones the user approved, all of them and in their order.
OnlyApproved ==
    \A tx \in authorised \cup pending \cup issued : tx.acts = approved
=============================================================================
