------------------------ MODULE TrustedSignerProofs ------------------------
(* What the abstract specification is worth: it does keep the promise.     *)
EXTENDS TrustedSigner, TLAPS

\* Whatever TrustedSigner authorises, begins to sign or issues has exactly the
\* outputs approved in the latest review (the README's "no blind signing").
THEOREM PromiseKept == Spec => []OnlyApproved
  <1>1. Init => OnlyApproved
    BY DEF Init, OnlyApproved
  <1>2. OnlyApproved /\ [Next]_vars => OnlyApproved'
    <2> SUFFICES ASSUME OnlyApproved, [Next]_vars PROVE OnlyApproved'
      OBVIOUS
    <2> USE DEF OnlyApproved
    <2>1. CASE OpenReview
      BY <2>1 DEF OpenReview, Quiet, MayAuthorise
    <2>2. CASE Approve
      BY <2>2 DEF Approve, Quiet, MayAuthorise
    <2>3. CASE Withdraw
      BY <2>3 DEF Withdraw
    <2>4. CASE Begin
      BY <2>4 DEF Begin
    <2>5. CASE Issue
      BY <2>5 DEF Issue
    <2>6. CASE GiveUp \/ Deliver
      BY <2>6 DEF GiveUp, Deliver
    <2>7. CASE UNCHANGED vars
      BY <2>7 DEF vars
    <2> QED BY <2>1, <2>2, <2>3, <2>4, <2>5, <2>6, <2>7 DEF Next
  <1> QED BY <1>1, <1>2, PTL DEF Spec
=============================================================================
