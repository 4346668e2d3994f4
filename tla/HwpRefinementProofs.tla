------------------------ MODULE HwpRefinementProofs ------------------------
(* The session implements TrustedSigner: under the mapping of HwpSession   *)
(* every step is a step of the wallet's promise or leaves it alone.  The   *)
(* inductive invariant of HwpSessionProofs says what is on the screen and  *)
(* which transaction a verified context authorises.                        *)
EXTENDS HwpSessionProofs

Refines == TS!Next \/ UNCHANGED TS!vars

USE DEF TS!Next, TS!vars

LEMMA MapInit == Init => TS!Init
  BY DEF Init, Fresh, TS!Init, ReviewScreen, Authorised, BeingSigned, JustSigned

\* What may be signed has just the approved outputs.
LEMMA AuthorisedIsApproved == IInv => TS!MayAuthorise(Authorised, approved)
  <1> SUFFICES ASSUME IInv, NEW tx \in Authorised
               PROVE  tx \in Sighash /\ tx.acts = approved
    BY DEF TS!MayAuthorise
  <1>1. /\ tx = ctx.hash /\ ctx.state = "VERIFIED"
        /\ pc # "await" /\ ~(pc = "send" /\ reply.reset)
    BY DEF Authorised
  <1>2. ctx.hash = SighashOf(ctx) /\ ctx.acts = approved
    BY <1>1 DEF IInv, SessionInv, VerifiedAgrees
  <1>3. ctx.hash \in Sighash
    BY DEF IInv, TypeOK, SignerCtx
  <1> QED BY <1>1, <1>2, <1>3 DEF SighashOf

\* No signature is on its way unless a reply is being flushed.
LEMMA NothingIssued == IInv /\ pc # "send" => sig = NoSig /\ JustSigned = {}
  BY DEF IInv, SessionInv, InFlight, JustSigned

-----------------------------------------------------------------------------
(* A review begins, or goes on: what it has on the screen and what it      *)
(* authorises is read off the invariant of the next state.                 *)

LEMMA ReviewShows ==
    ASSUME IInv', pc' \in {"await", "send"}
    PROVE  \/ ReviewScreen' \in Outputs /\ Authorised' = {}
           \/ ReviewScreen' = NoOutput /\ TS!MayAuthorise(Authorised', approved')
  <1>1. CASE pc' = "await"
    BY <1>1 DEF IInv, SessionInv, ReviewAgrees, ReviewScreen, Authorised
  <1>2. CASE pc' = "send"
    <2>1. IInv' => TS!MayAuthorise(Authorised, approved)'
      BY AuthorisedIsApproved, PTL
    <2> QED BY <1>2, <2>1 DEF ReviewScreen
  <1> QED BY <1>1, <1>2

LEMMA OpenRefines ==
    ASSUME IInv, IInv', pc = "recv", pc' \in {"await", "send"},
           approved' = <<>>, UNCHANGED sig
    PROVE  Refines
  <1>1. JustSigned = {} /\ JustSigned' = {} /\ BeingSigned = {} /\ BeingSigned' = {}
    BY NothingIssued DEF JustSigned, BeingSigned
  <1>2. \/ ReviewScreen' \in Outputs /\ Authorised' = {}
        \/ ReviewScreen' = NoOutput /\ TS!MayAuthorise(Authorised', <<>>)
    BY ReviewShows
  <1>3. TS!OpenReview
    BY <1>1, <1>2 DEF TS!OpenReview, TS!Quiet
  <1> QED BY <1>3 DEF Refines

LEMMA ApproveRefines ==
    ASSUME IInv, IInv', pc = "await", pc' \in {"await", "send"},
           approved' = Append(approved, shown), UNCHANGED sig
    PROVE  Refines
  <1>1. JustSigned = {} /\ JustSigned' = {} /\ BeingSigned = {} /\ BeingSigned' = {}
    BY NothingIssued DEF JustSigned, BeingSigned
  <1>2. ReviewScreen = shown /\ shown \in Outputs
    BY DEF ReviewScreen, IInv, SessionInv, ReviewAgrees
  <1>3. \/ ReviewScreen' \in Outputs /\ Authorised' = {}
        \/ ReviewScreen' = NoOutput /\ TS!MayAuthorise(Authorised', approved')
    BY ReviewShows
  <1>4. TS!Approve
    BY <1>1, <1>2, <1>3 DEF TS!Approve, TS!Quiet
  <1> QED BY <1>4 DEF Refines

-----------------------------------------------------------------------------
(* A handler that answers and signs nothing keeps the authorisation or     *)
(* withdraws it.                                                           *)

LEMMA AnswerRefines ==
    ASSUME IInv, pc \in {"recv", "derive", "hash", "await"}, pc' = "send",
           UNCHANGED <<approved, sig>>,
           \/ reply'.reset
           \/ ctx'.state # "VERIFIED"
           \/ pc # "await" /\ ctx.state = "VERIFIED" /\ ctx'.hash = ctx.hash
    PROVE  Refines
  <1>1. /\ BeingSigned = {} /\ BeingSigned' = {} /\ UNCHANGED JustSigned
        /\ ReviewScreen' = NoOutput
    BY DEF BeingSigned, JustSigned, ReviewScreen
  <1>2. CASE reply'.reset \/ ctx'.state # "VERIFIED"
    <2>1. Authorised' = {}
      BY <1>2 DEF Authorised
    <2>2. TS!Withdraw
      BY <1>1, <2>1 DEF TS!Withdraw
    <2> QED BY <2>2 DEF Refines
  <1>3. CASE /\ ~reply'.reset /\ ctx'.state = "VERIFIED"
             /\ pc # "await" /\ ctx.state = "VERIFIED" /\ ctx'.hash = ctx.hash
    <2>1. UNCHANGED Authorised /\ UNCHANGED ReviewScreen
      BY <1>3 DEF Authorised, ReviewScreen
    <2> QED BY <1>1, <2>1 DEF Refines
  <1> QED BY <1>2, <1>3

\* The same for the many handlers that leave the context alone.
LEMMA RefuseRefines ==
    ASSUME IInv, pc \in {"recv", "derive", "hash", "await"},
           NEW code, NEW r \in BOOLEAN, Answer(code, r),
           UNCHANGED <<ctx, approved, sig>>, pc = "await" => r
    PROVE  Refines
  <1>1. pc' = "send" /\ reply'.reset = r
    BY DEF Answer
  <1>2. \/ reply'.reset
        \/ ctx'.state # "VERIFIED"
        \/ pc # "await" /\ ctx.state = "VERIFIED" /\ ctx'.hash = ctx.hash
    BY <1>1
  <1> QED BY <1>1, <1>2, AnswerRefines

\* A session that ends takes its authorisation with it.
LEMMA ResetRefines ==
    ASSUME IInv, ctx' \in Resets(ctx), UNCHANGED <<pc, jobVars, sendVars>>
    PROVE  Refines
  <1>1. ctx'.state = "IDLE"
    BY ResetsType DEF IInv, TypeOK
  <1>2. TS!Withdraw
    BY <1>1 DEF TS!Withdraw, ReviewScreen, Authorised, BeingSigned, JustSigned,
                jobVars, sendVars
  <1> QED BY <1>2 DEF Refines

-----------------------------------------------------------------------------
(* Signatures.                                                             *)

LEMMA SignReqRefines ==
    ASSUME IInv, NEW h, NEW hint, HandleSignReq(h, hint)
    PROVE  Refines
  <1>1. pc = "recv" /\ UNCHANGED <<ctx, approved, sig>>
    BY DEF HandleSignReq, Listening
  <1>2. CASE MaySign(ctx, h) /\ pc' = "keys" /\ arg' = h
    <2>1. Authorised = {h} /\ Authorised' = {h} /\ BeingSigned = {} /\ BeingSigned' = {h}
      BY <1>1, <1>2 DEF MaySign, Authorised, BeingSigned
    <2>2. ReviewScreen = NoOutput /\ ReviewScreen' = NoOutput
          /\ JustSigned = {} /\ JustSigned' = {}
      BY <1>1, <1>2, NothingIssued DEF ReviewScreen, JustSigned
    <2>3. TS!Begin
      BY <1>1, <2>1, <2>2 DEF TS!Begin, TS!Quiet
    <2> QED BY <2>3 DEF Refines
  <1>3. CASE \E code \in Codes, r \in BOOLEAN : Answer(code, r)
    BY <1>1, <1>3, RefuseRefines
  <1>4. /\ {"BAD_FRAME", "SIGHASH_MISMATCH", "INVALID_STATE"} \subseteq Codes
        /\ TRUE \in BOOLEAN /\ FALSE \in BOOLEAN
    BY DEF Codes
  <1>5. \/ MaySign(ctx, h) /\ pc' = "keys" /\ arg' = h
        \/ \E code \in Codes, r \in BOOLEAN : Answer(code, r)
    BY <1>4 DEF HandleSignReq, Refuse, RefuseEnd
  <1> QED BY <1>2, <1>3, <1>5

\* A signature given up leaves the authorisation where it was.
LEMMA GiveUpRefines ==
    ASSUME IInv, pc \in {"keys", "sign"}, Refuse("SIGN_FAILED"),
           UNCHANGED <<ctx, approved, sig>>
    PROVE  Refines
  <1>1. pc' = "send" /\ reply'.reset = FALSE
    BY DEF Refuse, Answer
  <1>2. BeingSigned' = {} /\ UNCHANGED <<ReviewScreen, Authorised, JustSigned>>
    BY <1>1 DEF BeingSigned, ReviewScreen, Authorised, JustSigned
  <1>3. TS!GiveUp
    BY <1>2 DEF TS!GiveUp
  <1> QED BY <1>3 DEF Refines

LEMMA SignRecheckRefines == IInv /\ SignRecheck => Refines
  <1> SUFFICES ASSUME IInv, SignRecheck PROVE Refines
    OBVIOUS
  <1>1. pc = "keys" /\ UNCHANGED <<ctx, arg, approved, sig>>
    BY DEF SignRecheck, jobVars
  <1>2. CASE pc' = "sign"
    BY <1>1, <1>2 DEF Refines, ReviewScreen, Authorised, BeingSigned, JustSigned
  <1>3. CASE Refuse("SIGN_FAILED")
    BY <1>1, <1>3, GiveUpRefines
  <1> QED BY <1>2, <1>3 DEF SignRecheck

LEMMA SignDoneRefines == IInv /\ SignDone => Refines
  <1> SUFFICES ASSUME IInv, SignDone PROVE Refines
    OBVIOUS
  <1>1. pc = "sign" /\ UNCHANGED <<ctx, arg, approved>>
    BY DEF SignDone, jobVars
  <1>2. CASE /\ sig' = [kind |-> "orchard", tx |-> arg, input |-> NoInput, net |-> net]
             /\ Answer("SIGN_RSP", FALSE)
    <2>1. sig' # NoSig /\ sig'.tx = arg
      BY <1>2 DEF NoSig
    <2>2. /\ JustSigned = {} /\ JustSigned' = {arg}
          /\ BeingSigned = {arg} /\ BeingSigned' = {}
      BY <1>1, <1>2, <2>1, NothingIssued DEF JustSigned, BeingSigned, Answer
    <2>3. UNCHANGED <<ReviewScreen, Authorised>>
      BY <1>1, <1>2 DEF ReviewScreen, Authorised, Answer
    <2>4. TS!Issue
      BY <1>1, <2>2, <2>3 DEF TS!Issue
    <2> QED BY <2>4 DEF Refines
  <1>3. CASE Refuse("SIGN_FAILED") /\ UNCHANGED sig
    BY <1>1, <1>3, GiveUpRefines
  <1> QED BY <1>2, <1>3 DEF SignDone

LEMMA TransparentSignReqRefines == IInv /\ HandleTransparentSignReq => Refines
  <1> SUFFICES ASSUME IInv, HandleTransparentSignReq PROVE Refines
    OBVIOUS
  <1>1. pc = "recv" /\ UNCHANGED <<ctx, arg, approved>>
    BY DEF HandleTransparentSignReq, Listening, jobVars
  <1>2. CASE \E code \in {"INVALID_STATE", "SIGN_FAILED"} : Refuse(code) /\ UNCHANGED sig
    BY <1>1, <1>2, RefuseRefines DEF Refuse
  <1>3. CASE /\ ctx.tverified /\ ctx.state = "VERIFIED"
             /\ \E input \in HostInputs : SignInput(input)
    <2>6. /\ sig'.kind = "transparent" /\ pc' = "send" /\ ~reply'.reset
          /\ sig'.tx = [digest |-> TransparentOf(ctx), acts |-> ctx.acts]
      BY <1>3 DEF SignInput, Answer
    <2>1. ctx.hash = SighashOf(ctx) /\ TransparentOf(ctx) = ctx.meta.digest
      BY <1>3 DEF IInv, SessionInv, VerifiedAgrees, TransparentAgrees
    <2>2. sig' # NoSig /\ sig'.tx = ctx.hash
      BY <2>1, <2>6 DEF NoSig, SighashOf
    <2>3. Authorised = {ctx.hash} /\ Authorised' = {ctx.hash}
      BY <1>1, <1>3, <2>6 DEF Authorised
    <2>4. /\ JustSigned = {} /\ JustSigned' = {ctx.hash}
          /\ BeingSigned = {} /\ BeingSigned' = {}
          /\ ReviewScreen = NoOutput /\ ReviewScreen' = NoOutput
      BY <1>1, <2>2, <2>6, NothingIssued DEF JustSigned, BeingSigned, ReviewScreen
    <2>5. TS!Issue
      BY <1>1, <2>3, <2>4 DEF TS!Issue
    <2> QED BY <2>5 DEF Refines
  <1> QED BY <1>2, <1>3 DEF HandleTransparentSignReq

LEMMA SendReplyRefines == IInv /\ SendReply => Refines
  <1> SUFFICES ASSUME IInv, SendReply PROVE Refines
    OBVIOUS
  <1>1. /\ pc = "send" /\ pc' = "recv" /\ sig' = NoSig /\ UNCHANGED approved
        /\ ctx' \in IF reply.reset THEN Resets(ctx) ELSE {ctx}
    BY DEF SendReply
  <1>2. UNCHANGED Authorised
    <2>1. CASE reply.reset
      <3>1. ctx'.state = "IDLE"
        BY <1>1, <2>1, ResetsType DEF IInv, TypeOK
      <3> QED BY <1>1, <2>1, <3>1 DEF Authorised
    <2>2. CASE ~reply.reset
      BY <1>1, <2>2 DEF Authorised
    <2> QED BY <2>1, <2>2
  <1>3. JustSigned' = {} /\ UNCHANGED <<ReviewScreen, BeingSigned>>
    BY <1>1 DEF JustSigned, ReviewScreen, BeingSigned
  <1>4. TS!Deliver
    BY <1>1, <1>2, <1>3 DEF TS!Deliver
  <1> QED BY <1>4 DEF Refines

-----------------------------------------------------------------------------
(* Every step, by who takes it.                                            *)

LEMMA ReviewStepRefines ==
    ASSUME IInv, IInv', ConfirmPressed \/ ReviewRefused
    PROVE  Refines
  <1>1. CASE ConfirmPressed
    <2>1. pc = "await" /\ UNCHANGED sig
      BY <1>1 DEF ConfirmPressed
    <2>2. CASE \E c \in ConfirmOk(ctx, Len(approved) + 1) :
                  ReviewFrom(c, Append(approved, shown), arg)
      <3>1. approved' = Append(approved, shown) /\ pc' \in {"await", "send"}
        BY <2>2 DEF ReviewFrom, VerifySentinel, Refuse, RefuseEnd, Answer
      <3> QED BY <2>1, <3>1, ApproveRefines
    <2>3. CASE RefuseEnd("USER_CANCELLED") /\ UNCHANGED <<ctx, shown, approved>>
      BY <2>1, <2>3, RefuseRefines DEF RefuseEnd
    <2> QED BY <1>1, <2>2, <2>3 DEF ConfirmPressed
  <1>2. CASE ReviewRefused
    BY <1>2, RefuseRefines DEF ReviewRefused, RefuseEnd, jobVars
  <1> QED BY <1>1, <1>2

LEMMA NoteHashedRefines == IInv /\ NoteHashed => Refines
  <1> SUFFICES ASSUME IInv, NoteHashed PROVE Refines
    OBVIOUS
  <1>1. pc = "hash" /\ UNCHANGED <<approved, sig>>
    BY DEF NoteHashed, jobVars
  <1>2. CASE ctx' = AbsorbAction(ctx, note) /\ Answer("ACK", FALSE)
    <2>1. ctx \in SignerCtx /\ note \in Outputs /\ ctx.state # "VERIFIED"
      BY <1>1 DEF IInv, TypeOK, SessionInv, InFlight
    <2>2. ctx'.state # "VERIFIED"
      BY <1>2, <2>1, AbsorbType
    <2> QED BY <1>1, <1>2, <2>2, AnswerRefines DEF Answer
  <1>3. CASE UNCHANGED ctx /\ \E code : RefuseEnd(code)
    BY <1>1, <1>3, RefuseRefines DEF RefuseEnd
  <1> QED BY <1>2, <1>3 DEF NoteHashed

LEMMA HwpStepRefines ==
    ASSUME IInv, IInv', HwpStep PROVE Refines
  <1>1. CASE FvkDone
    BY <1>1, RefuseRefines DEF FvkDone, Refuse, jobVars
  <1> QED BY <1>1, NoteHashedRefines, ReviewStepRefines, SignRecheckRefines,
             SignDoneRefines, SendReplyRefines DEF HwpStep

LEMMA OrchardFrameRefines ==
    /\ \A code : IInv /\ HandleStateless(code) => Refines
    /\ IInv /\ HandleAbort => Refines
    /\ \A k : IInv /\ HandleFvkReq(k) => Refines
    /\ \A o : IInv /\ HandleTxAction(o) => Refines
    /\ IInv /\ HandleSentinelShort => Refines
  <1>1. ASSUME IInv, NEW code, HandleStateless(code) PROVE Refines
    BY <1>1, RefuseRefines DEF HandleStateless, Listening, Refuse, jobVars
  <1>2. ASSUME IInv, HandleAbort PROVE Refines
    BY <1>2, ResetRefines DEF HandleAbort
  <1>3. ASSUME IInv, NEW k, HandleFvkReq(k) PROVE Refines
    <2>1. ctx'.state = ctx.state /\ ctx'.hash = ctx.hash
      BY <1>3 DEF HandleFvkReq, IInv, TypeOK, SignerCtx
    <2>2. /\ pc = "recv" /\ pc' = "derive"
          /\ UNCHANGED <<approved, arg, reply, sig>>
      BY <1>3 DEF HandleFvkReq, Listening, jobVars, sendVars
    <2> QED BY <2>1, <2>2 DEF Refines, ReviewScreen, Authorised, BeingSigned, JustSigned
  <1>4. ASSUME IInv, NEW o, HandleTxAction(o) PROVE Refines
    <2>1. pc = "recv" /\ UNCHANGED <<ctx, approved, arg, sig>>
      BY <1>4 DEF HandleTxAction, Listening
    <2>2. CASE AcceptsAction(ctx) /\ pc' = "hash"
      BY <2>1, <2>2 DEF AcceptsAction, Refines, ReviewScreen, Authorised, BeingSigned,
                        JustSigned
    <2>3. CASE \E code : RefuseEnd(code)
      BY <1>4, <2>1, <2>3, RefuseRefines DEF RefuseEnd
    <2> QED BY <1>4, <2>2, <2>3 DEF HandleTxAction
  <1>5. ASSUME IInv, HandleSentinelShort PROVE Refines
    BY <1>5, RefuseRefines DEF HandleSentinelShort, Listening, RefuseEnd, jobVars
  <1> QED BY <1>1, <1>2, <1>3, <1>4, <1>5

LEMMA ReviewFrameRefines ==
    /\ \A m, n, e : IInv /\ IInv' /\ HandleTxMeta(m, n, e) => Refines
    /\ \A h : IInv /\ IInv' /\ HandleSentinel(h) => Refines
  <1>1. ASSUME IInv, IInv', NEW m, NEW n, NEW e, HandleTxMeta(m, n, e) PROVE Refines
    <2>1. pc = "recv" /\ UNCHANGED sig
      BY <1>1 DEF HandleTxMeta, Listening
    <2>2. CASE approved' = <<>> /\ Answer("ACK", FALSE)
      BY <1>1, <2>1, <2>2, OpenRefines DEF Answer
    <2>3. CASE UNCHANGED <<ctx, approved>> /\ \E code : RefuseEnd(code)
      BY <1>1, <2>1, <2>3, RefuseRefines DEF RefuseEnd
    <2> QED BY <1>1, <2>2, <2>3 DEF HandleTxMeta
  <1>2. ASSUME IInv, IInv', NEW h, HandleSentinel(h) PROVE Refines
    <2>1. pc = "recv" /\ UNCHANGED sig
      BY <1>2 DEF HandleSentinel, Listening
    <2>2. approved' = <<>> /\ pc' \in {"await", "send"}
      BY <1>2 DEF HandleSentinel, ReviewFrom, VerifySentinel, Refuse, RefuseEnd, Answer
    <2> QED BY <1>2, <2>1, <2>2, OpenRefines
  <1> QED BY <1>1, <1>2

\* The transparent part moves the context without verifying the session.
LEMMA TransparentAnswerRefines ==
    ASSUME IInv, pc = "recv", pc' = "send", UNCHANGED <<approved, sig>>,
           ctx'.state = "VERIFIED" => ctx.state = "VERIFIED" /\ ctx'.hash = ctx.hash
    PROVE  Refines
  <1>1. \/ reply'.reset
        \/ ctx'.state # "VERIFIED"
        \/ pc # "await" /\ ctx.state = "VERIFIED" /\ ctx'.hash = ctx.hash
    OBVIOUS
  <1> QED BY <1>1, AnswerRefines

LEMMA TransparentFrameRefines ==
    /\ \A i, t : \A n \in Nat : IInv /\ HandleTransparentInput(i, n, t) => Refines
    /\ \A i \in Nat : \A g : IInv /\ HandleTransparentSentinel(i, g) => Refines
    /\ \A i, n, t : IInv /\ HandleTransparentOutput(i, n, t) => Refines
  <1>1. ASSUME IInv, NEW i, NEW t, NEW n \in Nat, HandleTransparentInput(i, n, t)
        PROVE  Refines
    <2>1. pc = "recv" /\ UNCHANGED <<approved, sig>>
      BY <1>1 DEF HandleTransparentInput, Listening, jobVars
    <2>2. CASE BeginRefused(i, n)
      BY <1>1, <2>1, <2>2, RefuseRefines DEF BeginRefused, RefuseEnd
    <2>3. CASE \E c \in Begun(ctx, i, n) :
                  FeedItem(c, [c EXCEPT !.tins = Append(@, t)], AcceptsTIn(c))
      <3>1. PICK c \in Begun(ctx, i, n) :
                  FeedItem(c, [c EXCEPT !.tins = Append(@, t)], AcceptsTIn(c))
        BY <2>3
      <3> DEFINE d == [c EXCEPT !.tins = Append(c.tins, t)]
      <3>2. /\ c \in SignerCtx
            /\ c.state = "VERIFIED" => ctx.state = "VERIFIED" /\ c.hash = ctx.hash
        BY <1>1, BegunAgrees
      <3>3. d.state = c.state
        BY <3>2 DEF SignerCtx
      <3>4. pc' = "send" /\ (ctx' = c \/ (ctx' = d /\ c.state = "RECEIVING_TRANSPARENT"))
        <4>1. AcceptsTIn(c) \in BOOLEAN /\ FeedItem(c, d, AcceptsTIn(c))
          BY <3>1 DEF AcceptsTIn
        <4> QED BY <4>1, FeedItemOutcome DEF AcceptsTIn
      <3> HIDE DEF d
      <3> QED BY <1>1, <2>1, <3>2, <3>3, <3>4, TransparentAnswerRefines
    <2> QED BY <1>1, <2>2, <2>3 DEF HandleTransparentInput
  <1>2. ASSUME IInv, NEW i \in Nat, NEW g, HandleTransparentSentinel(i, g)
        PROVE  Refines
    <2>1. pc = "recv" /\ UNCHANGED <<approved, sig>>
      BY <1>2 DEF HandleTransparentSentinel, Listening, jobVars
    <2>2. CASE BeginRefused(i, i)
      BY <1>2, <2>1, <2>2, RefuseRefines DEF BeginRefused, RefuseEnd
    <2>3. CASE ~BeginRefused(i, i)
      <3>1. PICK c \in Begun(ctx, i, i) :
                /\ ctx' = c \/ ctx' \in VerifyTransparentOk(c, g)
                /\ pc' = "send"
        BY <1>2, <2>3 DEF HandleTransparentSentinel, Refuse, RefuseEnd, Answer
      <3>2. /\ c \in SignerCtx
            /\ c.state = "VERIFIED" => ctx.state = "VERIFIED" /\ c.hash = ctx.hash
        BY <1>2, BegunAgrees
      <3>3. ctx' \in VerifyTransparentOk(c, g) => ctx'.state # "VERIFIED"
        BY <3>2, VerifyTransparentType
      <3> QED BY <1>2, <2>1, <3>1, <3>2, <3>3, TransparentAnswerRefines
    <2> QED BY <2>2, <2>3
  <1>3. ASSUME IInv, NEW i, NEW n, NEW t, HandleTransparentOutput(i, n, t)
        PROVE  Refines
    <2> DEFINE c == IF i = 0 /\ ctx.toutExp = 0 THEN [ctx EXCEPT !.toutExp = n] ELSE ctx
               d == [c EXCEPT !.touts = Append(c.touts, t)]
    <2>1. pc = "recv" /\ UNCHANGED <<approved, sig>>
      BY <1>3 DEF HandleTransparentOutput, Listening, jobVars
    <2>2. c.state = ctx.state /\ c.hash = ctx.hash /\ d.state = c.state
      BY <1>3 DEF IInv, TypeOK, SignerCtx
    <2>3. FeedItem(c, d, AcceptsTOut(c)) /\ AcceptsTOut(c) \in BOOLEAN
      BY <1>3 DEF HandleTransparentOutput, AcceptsTOut
    <2>4. pc' = "send" /\ (ctx' = c \/ (ctx' = d /\ c.state = "RECEIVING_TRANSPARENT"))
      <3> HIDE DEF c, d
      <3> QED BY <2>3, FeedItemOutcome DEF AcceptsTOut
    <2> HIDE DEF c, d
    <2> QED BY <1>3, <2>1, <2>2, <2>4, TransparentAnswerRefines
  <1> QED BY <1>1, <1>2, <1>3

LEMMA HwpFrameRefines ==
    ASSUME IInv, IInv', HwpFrame PROVE Refines
  <1>1. CASE \/ \E i, n \in 0..MaxItems + 1, t \in TItems : HandleTransparentInput(i, n, t)
             \/ \E i \in 0..MaxItems + 1, d \in Digests : HandleTransparentSentinel(i, d)
             \/ \E i, n \in 0..MaxItems + 1, t \in TItems : HandleTransparentOutput(i, n, t)
    BY <1>1, TransparentFrameRefines, SignerAssumption
  <1>2. CASE \/ \E code \in Codes : HandleStateless(code)
             \/ HandleAbort
             \/ \E k \in Coins \cup {0} : HandleFvkReq(k)
             \/ \E o \in Outputs : HandleTxAction(o)
             \/ HandleSentinelShort
    BY <1>2, OrchardFrameRefines
  <1>3. CASE \/ \E k \in Coins, d \in Digests, n \in 0..MaxActions + 1,
                  defect \in {"none", "sapling", "length"} :
                     HandleTxMeta([coin |-> k, digest |-> d], n, defect)
             \/ \E h \in Sighashes : HandleSentinel(h)
    BY <1>3, ReviewFrameRefines
  <1>4. CASE \E h \in Sighashes, hint \in Hints : HandleSignReq(h, hint)
    BY <1>4, SignReqRefines
  <1> QED BY <1>1, <1>2, <1>3, <1>4, TransparentSignReqRefines DEF HwpFrame

LEMMA EnvironmentRefines ==
    ASSUME IInv, Monitor \/ HostConnects \/ HostCloses \/ DeviceReady
    PROVE  Refines
  <1>1. CASE MonDisconnect
    BY <1>1, ResetRefines DEF MonDisconnect
  <1>2. CASE UNCHANGED hwpVars
    BY <1>2 DEF hwpVars, jobVars, sendVars, Refines, ReviewScreen, Authorised,
                BeingSigned, JustSigned
  <1> QED BY <1>1, <1>2 DEF Monitor, MonSample, MonConnect, MonGreet, MonSteady,
             HostConnects, HostCloses, DeviceReady

LEMMA StepRefines ==
    ASSUME IInv, IInv', [Next]_vars PROVE [TS!Next]_(TS!vars)
  <1>1. CASE UNCHANGED vars
    BY <1>1 DEF vars, hwpVars, jobVars, sendVars, ReviewScreen, Authorised,
                BeingSigned, JustSigned
  <1>2. CASE Next
    <2>1. Refines
      BY <1>2, HwpFrameRefines, HwpStepRefines, EnvironmentRefines DEF Next
    <2> QED BY <2>1 DEF Refines
  <1> QED BY <1>1, <1>2

\* The signing session implements the promise made to the user: whatever the
\* host sends, whenever it leaves and wherever the monitor resets, what is
\* signed was shown, approved press by press and authorised as approved.
THEOREM SessionImplementsTrustedSigner == Spec => ImplementsTrustedSigner
  <1>1. IInv /\ IInv' /\ [Next]_vars => [TS!Next]_(TS!vars)
    BY StepRefines
  <1> QED BY <1>1, MapInit, InitInv, NextInv, PTL
          DEF Spec, ImplementsTrustedSigner, TS!Spec

-----------------------------------------------------------------------------
(* What was proved of the promise holds of the session.                    *)

TSP == INSTANCE TrustedSignerProofs WITH
        Txs <- Sighash, screen <- ReviewScreen, authorised <- Authorised,
        pending <- BeingSigned, issued <- JustSigned

LEMMA SamePromise ==
    /\ TS!Init => TSP!Init
    /\ [TS!Next]_(TS!vars) => [TSP!Next]_(TSP!vars)
  <1>1. TS!Init => TSP!Init
    BY DEF TS!Init, TSP!Init
  <1>2. TS!vars = TSP!vars /\ TS!vars' = TSP!vars'
    BY DEF TSP!vars
  <1>3. TS!Next => TSP!Next
    BY DEF TS!OpenReview, TS!Approve, TS!Withdraw, TS!Begin, TS!Issue, TS!GiveUp,
           TS!Deliver, TS!Quiet, TS!MayAuthorise, TSP!Next, TSP!OpenReview,
           TSP!Approve, TSP!Withdraw, TSP!Begin, TSP!Issue, TSP!GiveUp,
           TSP!Deliver, TSP!Quiet, TSP!MayAuthorise
  <1> QED BY <1>1, <1>2, <1>3

\* At every moment, also inside a handler and whenever the monitor resets, what a
\* SIGN_REQ would sign, what is being signed and what has been signed have the
\* outputs approved in the latest review (main.c handle_tx_output, handle_sign_req).
THEOREM NothingElseAuthorised ==
    Spec => [](\A tx \in Authorised \cup BeingSigned \cup JustSigned : tx.acts = approved)
  <1>1. Spec => ImplementsTrustedSigner
    BY SessionImplementsTrustedSigner
  <1>2. TSP!Spec => []TSP!OnlyApproved
    BY TSP!PromiseKept
  <1>3. TSP!OnlyApproved
          => \A tx \in Authorised \cup BeingSigned \cup JustSigned : tx.acts = approved
    BY DEF TSP!OnlyApproved
  <1> QED BY <1>1, <1>2, <1>3, SamePromise, PTL
          DEF ImplementsTrustedSigner, TS!Spec, TSP!Spec
=============================================================================
