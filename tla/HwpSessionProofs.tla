-------------------------- MODULE HwpSessionProofs --------------------------
(* Proofs about HwpSession: IInv is inductive, so it is an invariant, and  *)
(* the safety properties follow from it.                                   *)
EXTENDS HwpSession, TLAPS

IInv == TypeOK /\ SessionInv

-----------------------------------------------------------------------------
(* What the signer operations return.                                      *)

LEMMA FreshType ==
    ASSUME NEW k \in Coins \cup {0}
    PROVE  /\ Fresh(k) \in SignerCtx
           /\ Fresh(k).state = "IDLE" /\ Fresh(k).acts = <<>> /\ ~Fresh(k).tverified
           /\ Fresh(k).confirmed = {}
  BY SignerAssumption DEF Fresh, SignerCtx, SignerStates, TxMeta, Sighash,
                          Digest, NoMeta, NoHash

LEMMA ResetsType ==
    ASSUME NEW c \in SignerCtx, NEW d \in Resets(c)
    PROVE  /\ d \in SignerCtx
           /\ d.state = "IDLE" /\ d.acts = <<>> /\ ~d.tverified /\ d.confirmed = {}
  <1>1. PICK k \in {0, c.coin} : d = Fresh(k)
    BY DEF Resets
  <1>2. k \in Coins \cup {0}
    BY DEF SignerCtx
  <1> QED BY <1>1, <1>2, FreshType

LEMMA FeedMetaType ==
    ASSUME NEW c \in SignerCtx, NEW m \in TxMeta, NEW n \in Nat, NEW e,
           NEW d \in FeedMetaOk(c, m, n, e)
    PROVE  /\ d \in SignerCtx
           /\ d.state = "RECEIVING_ACTIONS" /\ d.acts = <<>> /\ ~d.tverified
           /\ d.confirmed = {}
  <1>1. n <= MaxActions
    BY DEF FeedMetaOk
  <1>2. PICK k \in {c.coin, m.coin} :
            d = [Fresh(k) EXCEPT !.state = "RECEIVING_ACTIONS", !.meta = m,
                                 !.expected = n]
    BY DEF FeedMetaOk
  <1>3. k \in Coins \cup {0}
    BY DEF SignerCtx, TxMeta
  <1>4. n \in 0..MaxActions
    BY <1>1, SignerAssumption
  <1>5. Fresh(k) \in SignerCtx /\ Fresh(k).acts = <<>> /\ ~Fresh(k).tverified
        /\ Fresh(k).confirmed = {}
    BY <1>3, FreshType
  <1> QED BY <1>2, <1>4, <1>5 DEF SignerCtx, SignerStates

LEMMA AbsorbType ==
    ASSUME NEW c \in SignerCtx, NEW o \in Outputs
    PROVE  /\ AbsorbAction(c, o) \in SignerCtx
           /\ AbsorbAction(c, o) = [c EXCEPT !.acts = Append(c.acts, o)]
           /\ AbsorbAction(c, o).state = c.state
           /\ AbsorbAction(c, o).tverified = c.tverified
           /\ AbsorbAction(c, o).confirmed = c.confirmed
           /\ AbsorbAction(c, o).meta = c.meta
           /\ TransparentOf(AbsorbAction(c, o)) = TransparentOf(c)
  <1>1. Append(c.acts, o) \in Seq(Outputs)
    BY DEF SignerCtx
  <1>2. AbsorbAction(c, o) = [c EXCEPT !.acts = Append(c.acts, o)]
    BY DEF AbsorbAction
  <1> HIDE DEF AbsorbAction
  <1> QED BY <1>1, <1>2 DEF SignerCtx, TransparentOf

LEMMA ConfirmType ==
    ASSUME NEW c \in SignerCtx, NEW i \in Nat, NEW d \in ConfirmOk(c, i)
    PROVE  /\ i <= Len(c.acts)
           /\ d = [c EXCEPT !.confirmed = c.confirmed \cup {i}]
           /\ d \in SignerCtx
           /\ d.confirmed = c.confirmed \cup {i}
           /\ d.acts = c.acts /\ d.state = c.state /\ d.hash = c.hash
           /\ d.meta = c.meta /\ d.tverified = c.tverified
           /\ TransparentOf(d) = TransparentOf(c)
  <1>1. i <= Len(c.acts) /\ d = [c EXCEPT !.confirmed = c.confirmed \cup {i}]
    BY DEF ConfirmOk
  <1> QED BY <1>1 DEF SignerCtx, TransparentOf

LEMMA VerifyType ==
    ASSUME NEW c \in SignerCtx, NEW h \in Sighash, NEW d \in VerifyOk(c, h)
    PROVE  /\ d \in SignerCtx
           /\ d.state = "VERIFIED" /\ d.hash = SighashOf(d)
           /\ d.acts = c.acts /\ d.meta = c.meta /\ d.tverified = c.tverified
           /\ d.confirmed = c.confirmed
           /\ TransparentOf(d) = TransparentOf(c)
           /\ c.state # "RECEIVING_TRANSPARENT"
  <1>1. /\ d = [c EXCEPT !.state = "VERIFIED", !.hash = h]
        /\ SighashOf(c) = h /\ c.state \in {"RECEIVING_ACTIONS", "VERIFIED"}
    BY DEF VerifyOk
  <1> QED BY <1>1 DEF SignerCtx, SignerStates, SighashOf, TransparentOf

LEMMA BeginType ==
    ASSUME NEW c \in SignerCtx, NEW n \in Nat, NEW d \in BeginTransparentOk(c, n)
    PROVE  /\ d \in SignerCtx
           /\ d.state = "RECEIVING_TRANSPARENT"
           /\ d.acts = c.acts /\ d.confirmed = c.confirmed
  <1>1. d = [c EXCEPT !.state = "RECEIVING_TRANSPARENT", !.tverified = FALSE,
                    !.tinExp = n, !.toutExp = 0, !.tins = <<>>, !.touts = <<>>]
    BY DEF BeginTransparentOk
  <1>2. <<>> \in Seq(TItems) /\ 0 \in Nat /\ FALSE \in BOOLEAN
        /\ "RECEIVING_TRANSPARENT" \in SignerStates
    BY DEF SignerStates
  <1> QED BY <1>1, <1>2 DEF SignerCtx

LEMMA VerifyTransparentType ==
    ASSUME NEW c \in SignerCtx, NEW g, NEW d \in VerifyTransparentOk(c, g)
    PROVE  /\ d \in SignerCtx
           /\ d.state = "RECEIVING_ACTIONS"
           /\ d.acts = c.acts /\ d.confirmed = c.confirmed
           /\ TransparentOf(d) = d.meta.digest
  <1>1. /\ d = [c EXCEPT !.state = "RECEIVING_ACTIONS", !.tverified = TRUE]
        /\ TransparentOf(c) = c.meta.digest
    BY DEF VerifyTransparentOk, TransparentMatches
  <1> QED BY <1>1 DEF SignerCtx, SignerStates, TransparentOf

LEMMA BegunType ==
    ASSUME NEW c \in SignerCtx, NEW i, NEW n \in Nat, NEW d \in Begun(c, i, n)
    PROVE  /\ d \in SignerCtx
           /\ d.acts = c.acts /\ d.confirmed = c.confirmed
           /\ d = c \/ d.state = "RECEIVING_TRANSPARENT"
  BY BeginType DEF Begun

-----------------------------------------------------------------------------
(* IInv holds initially and is kept, one lemma per action of hwp_task that *)
(* changes more than its own answer, one for all the others.               *)

LEMMA InitInv == Init => IInv
  <1> SUFFICES ASSUME Init PROVE IInv
    OBVIOUS
  <1>1. ctx \in SignerCtx /\ ctx.state = "IDLE" /\ ~ctx.tverified
    BY FreshType DEF Init
  <1>2. NoHash \in Sighash
    BY DEF NoHash, Sighash, Digest
  <1>3. NoSig \in [kind : {"none", "orchard", "transparent"}, tx : Sighash,
                   input : HostInputs \cup {NoInput}, net : Coins \cup {0}]
    BY <1>2 DEF NoSig
  <1>4. /\ 0 \in 0..MaxDrops /\ <<>> \in Seq(Outputs)
        /\ NoReply \in [code : Codes \cup {"none"}, reset : BOOLEAN]
    BY SessionAssumption DEF NoReply
  <1>5. TypeOK
    BY <1>1, <1>2, <1>3, <1>4 DEF Init, TypeOK
  <1> QED BY <1>1, <1>5 DEF Init, IInv, SessionInv, VerifiedAgrees, ReviewAgrees,
                           TransparentAgrees, InFlight, NoSig

LEMMA SendReplyInv == IInv /\ SendReply => IInv'
  <1> SUFFICES ASSUME IInv, SendReply PROVE IInv'
    OBVIOUS
  <1> USE DEF IInv, SendReply, monVars, hostVars
  <1>1. ctx \in SignerCtx
    BY DEF TypeOK
  <1>2. \/ ctx' = ctx /\ ~reply.reset
        \/ ctx' \in SignerCtx /\ ctx'.state = "IDLE" /\ ~ctx'.tverified
    BY <1>1, ResetsType DEF TypeOK
  <1>3. TypeOK'
    BY <1>1, <1>2 DEF TypeOK, NoReply, NoSig, NoHash, Sighash, Digest
  <1>4. VerifiedAgrees'
    BY <1>2 DEF SessionInv, VerifiedAgrees
  <1>5. TransparentAgrees'
    BY <1>2 DEF SessionInv, TransparentAgrees
  <1> QED BY <1>3, <1>4, <1>5 DEF SessionInv, ReviewAgrees, InFlight

\* Handlers that only answer, or store a coin type, or take the next step
\* of a signature.
LEMMA AnswerInv ==
    ASSUME IInv, pc # "send", pc' = "send", reply' \in [code : Codes, reset : BOOLEAN],
           UNCHANGED <<ctx, jobVars, sig, ready, monVars, hostVars>>,
           pc = "await" => reply'.reset
    PROVE  IInv'
  <1> USE DEF IInv, jobVars, monVars, hostVars
  <1>1. TypeOK'
    BY DEF TypeOK
  <1>2. VerifiedAgrees' /\ ReviewAgrees' /\ TransparentAgrees'
    BY DEF SessionInv, VerifiedAgrees, ReviewAgrees, TransparentAgrees, SighashOf,
           TransparentOf
  <1>3. InFlight'
    BY DEF SessionInv, InFlight
  <1> QED BY <1>1, <1>2, <1>3 DEF SessionInv

LEMMA AbortInv == IInv /\ HandleAbort => IInv'
  <1> SUFFICES ASSUME IInv, HandleAbort PROVE IInv'
    OBVIOUS
  <1> USE DEF IInv, HandleAbort, Listening, jobVars, sendVars, monVars, hostVars
  <1>1. ctx' \in SignerCtx /\ ctx'.state = "IDLE" /\ ~ctx'.tverified
    BY ResetsType DEF TypeOK
  <1>2. TypeOK'
    BY <1>1 DEF TypeOK
  <1> QED BY <1>1, <1>2 DEF SessionInv, VerifiedAgrees, ReviewAgrees,
                           TransparentAgrees, InFlight

LEMMA FvkReqInv ==
    ASSUME IInv, NEW k \in Coins \cup {0}, HandleFvkReq(k) PROVE IInv'
  <1> USE DEF IInv, HandleFvkReq, Listening, jobVars, sendVars, monVars, hostVars
  <1>1. ctx \in SignerCtx
    BY DEF TypeOK
  <1>2. /\ ctx' \in SignerCtx
        /\ ctx'.state = ctx.state /\ ctx'.acts = ctx.acts /\ ctx'.hash = ctx.hash
        /\ ctx'.meta = ctx.meta /\ ctx'.tverified = ctx.tverified
        /\ TransparentOf(ctx') = TransparentOf(ctx)
    BY <1>1 DEF SignerCtx, TransparentOf
  <1>3. TypeOK'
    BY <1>2 DEF TypeOK
  <1> QED BY <1>2, <1>3 DEF SessionInv, VerifiedAgrees, ReviewAgrees,
                           TransparentAgrees, InFlight, SighashOf

LEMMA TxMetaInv ==
    ASSUME IInv, NEW m \in TxMeta, NEW n \in Nat, NEW e, HandleTxMeta(m, n, e)
    PROVE  IInv'
  <1> USE DEF IInv, Listening
  <1>1. CASE /\ ctx' \in FeedMetaOk(ctx, m, n, e)
             /\ approved' = <<>>
             /\ Answer("ACK", FALSE)
    <2>1. ctx' \in SignerCtx /\ ctx'.state = "RECEIVING_ACTIONS" /\ ~ctx'.tverified
      BY <1>1, FeedMetaType DEF TypeOK
    <2>2. TypeOK'
      BY <1>1, <2>1 DEF TypeOK, HandleTxMeta, Answer, Codes, monVars, hostVars
    <2> QED BY <1>1, <2>1, <2>2 DEF HandleTxMeta, Answer, SessionInv, VerifiedAgrees,
                 ReviewAgrees, TransparentAgrees, InFlight
  <1>2. CASE \E x \in FeedMetaErrors(ctx, m, n, e) :
                RefuseEnd(MetaCode(x)) /\ UNCHANGED <<ctx, approved>>
    BY <1>2, AnswerInv DEF HandleTxMeta, RefuseEnd, Answer, MetaCode, Codes, jobVars
  <1> QED BY <1>1, <1>2 DEF HandleTxMeta

LEMMA TxActionInv ==
    ASSUME IInv, NEW o \in Outputs, HandleTxAction(o) PROVE IInv'
  <1> USE DEF IInv, Listening
  <1>1. CASE AcceptsAction(ctx) /\ pc' = "hash" /\ note' = o /\ UNCHANGED reply
    <2>1. TypeOK'
      BY <1>1 DEF TypeOK, HandleTxAction, monVars, hostVars
    <2> QED BY <1>1, <2>1 DEF HandleTxAction, AcceptsAction, SessionInv, VerifiedAgrees,
                 ReviewAgrees, TransparentAgrees, InFlight
  <1>2. CASE \E code \in {"INVALID_STATE", "BAD_FRAME"} :
                RefuseEnd(code) /\ UNCHANGED note
    BY <1>2, AnswerInv DEF HandleTxAction, RefuseEnd, Answer, Codes, jobVars
  <1> QED BY <1>1, <1>2 DEF HandleTxAction

LEMMA NoteHashedInv == IInv /\ NoteHashed => IInv'
  <1> SUFFICES ASSUME IInv, NoteHashed PROVE IInv'
    OBVIOUS
  <1> USE DEF IInv
  <1>1. CASE ctx' = AbsorbAction(ctx, note) /\ Answer("ACK", FALSE)
    <2>1. note \in Outputs /\ ctx.state \in {"RECEIVING_ACTIONS", "IDLE"}
          /\ ctx \in SignerCtx
      BY DEF NoteHashed, SessionInv, InFlight, TypeOK
    <2>2. /\ ctx' \in SignerCtx /\ ctx'.state \in {"RECEIVING_ACTIONS", "IDLE"}
          /\ ctx'.tverified = ctx.tverified /\ ctx'.meta = ctx.meta
          /\ TransparentOf(ctx') = TransparentOf(ctx)
      BY <1>1, <2>1, AbsorbType
    <2>3. TypeOK'
      BY <1>1, <2>2 DEF TypeOK, NoteHashed, Answer, Codes, jobVars, monVars, hostVars
    <2> QED BY <1>1, <2>1, <2>2, <2>3 DEF NoteHashed, Answer, jobVars, SessionInv,
                 VerifiedAgrees, ReviewAgrees, TransparentAgrees, InFlight
  <1>2. CASE UNCHANGED ctx /\ \E code \in Codes : RefuseEnd(code)
    <2>1. pc' = "send" /\ reply' \in [code : Codes, reset : BOOLEAN]
      BY <1>2 DEF RefuseEnd, Answer
    <2> QED BY <1>2, <2>1, AnswerInv DEF NoteHashed
  <1>3. {"NOTE_COMMITMENT_MISMATCH", "BAD_FRAME"} \cup
            (IF AcceptsAction(ctx) THEN {} ELSE {"INVALID_STATE"}) \subseteq Codes
    BY DEF Codes
  <1> QED BY <1>1, <1>2, <1>3 DEF NoteHashed

-----------------------------------------------------------------------------
(* The review.                                                             *)

LEMMA ReviewFromInv ==
    ASSUME IInv, pc \in {"recv", "await"},
           NEW c \in SignerCtx, NEW done \in Seq(Outputs), NEW h \in Sighash,
           Len(done) <= Len(c.acts),
           \A i \in 1..Len(done) : done[i] = c.acts[i],
           c.state = "VERIFIED" => c.hash = SighashOf(c),
           c.tverified /\ c.state # "RECEIVING_TRANSPARENT" =>
               TransparentOf(c) = c.meta.digest,
           ReviewFrom(c, done, h), arg' = h,
           UNCHANGED <<net, note, sig, ready, monVars, hostVars>>
    PROVE  IInv'
  <1> USE DEF IInv
  <1>1. c.acts \in Seq(Outputs) /\ approved' = done
    BY DEF SignerCtx, ReviewFrom
  <1>2. sig' = NoSig
    BY DEF SessionInv, InFlight
  <1>3. CASE /\ Len(done) < Len(c.acts)
             /\ ctx' = c /\ pc' = "await"
             /\ shown' = c.acts[Len(done) + 1]
             /\ UNCHANGED reply
    <2>1. shown' \in Outputs
      BY <1>1, <1>3
    <2>2. TypeOK'
      BY <1>1, <1>3, <2>1 DEF TypeOK, monVars, hostVars
    <2>3. VerifiedAgrees' /\ ReviewAgrees' /\ TransparentAgrees'
      BY <1>1, <1>3, <2>1 DEF VerifiedAgrees, ReviewAgrees, TransparentAgrees
    <2>4. InFlight'
      BY <1>2, <1>3 DEF InFlight
    <2> QED BY <2>2, <2>3, <2>4 DEF SessionInv
  <1>4. CASE /\ Len(done) >= Len(c.acts)
             /\ shown' = NoOutput
             /\ VerifySentinel(c, h)
    <2>1. Len(done) = Len(c.acts)
      BY <1>1, <1>4
    <2>2. done = c.acts
      BY <1>1, <2>1
    <2>3. pc' = "send" /\ reply' \in [code : Codes, reset : BOOLEAN]
      <3>1. CASE Answer("ACK", FALSE)
        BY <3>1 DEF Answer, Codes
      <3>2. CASE Refuse("SIGHASH_MISMATCH")
        BY <3>2 DEF Refuse, Answer, Codes
      <3>3. CASE RefuseEnd("INVALID_STATE")
        BY <3>3 DEF RefuseEnd, Answer, Codes
      <3> QED BY <1>4, <3>1, <3>2, <3>3 DEF VerifySentinel
    <2>4. /\ ctx' \in SignerCtx /\ ctx'.acts = c.acts
          /\ ctx'.state = "VERIFIED" => ctx'.hash = SighashOf(ctx')
          /\ ctx'.tverified /\ ctx'.state # "RECEIVING_TRANSPARENT" =>
                TransparentOf(ctx') = ctx'.meta.digest
      <3>1. CASE ctx' \in VerifyOk(c, h)
        BY <3>1, VerifyType
      <3>2. CASE ctx' = c
        BY <3>2
      <3> QED BY <1>4, <3>1, <3>2 DEF VerifySentinel
    <2>5. TypeOK'
      BY <1>1, <1>4, <2>3, <2>4 DEF TypeOK, monVars, hostVars
    <2> QED BY <1>1, <1>2, <2>2, <2>3, <2>4, <2>5 DEF SessionInv, VerifiedAgrees,
                 ReviewAgrees, TransparentAgrees, InFlight
  <1>5. CASE /\ Len(done) < Len(c.acts)
             /\ ctx' = c /\ shown' = NoOutput
             /\ RefuseEnd("USER_CANCELLED")
    <2>1. pc' = "send" /\ reply' = [code |-> "USER_CANCELLED", reset |-> TRUE]
      BY <1>5 DEF RefuseEnd, Answer
    <2>2. TypeOK'
      BY <1>1, <1>5, <2>1 DEF TypeOK, Codes, monVars, hostVars
    <2>3. VerifiedAgrees' /\ ReviewAgrees' /\ TransparentAgrees'
      BY <1>5, <2>1 DEF VerifiedAgrees, ReviewAgrees, TransparentAgrees
    <2>4. InFlight'
      BY <1>2, <2>1 DEF InFlight
    <2> QED BY <2>2, <2>3, <2>4 DEF SessionInv
  <1> QED BY <1>3, <1>4, <1>5 DEF ReviewFrom

LEMMA SentinelInv ==
    ASSUME IInv, NEW h \in Sighashes, HandleSentinel(h) PROVE IInv'
  <1>1. ctx \in SignerCtx /\ h \in Sighash /\ <<>> \in Seq(Outputs)
        /\ Len(ctx.acts) \in Nat
    BY SessionAssumption DEF IInv, TypeOK, SignerCtx
  <1>2. ctx.state = "VERIFIED" => ctx.hash = SighashOf(ctx)
    BY DEF IInv, SessionInv, VerifiedAgrees
  <1>3. ctx.tverified /\ ctx.state # "RECEIVING_TRANSPARENT" =>
            TransparentOf(ctx) = ctx.meta.digest
    BY DEF IInv, SessionInv, TransparentAgrees
  <1>4. Len(<<>>) = 0 /\ Len(<<>>) <= Len(ctx.acts) /\ 1..0 = {}
    BY <1>1
  <1>5. /\ pc \in {"recv", "await"} /\ ReviewFrom(ctx, <<>>, h) /\ arg' = h
        /\ UNCHANGED <<net, note, sig, ready, monVars, hostVars>>
    BY DEF HandleSentinel, Listening
  <1> QED BY <1>1, <1>2, <1>3, <1>4, <1>5, ReviewFromInv

LEMMA ConfirmInv == IInv /\ ConfirmPressed => IInv'
  <1> SUFFICES ASSUME IInv, ConfirmPressed PROVE IInv'
    OBVIOUS
  <1> DEFINE i == Len(approved) + 1
             done == Append(approved, shown)
  <1>1. /\ ctx \in SignerCtx /\ approved \in Seq(Outputs) /\ shown \in Outputs
        /\ arg \in Sighash /\ ctx.acts \in Seq(Outputs)
    BY DEF IInv, TypeOK, SignerCtx, SessionInv, ReviewAgrees, ConfirmPressed
  <1>2. CASE \E c \in ConfirmOk(ctx, i) : ReviewFrom(c, done, arg)
    <2>1. PICK c \in ConfirmOk(ctx, i) : ReviewFrom(c, done, arg)
      BY <1>2
    <2>2. /\ i \in Nat /\ done \in Seq(Outputs) /\ Len(done) = i
          /\ done[i] = shown
          /\ \A j \in 1..Len(approved) : done[j] = approved[j]
      BY <1>1
    <2>3. /\ i <= Len(ctx.acts) /\ c \in SignerCtx
          /\ c.acts = ctx.acts /\ c.state = ctx.state /\ c.hash = ctx.hash
          /\ c.meta = ctx.meta /\ c.tverified = ctx.tverified
          /\ TransparentOf(c) = TransparentOf(ctx)
      BY <1>1, <2>1, <2>2, ConfirmType
    <2>4. ctx.acts # <<>>
      BY <1>1, <2>2, <2>3
    <2>5. /\ \A j \in 1..Len(approved) : approved[j] = ctx.acts[j]
          /\ shown = ctx.acts[i]
      BY <2>4 DEF IInv, SessionInv, ReviewAgrees, ConfirmPressed
    <2>6. \A j \in 1..Len(done) : done[j] = c.acts[j]
      <3> SUFFICES ASSUME NEW j \in 1..Len(done) PROVE done[j] = c.acts[j]
        OBVIOUS
      <3>1. CASE j = i
        BY <2>2, <2>3, <2>5, <3>1
      <3>2. CASE j # i
        <4>1. j \in 1..Len(approved)
          BY <1>1, <2>2, <3>2
        <4> QED BY <2>2, <2>3, <2>5, <4>1
      <3> QED BY <3>1, <3>2
    <2>7. c.state = "VERIFIED" => c.hash = SighashOf(c)
      BY <2>3 DEF IInv, SessionInv, VerifiedAgrees, SighashOf
    <2>8. c.tverified /\ c.state # "RECEIVING_TRANSPARENT" =>
              TransparentOf(c) = c.meta.digest
      BY <2>3 DEF IInv, SessionInv, TransparentAgrees
    <2>9. Len(done) <= Len(c.acts) /\ arg' = arg /\ pc = "await"
      BY <2>2, <2>3 DEF ConfirmPressed
    <2> HIDE DEF done
    <2> QED BY <1>1, <2>1, <2>2, <2>3, <2>6, <2>7, <2>8, <2>9, ReviewFromInv
            DEF ConfirmPressed
  <1>3. CASE /\ RefuseEnd("USER_CANCELLED")
             /\ UNCHANGED <<ctx, shown, approved>>
    BY <1>3, AnswerInv DEF ConfirmPressed, RefuseEnd, Answer, Codes, jobVars
  <1> QED BY <1>2, <1>3 DEF ConfirmPressed

-----------------------------------------------------------------------------
(* Signatures.                                                             *)

LEMMA SignReqInv ==
    ASSUME IInv, NEW h \in Sighashes, NEW hint, HandleSignReq(h, hint)
    PROVE  IInv'
  <1> USE DEF IInv, Listening
  <1>1. CASE \E code \in Codes, r \in BOOLEAN : Answer(code, r) /\ UNCHANGED <<arg, net>>
    BY <1>1, AnswerInv DEF HandleSignReq, Answer, jobVars
  <1>2. CASE pc' = "keys" /\ arg' = h /\ net' = CoinOr(ctx) /\ UNCHANGED reply
    <2>1. arg' \in Sighash /\ net' \in Coins \cup {0}
      BY <1>2, SessionAssumption DEF CoinOr, TypeOK, SignerCtx
    <2>2. TypeOK'
      BY <1>2, <2>1 DEF HandleSignReq, TypeOK, monVars, hostVars
    <2> QED BY <1>2, <2>2 DEF HandleSignReq, SessionInv, VerifiedAgrees, ReviewAgrees,
                 TransparentAgrees, InFlight
  <1>3. \/ \E code \in Codes, r \in BOOLEAN : Answer(code, r) /\ UNCHANGED <<arg, net>>
        \/ pc' = "keys" /\ arg' = h /\ net' = CoinOr(ctx) /\ UNCHANGED reply
    <2>1. /\ {"BAD_FRAME", "SIGHASH_MISMATCH", "INVALID_STATE"} \subseteq Codes
          /\ TRUE \in BOOLEAN /\ FALSE \in BOOLEAN
      BY DEF Codes
    <2> QED BY <2>1 DEF HandleSignReq, Refuse, RefuseEnd
  <1> QED BY <1>1, <1>2, <1>3

LEMMA SignRecheckInv == IInv /\ SignRecheck => IInv'
  <1> SUFFICES ASSUME IInv, SignRecheck PROVE IInv'
    OBVIOUS
  <1> USE DEF IInv
  <1>1. CASE MaySign(ctx, arg) /\ pc' = "sign" /\ UNCHANGED reply
    <2>1. ctx.state = "VERIFIED" /\ ctx.hash = arg /\ pc = "keys"
      BY <1>1 DEF MaySign, SignRecheck
    <2>2. arg.acts = approved
      BY <2>1 DEF SessionInv, VerifiedAgrees, SighashOf
    <2>3. TypeOK'
      BY <1>1 DEF SignRecheck, TypeOK, jobVars, monVars, hostVars
    <2> QED BY <1>1, <2>1, <2>2, <2>3 DEF SignRecheck, jobVars, SessionInv, VerifiedAgrees,
                 ReviewAgrees, TransparentAgrees, InFlight
  <1>2. CASE Refuse("SIGN_FAILED")
    BY <1>2, AnswerInv DEF SignRecheck, Refuse, Answer, Codes
  <1> QED BY <1>1, <1>2 DEF SignRecheck

LEMMA SignDoneInv == IInv /\ SignDone => IInv'
  <1> SUFFICES ASSUME IInv, SignDone PROVE IInv'
    OBVIOUS
  <1> USE DEF IInv
  <1>1. CASE /\ sig' = [kind |-> "orchard", tx |-> arg, input |-> NoInput, net |-> net]
             /\ Answer("SIGN_RSP", FALSE)
    <2>1. arg.acts = approved /\ pc = "sign"
      BY DEF SignDone, SessionInv, InFlight
    <2>2. sig' \in [kind : {"none", "orchard", "transparent"}, tx : Sighash,
                     input : HostInputs \cup {NoInput}, net : Coins \cup {0}] /\ sig'.tx = arg
      BY <1>1 DEF TypeOK
    <2>3. TypeOK'
      BY <1>1, <2>2 DEF SignDone, TypeOK, Answer, Codes, jobVars, monVars, hostVars
    <2> QED BY <1>1, <2>1, <2>2, <2>3 DEF SignDone, Answer, jobVars, SessionInv,
                 VerifiedAgrees, ReviewAgrees, TransparentAgrees, InFlight
  <1>2. CASE Refuse("SIGN_FAILED") /\ UNCHANGED sig
    BY <1>2, AnswerInv DEF SignDone, Refuse, Answer, Codes
  <1> QED BY <1>1, <1>2 DEF SignDone

LEMMA TransparentSignReqInv == IInv /\ HandleTransparentSignReq => IInv'
  <1> SUFFICES ASSUME IInv, HandleTransparentSignReq PROVE IInv'
    OBVIOUS
  <1> USE DEF IInv, Listening
  <1>1. CASE \E code \in {"INVALID_STATE", "SIGN_FAILED"} : Refuse(code) /\ UNCHANGED sig
    BY <1>1, AnswerInv DEF HandleTransparentSignReq, Refuse, Answer, Codes
  <1>2. CASE ctx.state = "VERIFIED" /\ \E input \in HostInputs : SignInput(input)
    <2> PICK input \in HostInputs : SignInput(input)
      BY <1>2
    <2>6. /\ sig' = [kind |-> "transparent", input |-> input, net |-> CoinOr(ctx),
                     tx |-> [digest |-> TransparentOf(ctx), acts |-> ctx.acts]]
          /\ Answer("TRANSPARENT_SIGN_RSP", FALSE)
      BY DEF SignInput
    <2>1. approved = ctx.acts /\ pc = "recv"
      BY <1>2 DEF HandleTransparentSignReq, SessionInv, VerifiedAgrees
    <2>2. [digest |-> TransparentOf(ctx), acts |-> ctx.acts] \in Sighash
      BY DEF TypeOK, SignerCtx, Sighash, Digest, TransparentOf
    <2>3. CoinOr(ctx) \in Coins \cup {0}
      BY SessionAssumption DEF CoinOr, TypeOK, SignerCtx
    <2>4. sig' \in [kind : {"none", "orchard", "transparent"}, tx : Sighash,
                     input : HostInputs \cup {NoInput}, net : Coins \cup {0}]
          /\ sig'.tx.acts = ctx.acts
      BY <2>2, <2>3, <2>6
    <2>5. TypeOK'
      BY <2>4, <2>6 DEF HandleTransparentSignReq, TypeOK, Answer, Codes, jobVars,
                        monVars, hostVars
    <2> QED BY <2>1, <2>4, <2>5, <2>6 DEF HandleTransparentSignReq, Answer, jobVars,
                 SessionInv, VerifiedAgrees, ReviewAgrees, TransparentAgrees, InFlight
  <1> QED BY <1>1, <1>2 DEF HandleTransparentSignReq

-----------------------------------------------------------------------------
(* The transparent part: every handler answers at once and leaves a well   *)
(* typed context that is not newly verified.                               *)

LEMMA TransparentStepInv ==
    ASSUME IInv, pc = "recv", pc' = "send",
           reply' \in [code : Codes, reset : BOOLEAN],
           UNCHANGED <<jobVars, sig, ready, monVars, hostVars>>,
           ctx' \in SignerCtx, ctx'.acts = ctx.acts,
           ctx'.state = "VERIFIED" =>
               ctx.state = "VERIFIED" /\ ctx'.hash = ctx.hash /\ ctx'.meta = ctx.meta,
           ctx'.tverified /\ ctx'.state # "RECEIVING_TRANSPARENT" =>
               TransparentOf(ctx') = ctx'.meta.digest
    PROVE  IInv'
  <1> USE DEF IInv, jobVars, monVars, hostVars
  <1>1. TypeOK'
    BY DEF TypeOK
  <1>2. VerifiedAgrees'
    BY DEF SessionInv, VerifiedAgrees, SighashOf
  <1>3. ReviewAgrees' /\ TransparentAgrees'
    BY DEF ReviewAgrees, TransparentAgrees
  <1>4. InFlight'
    BY DEF SessionInv, InFlight
  <1> QED BY <1>1, <1>2, <1>3, <1>4 DEF SessionInv

\* A context that Begun may hand to the handler satisfies what the step needs.
LEMMA BegunAgrees ==
    ASSUME IInv, NEW i, NEW n \in Nat, NEW c \in Begun(ctx, i, n)
    PROVE  /\ c \in SignerCtx /\ c.acts = ctx.acts
           /\ c.state = "VERIFIED" =>
                ctx.state = "VERIFIED" /\ c.hash = ctx.hash /\ c.meta = ctx.meta
           /\ c.tverified /\ c.state # "RECEIVING_TRANSPARENT" =>
                TransparentOf(c) = c.meta.digest
  <1>1. ctx \in SignerCtx
    BY DEF IInv, TypeOK
  <1>2. /\ c \in SignerCtx /\ c.acts = ctx.acts
        /\ c = ctx \/ c.state = "RECEIVING_TRANSPARENT"
    BY <1>1, BegunType
  <1> QED BY <1>2 DEF IInv, SessionInv, TransparentAgrees

LEMMA AnswerType ==
    ASSUME NEW code \in Codes, NEW r \in BOOLEAN, Answer(code, r)
    PROVE  pc' = "send" /\ reply' \in [code : Codes, reset : BOOLEAN]
  BY DEF Answer

LEMMA FeedItemOutcome ==
    ASSUME NEW c, NEW fed, NEW accepts \in BOOLEAN, FeedItem(c, fed, accepts)
    PROVE  /\ pc' = "send" /\ reply' \in [code : Codes, reset : BOOLEAN]
           /\ ctx' = c \/ (ctx' = fed /\ accepts)
  <1>1. CASE accepts /\ ctx' = fed /\ Answer("ACK", FALSE)
    BY <1>1 DEF Answer, Codes
  <1>2. CASE /\ ctx' = c
             /\ \E code \in {"BAD_FRAME"} \cup
                              (IF accepts THEN {} ELSE {"INVALID_STATE"}) : RefuseEnd(code)
    <2>1. PICK code \in Codes : RefuseEnd(code)
      BY <1>2 DEF Codes
    <2> QED BY <1>2, <2>1, AnswerType DEF RefuseEnd
  <1> QED BY <1>1, <1>2 DEF FeedItem

LEMMA TransparentInputInv ==
    ASSUME IInv, NEW i, NEW n \in Nat, NEW t \in TItems, HandleTransparentInput(i, n, t)
    PROVE  IInv'
  <1>1. CASE BeginRefused(i, n)
    BY <1>1, AnswerInv DEF HandleTransparentInput, BeginRefused, RefuseEnd, Answer,
                           Codes, Listening
  <1>2. CASE \E c \in Begun(ctx, i, n) :
                FeedItem(c, [c EXCEPT !.tins = Append(@, t)], AcceptsTIn(c))
    <2>1. PICK c \in Begun(ctx, i, n) :
                FeedItem(c, [c EXCEPT !.tins = Append(@, t)], AcceptsTIn(c))
      BY <1>2
    <2> DEFINE d == [c EXCEPT !.tins = Append(c.tins, t)]
    <2>2. c \in SignerCtx /\ Append(c.tins, t) \in Seq(TItems)
      BY BegunAgrees DEF SignerCtx
    <2>3. d \in SignerCtx /\ d.acts = c.acts /\ d.state = c.state
      BY <2>2 DEF SignerCtx
    <2>4. AcceptsTIn(c) \in BOOLEAN /\ FeedItem(c, d, AcceptsTIn(c))
      BY <2>1 DEF AcceptsTIn
    <2>5. /\ ctx' = c \/ (ctx' = d /\ c.state = "RECEIVING_TRANSPARENT")
          /\ pc' = "send" /\ reply' \in [code : Codes, reset : BOOLEAN]
      BY <2>4, FeedItemOutcome DEF AcceptsTIn
    <2> HIDE DEF d
    <2> QED BY <2>2, <2>3, <2>5, BegunAgrees, TransparentStepInv
            DEF HandleTransparentInput, Listening
  <1> QED BY <1>1, <1>2 DEF HandleTransparentInput

LEMMA TransparentSentinelInv ==
    ASSUME IInv, NEW i \in Nat, NEW g, HandleTransparentSentinel(i, g)
    PROVE  IInv'
  <1>1. CASE BeginRefused(i, i)
    BY <1>1, AnswerInv DEF HandleTransparentSentinel, BeginRefused, RefuseEnd, Answer,
                           Codes, Listening
  <1>2. CASE ~BeginRefused(i, i)
    <2>1. PICK c \in Begun(ctx, i, i) :
              /\ ctx' = c \/ ctx' \in VerifyTransparentOk(c, g)
              /\ pc' = "send" /\ reply' \in [code : Codes, reset : BOOLEAN]
      <3>1. /\ {"ACK", "TRANSPARENT_DIGEST_MISMATCH", "INVALID_STATE", "BAD_FRAME"}
                 \subseteq Codes
            /\ TRUE \in BOOLEAN /\ FALSE \in BOOLEAN
        BY DEF Codes
      <3>2. PICK c \in Begun(ctx, i, i) :
                /\ ctx' = c \/ ctx' \in VerifyTransparentOk(c, g)
                /\ \E code \in Codes, r \in BOOLEAN : Answer(code, r)
        BY <1>2, <3>1 DEF HandleTransparentSentinel, Refuse, RefuseEnd
      <3> QED BY <3>2, AnswerType
    <2>2. c \in SignerCtx
      BY BegunAgrees
    <2>3. CASE ctx' = c
      BY <2>1, <2>3, BegunAgrees, TransparentStepInv
         DEF HandleTransparentSentinel, Listening
    <2>4. CASE ctx' \in VerifyTransparentOk(c, g)
      <3>1. ctx' \in SignerCtx /\ ctx'.state = "RECEIVING_ACTIONS" /\ ctx'.acts = c.acts
            /\ TransparentOf(ctx') = ctx'.meta.digest
        BY <2>2, <2>4, VerifyTransparentType
      <3> QED BY <2>1, <3>1, BegunAgrees, TransparentStepInv
              DEF HandleTransparentSentinel, Listening
    <2> QED BY <2>1, <2>3, <2>4
  <1> QED BY <1>1, <1>2

LEMMA TransparentOutputInv ==
    ASSUME IInv, NEW i, NEW n \in Nat, NEW t \in TItems, HandleTransparentOutput(i, n, t)
    PROVE  IInv'
  <1> DEFINE c == IF i = 0 /\ ctx.toutExp = 0 THEN [ctx EXCEPT !.toutExp = n] ELSE ctx
             d == [c EXCEPT !.touts = Append(c.touts, t)]
  <1>1. ctx \in SignerCtx
    BY DEF IInv, TypeOK
  <1>2. /\ c \in SignerCtx /\ c.acts = ctx.acts /\ c.state = ctx.state
        /\ c.hash = ctx.hash /\ c.meta = ctx.meta /\ c.tverified = ctx.tverified
        /\ TransparentOf(c) = TransparentOf(ctx)
    BY <1>1 DEF SignerCtx, TransparentOf
  <1>3. FeedItem(c, d, AcceptsTOut(c))
    BY DEF HandleTransparentOutput
  <1> HIDE DEF c
  <1>4. Append(c.touts, t) \in Seq(TItems)
    BY <1>2 DEF SignerCtx
  <1>5. d \in SignerCtx /\ d.acts = c.acts /\ d.state = c.state
    BY <1>2, <1>4 DEF SignerCtx
  <1>6. AcceptsTOut(c) \in BOOLEAN
    BY DEF AcceptsTOut
  <1>7. /\ ctx' = c \/ (ctx' = d /\ c.state = "RECEIVING_TRANSPARENT")
        /\ pc' = "send" /\ reply' \in [code : Codes, reset : BOOLEAN]
    BY <1>3, <1>6, FeedItemOutcome DEF AcceptsTOut
  <1>8. /\ c.tverified /\ c.state # "RECEIVING_TRANSPARENT" =>
              TransparentOf(c) = c.meta.digest
    BY <1>2 DEF IInv, SessionInv, TransparentAgrees
  <1>9. pc = "recv" /\ UNCHANGED <<jobVars, sig, ready, monVars, hostVars>>
    BY DEF HandleTransparentOutput, Listening
  <1> HIDE DEF d
  <1> QED BY <1>2, <1>5, <1>7, <1>8, <1>9, TransparentStepInv

-----------------------------------------------------------------------------
(* The monitor resets the context under hwp_task wherever it waits; the    *)
(* host and the boot only move their own variables.                        *)

LEMMA MonDisconnectInv == IInv /\ MonDisconnect => IInv'
  <1> SUFFICES ASSUME IInv, MonDisconnect PROVE IInv'
    OBVIOUS
  <1> USE DEF IInv, MonDisconnect, jobVars, sendVars, hostVars
  <1>1. ctx' \in SignerCtx /\ ctx'.state = "IDLE" /\ ctx'.acts = <<>> /\ ~ctx'.tverified
    BY ResetsType DEF TypeOK
  <1>2. TypeOK'
    BY <1>1 DEF TypeOK
  <1> QED BY <1>1, <1>2 DEF SessionInv, VerifiedAgrees, ReviewAgrees,
                           TransparentAgrees, InFlight

LEMMA OthersInv ==
    ASSUME IInv, UNCHANGED hwpVars, ready' \in BOOLEAN,
           was' \in BOOLEAN, seen' \in BOOLEAN, mon' \in {"poll", "act", "greet"},
           connected' \in BOOLEAN, greeted' \in BOOLEAN, drops' \in 0..MaxDrops
    PROVE  IInv'
  <1> USE DEF IInv, hwpVars, jobVars, sendVars
  <1>1. TypeOK'
    BY DEF TypeOK
  <1>2. SessionInv'
    BY DEF SessionInv, VerifiedAgrees, ReviewAgrees, TransparentAgrees, InFlight,
           SighashOf, TransparentOf
  <1> QED BY <1>1, <1>2

LEMMA MonitorInv == IInv /\ Monitor => IInv'
  <1> SUFFICES ASSUME IInv, Monitor PROVE IInv'
    OBVIOUS
  <1>1. CASE MonDisconnect
    BY <1>1, MonDisconnectInv
  <1>2. CASE MonSample
    BY <1>2, OthersInv DEF MonSample, hostVars, IInv, TypeOK
  <1>3. CASE MonConnect
    BY <1>3, OthersInv DEF MonConnect, hostVars, IInv, TypeOK
  <1>4. CASE MonGreet
    BY <1>4, OthersInv DEF MonGreet, IInv, TypeOK
  <1>5. CASE MonSteady
    BY <1>5, OthersInv DEF MonSteady, hostVars, IInv, TypeOK
  <1> QED BY <1>1, <1>2, <1>3, <1>4, <1>5 DEF Monitor

LEMMA EnvironmentInv ==
    IInv /\ (HostConnects \/ HostCloses \/ DeviceReady) => IInv'
  <1> SUFFICES ASSUME IInv, HostConnects \/ HostCloses \/ DeviceReady PROVE IInv'
    OBVIOUS
  <1>1. CASE HostConnects
    BY <1>1, OthersInv DEF HostConnects, monVars, IInv, TypeOK
  <1>2. CASE HostCloses
    <2>1. drops' \in 0..MaxDrops
      BY <1>2, SessionAssumption DEF HostCloses, IInv, TypeOK
    <2> QED BY <1>2, <2>1, OthersInv DEF HostCloses, monVars, IInv, TypeOK
  <1>3. CASE DeviceReady
    BY <1>3, OthersInv DEF DeviceReady, monVars, hostVars, IInv, TypeOK
  <1> QED BY <1>1, <1>2, <1>3

LEMMA HwpStepInv == IInv /\ HwpStep => IInv'
  <1> SUFFICES ASSUME IInv, HwpStep PROVE IInv'
    OBVIOUS
  <1>1. CASE FvkDone
    <2>1. pc' = "send" /\ reply' \in [code : Codes, reset : BOOLEAN]
      BY <1>1 DEF FvkDone, Refuse, Answer, Codes
    <2> QED BY <1>1, <2>1, AnswerInv DEF FvkDone
  <1>2. CASE ReviewRefused
    BY <1>2, AnswerInv DEF ReviewRefused, RefuseEnd, Answer, Codes
  <1> QED BY <1>1, <1>2, NoteHashedInv, ConfirmInv, SignRecheckInv, SignDoneInv,
             SendReplyInv DEF HwpStep

LEMMA HwpFrameInv == IInv /\ HwpFrame => IInv'
  <1> SUFFICES ASSUME IInv, HwpFrame PROVE IInv'
    OBVIOUS
  <1>1. CASE \E code \in Codes : HandleStateless(code)
    BY <1>1, AnswerInv DEF HandleStateless, Refuse, Answer, Listening
  <1>2. CASE HandleSentinelShort
    BY <1>2, AnswerInv DEF HandleSentinelShort, RefuseEnd, Answer, Codes, Listening
  <1>3. CASE \E k \in Coins, d \in Digests, n \in 0..MaxActions + 1,
               defect \in {"none", "sapling", "length"} :
                  HandleTxMeta([coin |-> k, digest |-> d], n, defect)
    <2>1. \A k \in Coins, d \in Digests : [coin |-> k, digest |-> d] \in TxMeta
      BY SignerAssumption DEF TxMeta, Digest
    <2> QED BY <1>3, <2>1, TxMetaInv
  <1>4. CASE \E i, n \in 0..MaxItems + 1, t \in TItems : HandleTransparentInput(i, n, t)
    BY <1>4, TransparentInputInv
  <1>5. CASE \E i \in 0..MaxItems + 1, d \in Digests : HandleTransparentSentinel(i, d)
    BY <1>5, TransparentSentinelInv
  <1>6. CASE \E i, n \in 0..MaxItems + 1, t \in TItems : HandleTransparentOutput(i, n, t)
    BY <1>6, TransparentOutputInv
  <1> QED BY <1>1, <1>2, <1>3, <1>4, <1>5, <1>6, AbortInv, FvkReqInv, TxActionInv,
             SentinelInv, SignReqInv, TransparentSignReqInv DEF HwpFrame

LEMMA StutterInv == IInv /\ UNCHANGED vars => IInv'
  BY OthersInv DEF vars, monVars, hostVars, IInv, TypeOK

LEMMA NextInv == IInv /\ [Next]_vars => IInv'
  BY HwpStepInv, HwpFrameInv, MonitorInv, EnvironmentInv, StutterInv DEF Next

-----------------------------------------------------------------------------
\* The inductive invariant holds in every reachable state: the context, what
\* the user approved and what hwp_task carries across its waits agree, with
\* the monitor resetting signer_ctx at any of them.
THEOREM SessionInvariant == Spec => []SessionInv
  <1>1. IInv => SessionInv
    BY DEF IInv
  <1> QED BY <1>1, InitInv, NextInv, PTL DEF Spec

\* Every variable of the session keeps its type for any number of outputs,
\* actions, transparent items and coin types.
THEOREM TypeCorrect == Spec => []TypeOK
  <1>1. IInv => TypeOK
    BY DEF IInv
  <1> QED BY <1>1, InitInv, NextInv, PTL DEF Spec

\* No blind signing: whatever frames the host sends and whenever it leaves or
\* returns, the outputs of a signed transaction are exactly those approved on
\* the button in the latest review.
THEOREM NoBlindSigning == Spec => []SignedWasApproved
  <1>1. IInv => SignedWasApproved
    BY DEF IInv, SessionInv, InFlight, SignedWasApproved
  <1> QED BY <1>1, InitInv, NextInv, PTL DEF Spec

-----------------------------------------------------------------------------
(* The action properties, from the same invariant.                         *)

\* Only the handler of TRANSPARENT_SIGN_REQ makes a transparent signature.
LEMMA TransparentSigns ==
    ASSUME [Next]_vars, sig' # sig, sig'.kind = "transparent"
    PROVE  /\ pc = "recv" /\ ctx.tverified /\ ctx.state = "VERIFIED"
           /\ sig'.tx = [digest |-> TransparentOf(ctx), acts |-> ctx.acts]
           /\ sig'.net = CoinOr(ctx)
  <1> DEFINE Goal == /\ pc = "recv" /\ ctx.tverified /\ ctx.state = "VERIFIED"
                     /\ sig'.tx = [digest |-> TransparentOf(ctx), acts |-> ctx.acts]
                     /\ sig'.net = CoinOr(ctx)
  <1>1. CASE HandleTransparentSignReq
    <2>1. pc = "recv" /\ ctx.tverified /\ ctx.state = "VERIFIED"
      BY <1>1 DEF HandleTransparentSignReq, Listening
    <2>2. PICK input \in HostInputs : SignInput(input)
      BY <1>1 DEF HandleTransparentSignReq
    <2> QED BY <2>1, <2>2 DEF SignInput
  <1>2. CASE SignDone \/ SendReply
    <2>1. SignDone => UNCHANGED sig \/ sig' = [kind |-> "orchard", tx |-> arg,
                                              input |-> NoInput, net |-> net]
      BY DEF SignDone
    <2>2. SendReply => sig' = NoSig
      BY DEF SendReply
    <2>3. sig'.kind \in {"orchard", "none"}
      BY <1>2, <2>1, <2>2 DEF NoSig
    <2> QED BY <2>3
  <1>3. CASE HwpFrame /\ ~HandleTransparentSignReq
    <2>1. /\ \A code : HandleStateless(code) => UNCHANGED sig
          /\ HandleAbort => UNCHANGED sig
          /\ HandleSentinelShort => UNCHANGED sig
          /\ \A k : HandleFvkReq(k) => UNCHANGED sig
      BY DEF HandleStateless, HandleAbort, HandleSentinelShort, HandleFvkReq, sendVars
    <2>2. /\ \A m, n, e : HandleTxMeta(m, n, e) => UNCHANGED sig
          /\ \A o : HandleTxAction(o) => UNCHANGED sig
          /\ \A h : HandleSentinel(h) => UNCHANGED sig
          /\ \A h, o : HandleSignReq(h, o) => UNCHANGED sig
      BY DEF HandleTxMeta, HandleTxAction, HandleSentinel, HandleSignReq
    <2>3. /\ \A i, n, t : HandleTransparentInput(i, n, t) => UNCHANGED sig
          /\ \A i, d : HandleTransparentSentinel(i, d) => UNCHANGED sig
          /\ \A i, n, t : HandleTransparentOutput(i, n, t) => UNCHANGED sig
      BY DEF HandleTransparentInput, HandleTransparentSentinel, HandleTransparentOutput
    <2> QED BY <1>3, <2>1, <2>2, <2>3 DEF HwpFrame
  <1>4. CASE HwpStep /\ ~SignDone /\ ~SendReply
    BY <1>4 DEF HwpStep, FvkDone, NoteHashed, ConfirmPressed, ReviewRefused, SignRecheck
  <1>5. CASE Monitor \/ HostConnects \/ HostCloses \/ DeviceReady \/ UNCHANGED vars
    BY <1>5 DEF Monitor, MonSample, MonConnect, MonGreet, MonDisconnect, MonSteady,
                HostConnects, HostCloses, DeviceReady, hwpVars, sendVars, vars
  <1> QED BY <1>1, <1>2, <1>3, <1>4, <1>5 DEF Next

\* Whatever was refused, fed again or begun anew after the verification, the
\* transparent part and the actions hashed into a signature of a transparent
\* input are those of the verified sighash.  Nothing is said of the input itself,
\* which the host names.
THEOREM TransparentSigning == Spec => TransparentSignedWasVerified
  <1> DEFINE P == sig' # sig /\ sig'.kind = "transparent" => sig'.tx = ctx.hash
  <1>1. IInv /\ [Next]_vars => P
    <2> SUFFICES ASSUME IInv, [Next]_vars, sig' # sig, sig'.kind = "transparent"
                 PROVE  sig'.tx = ctx.hash
      OBVIOUS
    <2>1. /\ ctx.tverified /\ ctx.state = "VERIFIED"
          /\ sig'.tx = [digest |-> TransparentOf(ctx), acts |-> ctx.acts]
      BY TransparentSigns
    <2>2. ctx.hash = SighashOf(ctx) /\ TransparentOf(ctx) = ctx.meta.digest
      BY <2>1 DEF IInv, SessionInv, VerifiedAgrees, TransparentAgrees
    <2> QED BY <2>1, <2>2 DEF SighashOf
  <1> QED BY <1>1, InitInv, NextInv, PTL DEF Spec, TransparentSignedWasVerified

\* No step but the review adds a confirmation.
LEMMA OnlyReviewConfirms ==
    ASSUME IInv, Next, ~ConfirmPressed
    PROVE  ctx'.confirmed \subseteq ctx.confirmed
  <1>1. ctx \in SignerCtx /\ (pc = "hash" => note \in Outputs) /\ arg \in Sighash
    BY DEF IInv, TypeOK, SessionInv, InFlight
  <1>2. CASE ctx' \in Resets(ctx)
    BY <1>1, <1>2, ResetsType
  <1>3. CASE \E k \in Coins \cup {0} : HandleFvkReq(k)
    BY <1>1, <1>3 DEF HandleFvkReq, SignerCtx
  <1>4. CASE \E k \in Coins, d \in Digests, n \in 0..MaxActions + 1,
               defect \in {"none", "sapling", "length"} :
                  HandleTxMeta([coin |-> k, digest |-> d], n, defect)
    <2>1. \A k \in Coins, d \in Digests : [coin |-> k, digest |-> d] \in TxMeta
      BY SignerAssumption DEF TxMeta, Digest
    <2>2. PICK m \in TxMeta, n \in Nat, e \in {"none", "sapling", "length"} :
               HandleTxMeta(m, n, e)
      BY <1>4, <2>1
    <2>3. ctx' \in FeedMetaOk(ctx, m, n, e) \/ UNCHANGED ctx
      BY <2>2 DEF HandleTxMeta
    <2> QED BY <1>1, <2>3, FeedMetaType
  <1>5. CASE NoteHashed
    BY <1>1, <1>5, AbsorbType DEF NoteHashed
  <1>6. CASE \E h \in Sighashes : HandleSentinel(h)
    BY <1>1, <1>6, VerifyType, SessionAssumption
       DEF HandleSentinel, ReviewFrom, VerifySentinel
  <1>7. CASE \E i, n \in 0..MaxItems + 1, t \in TItems : HandleTransparentInput(i, n, t)
    <2>1. PICK i \in 0..MaxItems + 1, n \in 0..MaxItems + 1, t \in TItems :
               HandleTransparentInput(i, n, t)
      BY <1>7
    <2>2. CASE UNCHANGED ctx
      BY <2>2
    <2>3. CASE \E c \in Begun(ctx, i, n) :
                  ctx' \in {c, [c EXCEPT !.tins = Append(@, t)]}
      <3>1. PICK c \in Begun(ctx, i, n) : ctx' \in {c, [c EXCEPT !.tins = Append(@, t)]}
        BY <2>3
      <3>2. c \in SignerCtx /\ c.confirmed = ctx.confirmed
        BY <1>1, BegunType
      <3> QED BY <3>1, <3>2 DEF SignerCtx
    <2> QED BY <2>1, <2>2, <2>3 DEF HandleTransparentInput, BeginRefused, FeedItem
  <1>8. CASE \E i \in 0..MaxItems + 1, d \in Digests : HandleTransparentSentinel(i, d)
    <2>1. PICK i \in Nat, d \in Digests : HandleTransparentSentinel(i, d)
      BY <1>8
    <2>2. \/ UNCHANGED ctx
          \/ \E c \in Begun(ctx, i, i) : ctx' = c \/ ctx' \in VerifyTransparentOk(c, d)
      BY <2>1 DEF HandleTransparentSentinel, BeginRefused
    <2>3. ASSUME NEW c \in Begun(ctx, i, i)
          PROVE  c \in SignerCtx /\ c.confirmed = ctx.confirmed
      BY <1>1, BegunType
    <2> QED BY <2>2, <2>3, VerifyTransparentType
  <1>9. CASE \E i, n \in 0..MaxItems + 1, t \in TItems : HandleTransparentOutput(i, n, t)
    BY <1>1, <1>9 DEF HandleTransparentOutput, FeedItem, SignerCtx
  <1>10. CASE UNCHANGED ctx
    BY <1>10
  <1>11. CASE HwpFrame
    BY <1>11, <1>2, <1>3, <1>4, <1>6, <1>7, <1>8, <1>9, <1>10
       DEF HwpFrame, HandleStateless, HandleAbort, HandleTxAction,
           HandleSentinelShort, HandleSignReq, HandleTransparentSignReq
  <1>12. CASE HwpStep
    BY <1>12, <1>2, <1>5, <1>10 DEF HwpStep, FvkDone, ReviewRefused, SignRecheck, SignDone,
                                    SendReply
  <1>13. CASE Monitor \/ HostConnects \/ HostCloses \/ DeviceReady
    BY <1>13, <1>2, <1>10 DEF Monitor, MonSample, MonConnect, MonGreet, MonDisconnect,
                  MonSteady, HostConnects, HostCloses, DeviceReady, hwpVars
  <1> QED BY <1>11, <1>12, <1>13 DEF Next

\* A press confirms the output that was on display when it was made.
THEOREM ConfirmedWasShown == Spec => ConfirmsWhatIsShown
  <1> DEFINE P == \A i \in ctx'.confirmed \ ctx.confirmed :
                     i \in DOMAIN ctx.acts /\ ctx.acts[i] = shown
  <1>1. IInv /\ [Next]_vars => (P \/ UNCHANGED vars)
    <2> SUFFICES ASSUME IInv, Next, NEW i \in ctx'.confirmed \ ctx.confirmed
                 PROVE  i \in DOMAIN ctx.acts /\ ctx.acts[i] = shown
      OBVIOUS
    <2>1. ConfirmPressed
      BY OnlyReviewConfirms
    <2> DEFINE k == Len(approved) + 1
    <2>2. /\ ctx \in SignerCtx /\ arg \in Sighash /\ k \in Nat \ {0}
          /\ ctx.acts \in Seq(Outputs)
      BY DEF IInv, TypeOK, SignerCtx
    <2>3. PICK c \in ConfirmOk(ctx, k) : ReviewFrom(c, Append(approved, shown), arg)
      BY <2>1 DEF ConfirmPressed
    <2>4. /\ k <= Len(ctx.acts) /\ c \in SignerCtx
          /\ c.confirmed = ctx.confirmed \cup {k}
      BY <2>2, <2>3, ConfirmType
    <2>5. ctx'.confirmed = c.confirmed
      BY <2>2, <2>3, <2>4, VerifyType DEF ReviewFrom, VerifySentinel
    <2>6. i = k
      BY <2>4, <2>5
    <2>7. ctx.acts # <<>>
      BY <2>2, <2>4
    <2>8. ctx.acts[k] = shown
      BY <2>1, <2>7 DEF IInv, SessionInv, ReviewAgrees, ConfirmPressed
    <2> QED BY <2>2, <2>4, <2>6, <2>8
  <1> QED BY <1>1, InitInv, NextInv, PTL DEF Spec, ConfirmsWhatIsShown

-----------------------------------------------------------------------------
(* The coin type.  A run finds that a signature may be begun for another   *)
(* network than its TxMeta's.  The two hypotheses say of the host what the *)
(* device does not test: an FVK_REQ has named a network before the TxMeta  *)
(* comes (without one, a coin type of 0 stands for the default network),   *)
(* and one in the middle of a session names the same network again.  Then  *)
(* no interleaving of frames, reviews and resets signs for another.        *)

FvkFirst ==
    [][ctx.state = "IDLE" /\ ctx'.state # "IDLE" => ctx.coin # 0]_vars

FvkCoinAgrees ==
    [][pc = "recv" /\ pc' = "derive" /\ ctx.state # "IDLE"
          => ctx'.coin = ctx.meta.coin]_vars

CoinInv == ctx.state # "IDLE" => ctx.coin = ctx.meta.coin /\ ctx.coin # 0

\* Every signature, of the actions or of a transparent input, is begun with the
\* key of the network of the TxMeta it belongs to (main.c 495, 658).
SignsForTheMetaNetwork ==
    [][/\ pc = "recv" /\ pc' = "keys" => net' = ctx.meta.coin
       /\ sig' # sig /\ sig'.kind = "transparent" => sig'.net = ctx.meta.coin]_vars

\* What d keeps of a session c.
SameNet(d, c) ==
    /\ d.coin = c.coin /\ d.meta = c.meta
    /\ c.state = "IDLE" => d.state = "IDLE"

LEMMA SignerKeepsNet ==
    ASSUME NEW c \in SignerCtx
    PROVE  /\ \A o \in Outputs : SameNet(AbsorbAction(c, o), c)
           /\ \A i \in Nat : \A d \in ConfirmOk(c, i) : SameNet(d, c)
           /\ \A h \in Sighash : \A d \in VerifyOk(c, h) : SameNet(d, c)
           /\ \A i, n \in Nat : \A d \in Begun(c, i, n) : SameNet(d, c)
           /\ \A g \in Digests : \A d \in VerifyTransparentOk(c, g) : SameNet(d, c)
  <1> USE DEF SameNet, SignerCtx
  <1>1. \A o \in Outputs : SameNet(AbsorbAction(c, o), c)
    BY DEF AbsorbAction
  <1>2. \A i \in Nat : \A d \in ConfirmOk(c, i) : SameNet(d, c)
    BY DEF ConfirmOk
  <1>3. \A h \in Sighash : \A d \in VerifyOk(c, h) : SameNet(d, c)
    BY DEF VerifyOk
  <1>4. \A i, n \in Nat : \A d \in Begun(c, i, n) : SameNet(d, c)
    BY DEF Begun, BeginTransparentOk
  <1>5. \A g \in Digests : \A d \in VerifyTransparentOk(c, g) : SameNet(d, c)
    BY DEF VerifyTransparentOk
  <1> QED BY <1>1, <1>2, <1>3, <1>4, <1>5

LEMMA SameNetKeeps ==
    ASSUME CoinInv, SameNet(ctx', ctx) PROVE CoinInv'
  BY DEF CoinInv, SameNet

\* A TxMeta is taken only for the coin type in the context, if there is one.
LEMMA FeedMetaNet ==
    ASSUME NEW c \in SignerCtx, NEW m \in TxMeta, NEW n \in Nat, NEW e,
           NEW d \in FeedMetaOk(c, m, n, e), c.coin # 0
    PROVE  d.coin = d.meta.coin /\ d.coin # 0
  BY DEF FeedMetaOk, Fresh

LEMMA ReviewKeepsNet ==
    ASSUME NEW c \in SignerCtx, NEW done, NEW h \in Sighash, ReviewFrom(c, done, h)
    PROVE  SameNet(ctx', c)
  <1>1. ctx' = c \/ ctx' \in VerifyOk(c, h)
    BY DEF ReviewFrom, VerifySentinel
  <1> QED BY <1>1, SignerKeepsNet DEF SameNet

LEMMA TransparentKeepsNet ==
    ASSUME IInv,
           \/ \E i, n \in 0..MaxItems + 1, t \in TItems : HandleTransparentInput(i, n, t)
           \/ \E i \in 0..MaxItems + 1, d \in Digests : HandleTransparentSentinel(i, d)
           \/ \E i, n \in 0..MaxItems + 1, t \in TItems : HandleTransparentOutput(i, n, t)
    PROVE  SameNet(ctx', ctx)
  <1>1. ctx \in SignerCtx /\ 0..MaxItems + 1 \subseteq Nat
    BY SignerAssumption DEF IInv, TypeOK
  <1>2. ASSUME NEW c, SameNet(c, ctx), NEW d, SameNet(d, c) PROVE SameNet(d, ctx)
    BY <1>2 DEF SameNet
  <1>3. CASE UNCHANGED ctx
    BY <1>3 DEF SameNet
  <1>4. ASSUME NEW i \in Nat, NEW n \in Nat, NEW t \in TItems,
               HandleTransparentInput(i, n, t)
        PROVE  SameNet(ctx', ctx)
    <2>1. CASE \E c \in Begun(ctx, i, n) :
                  ctx' \in {c, [c EXCEPT !.tins = Append(@, t)]}
      <3>1. PICK c \in Begun(ctx, i, n) : ctx' \in {c, [c EXCEPT !.tins = Append(@, t)]}
        BY <2>1
      <3>2. c \in SignerCtx /\ SameNet(c, ctx)
        BY <1>1, BegunType, SignerKeepsNet
      <3>3. SameNet([c EXCEPT !.tins = Append(@, t)], c) /\ SameNet(c, c)
        BY <3>2 DEF SameNet, SignerCtx
      <3>4. SameNet(ctx', c)
        BY <3>1, <3>3
      <3> QED BY <1>2, <3>2, <3>4
    <2> QED BY <1>3, <1>4, <2>1 DEF HandleTransparentInput, BeginRefused, FeedItem
  <1>5. ASSUME NEW i \in Nat, NEW d \in Digests, HandleTransparentSentinel(i, d)
        PROVE  SameNet(ctx', ctx)
    <2>1. CASE \E c \in Begun(ctx, i, i) : ctx' = c \/ ctx' \in VerifyTransparentOk(c, d)
      <3>1. PICK c \in Begun(ctx, i, i) : ctx' = c \/ ctx' \in VerifyTransparentOk(c, d)
        BY <2>1
      <3>2. c \in SignerCtx /\ SameNet(c, ctx)
        BY <1>1, BegunType, SignerKeepsNet
      <3>3. SameNet(ctx', c)
        BY <3>1, <3>2, SignerKeepsNet DEF SameNet
      <3> QED BY <1>2, <3>2, <3>3
    <2>2. \/ UNCHANGED ctx
          \/ \E c \in Begun(ctx, i, i) : ctx' = c \/ ctx' \in VerifyTransparentOk(c, d)
      BY <1>5 DEF HandleTransparentSentinel, BeginRefused
    <2> QED BY <1>3, <2>1, <2>2
  <1>6. ASSUME NEW i \in Nat, NEW n \in Nat, NEW t \in TItems,
               HandleTransparentOutput(i, n, t)
        PROVE  SameNet(ctx', ctx)
    <2> DEFINE c == IF i = 0 /\ ctx.toutExp = 0 THEN [ctx EXCEPT !.toutExp = n] ELSE ctx
    <2>1. ctx' = c \/ ctx' = [c EXCEPT !.touts = Append(@, t)]
      BY <1>6 DEF HandleTransparentOutput, FeedItem
    <2>2. c \in SignerCtx /\ SameNet(c, ctx)
      BY <1>1 DEF SignerCtx, SameNet
    <2> HIDE DEF c
    <2>3. SameNet([c EXCEPT !.touts = Append(@, t)], c) /\ SameNet(c, c)
      BY <2>2 DEF SameNet, SignerCtx
    <2>4. SameNet(ctx', c)
      BY <2>1, <2>3
    <2> QED BY <1>2, <2>2, <2>4
  <1> QED BY <1>1, <1>4, <1>5, <1>6

LEMMA CoinNext ==
    ASSUME IInv, CoinInv, [Next]_vars,
           ctx.state = "IDLE" /\ ctx'.state # "IDLE" => ctx.coin # 0,
           pc = "recv" /\ pc' = "derive" /\ ctx.state # "IDLE"
              => ctx'.coin = ctx.meta.coin
    PROVE  CoinInv'
  <1>1. ctx \in SignerCtx /\ (pc = "hash" => note \in Outputs) /\ arg \in Sighash
        /\ approved \in Seq(Outputs) /\ Len(approved) + 1 \in Nat
    BY DEF IInv, TypeOK, SessionInv, InFlight
  <1>2. CASE ctx' \in Resets(ctx)
    BY <1>1, <1>2, ResetsType DEF CoinInv
  <1>3. CASE UNCHANGED ctx
    BY <1>3 DEF CoinInv
  <1>4. CASE \E k \in Coins \cup {0} : HandleFvkReq(k)
    <2>1. /\ pc = "recv" /\ pc' = "derive" /\ ctx'.state = ctx.state
          /\ ctx'.meta = ctx.meta
      BY <1>1, <1>4 DEF HandleFvkReq, Listening, SignerCtx
    <2> QED BY <2>1 DEF CoinInv
  <1>5. CASE \E k \in Coins, d \in Digests, n \in 0..MaxActions + 1,
               defect \in {"none", "sapling", "length"} :
                  HandleTxMeta([coin |-> k, digest |-> d], n, defect)
    <2>1. \A k \in Coins, d \in Digests : [coin |-> k, digest |-> d] \in TxMeta
      BY SignerAssumption DEF TxMeta, Digest
    <2>2. PICK m \in TxMeta, n \in Nat, e \in {"none", "sapling", "length"} :
               HandleTxMeta(m, n, e)
      BY <1>5, <2>1, SignerAssumption
    <2>3. ctx' \in FeedMetaOk(ctx, m, n, e) \/ UNCHANGED ctx
      BY <2>2 DEF HandleTxMeta
    <2>4. ASSUME ctx' \in FeedMetaOk(ctx, m, n, e) PROVE CoinInv'
      <3>1. ctx'.state # "IDLE" => ctx.coin # 0
        BY DEF CoinInv
      <3> QED BY <1>1, <2>4, <3>1, FeedMetaNet DEF CoinInv
    <2> QED BY <1>3, <2>3, <2>4
  <1>6. CASE NoteHashed
    BY <1>1, <1>3, <1>6, SignerKeepsNet, SameNetKeeps DEF NoteHashed
  <1>7. CASE \E h \in Sighashes : HandleSentinel(h)
    BY <1>1, <1>7, ReviewKeepsNet, SameNetKeeps, SessionAssumption DEF HandleSentinel
  <1>8. CASE ConfirmPressed
    <2>1. CASE \E c \in ConfirmOk(ctx, Len(approved) + 1) :
                  ReviewFrom(c, Append(approved, shown), arg)
      <3>1. PICK c \in ConfirmOk(ctx, Len(approved) + 1) :
                  ReviewFrom(c, Append(approved, shown), arg)
        BY <2>1
      <3>2. c \in SignerCtx /\ SameNet(c, ctx)
        BY <1>1, <3>1, ConfirmType, SignerKeepsNet
      <3>3. SameNet(ctx', c)
        BY <1>1, <3>1, <3>2, ReviewKeepsNet
      <3> QED BY <3>2, <3>3, SameNetKeeps DEF SameNet
    <2> QED BY <1>3, <1>8, <2>1 DEF ConfirmPressed
  <1>9. CASE \/ \E i, n \in 0..MaxItems + 1, t \in TItems : HandleTransparentInput(i, n, t)
             \/ \E i \in 0..MaxItems + 1, d \in Digests : HandleTransparentSentinel(i, d)
             \/ \E i, n \in 0..MaxItems + 1, t \in TItems : HandleTransparentOutput(i, n, t)
    BY <1>9, TransparentKeepsNet, SameNetKeeps
  <1>10. CASE HwpFrame
    BY <1>10, <1>2, <1>3, <1>4, <1>5, <1>7, <1>9
       DEF HwpFrame, HandleStateless, HandleAbort, HandleTxAction,
           HandleSentinelShort, HandleSignReq, HandleTransparentSignReq
  <1>11. CASE HwpStep
    BY <1>11, <1>2, <1>3, <1>6, <1>8
       DEF HwpStep, FvkDone, ReviewRefused, SignRecheck, SignDone, SendReply
  <1>12. CASE Monitor \/ HostConnects \/ HostCloses \/ DeviceReady \/ UNCHANGED vars
    BY <1>12, <1>2, <1>3
       DEF Monitor, MonSample, MonConnect, MonGreet, MonDisconnect, MonSteady,
           HostConnects, HostCloses, DeviceReady, hwpVars, vars
  <1> QED BY <1>10, <1>11, <1>12 DEF Next

\* Only a SIGN_REQ begins a signature.
LEMMA SigningBegins ==
    ASSUME [Next]_vars, pc = "recv", pc' = "keys"
    PROVE  ctx.state = "VERIFIED" /\ net' = CoinOr(ctx)
  <1>1. CASE HwpFrame
    BY <1>1 DEF HwpFrame, HandleStateless, HandleAbort, HandleFvkReq, HandleTxMeta,
        HandleTxAction, HandleSentinel, HandleSentinelShort, HandleSignReq,
        HandleTransparentInput, HandleTransparentSentinel, HandleTransparentOutput,
        HandleTransparentSignReq, SignInput, Answer, Refuse, RefuseEnd, ReviewFrom, VerifySentinel,
        FeedItem, BeginRefused, MaySign
  <1>2. CASE HwpStep
    BY <1>2 DEF HwpStep, FvkDone, NoteHashed, ConfirmPressed, ReviewRefused, SignRecheck,
        SignDone, SendReply
  <1>3. CASE Monitor \/ HostConnects \/ HostCloses \/ DeviceReady \/ UNCHANGED vars
    BY <1>3 DEF Monitor, MonSample, MonConnect, MonGreet, MonDisconnect, MonSteady,
        HostConnects, HostCloses, DeviceReady, hwpVars, vars
  <1> QED BY <1>1, <1>2, <1>3 DEF Next

\* If an FVK_REQ names a network before every TxMeta and those within the session
\* repeat it, every signature is by a key of the network of its TxMeta (main.c 230,
\* README error 0x05): the missing tests of the coin type are the whole of the
\* disagreement.
THEOREM OneNetworkPerSession ==
    Spec /\ FvkFirst /\ FvkCoinAgrees => SignsForTheMetaNetwork
  <1> DEFINE First  == ctx.state = "IDLE" /\ ctx'.state # "IDLE" => ctx.coin # 0
             Steady == pc = "recv" /\ pc' = "derive" /\ ctx.state # "IDLE"
                          => ctx'.coin = ctx.meta.coin
             Signs  == /\ pc = "recv" /\ pc' = "keys" => net' = ctx.meta.coin
                       /\ sig' # sig /\ sig'.kind = "transparent"
                             => sig'.net = ctx.meta.coin
  <1>1. Init => CoinInv
    BY DEF Init, Fresh, CoinInv
  <1>2. IInv /\ CoinInv /\ [Next]_vars /\ [First]_vars /\ [Steady]_vars => CoinInv'
    <2>1. UNCHANGED vars => First /\ Steady
      BY DEF vars, hwpVars
    <2> QED BY <2>1, CoinNext
  <1>3. IInv /\ CoinInv /\ [Next]_vars => [Signs]_vars
    <2> SUFFICES ASSUME IInv, CoinInv, [Next]_vars PROVE Signs
      OBVIOUS
    <2>1. ctx.state = "VERIFIED" => CoinOr(ctx) = ctx.meta.coin
      BY DEF CoinInv, CoinOr
    <2>2. pc = "recv" /\ pc' = "keys" => net' = ctx.meta.coin
      BY <2>1, SigningBegins
    <2>3. sig' # sig /\ sig'.kind = "transparent" => sig'.net = ctx.meta.coin
      BY <2>1, TransparentSigns
    <2> QED BY <2>2, <2>3
  <1> QED BY <1>1, <1>2, <1>3, InitInv, NextInv, PTL
          DEF Spec, FvkFirst, FvkCoinAgrees, SignsForTheMetaNetwork
=============================================================================
