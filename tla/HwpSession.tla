---------------------------- MODULE HwpSession ----------------------------
(***************************************************************************)
(* The signing session of the firmware (main/main.c): hwp_task, which      *)
(* takes one HWP frame at a time and runs its handler, and                 *)
(* usb_monitor_task, which polls the DTR line every 200 ms, greets a new   *)
(* host with a PING and ends the session of one that left.  Both use       *)
(* signer_ctx and no lock.  The chip has one core and hwp_task the higher  *)
(* priority, so the monitor runs exactly where hwp_task blocks: waiting    *)
(* for a frame, in a key derivation, Sinsemilla hash or signature (which   *)
(* yield), for the button, and flushing a reply.  Each such point is a     *)
(* value of pc, and the code between two of them is one step.              *)
(*                                                                         *)
(* Left out: LED states, log lines, sequence numbers, byte layout (the     *)
(* length of a payload is right or wrong).  A host frame is any well or    *)
(* badly formed frame, in any order: nothing is assumed of the companion.  *)
(***************************************************************************)
EXTENDS Signer

CONSTANTS Sighashes,    \* the sighashes a host may put in a frame
          NoOutput,     \* nothing on display / no recipient hint
          DefaultCoin,  \* ZCASH_DEFAULT_COIN_TYPE
          MaxDrops      \* bound: how often the host may close the port

ASSUME SessionAssumption ==
    /\ Sighashes \subseteq Sighash
    /\ NoOutput \notin Outputs
    /\ DefaultCoin \in Coins
    /\ MaxDrops \in Nat

VARIABLES
    ctx,        \* signer_ctx
    pc,         \* where hwp_task stands
    arg,        \* sighash of the sentinel or SIGN_REQ being handled
    net,        \* coin_type local of the SIGN_REQ being handled
    note,       \* action whose note commitment is being recomputed
    shown,      \* output on display in the review loop
    approved,   \* outputs the button approved in the latest review, in order:
                \* i in run_per_output_confirmation is Len(approved)
    reply,      \* the answer being flushed, and whether a reset follows it
    sig,        \* the signature in that answer, with the input the host named
    ready,      \* device_ready
    connected,  \* host_connected (DTR)
    was,        \* was_connected of the monitor
    seen,       \* connected local of the monitor
    mon,        \* where the monitor stands
    greeted,    \* this connection was sent the handshake PING
    drops       \* connections closed so far

jobVars  == <<arg, net, note, shown, approved>>
sendVars == <<reply, sig>>
monVars  == <<was, seen, mon>>
hostVars == <<connected, greeted, drops>>
hwpVars  == <<ctx, pc, jobVars, sendVars>>
vars     == <<hwpVars, ready, monVars, hostVars>>

Codes == {"PONG", "FVK_RSP", "ACK", "SIGN_RSP", "TRANSPARENT_SIGN_RSP",
          "IDENTITY_RSP", "ATTEST_RSP",
          "BAD_FRAME", "UNKNOWN", "NETWORK_MISMATCH", "USER_CANCELLED",
          "SIGN_FAILED", "SIGHASH_MISMATCH", "INVALID_STATE",
          "TRANSPARENT_DIGEST_MISMATCH", "SAPLING_NOT_EMPTY",
          "NOTE_COMMITMENT_MISMATCH"}
NoReply == [code |-> "none", reset |-> FALSE]
NoInput == <<>>
NoSig   == [kind |-> "none", tx |-> NoHash, input |-> NoInput, net |-> 0]

\* What a TRANSPARENT_SIGN_REQ names: an index and the data of an input, one
\* that may have been fed or another.
HostInputs == (0..MaxItems) \X (TItems \cup {"other"})

\* coin_type ? coin_type : ZCASH_DEFAULT_COIN_TYPE
CoinOr(c) == IF c.coin = 0 THEN DefaultCoin ELSE c.coin

TypeOK ==
    /\ ctx \in SignerCtx
    /\ pc \in {"recv", "derive", "hash", "await", "keys", "sign", "send"}
    /\ arg \in Sighash
    /\ net \in Coins \cup {0}
    /\ note \in Outputs \cup {NoOutput}
    /\ shown \in Outputs \cup {NoOutput}
    /\ approved \in Seq(Outputs)
    /\ reply \in [code : Codes \cup {"none"}, reset : BOOLEAN]
    /\ sig \in [kind : {"none", "orchard", "transparent"}, tx : Sighash,
                input : HostInputs \cup {NoInput}, net : Coins \cup {0}]
    /\ ready \in BOOLEAN /\ connected \in BOOLEAN
    /\ was \in BOOLEAN /\ seen \in BOOLEAN
    /\ mon \in {"poll", "act", "greet"}
    /\ greeted \in BOOLEAN /\ drops \in 0..MaxDrops

Init ==
    /\ ctx = Fresh(0) /\ pc = "recv"
    /\ arg = NoHash /\ net = 0 /\ note = NoOutput /\ shown = NoOutput
    /\ approved = <<>> /\ reply = NoReply /\ sig = NoSig
    /\ ready = FALSE
    /\ connected = FALSE /\ greeted = FALSE /\ drops = 0
    /\ was = FALSE /\ seen = FALSE /\ mon = "poll"

-----------------------------------------------------------------------------
(* How a handler ends: the answer is flushed to the host, then, where the  *)
(* code says so, the session is reset.                                     *)

Listening == ready /\ pc = "recv"

Answer(code, reset) ==
    pc' = "send" /\ reply' = [code |-> code, reset |-> reset]

Refuse(code)     == Answer(code, FALSE)
RefuseEnd(code)  == Answer(code, TRUE)

SendReply_WaitsForHost ==    \* mutant: the flush has no timeout
    /\ pc = "send" /\ connected
    /\ pc' = "recv"
    /\ ctx' \in IF reply.reset THEN Resets(ctx) ELSE {ctx}
    /\ arg' = NoHash /\ net' = 0 /\ note' = NoOutput /\ shown' = NoOutput
    /\ reply' = NoReply /\ sig' = NoSig
    /\ UNCHANGED <<approved, ready, monVars, hostVars>>

\* usb_transport_send, then session_reset() if the handler calls it, and
\* back to usb_transport_recv_frame.
SendReply ==
    /\ pc = "send"
    /\ pc' = "recv"
    /\ ctx' \in IF reply.reset THEN Resets(ctx) ELSE {ctx}
    /\ arg' = NoHash /\ net' = 0 /\ note' = NoOutput /\ shown' = NoOutput
    /\ reply' = NoReply /\ sig' = NoSig
    /\ UNCHANGED <<approved, ready, monVars, hostVars>>

\* Frames that never touch the session: PING, IDENTITY_REQ, ATTEST_REQ, a
\* CRC error, an unknown type, a payload that does not parse.
HandleStateless(code) ==
    /\ Listening
    /\ code \in {"PONG", "IDENTITY_RSP", "ATTEST_RSP", "SIGN_FAILED",
                 "BAD_FRAME", "UNKNOWN"}
    /\ Refuse(code)
    /\ UNCHANGED <<ctx, jobVars, sig, ready, monVars, hostVars>>

HandleAbort ==
    /\ Listening
    /\ ctx.state # "IDLE"
    /\ ctx' \in Resets(ctx)
    /\ UNCHANGED <<pc, jobVars, sendVars, ready, monVars, hostVars>>

-----------------------------------------------------------------------------
(* FVK_REQ: the coin type is stored whatever the session is doing, then    *)
(* the key is read or derived (which yields).                              *)

HandleFvkReq(coin) ==
    /\ Listening
    /\ ctx' = [ctx EXCEPT !.coin = coin]
    /\ pc' = "derive"
    /\ UNCHANGED <<jobVars, sendVars, ready, monVars, hostVars>>

FvkDone ==
    /\ pc = "derive"
    /\ \E code \in {"FVK_RSP", "SIGN_FAILED"} : Refuse(code)
    /\ UNCHANGED <<ctx, jobVars, sig, ready, monVars, hostVars>>

-----------------------------------------------------------------------------
(* TX_OUTPUT: metadata, actions, sentinel with the per-output review.      *)

MetaCode(e) ==
    CASE e = "NETWORK_MISMATCH"  -> "NETWORK_MISMATCH"
      [] e = "SAPLING_NOT_EMPTY" -> "SAPLING_NOT_EMPTY"
      [] OTHER                   -> "BAD_FRAME"

HandleTxMeta(m, total, defect) ==
    /\ Listening
    /\ \/ /\ ctx' \in FeedMetaOk(ctx, m, total, defect)
          /\ approved' = <<>>
          /\ Answer("ACK", FALSE)
       \/ \E e \in FeedMetaErrors(ctx, m, total, defect) :
             /\ RefuseEnd(MetaCode(e))
             /\ UNCHANGED <<ctx, approved>>
    /\ UNCHANGED <<arg, net, note, shown, sig, ready, monVars, hostVars>>

HandleTxAction(o) ==
    /\ Listening
    /\ \/ /\ AcceptsAction(ctx)
          /\ pc' = "hash" /\ note' = o
          /\ UNCHANGED reply
       \/ /\ ~AcceptsAction(ctx)
          /\ \E code \in {"INVALID_STATE", "BAD_FRAME"} : RefuseEnd(code)
          /\ UNCHANGED note
       \/ RefuseEnd("BAD_FRAME") /\ UNCHANGED note    \* not 903 bytes
    /\ UNCHANGED <<ctx, arg, net, shown, approved, sig, ready, monVars, hostVars>>

\* The commitment is recomputed; the monitor may have reset ctx meanwhile.
NoteHashed ==
    /\ pc = "hash"
    /\ \/ ctx' = AbsorbAction(ctx, note) /\ Answer("ACK", FALSE)
       \/ /\ \E code \in {"NOTE_COMMITMENT_MISMATCH", "BAD_FRAME"} \cup
                         (IF AcceptsAction(ctx) THEN {} ELSE {"INVALID_STATE"}) :
                RefuseEnd(code)
          /\ UNCHANGED ctx
    /\ UNCHANGED <<jobVars, sig, ready, monVars, hostVars>>

\* After the loop: verify against the sentinel's sighash.
VerifySentinel(c, h) ==
    \/ ctx' \in VerifyOk(c, h) /\ Answer("ACK", FALSE)
    \/ \E e \in VerifyErrors(c, h) :
          /\ ctx' = c
          /\ IF e = "SIGHASH_MISMATCH" THEN Refuse("SIGHASH_MISMATCH")
                                       ELSE RefuseEnd("INVALID_STATE")

ReviewFrom_Blank(c, done, h) ==    \* mutant: waits for the button, shows nothing
    /\ approved' = done
    /\ \/ /\ Len(done) < Len(c.acts)
          /\ ctx' = c /\ pc' = "await" /\ shown' = NoOutput /\ UNCHANGED reply
       \/ /\ Len(done) >= Len(c.acts)
          /\ shown' = NoOutput /\ VerifySentinel(c, h)

ReviewFrom_First(c, done, h) ==    \* mutant: always displays output 0
    /\ approved' = done
    /\ \/ /\ Len(done) < Len(c.acts)
          /\ ctx' = c /\ pc' = "await" /\ shown' = c.acts[1] /\ UNCHANGED reply
       \/ /\ Len(done) >= Len(c.acts)
          /\ shown' = NoOutput /\ VerifySentinel(c, h)

\* The head of the review loop with the outputs done so far approved:
\* display the next one and wait for the button, give up if it cannot be
\* displayed, or fall out and verify.
ReviewFrom(c, done, h) ==
    /\ approved' = done
    /\ \/ /\ Len(done) < Len(c.acts)
          /\ ctx' = c /\ pc' = "await"
          /\ shown' = c.acts[Len(done) + 1]
          /\ UNCHANGED reply
       \/ /\ Len(done) < Len(c.acts)
          /\ ctx' = c /\ shown' = NoOutput
          /\ RefuseEnd("USER_CANCELLED")
       \/ /\ Len(done) >= Len(c.acts)
          /\ shown' = NoOutput
          /\ VerifySentinel(c, h)

HandleSentinel(h) ==
    /\ Listening
    /\ arg' = h
    /\ ReviewFrom(ctx, <<>>, h)
    /\ UNCHANGED <<net, note, sig, ready, monVars, hostVars>>

HandleSentinelShort ==
    /\ Listening
    /\ RefuseEnd("BAD_FRAME")
    /\ UNCHANGED <<ctx, jobVars, sig, ready, monVars, hostVars>>

\* user_input_wait returned CONFIRM.
ConfirmPressed ==
    /\ pc = "await"
    /\ \/ \E c \in ConfirmOk(ctx, Len(approved) + 1) :
             ReviewFrom(c, Append(approved, shown), arg)
       \/ /\ ConfirmFails(ctx, Len(approved) + 1)
          /\ RefuseEnd("USER_CANCELLED")
          /\ UNCHANGED <<ctx, shown, approved>>
    /\ UNCHANGED <<arg, net, note, sig, ready, monVars, hostVars>>

ReviewRefused_NoReset ==    \* mutant: the session survives a refusal
    /\ pc = "await"
    /\ Refuse("USER_CANCELLED")
    /\ UNCHANGED <<ctx, jobVars, sig, ready, monVars, hostVars>>

\* CANCEL (long press) or NONE (timeout, bounce).
ReviewRefused ==
    /\ pc = "await"
    /\ RefuseEnd("USER_CANCELLED")
    /\ UNCHANGED <<ctx, jobVars, sig, ready, monVars, hostVars>>

-----------------------------------------------------------------------------
(* SIGN_REQ: recipient hint, session check, key derivation (yields), the   *)
(* library's own check, signature (yields).                                *)

Hints == Outputs \cup {NoOutput, "undecodable"}
MatchesAny(c, o) == \E i \in DOMAIN c.acts : c.acts[i] = o

HandleSignReq(h, hint) ==
    /\ Listening
    /\ \/ /\ \/ hint = "undecodable" /\ RefuseEnd("BAD_FRAME")
             \/ /\ hint \in Outputs /\ ~MatchesAny(ctx, hint)
                /\ RefuseEnd("SIGHASH_MISMATCH")
             \/ /\ hint = NoOutput \/ MatchesAny(ctx, hint)
                /\ \/ ctx.state # "VERIFIED" /\ Refuse("INVALID_STATE")
                   \/ /\ ctx.state = "VERIFIED" /\ ctx.hash # h
                      /\ RefuseEnd("SIGHASH_MISMATCH")
          /\ UNCHANGED <<arg, net>>
       \/ /\ hint = NoOutput \/ MatchesAny(ctx, hint)
          /\ MaySign(ctx, h)
          /\ pc' = "keys" /\ arg' = h /\ net' = CoinOr(ctx)
          /\ UNCHANGED reply
    /\ UNCHANGED <<ctx, note, shown, approved, sig, ready, monVars, hostVars>>

\* orchard_signer_sign tests the context again, after the derivation.
SignRecheck ==
    /\ pc = "keys"
    /\ \/ MaySign(ctx, arg) /\ pc' = "sign" /\ UNCHANGED reply
       \/ Refuse("SIGN_FAILED")
    /\ UNCHANGED <<ctx, jobVars, sig, ready, monVars, hostVars>>

SignDone ==
    /\ pc = "sign"
    /\ \/ /\ sig' = [kind |-> "orchard", tx |-> arg, input |-> NoInput, net |-> net]
          /\ Answer("SIGN_RSP", FALSE)
       \/ Refuse("SIGN_FAILED") /\ UNCHANGED sig
    /\ UNCHANGED <<ctx, jobVars, ready, monVars, hostVars>>

-----------------------------------------------------------------------------
(* The transparent part (v3).  Only index 0 and index = total matter to    *)
(* the code; total is taken from each frame anew.                          *)

\* The first input opens the transparent part, whatever else the frame is.
Begun(c, index, total) ==
    IF index = 0 /\ c.state = "RECEIVING_ACTIONS"
    THEN BeginTransparentOk(c, total) ELSE {c}

BeginRefused(index, total) ==
    /\ index = 0 /\ ctx.state = "RECEIVING_ACTIONS"
    /\ BeginTransparentFails(ctx, total)
    /\ RefuseEnd("INVALID_STATE")
    /\ UNCHANGED ctx

\* Either the item is taken into the context, or the session ends.
FeedItem(c, fed, accepts) ==
    \/ accepts /\ ctx' = fed /\ Answer("ACK", FALSE)
    \/ /\ ctx' = c
       /\ \E code \in {"BAD_FRAME"} \cup (IF accepts THEN {} ELSE {"INVALID_STATE"}) :
             RefuseEnd(code)

HandleTransparentInput(index, total, t) ==
    /\ Listening
    /\ index # total
    /\ \/ BeginRefused(index, total)
       \/ \E c \in Begun(ctx, index, total) :
             FeedItem(c, [c EXCEPT !.tins = Append(@, t)], AcceptsTIn(c))
    /\ UNCHANGED <<jobVars, sig, ready, monVars, hostVars>>

HandleTransparentSentinel(index, d) ==
    /\ Listening
    /\ \/ BeginRefused(index, index)
       \/ \E c \in Begun(ctx, index, index) :
             \/ ctx' \in VerifyTransparentOk(c, d) /\ Answer("ACK", FALSE)
             \/ \E e \in VerifyTransparentErrors(c, d) :
                   /\ ctx' = c
                   /\ IF e = "TRANSPARENT_MISMATCH"
                      THEN Refuse("TRANSPARENT_DIGEST_MISMATCH")
                      ELSE RefuseEnd("INVALID_STATE")
             \/ ctx' = c /\ RefuseEnd("BAD_FRAME")          \* not 32 bytes
    /\ UNCHANGED <<jobVars, sig, ready, monVars, hostVars>>

\* The announced number of outputs is stored before the session is tested.
HandleTransparentOutput(index, total, t) ==
    /\ Listening
    /\ LET c == IF index = 0 /\ ctx.toutExp = 0
                THEN [ctx EXCEPT !.toutExp = total] ELSE ctx
       IN FeedItem(c, [c EXCEPT !.touts = Append(@, t)], AcceptsTOut(c))
    /\ UNCHANGED <<jobVars, sig, ready, monVars, hostVars>>

\* zip244_transparent_per_input_sighash over what was fed, for the input the
\* host names, whose index and data are compared with nothing.
SignInput(input) ==
    /\ sig' = [kind |-> "transparent", input |-> input, net |-> CoinOr(ctx),
               tx |-> [digest |-> TransparentOf(ctx), acts |-> ctx.acts]]
    /\ Answer("TRANSPARENT_SIGN_RSP", FALSE)

HandleTransparentSignReq_Unchecked ==    \* mutant: transparent_verified not tested
    /\ Listening
    /\ ctx.state = "VERIFIED"
    /\ \E input \in HostInputs : SignInput(input)
    /\ UNCHANGED <<ctx, jobVars, ready, monVars, hostVars>>

HandleTransparentSignReq ==
    /\ Listening
    /\ \/ /\ ~ctx.tverified \/ ctx.state # "VERIFIED"
          /\ Refuse("INVALID_STATE")
          /\ UNCHANGED sig
       \/ /\ ctx.tverified /\ ctx.state = "VERIFIED"
          /\ \/ \E input \in HostInputs : SignInput(input)
             \/ Refuse("SIGN_FAILED") /\ UNCHANGED sig
    /\ UNCHANGED <<ctx, jobVars, ready, monVars, hostVars>>

-----------------------------------------------------------------------------
(* usb_monitor_task, one round every 200 ms.  hwp_task may preempt it      *)
(* between reading the line and acting on what it read.                    *)

MonSample ==
    /\ mon = "poll"
    /\ seen' = connected /\ mon' = "act"
    /\ UNCHANGED <<hwpVars, ready, was, hostVars>>

MonConnect_LogOnly ==    \* mutant: the connect edge never greets
    /\ mon = "act" /\ seen /\ ~was
    /\ mon' = "poll" /\ was' = TRUE
    /\ UNCHANGED <<hwpVars, ready, seen, hostVars>>

\* Connect edge: greet after 300 ms if the device is ready, else only log.
MonConnect ==
    /\ mon = "act" /\ seen /\ ~was
    /\ IF ready THEN mon' = "greet" /\ UNCHANGED was
                ELSE mon' = "poll" /\ was' = TRUE
    /\ UNCHANGED <<hwpVars, ready, seen, hostVars>>

MonGreet ==
    /\ mon = "greet"
    /\ greeted' = (greeted \/ connected)      \* send_ping
    /\ mon' = "poll" /\ was' = seen
    /\ UNCHANGED <<hwpVars, ready, seen, connected, drops>>

MonDisconnect_NoReset ==    \* mutant: the session outlives its host
    /\ mon = "act" /\ ~seen /\ was
    /\ mon' = "poll" /\ was' = seen
    /\ UNCHANGED <<hwpVars, ready, seen, hostVars>>

MonDisconnect ==
    /\ mon = "act" /\ ~seen /\ was
    /\ ctx' \in Resets(ctx)
    /\ mon' = "poll" /\ was' = seen
    /\ UNCHANGED <<pc, jobVars, sendVars, ready, seen, hostVars>>

MonSteady ==
    /\ mon = "act" /\ seen = was
    /\ mon' = "poll"
    /\ UNCHANGED <<hwpVars, ready, was, seen, hostVars>>

Monitor == MonSample \/ MonConnect \/ MonGreet \/ MonDisconnect \/ MonSteady

-----------------------------------------------------------------------------
(* The host's end of the cable, and the end of app_main.                   *)

HostConnects ==
    /\ ~connected
    /\ connected' = TRUE
    /\ UNCHANGED <<hwpVars, ready, monVars, greeted, drops>>

HostCloses ==
    /\ connected /\ drops < MaxDrops
    /\ connected' = FALSE /\ greeted' = FALSE /\ drops' = drops + 1
    /\ UNCHANGED <<hwpVars, ready, monVars>>

DeviceReady ==
    /\ ~ready
    /\ ready' = TRUE
    /\ UNCHANGED <<hwpVars, monVars, hostVars>>

-----------------------------------------------------------------------------
\* The steps hwp_task takes by itself once it has a frame.
HwpStep ==
    \/ FvkDone \/ NoteHashed \/ ConfirmPressed \/ ReviewRefused
    \/ SignRecheck \/ SignDone \/ SendReply

HwpFrame ==
    \/ \E code \in Codes : HandleStateless(code)
    \/ HandleAbort
    \/ \E k \in Coins \cup {0} : HandleFvkReq(k)
    \/ \E k \in Coins, d \in Digests, n \in 0..MaxActions + 1,
          defect \in {"none", "sapling", "length"} :
             HandleTxMeta([coin |-> k, digest |-> d], n, defect)
    \/ \E o \in Outputs : HandleTxAction(o)
    \/ \E h \in Sighashes : HandleSentinel(h)
    \/ HandleSentinelShort
    \/ \E h \in Sighashes, hint \in Hints : HandleSignReq(h, hint)
    \/ \E i, n \in 0..MaxItems + 1, t \in TItems : HandleTransparentInput(i, n, t)
    \/ \E i \in 0..MaxItems + 1, d \in Digests : HandleTransparentSentinel(i, d)
    \/ \E i, n \in 0..MaxItems + 1, t \in TItems : HandleTransparentOutput(i, n, t)
    \/ HandleTransparentSignReq

Next ==
    \/ HwpFrame \/ HwpStep
    \/ Monitor
    \/ HostConnects \/ HostCloses \/ DeviceReady

Spec == Init /\ [][Next]_vars

\* hwp_task runs whenever it is not waiting for a frame (every wait it makes
\* has a timeout), the monitor's delays end, and boot finishes.
Fairness == WF_vars(HwpStep) /\ WF_vars(Monitor) /\ WF_vars(DeviceReady)
FairSpec == Spec /\ Fairness

-----------------------------------------------------------------------------
(* Safety.                                                                 *)

\* No blind signing (main.c run_per_output_confirmation, handle_sign_req):
\* the outputs of every transaction the device signs are, one by one and in
\* order, those the user approved on the button in the latest review, and no
\* review was begun, cancelled, or timed out since.
SignedWasApproved == sig # NoSig => sig.tx.acts = approved

\* A press confirms the output on display (main.c 84-121): the index handed to
\* orchard_signer_confirm_action still holds what was shown before the wait.
ConfirmsWhatIsShown ==
    [][\A i \in ctx'.confirmed \ ctx.confirmed :
          i \in DOMAIN ctx.acts /\ ctx.acts[i] = shown]_vars

\* What goes into a signature of a transparent input besides that input is
\* verified: the transparent part it is hashed with is still, whatever was
\* refused, fed again or begun anew since, the one that was recomputed on the
\* device, and the actions those of the verified sighash.  Which input it is,
\* sig.input, is the host's word and not in this property (main.c
\* handle_transparent_sign_req tests transparent_verified and the state only).
TransparentSignedWasVerified ==
    [][sig' # sig /\ sig'.kind = "transparent" => sig'.tx = ctx.hash]_vars

\* What each half of the session relies on; inductive (see HwpSessionProofs).
\* A verified session holds the sighash of its own actions, and outside a
\* review and a pending reset those actions are the approved ones.
VerifiedAgrees ==
    ctx.state = "VERIFIED" =>
        /\ ctx.hash = SighashOf(ctx)
        /\ \/ ctx.acts = approved
           \/ pc = "await"
           \/ pc = "send" /\ reply.reset

\* During a wait the context still holds the outputs approved so far and the
\* one on display, or the monitor has emptied it.
ReviewAgrees ==
    pc = "await" =>
        /\ shown \in Outputs
        /\ \/ ctx.acts = <<>>
           \/ /\ Len(approved) < Len(ctx.acts)
              /\ \A i \in 1..Len(approved) : approved[i] = ctx.acts[i]
              /\ shown = ctx.acts[Len(approved) + 1]

\* A verified transparent part is the one the TxMeta announced.
TransparentAgrees ==
    ctx.tverified /\ ctx.state # "RECEIVING_TRANSPARENT" =>
        TransparentOf(ctx) = ctx.meta.digest

\* What hwp_task holds across a wait is settled by what it tested before it.
InFlight ==
    /\ pc = "hash" => note \in Outputs /\ ctx.state \in {"RECEIVING_ACTIONS", "IDLE"}
    /\ pc = "sign" => arg.acts = approved
    /\ sig # NoSig => pc = "send" /\ sig.tx.acts = approved

SessionInv ==
    VerifiedAgrees /\ ReviewAgrees /\ TransparentAgrees /\ InFlight

-----------------------------------------------------------------------------
(* The session implements the wallet's promise (TrustedSigner).            *)

\* The screen waits for the button during a review only; the authorisation
\* is what a SIGN_REQ would find: none while a review or a reset is due.
ReviewScreen == IF pc = "await" THEN shown ELSE NoOutput
Authorised ==
    IF ctx.state = "VERIFIED" /\ pc # "await" /\ ~(pc = "send" /\ reply.reset)
    THEN {ctx.hash} ELSE {}
BeingSigned == IF pc \in {"keys", "sign"} THEN {arg} ELSE {}
JustSigned  == IF sig = NoSig THEN {} ELSE {sig.tx}

TS == INSTANCE TrustedSigner WITH
        Txs <- Sighash, screen <- ReviewScreen, authorised <- Authorised,
        pending <- BeingSigned, issued <- JustSigned

\* Every interleaving of frames, presses, waits, resets and disconnects is a
\* behaviour of the promise: reviewed in order, authorised as approved, signed
\* only if authorised when begun (main.c handle_tx_output, handle_sign_req,
\* handle_transparent_sign_req, usb_monitor_task).
ImplementsTrustedSigner == TS!Spec

-----------------------------------------------------------------------------
(* Liveness, under FairSpec.                                               *)

\* Every frame hwp_task takes is finished with, whatever the user, the
\* monitor and the cable do (main.c hwp_task).
HandlerEnds == pc # "recv" ~> pc = "recv"

\* A disconnect the monitor can see ends the session unless the host is back
\* first (main.c 871-876).
DisconnectEndsSession ==
    (was /\ ~connected) ~> (ctx.state = "IDLE" \/ connected)

\* A host the monitor has not noticed yet is greeted once the device is ready,
\* if it stays (main.c 852-870).
NewHostGreeted ==
    (ready /\ connected /\ ~was /\ mon = "poll") ~> (greeted \/ ~connected)

-----------------------------------------------------------------------------
(* What the repository says and the code does not do (violation runs).     *)

\* main.c 230 stores the FVK_REQ coin type in the signer context "for session
\* consistency", and README error 0x05 rejects FvkReq.coin_type # TxMeta's:
\* a signature is begun for the network of the TxMeta it belongs to.
SignsForTheSessionNetwork ==
    [][pc = "recv" /\ pc' = "keys" /\ ctx.coin # 0 => net' = ctx.meta.coin]_vars

\* main.c 865: the companion expects the device to initiate the handshake.
HandshakeOffered == <>[](ready /\ connected) => <>greeted
=============================================================================
