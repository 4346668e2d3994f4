----------------------------- MODULE Transport -----------------------------
(***************************************************************************)
(* The way of a frame through main/usb_transport.c: the host writes bytes, *)
(* the USB callback puts them into a ring buffer chunk by chunk (and drops *)
(* a chunk that does not fit), hwp_task takes what has arrived as one item *)
(* and feeds it to the parser until a frame is complete, when the rest of  *)
(* the item is thrown away with it.  Answers go out through tx_buf, which  *)
(* the monitor's PING shares.                                              *)
(*                                                                         *)
(* A frame is a sequence of units <<f, i>>: unit i of the f-th frame the   *)
(* host wrote.  Unit 1 is the header, with the length.  A CRC is right for *)
(* the units of one whole frame only.                                      *)
(***************************************************************************)
EXTENDS Naturals, Sequences

CONSTANTS Chunk,      \* CONFIG_TINYUSB_CDC_RX_BUFSIZE
          RingSize,   \* RX_RINGBUF_SIZE
          FrameLens,  \* lengths of frames
          QuietLens,  \* lengths of the frames that get no answer: PONG, ABORT
          TxSlots,    \* answers the USB stack holds for a host that reads late
          MaxFrames,  \* bound: frames written by hosts
          MaxDrops    \* bound: how often the port is closed

ASSUME TransportAssumption ==
    /\ Chunk \in Nat \ {0} /\ RingSize \in Nat \ {0}
    /\ FrameLens \subseteq Nat \ {0} /\ QuietLens \subseteq FrameLens
    /\ TxSlots \in Nat /\ MaxFrames \in Nat /\ MaxDrops \in Nat

VARIABLES
    polite,     \* hosts wait for each answer and send what the ring holds
    len,        \* lengths of the frames the hosts have to send
    silent,     \* those of them that get no answer
    sent,       \* frames written
    since,      \* those written before the present connection
    rushed,     \* in it, one was written behind a silent one not yet handled
    out,        \* bytes written and not yet read by the USB callback
    heard,      \* the frame whose answer the host read last
    garbled,    \* the host has read half an answer
    connected,  \* host_connected
    drops,      \* connections closed so far
    ring,       \* rx_ringbuf, the item being fed included
    held,       \* size of that item
    fed,        \* units of it fed to the parser
    part, need, \* the parser: units since the start of the frame, its length
    pc,         \* where hwp_task stands
    frame,      \* rx_parser.frame, the last complete one
    buf,        \* what tx_buf holds: the frame answered, 0 for a PING
    ping,       \* where the monitor stands
    tx          \* answers in the USB stack

hostVars == <<polite, len, silent, sent, since, rushed, heard, garbled>>
portVars == <<connected, drops>>
feedVars == <<held, fed, part, need>>
txVars   == <<buf, ping, tx>>
vars == <<hostVars, out, portVars, ring, feedVars, pc, frame, txVars>>

Frames == 1..MaxFrames
Lens   == FrameLens \cup {0}
Unit   == Frames \X (Nat \ {0})
Units(f) == [i \in 1..len[f] |-> <<f, i>>]
Prefixes(s) == {SubSeq(s, 1, n) : n \in 0..Len(s)}
Suffixes(s) == {SubSeq(s, n + 1, Len(s)) : n \in 0..Len(s)}

\* A piece is an answer to frame `to`, or a PING (0), whole or cut short.
Piece == [to : 0..MaxFrames, whole : BOOLEAN]

\* The ring never holds more than its size: what does not fit is not put in.
TypeOK ==
    /\ polite \in BOOLEAN /\ len \in [Frames -> FrameLens] /\ silent \subseteq Frames
    /\ since \in 0..MaxFrames /\ rushed \in BOOLEAN
    /\ sent \in 0..MaxFrames /\ heard \in 0..MaxFrames /\ garbled \in BOOLEAN
    /\ connected \in BOOLEAN /\ drops \in 0..MaxDrops
    /\ out \in Seq(Unit)
    /\ ring \in Seq(Unit) /\ Len(ring) <= RingSize
    /\ held \in 0..Len(ring) /\ fed \in 0..held
    /\ part \in Seq(Unit) /\ need \in Lens
    /\ pc \in {"boot", "recv", "feed", "handle", "error", "flush"}
    /\ frame \in 0..MaxFrames /\ buf \in 0..MaxFrames
    /\ ping \in {"none", "due", "encoded", "overtaken", "done", "spoilt"}
    /\ tx \in Seq(Piece) /\ Len(tx) <= TxSlots

Init ==
    /\ polite \in BOOLEAN /\ len \in [Frames -> FrameLens]
    /\ silent \in SUBSET {f \in Frames : len[f] \in QuietLens}
    /\ since = 0 /\ rushed = FALSE
    /\ sent = 0 /\ out = <<>> /\ heard = 0 /\ garbled = FALSE
    /\ connected = FALSE /\ drops = 0
    /\ ring = <<>> /\ held = 0 /\ fed = 0 /\ part = <<>> /\ need = 0
    /\ pc = "boot" /\ frame = 0
    /\ buf = 0 /\ ping = "none" /\ tx = <<>>

-----------------------------------------------------------------------------
(* The host.                                                               *)

\* A new connection's host knows nothing of the frames of the one before.
HostOpens ==
    /\ ~connected
    /\ connected' = TRUE
    /\ since' = sent /\ rushed' = FALSE
    /\ ping' = IF ping = "none" THEN "due" ELSE ping
    /\ UNCHANGED <<polite, len, silent, sent, heard, garbled, out, drops, ring,
                   feedVars, pc, frame, buf, tx>>

\* What is under way in either direction may be lost with the connection.
HostCloses ==
    /\ connected /\ drops < MaxDrops
    /\ connected' = FALSE /\ drops' = drops + 1
    /\ out' \in Prefixes(out) /\ tx' \in Suffixes(tx)
    /\ garbled' = FALSE
    /\ ping' = IF ping \in {"done", "spoilt"} THEN "none" ELSE ping
    /\ UNCHANGED <<polite, len, silent, sent, since, rushed, heard, ring, feedVars,
                   pc, frame, buf>>

\* A polite host waits for the answer to its last frame, if it has sent one in
\* this connection and it is one that gets an answer: behind a PONG the next
\* frame may come at once.
HostSends ==
    /\ connected /\ sent < MaxFrames
    /\ polite => /\ heard = sent \/ sent = since \/ sent \in silent
                 /\ len[sent + 1] <= RingSize
    /\ sent' = sent + 1
    /\ rushed' = (rushed \/ (polite /\ sent > since /\ sent \in silent /\ frame < sent))
    /\ out' = out \o Units(sent + 1)
    /\ UNCHANGED <<polite, len, silent, since, heard, garbled, portVars, ring,
                   feedVars, pc, frame, txVars>>

\* Half an answer spoils the one that follows it.
HostReads ==
    /\ connected /\ tx # <<>>
    /\ tx' = Tail(tx)
    /\ LET p == Head(tx) IN
       /\ garbled' = (~garbled /\ ~p.whole)
       /\ heard' = IF p.whole /\ ~garbled /\ p.to # 0 THEN p.to ELSE heard
    /\ UNCHANGED <<polite, len, silent, sent, since, rushed, out, portVars, ring,
                   feedVars, pc, frame, buf, ping>>

-----------------------------------------------------------------------------
(* The USB callback: no wait, and the result of the send is ignored.       *)

RxCallback_Unbounded ==    \* mutant: the ring is taken to have room
    \E n \in 1..Chunk :
        /\ n <= Len(out)
        /\ out' = SubSeq(out, n + 1, Len(out))
        /\ ring' = ring \o SubSeq(out, 1, n)
        /\ UNCHANGED <<hostVars, portVars, feedVars, pc, frame, txVars>>

RxCallback ==
    \E n \in 1..Chunk :
        /\ n <= Len(out)
        /\ out' = SubSeq(out, n + 1, Len(out))
        /\ ring' = IF Len(ring) + n <= RingSize
                   THEN ring \o SubSeq(out, 1, n) ELSE ring
        /\ UNCHANGED <<hostVars, portVars, feedVars, pc, frame, txVars>>

-----------------------------------------------------------------------------
(* usb_transport_recv_frame, in hwp_task.                                  *)

DeviceReady ==
    /\ pc = "boot"
    /\ pc' = "recv"
    /\ UNCHANGED <<hostVars, out, portVars, ring, feedVars, frame, txVars>>

\* xRingbufferReceiveUpTo: some of what has arrived (up to where the buffer
\* wraps).  Its space is not free before it is returned.
Take ==
    /\ pc = "recv" /\ ring # <<>>
    /\ pc' = "feed" /\ held' \in 1..Len(ring) /\ fed' = 0
    /\ UNCHANGED <<hostVars, out, portVars, ring, part, need, frame, txVars>>

ReturnItem_Fed ==    \* mutant: gives back only what was fed, one unit short
    /\ ring' = SubSeq(ring, fed + 1, Len(ring))
    /\ held' = 0 /\ fed' = 0

ReturnItem_Kept ==    \* mutant: its space is not freed
    /\ ring' = ring
    /\ held' = 0 /\ fed' = 0

\* vRingbufferReturnItem
ReturnItem ==
    /\ ring' = SubSeq(ring, held + 1, Len(ring))
    /\ held' = 0 /\ fed' = 0

Whole(s) == s # <<>> /\ s = Units(s[1][1])

\* One byte into the parser, which hunts for a header if it has none.  Bytes
\* out of the middle of a frame may look like a header.
FeedUnit ==
    /\ pc = "feed"
    /\ LET u == ring[fed + 1] IN
       \E n \in IF part # <<>> THEN {need}
                ELSE IF u[2] = 1 THEN {len[u[1]]} ELSE Lens :
          LET s == IF n = 0 THEN <<>> ELSE Append(part, u) IN
          IF n # 0 /\ Len(s) = n
          THEN /\ ReturnItem
               /\ part' = s /\ need' = n
               /\ IF Whole(s) THEN pc' = "handle" /\ frame' = u[1]
                              ELSE pc' = "error" /\ UNCHANGED frame
          ELSE /\ part' = s /\ need' = n
               /\ IF fed + 1 = held THEN ReturnItem /\ pc' = "recv"
                  ELSE fed' = fed + 1 /\ UNCHANGED <<ring, held, pc>>
               /\ UNCHANGED frame
    /\ UNCHANGED <<hostVars, out, portVars, txVars>>

-----------------------------------------------------------------------------
(* Answers.                                                                *)

Listen_KeepsParser ==    \* mutant: the parser is not started anew
    pc' = "recv" /\ UNCHANGED <<part, need>>

\* hwp_parser_init, when recv_frame is called again.
Listen == pc' = "recv" /\ part' = <<>> /\ need' = 0

Queue_Urgent(p) ==    \* mutant: what is sent overtakes what waits
    IF connected /\ Len(tx) < TxSlots
    THEN \/ tx' = <<p>> \o tx
         \/ /\ Len(tx) > 1 /\ Len(tx) + 1 = TxSlots
            /\ tx' = <<[p EXCEPT !.whole = FALSE]>> \o tx
    ELSE UNCHANGED tx

\* usb_transport_send of what tx_buf holds, up to the wait for the flush:
\* nothing without a host or with the stack full, half of it if it is all but
\* full.
Queue(p) ==
    IF connected /\ Len(tx) < TxSlots
    THEN \/ tx' = Append(tx, p)
         \/ /\ Len(tx) > 1 /\ Len(tx) + 1 = TxSlots
            /\ tx' = Append(tx, [p EXCEPT !.whole = FALSE])
    ELSE UNCHANGED tx

\* An answer, or for f = 0 an ERROR that answers no frame, is encoded into
\* tx_buf, over a PING that waits there, and sent.
Answer(f) ==
    /\ buf' = f
    /\ ping' = IF ping = "encoded" THEN "overtaken" ELSE ping
    /\ Queue([to |-> f, whole |-> TRUE])
    /\ IF connected THEN pc' = "flush" /\ UNCHANGED <<part, need>> ELSE Listen

\* The handler's answer.  PONG and ABORT are not answered.
HandleFrame ==
    /\ pc = "handle"
    /\ IF frame \in silent THEN Listen /\ UNCHANGED txVars ELSE Answer(frame)
    /\ UNCHANGED <<hostVars, out, portVars, ring, held, fed, frame>>

\* CRC mismatch.
HandleError ==
    /\ pc = "error"
    /\ Answer(0)
    /\ UNCHANGED <<hostVars, out, portVars, ring, held, fed, frame>>

\* tinyusb_cdcacm_write_flush returns within 100 ms.
FlushEnds ==
    /\ pc = "flush"
    /\ Listen
    /\ UNCHANGED <<hostVars, out, portVars, ring, held, fed, frame, txVars>>

\* send_ping in the monitor.  hwp_task preempts it between the encoding and
\* the sending: if its answer took the buffer, that is sent in the PING's
\* place, whole only if it is as short as a PING, which an ERROR never is.
PingEncode ==
    /\ ping = "due" /\ pc # "boot"
    /\ ping' = "encoded" /\ buf' = 0
    /\ UNCHANGED <<hostVars, out, portVars, ring, feedVars, pc, frame, tx>>

PingSend ==
    /\ ping \in {"encoded", "overtaken"}
    /\ \E w \in IF ping = "encoded" THEN {TRUE} ELSE IF buf = 0 THEN {FALSE} ELSE BOOLEAN :
          /\ Queue([to |-> buf, whole |-> w])
          /\ ping' = IF ~connected THEN "none" ELSE IF w THEN "done" ELSE "spoilt"
    /\ UNCHANGED <<hostVars, out, portVars, ring, feedVars, pc, frame, buf>>

-----------------------------------------------------------------------------
Device == Take \/ FeedUnit \/ HandleFrame \/ HandleError \/ FlushEnds

Next ==
    \/ HostOpens \/ HostCloses \/ HostSends \/ HostReads
    \/ RxCallback
    \/ DeviceReady \/ Device
    \/ PingEncode \/ PingSend

Spec == Init /\ [][Next]_vars

\* The USB stack calls back while there are bytes to read, boot ends, hwp_task
\* runs, and a polite host reads.
Fairness ==
    /\ WF_vars(RxCallback) /\ WF_vars(DeviceReady) /\ WF_vars(Device)
    /\ WF_vars(polite /\ HostReads)
FairSpec == Spec /\ Fairness

-----------------------------------------------------------------------------
Before(u, v) == u[1] < v[1] \/ (u[1] = v[1] /\ u[2] < v[2])
Ahead(u)     == u[1] \in (frame + 1)..sent /\ u[2] <= len[u[1]]

\* The bytes on their way, in the ring or before it.
StreamInv ==
    /\ \A i \in DOMAIN ring : Ahead(ring[i])
    /\ \A i \in DOMAIN out : Ahead(out[i])
    /\ \A i, j \in DOMAIN ring : i < j => Before(ring[i], ring[j])
    /\ \A i, j \in DOMAIN out : i < j => Before(out[i], out[j])
    /\ \A i \in DOMAIN ring, j \in DOMAIN out : Before(ring[i], out[j])

\* An item is held while it is fed, and only then.
FeedInv ==
    /\ frame <= sent
    /\ IF pc = "feed" THEN fed < held ELSE held = 0 /\ fed = 0
    /\ pc = "handle" => Whole(part)

\* Every byte on its way belongs to a frame after the last one handled, in the
\* order the host wrote them, however many are missing in between, and what
\* hwp_task is given to handle is a whole frame (usb_transport.c
\* cdc_rx_callback, recv_frame).  Inductive (see TransportProofs).
TransportInv == StreamInv /\ FeedInv

\* What the handler was given: a frame of the host, or something else.
Handled == IF pc = "handle" /\ ~Whole(part) THEN MaxFrames + 1 ELSE frame

\* Whatever chunks the ring refused, whatever was thrown away with a frame or
\* left over by an earlier host, the handlers see whole frames of the host in
\* order, none twice (usb_transport.c recv_frame, cdc_rx_callback).
LC == INSTANCE LossyChannel WITH last <- Handled, handling <- (pc = "handle")
ImplementsLossyChannel == LC!Spec

\* No byte of a host that waits for its answers finds the ring full, although the
\* callback looks at nothing but the room left: what is under way fits together,
\* with the item not yet given back.  That is so from the start, and in a later
\* connection from the first answer to a frame of its own; before that, what an
\* earlier host left in an undrained ring may leave too little room.  A host
\* that does not give the device time to handle its PONG is not meant
\* (usb_transport.c cdc_rx_callback ignores the result of the send).
PoliteHostFits ==
    polite /\ (since = 0 \/ heard > since) /\ ~rushed
        => Len(ring) + Len(out) <= RingSize

\* An answer the host reads is never to an earlier frame than one it read before,
\* although a PING preempted after its encoding sends the last answer again
\* (tx_buf, shared by hwp_task and the monitor).
AnswersInOrder == [][heard' >= heard]_vars

\* The first host, if it waits for its answers, has every frame it sends that
\* gets one handled and reads the answer, PONGs in between and also while the
\* monitor greets it, unless a PING that came out as half an answer spoils it, or
\* the frame was written at once behind a PONG, with which it may be thrown away
\* (main.c hwp_task, send_ping, usb_transport.c recv_frame).
PoliteHostAnswered ==
    \A n \in Frames :
        (polite /\ sent = n /\ n \notin silent /\ drops = 0)
            ~> (heard = n \/ drops > 0 \/ ping = "spoilt" \/ rushed)
=============================================================================
