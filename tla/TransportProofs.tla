-------------------------- MODULE TransportProofs --------------------------
(***************************************************************************)
(* Theorems about Transport: the ring stays within its size, and the       *)
(* handlers see a lossy channel, for any chunk, ring and frame sizes.      *)
(*                                                                         *)
(* IInv is inductive.  That a frame handled is later than the one before   *)
(* follows from where the bytes are: whatever is still in the ring when a  *)
(* frame completes comes after its last unit, so belongs to a later frame. *)
(***************************************************************************)
EXTENDS Transport, SequenceTheorems, TLAPS

IInv == TypeOK /\ TransportInv

USE TransportAssumption

-----------------------------------------------------------------------------
(* Sequences.                                                              *)

\* What is left after the first n elements.
LEMMA Rest ==
    ASSUME NEW S, NEW s \in Seq(S), NEW n \in 0..Len(s)
    PROVE  LET r == SubSeq(s, n + 1, Len(s)) IN
           /\ r \in Seq(S) /\ Len(r) = Len(s) - n
           /\ \A i \in 1..(Len(s) - n) : r[i] = s[i + n]
<1>1. Len(s) \in Nat BY LenProperties
<1>2. \A i \in (n + 1)..Len(s) : s[i] \in S BY <1>1, ElementOfSeq
<1> QED BY <1>1, <1>2, SubSeqProperties

\* The first n elements.
LEMMA First ==
    ASSUME NEW S, NEW s \in Seq(S), NEW n \in 0..Len(s)
    PROVE  LET r == SubSeq(s, 1, n) IN
           /\ r \in Seq(S) /\ Len(r) = n
           /\ \A i \in 1..n : r[i] = s[i]
<1>1. Len(s) \in Nat BY LenProperties
<1>2. \A i \in 1..n : s[i] \in S BY <1>1, ElementOfSeq
<1> QED BY <1>1, <1>2, SubSeqProperties

\* The two parts of a concatenation.
LEMMA Concat ==
    ASSUME NEW S, NEW s \in Seq(S), NEW t \in Seq(S)
    PROVE  /\ s \o t \in Seq(S) /\ Len(s \o t) = Len(s) + Len(t)
           /\ \A i \in 1..Len(s) : (s \o t)[i] = s[i]
           /\ \A i \in (Len(s) + 1)..(Len(s) + Len(t)) : (s \o t)[i] = t[i - Len(s)]
BY ConcatProperties, LenProperties

\* The units of a frame the host has to send.
LEMMA UnitsType ==
    ASSUME TypeOK, NEW f \in Frames
    PROVE  /\ len[f] \in FrameLens /\ len[f] \in Nat \ {0}
           /\ Units(f) \in Seq(Unit) /\ Len(Units(f)) = len[f]
           /\ \A i \in 1..len[f] : Units(f)[i] = <<f, i>>
<1>1. len[f] \in FrameLens /\ len[f] \in Nat \ {0} BY DEF TypeOK
<1>2. \A i \in 1..len[f] : <<f, i>> \in Unit BY <1>1 DEF Unit
<1>3. Units(f) \in Seq(Unit) BY <1>1, <1>2, IsASeq DEF Units
<1>4. DOMAIN Units(f) = 1..len[f] BY DEF Units
<1>5. Len(Units(f)) = len[f] BY <1>1, <1>3, <1>4, LenProperties
<1> QED BY <1>1, <1>3, <1>5 DEF Units

\* Elements of ring and out.
LEMMA StreamTypes ==
    ASSUME TypeOK
    PROVE  /\ Len(ring) \in Nat /\ DOMAIN ring = 1..Len(ring)
           /\ Len(out) \in Nat /\ DOMAIN out = 1..Len(out)
           /\ \A i \in 1..Len(ring) : ring[i] \in Unit
           /\ \A i \in 1..Len(out) : out[i] \in Unit
BY LenProperties, ElementOfSeq DEF TypeOK

-----------------------------------------------------------------------------
LEMMA InitInv == Init => IInv
<1> SUFFICES ASSUME Init PROVE IInv OBVIOUS
<1>1. <<>> \in Seq(Unit) /\ <<>> \in Seq(Piece) /\ Len(<<>>) = 0
  BY EmptySeq
<1>2. DOMAIN ring = {} /\ DOMAIN out = {} BY DEF Init
<1>3. TypeOK
  <2>1. ring \in Seq(Unit) /\ Len(ring) = 0 /\ out \in Seq(Unit)
    BY <1>1 DEF Init
  <2>2. part \in Seq(Unit) /\ tx \in Seq(Piece) /\ Len(tx) = 0
    BY <1>1 DEF Init
  <2>3. held \in 0..Len(ring) /\ fed \in 0..held /\ Len(ring) <= RingSize
    BY <2>1 DEF Init
  <2>4. Len(tx) <= TxSlots BY <2>2
  <2>5. 0 \in 0..MaxFrames /\ 0 \in 0..MaxDrops OBVIOUS
  <2> QED BY ONLY <2>1, <2>2, <2>3, <2>4, <2>5, Init DEF Init, TypeOK, Lens
<1>4. TransportInv BY <1>2 DEF Init, TransportInv, StreamInv, FeedInv
<1> QED BY <1>3, <1>4 DEF IInv

\* Steps that move no bytes and handle no frame.
LEMMA BytesKept ==
    ASSUME TypeOK, StreamInv, UNCHANGED <<ring, out, frame, sent, len>>
    PROVE  StreamInv'
BY DEF StreamInv, Ahead, Before

LEMMA HostOpensInv == IInv /\ HostOpens => IInv'
<1> SUFFICES ASSUME IInv, HostOpens PROVE IInv' OBVIOUS
<1> USE DEF IInv, HostOpens, hostVars, feedVars
<1>1. TypeOK' BY DEF TypeOK
<1>2. StreamInv' BY BytesKept DEF TransportInv
<1>3. FeedInv' BY DEF TransportInv, FeedInv, Whole, Units
<1> QED BY <1>1, <1>2, <1>3 DEF TransportInv

LEMMA HostReadsInv == IInv /\ HostReads => IInv'
<1> SUFFICES ASSUME IInv, HostReads PROVE IInv' OBVIOUS
<1> USE DEF IInv, HostReads, portVars, feedVars
<1>1. /\ Tail(tx) \in Seq(Piece) /\ Len(Tail(tx)) = Len(tx) - 1
      /\ Head(tx) \in Piece /\ Len(tx) \in Nat
  BY HeadTailProperties, LenProperties DEF TypeOK
<1>2. heard' \in 0..MaxFrames BY <1>1 DEF TypeOK, Piece
<1>3. TypeOK' BY <1>1, <1>2 DEF TypeOK
<1>4. StreamInv' BY BytesKept DEF TransportInv
<1>5. FeedInv' BY DEF TransportInv, FeedInv, Whole, Units
<1> QED BY <1>3, <1>4, <1>5 DEF TransportInv

LEMMA DeviceReadyInv == IInv /\ DeviceReady => IInv'
<1> SUFFICES ASSUME IInv, DeviceReady PROVE IInv' OBVIOUS
<1> USE DEF IInv, DeviceReady, hostVars, portVars, feedVars, txVars
<1>1. TypeOK' BY DEF TypeOK
<1>2. StreamInv' BY BytesKept DEF TransportInv
<1>3. FeedInv' BY DEF TransportInv, FeedInv, Whole, Units
<1> QED BY <1>1, <1>2, <1>3 DEF TransportInv

LEMMA TakeInv == IInv /\ Take => IInv'
<1> SUFFICES ASSUME IInv, Take PROVE IInv' OBVIOUS
<1> USE DEF IInv, Take, hostVars, portVars, txVars
<1>1. TypeOK' BY StreamTypes DEF TypeOK
<1>2. StreamInv' BY BytesKept DEF TransportInv
<1>3. FeedInv' BY StreamTypes DEF TransportInv, FeedInv
<1> QED BY <1>1, <1>2, <1>3 DEF TransportInv

\* What leaves through the USB stack stays within it.
LEMMA QueueType ==
    ASSUME TypeOK, NEW p \in Piece, Queue(p)
    PROVE  tx' \in Seq(Piece) /\ Len(tx') <= TxSlots
<1> DEFINE h == [p EXCEPT !.whole = FALSE]
<1>1. h \in Piece BY DEF Piece
<1>2. \A q \in Piece : Append(tx, q) \in Seq(Piece) /\ Len(Append(tx, q)) = Len(tx) + 1
  BY AppendProperties DEF TypeOK
<1>3. Len(tx) \in Nat BY LenProperties DEF TypeOK
<1> HIDE DEF h
<1>4. tx' \in {tx, Append(tx, p), Append(tx, h)} /\ (tx' = tx \/ Len(tx) < TxSlots)
  BY DEF Queue, h
<1>5. CASE tx' = tx BY <1>5 DEF TypeOK
<1>6. CASE \E q \in {p, h} : tx' = Append(tx, q) /\ Len(tx) < TxSlots
  <2>1. PICK q \in {p, h} : tx' = Append(tx, q) BY <1>6
  <2>2. q \in Piece BY <1>1
  <2>3. tx' \in Seq(Piece) /\ Len(tx') = Len(tx) + 1 BY <1>2, <2>1, <2>2
  <2> QED BY <1>3, <1>6, <2>3
<1> QED BY <1>4, <1>5, <1>6

\* An answer, or an ERROR, is sent.
LEMMA AnswerType ==
    ASSUME TypeOK, NEW f \in 0..MaxFrames, Answer(f)
    PROVE  /\ tx' \in Seq(Piece) /\ Len(tx') <= TxSlots /\ buf' \in 0..MaxFrames
           /\ part' \in Seq(Unit) /\ need' \in Lens /\ pc' \in {"flush", "recv"}
           /\ ping' \in {"none", "due", "encoded", "overtaken", "done", "spoilt"}
<1>1. [to |-> f, whole |-> TRUE] \in Piece BY DEF Piece
<1>2. tx' \in Seq(Piece) /\ Len(tx') <= TxSlots BY <1>1, QueueType DEF Answer
<1>3. <<>> \in Seq(Unit) BY EmptySeq
<1>4. part' \in Seq(Unit) /\ need' \in Lens /\ pc' \in {"flush", "recv"}
  BY <1>3 DEF TypeOK, Answer, Listen, Lens
<1>5. buf' \in 0..MaxFrames BY DEF Answer
<1>6. ping' \in {"none", "due", "encoded", "overtaken", "done", "spoilt"}
  BY DEF Answer, TypeOK
<1> QED BY <1>2, <1>4, <1>5, <1>6

LEMMA HandleFrameInv == IInv /\ HandleFrame => IInv'
<1> SUFFICES ASSUME IInv, HandleFrame PROVE IInv' OBVIOUS
<1> USE DEF IInv
<1>1. UNCHANGED <<hostVars, out, portVars, ring, held, fed, frame>>
  BY DEF HandleFrame
<1>2. /\ tx' \in Seq(Piece) /\ Len(tx') <= TxSlots /\ buf' \in 0..MaxFrames
      /\ part' \in Seq(Unit) /\ need' \in Lens /\ pc' \in {"flush", "recv"}
      /\ ping' \in {"none", "due", "encoded", "overtaken", "done", "spoilt"}
  <2>1. CASE frame \in silent
    <3>1. <<>> \in Seq(Unit) BY EmptySeq
    <3> QED BY <2>1, <3>1 DEF HandleFrame, Listen, txVars, TypeOK, Lens
  <2>2. CASE frame \notin silent
    <3>1. Answer(frame) /\ frame \in 0..MaxFrames BY <2>2 DEF HandleFrame, TypeOK
    <3> QED BY <3>1, AnswerType
  <2> QED BY <2>1, <2>2
<1>3. TypeOK' BY <1>1, <1>2 DEF TypeOK, hostVars, portVars
<1>4. StreamInv' BY <1>1, BytesKept DEF TransportInv, hostVars
<1>5. FeedInv'
  <2>1. pc = "handle" BY DEF HandleFrame
  <2> QED BY <1>1, <1>2, <2>1 DEF TransportInv, FeedInv, hostVars
<1> QED BY <1>3, <1>4, <1>5 DEF TransportInv

LEMMA HandleErrorInv == IInv /\ HandleError => IInv'
<1> SUFFICES ASSUME IInv, HandleError PROVE IInv' OBVIOUS
<1> USE DEF IInv
<1>1. /\ UNCHANGED <<hostVars, out, portVars, ring, held, fed, frame>>
      /\ pc = "error" /\ Answer(0)
  BY DEF HandleError
<1>2. /\ tx' \in Seq(Piece) /\ Len(tx') <= TxSlots /\ buf' \in 0..MaxFrames
      /\ part' \in Seq(Unit) /\ need' \in Lens /\ pc' \in {"flush", "recv"}
      /\ ping' \in {"none", "due", "encoded", "overtaken", "done", "spoilt"}
  BY <1>1, AnswerType
<1>3. TypeOK' BY <1>1, <1>2 DEF TypeOK, hostVars, portVars
<1>4. StreamInv' BY <1>1, BytesKept DEF TransportInv, hostVars
<1>5. FeedInv' BY <1>1, <1>2 DEF TransportInv, FeedInv, hostVars
<1> QED BY <1>3, <1>4, <1>5 DEF TransportInv

LEMMA FlushEndsInv == IInv /\ FlushEnds => IInv'
<1> SUFFICES ASSUME IInv, FlushEnds PROVE IInv' OBVIOUS
<1> USE DEF IInv, FlushEnds, Listen, hostVars, portVars, txVars
<1>1. <<>> \in Seq(Unit) BY EmptySeq
<1>2. TypeOK' BY <1>1 DEF TypeOK, Lens
<1>3. StreamInv' BY BytesKept DEF TransportInv
<1>4. FeedInv' BY DEF TransportInv, FeedInv
<1> QED BY <1>2, <1>3, <1>4 DEF TransportInv

LEMMA PingEncodeInv == IInv /\ PingEncode => IInv'
<1> SUFFICES ASSUME IInv, PingEncode PROVE IInv' OBVIOUS
<1> USE DEF IInv, PingEncode, hostVars, portVars, feedVars
<1>1. TypeOK' BY DEF TypeOK
<1>2. StreamInv' BY BytesKept DEF TransportInv
<1>3. FeedInv' BY DEF TransportInv, FeedInv, Whole, Units
<1> QED BY <1>1, <1>2, <1>3 DEF TransportInv

LEMMA PingSendInv == IInv /\ PingSend => IInv'
<1> SUFFICES ASSUME IInv, PingSend PROVE IInv' OBVIOUS
<1> USE DEF IInv, PingSend, hostVars, portVars, feedVars
<1>1. PICK w \in BOOLEAN : /\ Queue([to |-> buf, whole |-> w])
                          /\ ping' \in {"none", "done", "spoilt"}
  OBVIOUS
<1>2. [to |-> buf, whole |-> w] \in Piece BY DEF Piece, TypeOK
<1>3. tx' \in Seq(Piece) /\ Len(tx') <= TxSlots
  BY <1>1, <1>2, QueueType DEF TypeOK
<1>4. TypeOK' BY <1>1, <1>3 DEF TypeOK
<1>5. StreamInv' BY BytesKept DEF TransportInv
<1>6. FeedInv' BY DEF TransportInv, FeedInv, Whole, Units
<1> QED BY <1>4, <1>5, <1>6 DEF TransportInv

-----------------------------------------------------------------------------
(* The steps that move bytes.                                              *)

LEMMA HostClosesInv == IInv /\ HostCloses => IInv'
<1> SUFFICES ASSUME IInv, HostCloses PROVE IInv' OBVIOUS
<1> USE DEF IInv, HostCloses, feedVars
<1>1. PICK n \in 0..Len(out) : out' = SubSeq(out, 1, n) BY DEF Prefixes
<1>2. /\ out' \in Seq(Unit) /\ Len(out') = n
      /\ \A i \in 1..n : out'[i] = out[i]
  BY <1>1, First DEF TypeOK
<1>3. PICK m \in 0..Len(tx) : tx' = SubSeq(tx, m + 1, Len(tx)) BY DEF Suffixes
<1>4. tx' \in Seq(Piece) /\ Len(tx') = Len(tx) - m /\ Len(tx) \in Nat
  BY <1>3, Rest, LenProperties DEF TypeOK
<1>9. Len(tx') <= TxSlots BY <1>4 DEF TypeOK
<1>10. /\ drops' \in 0..MaxDrops /\ connected' = FALSE /\ garbled' = FALSE
       /\ ping' \in {"none", "due", "encoded", "overtaken", "done", "spoilt"}
       /\ UNCHANGED <<polite, len, silent, sent, since, rushed, heard, ring, held,
                      fed, part, need, pc, frame, buf>>
  BY DEF TypeOK
<1>5. TypeOK' BY ONLY TypeOK, <1>2, <1>4, <1>9, <1>10 DEF TypeOK
<1>6. /\ DOMAIN out' = 1..n /\ DOMAIN out = 1..Len(out)
      /\ \A i \in DOMAIN out' : i \in DOMAIN out
  BY <1>2, LenProperties, StreamTypes
<1>7. StreamInv'
  <2>1. \A i \in DOMAIN out' : out'[i] = out[i] /\ i \in DOMAIN out BY <1>2, <1>6
  <2> QED BY <2>1, <1>10 DEF TransportInv, StreamInv, Ahead, Before
<1>8. FeedInv' BY DEF TransportInv, FeedInv, Whole, Units
<1> QED BY <1>5, <1>7, <1>8 DEF TransportInv

LEMMA HostSendsInv == IInv /\ HostSends => IInv'
<1> SUFFICES ASSUME IInv, HostSends PROVE IInv' OBVIOUS
<1> USE DEF IInv, HostSends, portVars, feedVars, txVars
<1> DEFINE f == sent + 1
<1>1. f \in Frames /\ sent \in Nat /\ frame \in Nat BY DEF TypeOK, Frames
<1>2. /\ len[f] \in Nat \ {0}
      /\ Units(f) \in Seq(Unit) /\ Len(Units(f)) = len[f]
      /\ \A i \in 1..len[f] : Units(f)[i] = <<f, i>>
  BY <1>1, UnitsType
<1>3. /\ out' \in Seq(Unit) /\ Len(out') = Len(out) + len[f]
      /\ \A i \in 1..Len(out) : out'[i] = out[i]
      /\ \A i \in (Len(out) + 1)..(Len(out) + len[f]) : out'[i] = <<f, i - Len(out)>>
  <2>1. out' = out \o Units(f) OBVIOUS
  <2>2. \A i \in (Len(out) + 1)..(Len(out) + len[f]) :
           i - Len(out) \in 1..len[f]
    BY <1>2, StreamTypes
  <2> DEFINE t == Units(f)
  <2>3. /\ out' = out \o t /\ t \in Seq(Unit) /\ Len(t) = len[f]
        /\ \A i \in 1..len[f] : t[i] = <<f, i>>
    BY ONLY <1>2, <2>1
  <2> HIDE DEF t, f
  <2>4. out \in Seq(Unit) BY DEF TypeOK
  <2>5. /\ out \o t \in Seq(Unit) /\ Len(out \o t) = Len(out) + Len(t)
        /\ \A i \in 1..Len(out) : (out \o t)[i] = out[i]
        /\ \A i \in (Len(out) + 1)..(Len(out) + Len(t)) : (out \o t)[i] = t[i - Len(out)]
    BY ONLY <2>3, <2>4, Concat
  <2> QED BY ONLY <2>2, <2>3, <2>5
<1>4. TypeOK' BY <1>1, <1>3 DEF TypeOK, Frames
<1>5. DOMAIN out' = 1..(Len(out) + len[f]) BY <1>3, LenProperties
<1>6. \A i \in DOMAIN out' :
         \/ i \in 1..Len(out) /\ out'[i] = out[i]
         \/ i > Len(out) /\ out'[i][1] = f /\ out'[i][2] = i - Len(out) /\ i - Len(out) <= len[f]
  BY <1>2, <1>3, <1>5, StreamTypes
<1>7. \A i \in 1..Len(out) : out[i][1] <= sent /\ out[i][1] >= frame + 1 /\ out[i][2] <= len[out[i][1]]
  BY <1>1, StreamTypes DEF TransportInv, StreamInv, Ahead
<1>8. \A i \in 1..Len(ring) : ring[i][1] <= sent /\ ring[i][1] >= frame + 1 /\ ring[i][2] <= len[ring[i][1]]
  BY <1>1, StreamTypes DEF TransportInv, StreamInv, Ahead
<1>9. (\A i \in 1..Len(out) : out[i] \in Nat \X Nat) /\ \A i \in 1..Len(ring) : ring[i] \in Nat \X Nat
  BY StreamTypes DEF Unit, Frames
<1>10. /\ sent' = f /\ frame <= sent /\ ring' = ring /\ frame' = frame /\ len' = len
       /\ DOMAIN ring = 1..Len(ring) /\ DOMAIN out = 1..Len(out) /\ Len(out) \in Nat
  BY StreamTypes DEF TransportInv, FeedInv
<1>11. StreamInv'
  <2>1. \A i \in DOMAIN ring' : Ahead(ring[i])'
    BY <1>1, <1>8, <1>9, <1>10 DEF Ahead
  <2>2. \A i \in DOMAIN out' : Ahead(out[i])'
    BY <1>1, <1>2, <1>6, <1>7, <1>9, <1>10 DEF Ahead
  <2>3. \A i, j \in DOMAIN ring' : i < j => Before(ring'[i], ring'[j])
    BY <1>10 DEF TransportInv, StreamInv
  <2>4. \A i, j \in DOMAIN out' : i < j => Before(out'[i], out'[j])
    BY <1>1, <1>5, <1>6, <1>7, <1>9, <1>10 DEF TransportInv, StreamInv, Before
  <2>5. ASSUME NEW i \in DOMAIN ring', NEW j \in DOMAIN out'
        PROVE  Before(ring'[i], out'[j])
    <3>1. CASE j \in 1..Len(out) /\ out'[j] = out[j]
      BY <3>1, <1>10 DEF TransportInv, StreamInv
    <3>2. CASE out'[j][1] = f
      BY <3>2, <1>1, <1>8, <1>9, <1>10 DEF Before
    <3> QED BY <3>1, <3>2, <1>6
  <2> QED BY <2>1, <2>2, <2>3, <2>4, <2>5 DEF StreamInv, Before, Ahead
<1>12. FeedInv' BY <1>1, <1>10 DEF TransportInv, FeedInv, Whole, Units
<1> QED BY <1>4, <1>11, <1>12 DEF TransportInv

LEMMA RxCallbackInv == IInv /\ RxCallback => IInv'
<1> SUFFICES ASSUME IInv, RxCallback PROVE IInv' OBVIOUS
<1> USE DEF IInv
<1>1. PICK n \in 1..Chunk :
         /\ n <= Len(out)
         /\ out' = SubSeq(out, n + 1, Len(out))
         /\ ring' = IF Len(ring) + n <= RingSize
                    THEN ring \o SubSeq(out, 1, n) ELSE ring
  BY DEF RxCallback
<1>2. UNCHANGED <<polite, len, silent, sent, since, rushed, heard, garbled, connected,
                  drops, held, fed, part, need, pc, frame, buf, ping, tx>>
  BY DEF RxCallback, hostVars, portVars, feedVars, txVars
<1> DEFINE c == SubSeq(out, 1, n)
<1>3. n \in 0..Len(out) BY <1>1, StreamTypes
<1>4. /\ out' \in Seq(Unit) /\ Len(out') = Len(out) - n
      /\ \A i \in 1..(Len(out) - n) : out'[i] = out[i + n]
  BY <1>1, <1>3, Rest DEF TypeOK
<1>5. c \in Seq(Unit) /\ Len(c) = n /\ \A i \in 1..n : c[i] = out[i]
  BY <1>3, First DEF TypeOK
<1> HIDE DEF c
<1>6. \/ ring' = ring
      \/ /\ ring' \in Seq(Unit) /\ Len(ring') = Len(ring) + n /\ Len(ring) + n <= RingSize
         /\ \A i \in 1..Len(ring) : ring'[i] = ring[i]
         /\ \A i \in (Len(ring) + 1)..(Len(ring) + n) : ring'[i] = c[i - Len(ring)]
  <2>1. ring \in Seq(Unit) /\ c \in Seq(Unit) BY <1>5 DEF TypeOK
  <2>2. /\ ring \o c \in Seq(Unit) /\ Len(ring \o c) = Len(ring) + Len(c)
        /\ \A i \in 1..Len(ring) : (ring \o c)[i] = ring[i]
        /\ \A i \in (Len(ring) + 1)..(Len(ring) + Len(c)) : (ring \o c)[i] = c[i - Len(ring)]
    BY ONLY <2>1, Concat, ZenonT(30)
  <2>3. ring' = IF Len(ring) + n <= RingSize THEN ring \o c ELSE ring
    BY <1>1 DEF c
  <2> QED BY ONLY <1>5, <2>2, <2>3
<1>7. ring' \in Seq(Unit) /\ Len(ring') <= RingSize /\ Len(ring') >= Len(ring)
  BY <1>3, <1>6, StreamTypes DEF TypeOK
<1>8. TypeOK'
  <2>1. held' \in 0..Len(ring') /\ Len(ring') \in Nat
    BY <1>2, <1>7, StreamTypes, LenProperties DEF TypeOK
  <2> QED BY ONLY TypeOK, <1>2, <1>4, <1>7, <2>1 DEF TypeOK
<1>9. DOMAIN ring' = 1..Len(ring') /\ DOMAIN out' = 1..(Len(out) - n)
  BY <1>4, <1>7, LenProperties
<1>10. \A i \in DOMAIN out' : i + n \in DOMAIN out /\ out'[i] = out[i + n]
  BY <1>3, <1>4, <1>9, StreamTypes
\* A unit of the new ring was in the ring, or among the first n of out.
<1>11. \A i \in DOMAIN ring' :
          \/ i \in DOMAIN ring /\ ring'[i] = ring[i]
          \/ /\ i > Len(ring) /\ i - Len(ring) \in DOMAIN out /\ i - Len(ring) <= n
             /\ ring'[i] = out[i - Len(ring)]
  <2>1. CASE ring' = ring BY <2>1
  <2>2. CASE /\ Len(ring') = Len(ring) + n
             /\ \A i \in 1..Len(ring) : ring'[i] = ring[i]
             /\ \A i \in (Len(ring) + 1)..(Len(ring) + n) : ring'[i] = c[i - Len(ring)]
    <3> SUFFICES ASSUME NEW i \in DOMAIN ring', i \notin 1..Len(ring)
                 PROVE  /\ i > Len(ring) /\ i - Len(ring) \in DOMAIN out
                        /\ i - Len(ring) <= n /\ ring'[i] = out[i - Len(ring)]
      BY <2>2, StreamTypes
    <3>1. i \in (Len(ring) + 1)..(Len(ring) + n) BY <1>9, <2>2, StreamTypes
    <3>2. i - Len(ring) \in 1..n /\ i > Len(ring) BY <3>1, StreamTypes
    <3> QED BY <1>3, <1>5, <2>2, <3>1, <3>2, StreamTypes
  <2> QED BY <1>6, <2>1, <2>2
<1>12. DOMAIN ring = 1..Len(ring) /\ Len(ring) \in Nat /\ DOMAIN out = 1..Len(out)
  BY StreamTypes
<1>13. StreamInv'
  <2> USE DEF TransportInv
  <2>1. \A i \in DOMAIN ring' : Ahead(ring'[i]) BY <1>11 DEF StreamInv
  <2>2. \A i \in DOMAIN out' : Ahead(out'[i]) BY <1>10 DEF StreamInv
  <2>3. ASSUME NEW i \in DOMAIN ring', NEW j \in DOMAIN ring', i < j
        PROVE  Before(ring'[i], ring'[j])
    <3>1. CASE j \in DOMAIN ring /\ ring'[j] = ring[j]
      <4>1. i \in DOMAIN ring /\ ring'[i] = ring[i] BY <1>9, <1>11, <1>12, <2>3, <3>1
      <4> QED BY <2>3, <3>1, <4>1 DEF StreamInv
    <3>2. CASE /\ j > Len(ring) /\ j - Len(ring) \in DOMAIN out
               /\ ring'[j] = out[j - Len(ring)]
      <4>1. CASE i \in DOMAIN ring /\ ring'[i] = ring[i]
        BY <3>2, <4>1 DEF StreamInv
      <4>2. CASE /\ i > Len(ring) /\ i - Len(ring) \in DOMAIN out
                 /\ ring'[i] = out[i - Len(ring)]
        <5>1. i - Len(ring) < j - Len(ring) BY <1>9, <1>12, <2>3, <1>7
        <5> QED BY <3>2, <4>2, <5>1 DEF StreamInv
      <4> QED BY <1>11, <4>1, <4>2
    <3> QED BY <1>11, <3>1, <3>2
  <2>4. \A i, j \in DOMAIN out' : i < j => Before(out'[i], out'[j])
    BY <1>3, <1>9, <1>10 DEF StreamInv
  <2>5. ASSUME NEW i \in DOMAIN ring', NEW j \in DOMAIN out'
        PROVE  Before(ring'[i], out'[j])
    <3>1. CASE i \in DOMAIN ring /\ ring'[i] = ring[i]
      BY <1>10, <3>1 DEF StreamInv
    <3>2. CASE /\ i - Len(ring) \in DOMAIN out /\ i - Len(ring) <= n
               /\ ring'[i] = out[i - Len(ring)]
      <4>1. i - Len(ring) < j + n BY <1>3, <1>9, <1>12, <3>2, StreamTypes
      <4> QED BY <1>10, <3>2, <4>1 DEF StreamInv
    <3> QED BY <1>11, <3>1, <3>2
  <2>6. \A u : Ahead(u) => Ahead(u)' BY <1>2 DEF Ahead
  <2> QED BY <2>1, <2>2, <2>3, <2>4, <2>5, <2>6, <1>2 DEF StreamInv, Ahead, Before
<1>14. FeedInv' BY <1>2 DEF TransportInv, FeedInv, Whole, Units
<1> QED BY <1>8, <1>13, <1>14 DEF TransportInv

-----------------------------------------------------------------------------
(* The parser.                                                             *)

\* Giving an item back keeps the order of what stays, and leaves what came
\* after it.
LEMMA Returned ==
    ASSUME TypeOK, StreamInv, ReturnItem
    PROVE  /\ ring' \in Seq(Unit) /\ Len(ring') = Len(ring) - held
           /\ DOMAIN ring' = 1..(Len(ring) - held)
           /\ \A i \in DOMAIN ring' : i + held \in DOMAIN ring /\ ring'[i] = ring[i + held]
           /\ held \in 0..Len(ring) /\ held' = 0 /\ fed' = 0
<1>1. held \in 0..Len(ring) BY DEF TypeOK
<1>2. /\ ring' \in Seq(Unit) /\ Len(ring') = Len(ring) - held
      /\ \A i \in 1..(Len(ring) - held) : ring'[i] = ring[i + held]
  BY <1>1, Rest DEF TypeOK, ReturnItem
<1>3. DOMAIN ring' = 1..(Len(ring) - held) BY <1>2, LenProperties
<1>4. \A i \in 1..(Len(ring) - held) : i + held \in 1..Len(ring)
  BY <1>1, StreamTypes
<1>5. held' = 0 /\ fed' = 0 BY DEF ReturnItem
<1> QED BY ONLY <1>1, <1>2, <1>3, <1>4, <1>5, TypeOK, StreamTypes

\* The last unit of a whole frame is its last.
LEMMA WholeEnds ==
    ASSUME TypeOK, NEW p \in Seq(Unit), NEW u \in Unit, Whole(Append(p, u))
    PROVE  u[2] = len[u[1]]
<1> DEFINE s == Append(p, u)
           f == s[1][1]
<1>1. /\ s \in Seq(Unit) /\ Len(s) = Len(p) + 1 /\ s[Len(p) + 1] = u
      /\ Len(p) \in Nat
  BY AppendProperties, LenProperties
<1>2. s = Units(f) BY DEF Whole
<1> HIDE DEF s
<1>3. s[1] \in Unit BY <1>1, ElementOfSeq
<1>4. f \in Frames BY <1>3 DEF Unit
<1> HIDE DEF f
<1>5. /\ len[f] \in Nat \ {0} /\ Len(Units(f)) = len[f]
      /\ \A i \in 1..len[f] : Units(f)[i] = <<f, i>>
  BY <1>4, UnitsType
<1>7. Len(s) = len[f] /\ len[f] \in 1..len[f] BY <1>2, <1>5
<1>8. s[len[f]] = <<f, len[f]>> BY ONLY <1>2, <1>5, <1>7
<1>6. u = <<f, len[f]>> BY ONLY <1>1, <1>7, <1>8
<1> QED BY <1>6

LEMMA FeedUnitInv == IInv /\ FeedUnit => IInv'
<1> SUFFICES ASSUME IInv, FeedUnit PROVE IInv' OBVIOUS
<1> USE DEF IInv
<1> DEFINE u == ring[fed + 1]
<1>1. UNCHANGED <<polite, len, silent, sent, since, rushed, heard, garbled, out,
                  connected, drops, buf, ping, tx>> /\ pc = "feed"
  BY DEF FeedUnit, hostVars, portVars, txVars
<1>2. /\ fed < held /\ held \in 0..Len(ring) /\ fed \in Nat /\ Len(ring) \in Nat
      /\ fed + 1 \in DOMAIN ring /\ DOMAIN ring = 1..Len(ring) /\ u \in Unit
  BY <1>1, StreamTypes DEF TransportInv, FeedInv, TypeOK
<1>3. u[1] \in Frames /\ u[2] \in Nat \ {0} /\ len[u[1]] \in FrameLens
  BY <1>2 DEF Unit, TypeOK
<1>4. PICK n \in Lens :
         LET s == IF n = 0 THEN <<>> ELSE Append(part, u) IN
         IF n # 0 /\ Len(s) = n
         THEN /\ ReturnItem
              /\ part' = s /\ need' = n
              /\ IF Whole(s) THEN pc' = "handle" /\ frame' = u[1]
                             ELSE pc' = "error" /\ UNCHANGED frame
         ELSE /\ part' = s /\ need' = n
              /\ IF fed + 1 = held THEN ReturnItem /\ pc' = "recv"
                 ELSE fed' = fed + 1 /\ UNCHANGED <<ring, held, pc>>
              /\ UNCHANGED frame
  <2>1. need \in Lens /\ len[u[1]] \in Lens BY <1>3 DEF TypeOK, Lens
  <2> QED BY <2>1 DEF FeedUnit
<1> DEFINE s == IF n = 0 THEN <<>> ELSE Append(part, u)
<1>5. part' = s /\ need' = n /\ s \in Seq(Unit)
  <2>1. <<>> \in Seq(Unit) /\ Append(part, u) \in Seq(Unit)
    BY <1>2, EmptySeq, AppendProperties DEF TypeOK
  <2> QED BY <1>4, <2>1
<1>6. Ahead(u) /\ u[1] > frame /\ u[1] <= sent /\ u[1] \in 0..MaxFrames
  <2>1. Ahead(u) BY <1>2 DEF TransportInv, StreamInv
  <2>2. u[1] \in (frame + 1)..sent BY <2>1 DEF Ahead
  <2>3. frame \in Nat /\ sent \in 0..MaxFrames BY DEF TypeOK
  <2> HIDE DEF u
  <2> QED BY <1>3, <2>1, <2>2, <2>3 DEF Frames
\* What is left of the ring came after u.
<1>7. ReturnItem => /\ \A i \in DOMAIN ring' : Before(u, ring'[i])
                   /\ \A j \in DOMAIN out : Before(u, out[j])
  <2> SUFFICES ASSUME ReturnItem
               PROVE  /\ \A i \in DOMAIN ring' : Before(u, ring'[i])
                      /\ \A j \in DOMAIN out : Before(u, out[j])
    OBVIOUS
  <2>1. \A i \in DOMAIN ring' : /\ i + held \in DOMAIN ring /\ fed + 1 < i + held
                                /\ ring'[i] = ring[i + held]
    BY Returned, <1>2 DEF TransportInv
  <2> QED BY <1>2, <2>1 DEF TransportInv, StreamInv
\* If u completes a frame, what came after it is of later ones.
<1>8. CASE n # 0 /\ Len(s) = n
  <2>1. /\ ReturnItem /\ pc' \in {"handle", "error"}
        /\ \/ Whole(s) /\ frame' = u[1]
           \/ pc' = "error" /\ frame' = frame
    BY <1>4, <1>8
  <2>2. /\ ring' \in Seq(Unit) /\ Len(ring') = Len(ring) - held
        /\ DOMAIN ring' = 1..(Len(ring) - held)
        /\ \A i \in DOMAIN ring' : i + held \in DOMAIN ring /\ ring'[i] = ring[i + held]
        /\ held' = 0 /\ fed' = 0
    BY <2>1, Returned DEF TransportInv
  <2>3. Len(ring') <= RingSize /\ held' \in 0..Len(ring') /\ fed' \in 0..held'
    BY <1>2, <2>2 DEF TypeOK
  <2>4. frame' \in 0..MaxFrames BY <1>6, <2>1 DEF TypeOK
  <2>5. TypeOK' BY <1>1, <1>5, <2>1, <2>2, <2>3, <2>4 DEF TypeOK
  <2>6. ASSUME NEW v \in Unit, Ahead(v), Before(u, v) 
        PROVE v[1] \in (frame' + 1)..sent' /\ v[2] <= len'[v[1]]
    <3>1. CASE frame' = frame BY <1>1, <2>6, <3>1 DEF Ahead
    <3>2. CASE Whole(s) /\ frame' = u[1]
      <4>1. u[2] = len[u[1]]
        BY <1>2, <1>8, <3>2, WholeEnds DEF TypeOK
      <4>2. v[1] \in Nat /\ v[2] \in Nat /\ sent \in Nat /\ len[v[1]] \in Nat
        <5>1. v[1] \in Frames /\ v[2] \in Nat BY <2>6 DEF Unit
        <5>2. len[v[1]] \in FrameLens BY <5>1 DEF TypeOK
        <5>3. sent \in Nat BY DEF TypeOK
        <5>4. v[1] \in Nat BY <5>1 DEF Frames
        <5>5. len[v[1]] \in Nat BY <5>2
        <5> QED BY <5>1, <5>3, <5>4, <5>5
      <4>3. v[1] > u[1]
        BY <1>3, <2>6, <4>1, <4>2 DEF Before, Ahead, Frames
      <4> QED BY <1>1, <1>3, <2>6, <3>2, <4>2, <4>3 DEF Ahead, Frames
    <3> QED BY <2>1, <3>1, <3>2
  <2>7. \A i \in DOMAIN ring' : /\ ring'[i][1] \in (frame' + 1)..sent'
                                /\ ring'[i][2] <= len'[ring'[i][1]]
    <3> TAKE i \in DOMAIN ring'
    <3>1. ring'[i] \in Unit /\ Ahead(ring'[i])
      BY <1>2, <2>2, StreamTypes DEF TransportInv, StreamInv
    <3> QED BY <1>7, <2>1, <2>6, <3>1
  <2>8. \A j \in DOMAIN out : /\ out[j][1] \in (frame' + 1)..sent'
                               /\ out[j][2] <= len'[out[j][1]]
    <3> TAKE j \in DOMAIN out
    <3>1. out[j] \in Unit /\ Ahead(out[j])
      BY StreamTypes DEF TransportInv, StreamInv
    <3> QED BY <1>7, <2>1, <2>6, <3>1
  <2>9. StreamInv'
    <3>1. \A i, j \in DOMAIN ring' : i < j => Before(ring'[i], ring'[j])
      BY <1>2, <2>2 DEF TransportInv, StreamInv
    <3>2. \A i \in DOMAIN ring', j \in DOMAIN out : Before(ring'[i], out[j])
      BY <2>2 DEF TransportInv, StreamInv
    <3> QED BY <1>1, <2>7, <2>8, <3>1, <3>2
            DEF TransportInv, StreamInv, Before, Ahead
  <2>10. FeedInv'
    <3>1. frame' <= sent' BY <1>1, <1>6, <2>1 DEF TransportInv, FeedInv
    <3>2. pc' = "handle" => Whole(part)' BY <1>1, <1>5, <2>1 DEF Whole, Units
    <3> QED BY <2>1, <2>2, <3>1, <3>2 DEF FeedInv
  <2> QED BY <2>5, <2>9, <2>10 DEF TransportInv
<1>9. CASE ~(n # 0 /\ Len(s) = n) /\ fed + 1 = held
  <2>1. ReturnItem /\ pc' = "recv" /\ frame' = frame BY <1>4, <1>9
  <2>2. /\ ring' \in Seq(Unit) /\ Len(ring') = Len(ring) - held
        /\ DOMAIN ring' = 1..(Len(ring) - held)
        /\ \A i \in DOMAIN ring' : i + held \in DOMAIN ring /\ ring'[i] = ring[i + held]
        /\ held' = 0 /\ fed' = 0
    BY <2>1, Returned DEF TransportInv
  <2>3. Len(ring') <= RingSize /\ held' \in 0..Len(ring') /\ fed' \in 0..held'
    BY <1>2, <2>2 DEF TypeOK
  <2>4. TypeOK' BY <1>1, <1>5, <2>1, <2>2, <2>3 DEF TypeOK
  <2>5. StreamInv'
    <3>1. \A i \in DOMAIN ring' : Ahead(ring'[i]) BY <2>2 DEF TransportInv, StreamInv
    <3>2. \A i, j \in DOMAIN ring' : i < j => Before(ring'[i], ring'[j])
      BY <1>2, <2>2 DEF TransportInv, StreamInv
    <3>3. \A i \in DOMAIN ring', j \in DOMAIN out : Before(ring'[i], out[j])
      BY <2>2 DEF TransportInv, StreamInv
    <3> QED BY <1>1, <2>1, <3>1, <3>2, <3>3 DEF TransportInv, StreamInv, Before, Ahead
  <2>6. FeedInv' BY <1>1, <2>1, <2>2 DEF TransportInv, FeedInv
  <2> QED BY <2>4, <2>5, <2>6 DEF TransportInv
<1>10. CASE ~(n # 0 /\ Len(s) = n) /\ fed + 1 # held
  <2>1. fed' = fed + 1 /\ UNCHANGED <<ring, held, pc, frame>> BY <1>4, <1>10
  <2>2. fed' \in 0..held /\ fed' < held BY <1>2, <1>10, <2>1
  <2>3. TypeOK' BY <1>1, <1>5, <2>1, <2>2 DEF TypeOK
  <2>4. StreamInv' BY <1>1, <2>1, BytesKept DEF TransportInv
  <2>5. FeedInv' BY <1>1, <2>1, <2>2 DEF TransportInv, FeedInv
  <2> QED BY <2>3, <2>4, <2>5 DEF TransportInv
<1> QED BY <1>8, <1>9, <1>10

-----------------------------------------------------------------------------
LEMMA NextInv == IInv /\ [Next]_vars => IInv'
<1> SUFFICES ASSUME IInv, [Next]_vars PROVE IInv' OBVIOUS
<1>1. CASE UNCHANGED vars
  <2>1. UNCHANGED <<polite, len, silent, sent, since, rushed, heard, garbled, out,
                    connected, drops, ring, held, fed, part, need, pc, frame, buf,
                    ping, tx>>
    BY <1>1 DEF vars, hostVars, portVars, feedVars, txVars
  <2>2. TypeOK' BY <2>1 DEF IInv, TypeOK
  <2>3. StreamInv' BY <2>1, BytesKept DEF IInv, TransportInv
  <2>4. FeedInv' BY <2>1 DEF IInv, TransportInv, FeedInv, Whole, Units
  <2> QED BY <2>2, <2>3, <2>4 DEF IInv, TransportInv
<1>2. CASE Next
  BY <1>2, HostOpensInv, HostClosesInv, HostSendsInv, HostReadsInv,
     RxCallbackInv, DeviceReadyInv, TakeInv, FeedUnitInv, HandleFrameInv,
     HandleErrorInv, FlushEndsInv, PingEncodeInv, PingSendInv
     DEF Next, Device
<1> QED BY <1>1, <1>2

\* The ring buffer, the parser and the queue of answers keep their types and
\* their sizes, for any chunk, ring and frame lengths.
THEOREM TypeCorrect == Spec => []TypeOK
<1>1. IInv => TypeOK BY DEF IInv
<1> QED BY InitInv, NextInv, <1>1, PTL DEF Spec

\* Every byte on its way belongs to a later frame than the last one handled, in
\* the order of writing, and what is handled is a whole frame.
THEOREM BytesInOrder == Spec => []TransportInv
<1>1. IInv => TransportInv BY DEF IInv
<1> QED BY InitInv, NextInv, <1>1, PTL DEF Spec

-----------------------------------------------------------------------------
(* The refinement.                                                         *)

\* What hwp_task handles is a frame.
LEMMA HandledIsFrame == IInv => Handled = frame
BY DEF IInv, TransportInv, FeedInv, Handled

\* The channel's steps.
LEMMA ChannelStep ==
    ASSUME IInv, IInv', [Next]_vars
    PROVE  [LC!Next]_<<sent, Handled, pc = "handle">>
<1>1. Handled = frame BY HandledIsFrame
<1>2. (Handled = frame)' BY HandledIsFrame, PTL
<1> DEFINE Goal == [LC!Next]_<<sent, Handled, pc = "handle">>
\* Steps the channel does not see.
<1>3. UNCHANGED <<sent, frame>> /\ (pc = "handle") = (pc = "handle")' => Goal
  BY <1>1, <1>2
<1>4. CASE UNCHANGED vars BY <1>3, <1>4 DEF vars, hostVars
<1>5. CASE HostSends
  <2>1. LC!Send BY <1>1, <1>2, <1>5 DEF HostSends, LC!Send
  <2> QED BY <2>1 DEF LC!Next
<1>6. CASE HostOpens BY <1>3, <1>6 DEF HostOpens, hostVars
<1>7. CASE HostCloses BY <1>3, <1>7 DEF HostCloses
<1>8. CASE HostReads BY <1>3, <1>8 DEF HostReads
<1>9. CASE RxCallback BY <1>3, <1>9 DEF RxCallback, hostVars
<1>10. CASE DeviceReady BY <1>3, <1>10 DEF DeviceReady, hostVars
<1>11. CASE Take BY <1>3, <1>11 DEF Take, hostVars
<1>12. CASE FeedUnit
  <2> DEFINE u == ring[fed + 1]
  <2>1. pc = "feed" /\ sent' = sent BY <1>12 DEF FeedUnit, hostVars
  <2>2. \/ pc' = "handle" /\ frame' = u[1]
        \/ pc' \in {"error", "recv", "feed"} /\ frame' = frame
    BY <1>12, <2>1 DEF FeedUnit
  <2>3. fed + 1 \in DOMAIN ring
    <3>1. fed < held BY <2>1 DEF IInv, TransportInv, FeedInv
    <3>2. held \in 0..Len(ring) /\ fed \in 0..held BY DEF IInv, TypeOK
    <3>3. DOMAIN ring = 1..Len(ring) /\ Len(ring) \in Nat
      BY StreamTypes DEF IInv
    <3> QED BY ONLY <3>1, <3>2, <3>3
  <2>4. u[1] \in (frame + 1)..sent
    BY <2>3 DEF IInv, TransportInv, StreamInv, Ahead
  <2>5. CASE pc' = "handle" /\ frame' = u[1]
    <3>1. LC!Deliver
      BY <1>1, <1>2, <2>1, <2>4, <2>5 DEF LC!Deliver
    <3> QED BY <3>1 DEF LC!Next
  <2>6. CASE pc' # "handle" /\ frame' = frame BY <1>3, <2>1, <2>6
  <2> QED BY <2>2, <2>5, <2>6
<1>13. CASE HandleFrame
  <2>1. pc = "handle" /\ pc' \in {"flush", "recv"} /\ UNCHANGED <<sent, frame>>
    BY <1>13 DEF HandleFrame, Answer, Listen, hostVars
  <2>2. LC!Done BY <1>1, <1>2, <2>1 DEF LC!Done
  <2> QED BY <2>2 DEF LC!Next
<1>14. CASE HandleError
  <2>1. pc = "error" /\ pc' \in {"flush", "recv"} /\ UNCHANGED <<sent, frame>>
    BY <1>14 DEF HandleError, Answer, Listen, hostVars
  <2> QED BY <1>3, <2>1
<1>15. CASE FlushEnds BY <1>3, <1>15 DEF FlushEnds, Listen, hostVars
<1>16. CASE PingEncode BY <1>3, <1>16 DEF PingEncode, hostVars
<1>17. CASE PingSend BY <1>3, <1>17 DEF PingSend, hostVars
<1> QED
  BY <1>4, <1>5, <1>6, <1>7, <1>8, <1>9, <1>10, <1>11, <1>12, <1>13, <1>14,
     <1>15, <1>16, <1>17 DEF Next, Device

\* The way from the host to the handlers is a lossy channel: frames are lost,
\* but none is repeated, reordered, cut, merged or made up.
THEOREM TransportImplementsChannel == Spec => ImplementsLossyChannel
<1>1. Init => LC!Init
  BY DEF Init, LC!Init, Handled
<1> QED BY <1>1, InitInv, NextInv, ChannelStep, PTL
        DEF Spec, ImplementsLossyChannel, LC!Spec

-----------------------------------------------------------------------------
(* Answers.  The newest answer is in tx_buf, unless a PING or an ERROR is; *)
(* those in the stack are in the order of their frames, none of them older *)
(* than what the host has read.                                            *)

AnswerInv ==
    /\ heard <= frame /\ buf <= frame /\ (buf # 0 => heard <= buf)
    /\ \A i \in DOMAIN tx : tx[i].to <= frame /\ (buf # 0 => tx[i].to <= buf)
    /\ \A i \in DOMAIN tx : tx[i].to # 0 => heard <= tx[i].to
    /\ \A i, j \in DOMAIN tx : i < j /\ tx[i].to # 0 /\ tx[j].to # 0 => tx[i].to <= tx[j].to

LEMMA AnswerTypes ==
    ASSUME TypeOK
    PROVE  /\ heard \in Nat /\ buf \in Nat /\ frame \in Nat
           /\ Len(tx) \in Nat /\ DOMAIN tx = 1..Len(tx)
           /\ \A i \in DOMAIN tx : tx[i] \in Piece /\ tx[i].to \in Nat
<1>1. \A i \in DOMAIN tx : tx[i] \in Piece BY ElementOfSeq, LenProperties DEF TypeOK
<1> QED BY <1>1, LenProperties DEF TypeOK, Piece

\* The last frame handled never gets an earlier one.
LEMMA FrameGrows == IInv /\ [Next]_vars => frame' >= frame
<1> SUFFICES ASSUME IInv, [Next]_vars PROVE frame' >= frame OBVIOUS
<1>1. frame \in Nat BY DEF IInv, TypeOK
<1>2. CASE FeedUnit
  <2> DEFINE u == ring[fed + 1]
  <2>1. pc = "feed" /\ frame' \in {frame, u[1]} BY <1>2 DEF FeedUnit
  <2>2. fed + 1 \in DOMAIN ring
    <3>1. fed < held BY <2>1 DEF IInv, TransportInv, FeedInv
    <3>2. held \in 0..Len(ring) /\ fed \in 0..held BY DEF IInv, TypeOK
    <3>3. DOMAIN ring = 1..Len(ring) /\ Len(ring) \in Nat BY StreamTypes DEF IInv
    <3> QED BY ONLY <3>1, <3>2, <3>3
  <2>3. u[1] \in (frame + 1)..sent
    BY <2>2 DEF IInv, TransportInv, StreamInv, Ahead
  <2> HIDE DEF u
  <2> QED BY <1>1, <2>1, <2>3
<1>3. CASE ~FeedUnit
  <2>1. frame' = frame
    BY <1>3 DEF Next, Device, HostOpens, HostCloses, HostSends, HostReads, RxCallback,
                DeviceReady, Take, HandleFrame, HandleError, FlushEnds, PingEncode,
                PingSend, vars
  <2> QED BY <1>1, <2>1
<1> QED BY <1>2, <1>3

\* The stack holds what it held, and perhaps one piece more.
LEMMA Queued ==
    ASSUME TypeOK, NEW p \in Piece, Queue(p)
    PROVE  \A i \in DOMAIN tx' :
              \/ i \in DOMAIN tx /\ tx'[i] = tx[i]
              \/ i = Len(tx) + 1 /\ tx'[i].to = p.to
<1> DEFINE h == [p EXCEPT !.whole = FALSE]
<1>1. h \in Piece /\ h.to = p.to BY DEF Piece
<1> HIDE DEF h
<1>2. tx' \in {tx, Append(tx, p), Append(tx, h)} BY DEF Queue, h
<1>3. CASE tx' = tx BY <1>3
<1>4. CASE \E q \in {p, h} : tx' = Append(tx, q)
  <2>1. PICK q \in {p, h} : tx' = Append(tx, q) BY <1>4
  <2>2. q \in Piece /\ q.to = p.to BY <1>1, <2>1
  <2>3. /\ Len(tx') = Len(tx) + 1 /\ DOMAIN tx' = 1..(Len(tx) + 1)
        /\ \A i \in 1..Len(tx) : tx'[i] = tx[i]
        /\ tx'[Len(tx) + 1] = q
    BY <2>1, <2>2, AppendProperties, LenProperties DEF TypeOK
  <2>4. Len(tx) \in Nat /\ DOMAIN tx = 1..Len(tx) BY AnswerTypes
  <2> QED BY ONLY <2>2, <2>3, <2>4
<1> QED BY <1>2, <1>3, <1>4

\* A piece that is no older than those before it keeps the order.
LEMMA QueuedInOrder ==
    ASSUME TypeOK, AnswerInv, NEW p \in Piece, Queue(p), UNCHANGED <<heard, frame>>,
           p.to = buf', buf' \in {0, buf, frame}
    PROVE  AnswerInv'
<1>1. \A i \in DOMAIN tx' :
         \/ i \in DOMAIN tx /\ tx'[i] = tx[i]
         \/ i = Len(tx) + 1 /\ tx'[i].to = p.to
  BY Queued
<1>2. /\ heard \in Nat /\ buf \in Nat /\ frame \in Nat /\ buf' \in Nat
      /\ Len(tx) \in Nat /\ DOMAIN tx = 1..Len(tx)
      /\ \A i \in DOMAIN tx : tx[i].to \in Nat
  BY AnswerTypes
<1>3. buf' <= frame /\ (buf' # 0 => heard <= buf') BY <1>2 DEF AnswerInv
<1>4. buf' # 0 => \A i \in DOMAIN tx : tx[i].to <= buf' BY <1>2 DEF AnswerInv
<1>7. \A i, j \in DOMAIN tx' :
         i < j /\ tx'[i].to # 0 /\ tx'[j].to # 0 => tx'[i].to <= tx'[j].to
  <2> SUFFICES ASSUME NEW i \in DOMAIN tx', NEW j \in DOMAIN tx', i < j,
                      tx'[i].to # 0, tx'[j].to # 0
               PROVE  tx'[i].to <= tx'[j].to
    OBVIOUS
  <2>1. i \in DOMAIN tx
    BY <1>1, <1>2
  <2>2. CASE j \in DOMAIN tx
    BY <1>1, <1>2, <2>1, <2>2 DEF AnswerInv
  <2>3. CASE j = Len(tx) + 1 /\ tx'[j].to = p.to
    BY <1>1, <1>2, <1>4, <2>1, <2>3
  <2> QED BY <1>1, <2>2, <2>3
<1>8. \A i \in DOMAIN tx' : /\ tx'[i].to <= frame /\ (buf' # 0 => tx'[i].to <= buf')
                            /\ tx'[i].to # 0 => heard <= tx'[i].to
  BY <1>1, <1>2, <1>3, <1>4 DEF AnswerInv
<1>9. heard <= frame BY DEF AnswerInv
<1> QED BY <1>3, <1>7, <1>8, <1>9 DEF AnswerInv

\* The oldest pieces go, read or lost.
LEMMA Unqueued ==
    ASSUME TypeOK, AnswerInv, UNCHANGED <<buf, frame>>, NEW m \in Nat,
           \A i \in DOMAIN tx' : i + m \in DOMAIN tx /\ tx'[i] = tx[i + m],
           DOMAIN tx' \subseteq Nat \ {0},
           \/ heard' = heard
           \/ \E k \in DOMAIN tx : k <= m /\ tx[k].to # 0 /\ heard' = tx[k].to
    PROVE  AnswerInv'
<1>1. /\ heard \in Nat /\ buf \in Nat /\ frame \in Nat /\ DOMAIN tx = 1..Len(tx)
      /\ Len(tx) \in Nat /\ \A i \in DOMAIN tx : tx[i].to \in Nat
  BY AnswerTypes
<1>2. \A i, j \in DOMAIN tx' :
         i < j /\ tx'[i].to # 0 /\ tx'[j].to # 0 => tx'[i].to <= tx'[j].to
  <2> SUFFICES ASSUME NEW i \in DOMAIN tx', NEW j \in DOMAIN tx', i < j,
                      tx'[i].to # 0, tx'[j].to # 0
               PROVE  tx'[i].to <= tx'[j].to
    OBVIOUS
  <2>1. i + m \in DOMAIN tx /\ j + m \in DOMAIN tx /\ i + m < j + m
    OBVIOUS
  <2> QED BY <2>1 DEF AnswerInv
<1>3. \A i \in DOMAIN tx' : tx'[i].to <= frame /\ (buf # 0 => tx'[i].to <= buf)
  BY DEF AnswerInv
<1>4. CASE heard' = heard
  <2>1. \A i \in DOMAIN tx' : tx'[i].to # 0 => heard <= tx'[i].to
    BY DEF AnswerInv
  <2> QED BY <1>2, <1>3, <1>4, <2>1 DEF AnswerInv
<1>5. CASE \E k \in DOMAIN tx : k <= m /\ tx[k].to # 0 /\ heard' = tx[k].to
  <2>1. PICK k \in DOMAIN tx : k <= m /\ tx[k].to # 0 /\ heard' = tx[k].to
    BY <1>5
  <2>2. heard' <= frame /\ (buf # 0 => heard' <= buf) /\ buf <= frame
    BY <2>1 DEF AnswerInv
  <2>3. \A i \in DOMAIN tx' : tx'[i].to # 0 => heard' <= tx'[i].to
    <3> SUFFICES ASSUME NEW i \in DOMAIN tx', tx'[i].to # 0 PROVE heard' <= tx'[i].to
      OBVIOUS
    <3>1. i + m \in DOMAIN tx /\ tx'[i] = tx[i + m] /\ i \in Nat \ {0}
      OBVIOUS
    <3>2. k < i + m BY <1>1, <2>1, <3>1
    <3> QED BY <2>1, <3>1, <3>2 DEF AnswerInv
  <2> QED BY <1>2, <1>3, <2>2, <2>3 DEF AnswerInv
<1> QED BY <1>4, <1>5

LEMMA AnswerNext == IInv /\ AnswerInv /\ [Next]_vars => AnswerInv' /\ heard' >= heard
<1> SUFFICES ASSUME IInv, AnswerInv, [Next]_vars PROVE AnswerInv' /\ heard' >= heard
  OBVIOUS
<1>1. /\ heard \in Nat /\ buf \in Nat /\ frame \in Nat /\ frame' \in Nat
      /\ Len(tx) \in Nat /\ DOMAIN tx = 1..Len(tx)
      /\ \A i \in DOMAIN tx : tx[i] \in Piece /\ tx[i].to \in Nat
      /\ TypeOK /\ frame' >= frame
  <2>1. TypeOK' /\ TypeOK /\ frame' >= frame BY FrameGrows, NextInv DEF IInv
  <2>2. frame' \in Nat BY <2>1 DEF TypeOK
  <2> QED BY <2>1, <2>2, AnswerTypes
<1>2. ASSUME UNCHANGED <<heard, buf, tx>> PROVE AnswerInv' /\ heard' >= heard
  <2>1. \A i \in DOMAIN tx : tx[i].to <= frame' BY <1>1 DEF AnswerInv
  <2>2. heard <= frame' /\ buf <= frame' BY <1>1 DEF AnswerInv
  <2> QED BY <1>1, <1>2, <2>1, <2>2 DEF AnswerInv
<1>3. CASE \/ HostOpens \/ HostSends \/ RxCallback \/ DeviceReady \/ Take
           \/ FeedUnit \/ FlushEnds \/ UNCHANGED vars
  BY <1>2, <1>3 DEF HostOpens, HostSends, RxCallback, DeviceReady, Take, FeedUnit,
                    FlushEnds, vars, hostVars, txVars
<1>4. CASE HostCloses
  <2>1. PICK m \in 0..Len(tx) : tx' = SubSeq(tx, m + 1, Len(tx))
    BY <1>4 DEF HostCloses, Suffixes
  <2>2. /\ tx' \in Seq(Piece) /\ Len(tx') = Len(tx) - m
        /\ \A i \in 1..(Len(tx) - m) : tx'[i] = tx[i + m]
    <3>1. tx \in Seq(Piece) BY <1>1 DEF TypeOK
    <3> QED BY ONLY <2>1, <3>1, Rest
  <2>3. DOMAIN tx' = 1..(Len(tx) - m) BY <2>2, LenProperties
  <2>4. \A i \in DOMAIN tx' : i + m \in DOMAIN tx /\ tx'[i] = tx[i + m]
    BY <1>1, <2>2, <2>3
  <2>5. UNCHANGED <<heard, buf, frame>> /\ m \in Nat /\ DOMAIN tx' \subseteq Nat \ {0}
    BY <1>1, <1>4, <2>3 DEF HostCloses
  <2> QED BY <1>1, <2>4, <2>5, Unqueued
<1>5. CASE HostReads
  <2>1. /\ tx # <<>> /\ tx' = Tail(tx) /\ UNCHANGED <<buf, frame>>
        /\ heard' = heard \/ (Head(tx).to # 0 /\ heard' = Head(tx).to)
    BY <1>5 DEF HostReads
  <2>2. /\ Len(tx) > 0 /\ 1 \in DOMAIN tx /\ Head(tx) = tx[1]
        /\ tx' \in Seq(Piece) /\ Len(tx') = Len(tx) - 1
        /\ \A i \in 1..(Len(tx) - 1) : tx'[i] = tx[i + 1]
    BY <1>1, <2>1, HeadTailProperties, EmptySeq DEF TypeOK
  <2>3. DOMAIN tx' = 1..(Len(tx) - 1) BY <2>2, LenProperties
  <2>4. \A i \in DOMAIN tx' : i + 1 \in DOMAIN tx /\ tx'[i] = tx[i + 1]
    BY <1>1, <2>2, <2>3
  <2>5. DOMAIN tx' \subseteq Nat \ {0} BY <1>1, <2>3
  <2>6. AnswerInv' BY <1>1, <2>1, <2>2, <2>4, <2>5, Unqueued
  <2>7. heard' >= heard BY <1>1, <2>1, <2>2 DEF AnswerInv
  <2> QED BY <2>6, <2>7
<1>6. CASE HandleFrame
  <2>1. UNCHANGED <<heard, frame>> BY <1>6 DEF HandleFrame, hostVars
  <2>2. CASE frame \in silent
    BY <1>2, <1>6, <2>1, <2>2 DEF HandleFrame, txVars
  <2>3. CASE frame \notin silent
    <3>1. [to |-> frame, whole |-> TRUE] \in Piece BY <1>1 DEF Piece, TypeOK
    <3>2. buf' = frame /\ Queue([to |-> frame, whole |-> TRUE])
      BY <1>6, <2>3 DEF HandleFrame, Answer
    <3> QED BY <1>1, <2>1, <3>1, <3>2, QueuedInOrder
  <2> QED BY <2>2, <2>3
<1>7. CASE HandleError
  <2>1. [to |-> 0, whole |-> TRUE] \in Piece BY DEF Piece
  <2>2. UNCHANGED <<heard, frame>> /\ buf' = 0 /\ Queue([to |-> 0, whole |-> TRUE])
    BY <1>7 DEF HandleError, Answer, hostVars
  <2> QED BY <1>1, <2>1, <2>2, QueuedInOrder
<1>8. CASE PingEncode
  BY <1>1, <1>8 DEF PingEncode, AnswerInv, hostVars
<1>9. CASE PingSend
  <2>1. PICK w \in BOOLEAN : Queue([to |-> buf, whole |-> w])
    BY <1>9 DEF PingSend
  <2>2. [to |-> buf, whole |-> w] \in Piece BY <1>1 DEF Piece, TypeOK
  <2>3. UNCHANGED <<heard, frame, buf>> BY <1>9 DEF PingSend, hostVars
  <2> QED BY <1>1, <2>1, <2>2, <2>3, QueuedInOrder
<1> QED BY <1>3, <1>4, <1>5, <1>6, <1>7, <1>8, <1>9 DEF Next, Device

LEMMA AnswerInit == Init => AnswerInv
<1>1. Init => DOMAIN tx = {} BY DEF Init
<1> QED BY <1>1 DEF Init, AnswerInv

\* What the host reads answers frames in the order it wrote them, also when a
\* preempted PING repeats an answer and when connections drop.
THEOREM AnswersStayInOrder == Spec => AnswersInOrder
<1>1. IInv /\ AnswerInv /\ [Next]_vars => (IInv /\ AnswerInv)'
  BY NextInv, AnswerNext
<1>2. IInv /\ AnswerInv /\ [Next]_vars => [heard' >= heard]_vars
  BY AnswerNext
<1> QED BY <1>1, <1>2, InitInv, AnswerInit, PTL DEF Spec, AnswersInOrder

-----------------------------------------------------------------------------
(* A host that waits for its answers.  Once it has read the answer to a    *)
(* frame of this connection, that is the answer to its last frame, so      *)
(* nothing of the stream is on the way any more, and the next frame has    *)
(* the ring to itself.                                                     *)

\* Only frames that get one are answered, and of the present connection's
\* frames the host has left no other behind.
PaceInv ==
    /\ since <= sent
    /\ buf \notin silent /\ \A i \in DOMAIN tx : tx[i].to \notin silent
    /\ polite => \A n \in (since + 1)..(sent - 1) : n \in silent \/ n <= heard

LEMMA PaceTypes ==
    ASSUME TypeOK
    PROVE  /\ since \in Nat /\ sent \in Nat /\ heard \in Nat /\ frame \in Nat
           /\ silent \subseteq Nat \ {0}
BY DEF TypeOK, Frames

LEMMA PaceInit == Init => PaceInv
<1>1. Init => DOMAIN tx = {} BY DEF Init
<1>2. Init => 0 \notin silent BY DEF Init, Frames
<1> QED BY <1>1, <1>2 DEF Init, PaceInv

\* What is sent while the buffer holds no answer to a silent frame is none.
LEMMA PaceQueued ==
    ASSUME IInv, PaceInv, NEW p \in Piece, Queue(p), p.to \notin silent, p.to = buf',
           UNCHANGED hostVars
    PROVE  PaceInv'
<1>1. \A i \in DOMAIN tx' :
         \/ i \in DOMAIN tx /\ tx'[i] = tx[i]
         \/ tx'[i].to = p.to
  BY Queued DEF IInv
<1>2. \A i \in DOMAIN tx' : tx'[i].to \notin silent BY <1>1 DEF PaceInv
<1> QED BY <1>2 DEF PaceInv, hostVars

LEMMA PaceAnswer ==
    ASSUME IInv, PaceInv, NEW f \in 0..MaxFrames, Answer(f), f \notin silent,
           UNCHANGED hostVars
    PROVE  PaceInv'
<1>1. [to |-> f, whole |-> TRUE] \in Piece BY DEF Piece
<1> QED BY <1>1, PaceQueued DEF Answer

LEMMA PaceNext == IInv /\ AnswerInv /\ PaceInv /\ [Next]_vars => PaceInv'
<1> SUFFICES ASSUME IInv, AnswerInv, PaceInv, [Next]_vars PROVE PaceInv' OBVIOUS
<1>1. /\ since \in Nat /\ sent \in Nat /\ heard \in Nat /\ frame \in Nat
      /\ silent \subseteq Nat \ {0} /\ TypeOK
      /\ Len(tx) \in Nat /\ DOMAIN tx = 1..Len(tx)
      /\ \A i \in DOMAIN tx : tx[i] \in Piece /\ tx[i].to \in Nat
  BY PaceTypes, AnswerTypes DEF IInv
<1>2. ASSUME UNCHANGED <<hostVars, buf, tx>> PROVE PaceInv'
  BY <1>2 DEF PaceInv, hostVars
<1>3. CASE \/ RxCallback \/ DeviceReady \/ Take \/ FeedUnit \/ FlushEnds
           \/ UNCHANGED vars
  BY <1>2, <1>3 DEF RxCallback, DeviceReady, Take, FeedUnit, FlushEnds, vars, txVars
<1>4. CASE HostOpens
  <2>1. /\ since' = sent /\ UNCHANGED <<polite, silent, sent, heard, buf, tx>>
    BY <1>4 DEF HostOpens
  <2>2. (sent + 1)..(sent - 1) = {} BY <1>1
  <2> QED BY <1>1, <2>1, <2>2 DEF PaceInv
<1>5. CASE HostSends
  <2>1. /\ sent' = sent + 1 /\ UNCHANGED <<polite, silent, since, heard, buf, tx>>
        /\ polite => heard = sent \/ sent = since \/ sent \in silent
    BY <1>5 DEF HostSends, txVars
  <2>2. \A n \in (since + 1)..sent : n \in (since + 1)..(sent - 1) \/ n = sent
    BY <1>1
  <2>3. ASSUME polite, NEW n \in (since + 1)..sent PROVE n \in silent \/ n <= heard
    <3>1. CASE n \in (since + 1)..(sent - 1) BY <2>3, <3>1 DEF PaceInv
    <3>2. CASE n = sent BY <1>1, <2>1, <2>3, <3>2
    <3> QED BY <2>2, <3>1, <3>2
  <2>4. sent' - 1 = sent /\ since <= sent' BY <1>1, <2>1 DEF PaceInv
  <2> QED BY <2>1, <2>3, <2>4 DEF PaceInv
<1>6. CASE HostCloses
  <2>1. PICK m \in 0..Len(tx) : tx' = SubSeq(tx, m + 1, Len(tx))
    BY <1>6 DEF HostCloses, Suffixes
  <2>2. tx \in Seq(Piece) BY <1>1 DEF TypeOK
  <2>3. /\ tx' \in Seq(Piece) /\ Len(tx') = Len(tx) - m
        /\ \A i \in 1..(Len(tx) - m) : tx'[i] = tx[i + m]
    BY ONLY <2>1, <2>2, Rest
  <2>4. DOMAIN tx' = 1..(Len(tx) - m) BY <2>3, LenProperties
  <2>5. \A i \in DOMAIN tx' : i + m \in DOMAIN tx /\ tx'[i] = tx[i + m]
    BY <1>1, <2>3, <2>4
  <2>6. UNCHANGED <<polite, silent, sent, since, heard, buf>> BY <1>6 DEF HostCloses
  <2> QED BY <2>5, <2>6 DEF PaceInv
<1>7. CASE HostReads
  <2>1. /\ tx # <<>> /\ tx' = Tail(tx)
        /\ UNCHANGED <<polite, silent, sent, since, buf>>
    BY <1>7 DEF HostReads
  <2>2. /\ tx' \in Seq(Piece) /\ Len(tx') = Len(tx) - 1
        /\ \A i \in 1..(Len(tx) - 1) : tx'[i] = tx[i + 1]
    BY <1>1, <2>1, HeadTailProperties, EmptySeq DEF TypeOK
  <2>3. DOMAIN tx' = 1..(Len(tx) - 1) BY <2>2, LenProperties
  <2>4. \A i \in DOMAIN tx' : i + 1 \in DOMAIN tx /\ tx'[i] = tx[i + 1]
    BY <1>1, <2>2, <2>3
  <2>5. heard' >= heard /\ heard' \in Nat
    <3>1. heard' >= heard BY AnswerNext
    <3>2. TypeOK' BY NextInv DEF IInv
    <3> QED BY <3>1, <3>2 DEF TypeOK
  <2>6. \A n \in (since + 1)..(sent - 1) : n <= heard => n <= heard'
    BY <1>1, <2>5
  <2> QED BY <2>1, <2>4, <2>6 DEF PaceInv
<1>8. CASE HandleFrame
  <2>1. UNCHANGED hostVars /\ frame \in 0..MaxFrames
    BY <1>1, <1>8 DEF HandleFrame, TypeOK
  <2>2. CASE frame \in silent
    BY <1>2, <1>8, <2>1, <2>2 DEF HandleFrame, txVars
  <2>3. CASE frame \notin silent
    BY <1>8, <2>1, <2>3, PaceAnswer DEF HandleFrame
  <2> QED BY <2>2, <2>3
<1>9. CASE HandleError
  <2>1. UNCHANGED hostVars /\ 0 \in 0..MaxFrames /\ 0 \notin silent /\ Answer(0)
    BY <1>1, <1>9 DEF HandleError
  <2> QED BY <2>1, PaceAnswer
<1>10. CASE PingEncode
  BY <1>1, <1>10 DEF PingEncode, PaceInv, hostVars
<1>11. CASE PingSend
  <2>1. PICK w \in BOOLEAN : Queue([to |-> buf, whole |-> w])
    BY <1>11 DEF PingSend
  <2>2. [to |-> buf, whole |-> w] \in Piece BY <1>1 DEF Piece, TypeOK
  <2>3. UNCHANGED hostVars /\ buf' = buf /\ buf \notin silent
    BY <1>11 DEF PingSend, PaceInv
  <2> QED BY <2>1, <2>2, <2>3, PaceQueued
<1> QED
  BY <1>3, <1>4, <1>5, <1>6, <1>7, <1>8, <1>9, <1>10, <1>11 DEF Next, Device

\* When the last frame written has been handled, nothing is on the way.
LEMMA NothingLeft ==
    ASSUME IInv, frame >= sent
    PROVE  Len(ring) = 0 /\ Len(out) = 0
<1>1. sent \in Nat /\ frame \in Nat BY DEF IInv, TypeOK
<1>2. (frame + 1)..sent = {} BY <1>1
<1>3. \A i \in DOMAIN ring : FALSE BY <1>2 DEF IInv, TransportInv, StreamInv, Ahead
<1>4. \A i \in DOMAIN out : FALSE BY <1>2 DEF IInv, TransportInv, StreamInv, Ahead
<1>5. /\ Len(ring) \in Nat /\ DOMAIN ring = 1..Len(ring)
      /\ Len(out) \in Nat /\ DOMAIN out = 1..Len(out)
  BY StreamTypes DEF IInv
<1> QED BY ONLY <1>3, <1>4, <1>5

\* The hosts PoliteHostFits is about.
Paced == polite /\ (since = 0 \/ heard > since) /\ ~rushed

\* A host becomes one of them before anything was written, or by reading the
\* answer to the last frame written.
LEMMA PacedFrom ==
    ASSUME IInv, AnswerInv, PaceInv, Next, Paced', ~Paced
    PROVE  UNCHANGED <<ring, out>> /\ Len(ring) = 0 /\ Len(out) = 0
<1>1. /\ since \in Nat /\ sent \in Nat /\ heard \in Nat /\ frame \in Nat
      /\ Len(tx) \in Nat /\ DOMAIN tx = 1..Len(tx)
      /\ \A i \in DOMAIN tx : tx[i] \in Piece /\ tx[i].to \in Nat
  BY PaceTypes, AnswerTypes DEF IInv
<1>2. heard <= frame /\ frame <= sent BY DEF AnswerInv, IInv, TransportInv, FeedInv
<1>3. CASE HostOpens
  <2>1. since' = sent /\ heard' = heard /\ UNCHANGED <<ring, out>>
    BY <1>3 DEF HostOpens
  <2>2. sent = 0 BY <1>1, <1>2, <2>1 DEF Paced
  <2> QED BY <1>1, <2>1, <2>2, NothingLeft
<1>4. CASE HostReads
  <2>1. /\ tx # <<>> /\ UNCHANGED <<polite, since, sent, rushed, ring, out, frame>>
        /\ heard' = heard \/ (Head(tx).to # 0 /\ heard' = Head(tx).to)
    BY <1>4 DEF HostReads
  <2>2. polite /\ since # 0 /\ heard <= since /\ heard' > since
    BY <1>1, <2>1 DEF Paced
  <2>3. 1 \in DOMAIN tx /\ Head(tx) = tx[1]
    BY <1>1, <2>1, HeadTailProperties, EmptySeq DEF IInv, TypeOK
  <2> DEFINE n == tx[1].to
  <2>4. heard' = n BY <1>1, <2>1, <2>2, <2>3
  <2>5. n \in Nat /\ n <= frame /\ n \notin silent /\ n > since
    BY <1>1, <2>2, <2>3, <2>4 DEF AnswerInv, PaceInv
  <2> HIDE DEF n
  <2>6. ~(n \in (since + 1)..(sent - 1))
    BY <1>1, <2>2, <2>5 DEF PaceInv
  <2>7. frame >= sent BY <1>1, <1>2, <2>5, <2>6
  <2> QED BY <2>1, <2>7, NothingLeft
<1>5. CASE HostSends
  <2>1. UNCHANGED <<polite, since, heard>> /\ (rushed => rushed')
    BY <1>5 DEF HostSends
  <2> QED BY <2>1 DEF Paced
<1>6. CASE HostCloses BY <1>6 DEF HostCloses, Paced
<1>7. CASE ~(HostOpens \/ HostReads \/ HostSends \/ HostCloses)
  <2>1. UNCHANGED hostVars
    BY <1>7 DEF Next, Device, RxCallback, DeviceReady, Take, FeedUnit, HandleFrame,
                HandleError, FlushEnds, PingEncode, PingSend
  <2> QED BY <2>1 DEF Paced, hostVars
<1> QED BY <1>3, <1>4, <1>5, <1>6, <1>7

LEMMA FitsNext ==
    IInv /\ AnswerInv /\ PaceInv /\ PoliteHostFits /\ [Next]_vars => PoliteHostFits'
<1> SUFFICES ASSUME IInv, AnswerInv, PaceInv, PoliteHostFits, [Next]_vars, Paced'
             PROVE  Len(ring') + Len(out') <= RingSize
  BY DEF PoliteHostFits, Paced
<1>1. CASE ~Paced
  <2>1. CASE Next BY <1>1, <2>1, PacedFrom
  <2>2. CASE UNCHANGED vars BY <1>1, <2>2 DEF vars, hostVars, Paced
  <2> QED BY <2>1, <2>2
<1>2. CASE Paced
  <2>1. Len(ring) \in Nat /\ Len(out) \in Nat /\ Len(ring) + Len(out) <= RingSize
    BY <1>2, StreamTypes DEF IInv, PoliteHostFits, Paced
  <2>2. CASE UNCHANGED <<ring, out>> BY <2>1, <2>2
  <2>3. CASE HostCloses
    <3>1. PICK n \in 0..Len(out) : out' = SubSeq(out, 1, n)
      BY <2>3 DEF HostCloses, Prefixes
    <3>2. Len(out') = n /\ ring' = ring
      BY <2>3, <3>1, First DEF HostCloses, IInv, TypeOK
    <3> QED BY <2>1, <3>2
  <2>4. CASE HostSends
    <3> DEFINE f == sent + 1
    <3>1. /\ f \in Frames /\ len[f] \in Nat /\ len[f] <= RingSize /\ ~rushed'
          /\ heard = sent \/ sent = since \/ sent \in silent
          /\ ~(sent > since /\ sent \in silent /\ frame < sent)
      <4>1. f \in Frames /\ polite BY <1>2, <2>4 DEF HostSends, IInv, TypeOK, Frames, Paced
      <4>2. len[f] \in Nat BY <4>1, UnitsType DEF IInv
      <4>3. ~rushed' BY DEF Paced
      <4> QED BY <2>4, <4>1, <4>2, <4>3 DEF HostSends
    <3>2. frame >= sent
      <4>1. /\ since \in Nat /\ sent \in Nat /\ heard \in Nat /\ frame \in Nat
            /\ silent \subseteq Nat \ {0} /\ heard <= frame /\ frame <= sent
            /\ since <= sent
        BY PaceTypes DEF IInv, AnswerInv, TransportInv, FeedInv, PaceInv
      <4>2. since = 0 \/ heard > since BY <1>2 DEF Paced
      <4>3. CASE heard = sent BY <4>1, <4>3
      <4>4. CASE sent = since BY <4>1, <4>2, <4>4
      <4>5. CASE sent \in silent
        <5>1. sent # 0 /\ (sent > since \/ sent = since) BY <4>1, <4>5
        <5> QED BY <3>1, <4>1, <4>4, <4>5, <5>1
      <4> QED BY <3>1, <4>3, <4>4, <4>5
    <3>3. Len(ring) = 0 /\ Len(out) = 0 BY <3>2, NothingLeft
    <3>4. ring' = ring /\ out' = out \o Units(f) BY <2>4 DEF HostSends
    <3> DEFINE t == Units(f)
    <3>5. t \in Seq(Unit) /\ out \in Seq(Unit) /\ out' = out \o t /\ Len(t) = len[f]
      BY <3>1, <3>4, UnitsType DEF IInv, TypeOK
    <3> HIDE DEF f, t
    <3>6. Len(out') = Len(out) + Len(t) BY ONLY <3>5, Concat, Zenon
    <3> QED BY <3>1, <3>3, <3>4, <3>5, <3>6
  <2>5. CASE RxCallback
    <3>1. PICK n \in 1..Chunk :
             /\ n <= Len(out) /\ out' = SubSeq(out, n + 1, Len(out))
             /\ ring' = IF Len(ring) + n <= RingSize
                        THEN ring \o SubSeq(out, 1, n) ELSE ring
      BY <2>5 DEF RxCallback
    <3>2. n \in 0..Len(out) BY <2>1, <3>1
    <3>3. Len(out') = Len(out) - n BY <3>1, <3>2, Rest DEF IInv, TypeOK
    <3> DEFINE c == SubSeq(out, 1, n)
    <3>4. c \in Seq(Unit) /\ Len(c) = n /\ ring \in Seq(Unit)
      BY <3>2, First DEF IInv, TypeOK
    <3>6. Len(ring') \in {Len(ring), Len(ring \o c)} BY <3>1
    <3> HIDE DEF c
    <3>5. Len(ring \o c) = Len(ring) + n BY ONLY <3>4, Concat, Zenon
    <3> QED BY <2>1, <3>2, <3>3, <3>5, <3>6
  <2>6. CASE FeedUnit
    <3>1. out' = out /\ (ring' = ring \/ ReturnItem) BY <2>6 DEF FeedUnit
    <3>2. ASSUME ReturnItem PROVE Len(ring') = Len(ring) - held /\ held \in Nat
      BY <2>1, <3>2, Returned DEF IInv, TransportInv
    <3> QED BY <2>1, <3>1, <3>2
  <2> QED
    BY <2>2, <2>3, <2>4, <2>5, <2>6
       DEF Next, Device, HostOpens, HostReads, DeviceReady, Take, HandleFrame, HandleError,
           FlushEnds, PingEncode, PingSend, vars
<1> QED BY <1>1, <1>2

\* The ring refuses nothing of a host that waits for its answers, from the start
\* or, in a connection after frames of an earlier one, from the first answer to
\* a frame of its own, whatever the chunks, the item held and the lengths.
THEOREM PoliteNeverRefused == Spec => []PoliteHostFits
<1> DEFINE Inv == IInv /\ AnswerInv /\ PaceInv /\ PoliteHostFits
<1>1. Init => Inv
  <2>1. Len(<<>>) = 0 BY EmptySeq
  <2>2. Init => PoliteHostFits BY <2>1 DEF Init, PoliteHostFits
  <2> QED BY <2>2, InitInv, AnswerInit, PaceInit
<1>2. Inv /\ [Next]_vars => Inv' BY NextInv, AnswerNext, PaceNext, FitsNext
<1>3. Inv => PoliteHostFits OBVIOUS
<1> QED BY <1>1, <1>2, <1>3, PTL DEF Spec
=============================================================================
