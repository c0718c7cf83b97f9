-------------------------- MODULE PipeAudioProofs --------------------------
(***************************************************************************)
(* Theorems about the pipe audio backend (PipeAudio), for every number of  *)
(* peers, every window and buffer size and every kernel buffer.            *)
(*                                                                         *)
(* TypeInv strengthens TypeOK: the clock thread is never inside a socket   *)
(* operation without a peer.                                               *)
(***************************************************************************)
EXTENDS PipeAudio, SequenceTheorems, TLAPS

StreamInUse == clock \in {"drain", "fill"} => stream \in Peers

TypeInv == TypeOK /\ StreamInUse

-----------------------------------------------------------------------------
(* The buffer operators.                                                   *)

(* A window has a sample at least, and a window is kept at least.          *)
LEMMA SizesPositive ==
    /\ bytes_per_window \in Nat /\ bytes_per_window >= 2
    /\ max_buffered \in Nat /\ max_buffered >= 2
BY WindowAssumption, KeptAssumption
   DEF bytes_per_window, max_buffered, BYTES_PER_SAMPLE

(* What cap_buffer removes is part of the buffer.                          *)
LEMMA OverflowRange ==
    ASSUME NEW n \in Nat
    PROVE  /\ Overflow(n) \in 0..n
           /\ n - Overflow(n) <= max_buffered + 1
           /\ Overflow(n) % 2 = 0
BY SizesPositive DEF Overflow, BYTES_PER_SAMPLE

(* cap_buffer keeps the end of the buffer, at most one byte over the bound.*)
LEMMA CapBuffer ==
    ASSUME NEW S, NEW buf \in Seq(S)
    PROVE  /\ cap_buffer(buf) \in Seq(S)
           /\ Len(cap_buffer(buf)) = Len(buf) - Overflow(Len(buf))
           /\ Len(cap_buffer(buf)) <= max_buffered + 1
           /\ \A i \in 1..Len(cap_buffer(buf)) :
                cap_buffer(buf)[i] = buf[Overflow(Len(buf)) + i]
<1> DEFINE k == Overflow(Len(buf))
<1>1. Len(buf) \in Nat /\ k \in 0..Len(buf) /\ Len(buf) - k <= max_buffered + 1
    BY OverflowRange, LenProperties
<1>2. \A i \in (k + 1)..Len(buf) : buf[i] \in S
    BY <1>1, ElementOfSeq
<1> HIDE DEF k
<1>3. /\ SubSeq(buf, k + 1, Len(buf)) \in Seq(S)
      /\ Len(SubSeq(buf, k + 1, Len(buf)))
            = IF k + 1 <= Len(buf) THEN Len(buf) - (k + 1) + 1 ELSE 0
      /\ \A i \in 1..(Len(buf) - (k + 1) + 1) :
            SubSeq(buf, k + 1, Len(buf))[i] = buf[k + 1 + i - 1]
    BY <1>1, <1>2, SubSeqProperties
<1>4. cap_buffer(buf) = SubSeq(buf, k + 1, Len(buf))
    BY DEF cap_buffer, k
<1>5. QED
    BY <1>1, <1>3, <1>4 DEF k

(* take_window removes whole samples from the front.                       *)
LEMMA AvailableRange ==
    ASSUME NEW n \in Nat
    PROVE  /\ Available(n) \in 0..WEBRTC_WINDOW
           /\ 2 * Available(n) \in 0..n
BY WindowAssumption DEF Available, BYTES_PER_SAMPLE

(* A window takes whole samples from the front, what there is of them.     *)
LEMMA TakeWindow ==
    ASSUME NEW S, NEW buf \in Seq(S)
    PROVE  /\ AfterWindow(buf) \in Seq(S)
           /\ Len(AfterWindow(buf)) = Len(buf) - 2 * Available(Len(buf))
           /\ \A i \in 1..Len(AfterWindow(buf)) :
                AfterWindow(buf)[i] = buf[2 * Available(Len(buf)) + i]
           /\ WindowOf(buf) \in Seq({Silence} \cup (S \X S))
<1> DEFINE k == 2 * Available(Len(buf))
<1>1. Len(buf) \in Nat /\ k \in 0..Len(buf)
    BY AvailableRange, LenProperties
<1>2. \A i \in 1..Len(buf) : buf[i] \in S
    BY <1>1, ElementOfSeq
<1>3. WindowOf(buf) \in [1..WEBRTC_WINDOW -> {Silence} \cup (S \X S)]
    <2>1. ASSUME NEW i \in 1..WEBRTC_WINDOW, i <= Available(Len(buf))
          PROVE  <<buf[2 * i - 1], buf[2 * i]>> \in S \X S
        <3>1. PICK m \in Nat : m = Available(Len(buf))
            BY <1>1, AvailableRange, WindowAssumption
        <3>2. i \in Nat /\ 1 <= i /\ i <= m /\ 2 * m <= Len(buf)
            BY <1>1, <2>1, <3>1, WindowAssumption
        <3>3. 2 * i - 1 \in 1..Len(buf) /\ 2 * i \in 1..Len(buf)
            BY <1>1, <3>2
        <3>4. QED BY <1>2, <3>3
    <2>2. QED BY <2>1 DEF WindowOf
<1>4. WindowOf(buf) \in Seq({Silence} \cup (S \X S))
    BY <1>3, WindowAssumption
<1> HIDE DEF k
<1>5. /\ SubSeq(buf, k + 1, Len(buf)) \in Seq(S)
      /\ Len(SubSeq(buf, k + 1, Len(buf)))
            = IF k + 1 <= Len(buf) THEN Len(buf) - (k + 1) + 1 ELSE 0
      /\ \A i \in 1..(Len(buf) - (k + 1) + 1) :
            SubSeq(buf, k + 1, Len(buf))[i] = buf[k + 1 + i - 1]
    BY <1>1, <1>2, SubSeqProperties
<1>6. AfterWindow(buf) = SubSeq(buf, k + 1, Len(buf))
    BY DEF AfterWindow, k, BYTES_PER_SAMPLE
<1>7. QED
    BY <1>1, <1>4, <1>5, <1>6 DEF k

(* Positions advance within Pos.                                           *)
LEMMA AheadInPos ==
    ASSUME NEW p \in Pos, NEW k \in 0..(LAST_BYTE + 1)
    PROVE  Ahead(p, k) \in Pos
BY PositionsAssumption DEF Ahead, Pos

(* A function on 1..n is a sequence of n elements.                         *)
LEMMA FunctionIsSeq ==
    ASSUME NEW S, NEW n \in Nat, NEW f \in [1..n -> S]
    PROVE  f \in Seq(S) /\ Len(f) = n
OBVIOUS

(* The bytes of a read and of a pull have their types.                     *)
LEMMA ReadBytes ==
    ASSUME NEW bytes \in Seq(CaptureByte), NEW n \in 0..Len(bytes),
           NEW w \in BOOLEAN
    PROVE  LET read == [i \in 1..n |-> [bytes[i] EXCEPT !.warm = w]] IN
           /\ read \in Seq(CaptureByte)
           /\ Len(read) = n
<1>1. \A i \in 1..n : [bytes[i] EXCEPT !.warm = w] \in CaptureByte
    <2>1. ASSUME NEW i \in 1..n PROVE bytes[i] \in CaptureByte
        BY LenProperties, ElementOfSeq
    <2>2. QED BY <2>1 DEF CaptureByte
<1>2. n \in Nat
    BY LenProperties
<1> DEFINE read == [i \in 1..n |-> [bytes[i] EXCEPT !.warm = w]]
<1>3. read \in [1..n -> CaptureByte]
    BY <1>1
<1> HIDE DEF read
<1>4. read \in Seq(CaptureByte) /\ Len(read) = n
    BY <1>2, <1>3, FunctionIsSeq
<1>5. QED
    BY <1>4 DEF read

(* A pull of n samples is 2 n playout bytes.                               *)
LEMMA PulledBytes ==
    ASSUME NEW p \in Peers, NEW q \in Pos, NEW n \in 0..WEBRTC_WINDOW
    PROVE  LET pulled == [i \in 1..(2 * n) |->
                            [peer |-> p, at |-> Ahead(q, i - 1)]]
           IN /\ pulled \in Seq(PlayoutByte)
              /\ Len(pulled) = 2 * n
<1>1. 2 * n \in Nat /\ 2 * n <= LAST_BYTE
    BY WindowAssumption, PositionsAssumption
       DEF bytes_per_window, BYTES_PER_SAMPLE
<1>2. ASSUME NEW i \in 1..(2 * n)
      PROVE  [peer |-> p, at |-> Ahead(q, i - 1)] \in PlayoutByte
    <2>1. i - 1 \in 0..(LAST_BYTE + 1)
        BY <1>1, PositionsAssumption
    <2>2. QED BY <2>1, AheadInPos DEF PlayoutByte
<1>3. QED
    BY <1>1, <1>2

-----------------------------------------------------------------------------
(* Type correctness.                                                       *)

(* The types of the initial state.                                         *)
LEMMA InitTypeInv == Init => TypeInv
<1> SUFFICES ASSUME Init PROVE TypeInv
    OBVIOUS
<1>1. /\ admOpen \in BOOLEAN /\ callback \in BOOLEAN /\ playing \in BOOLEAN
      /\ recording \in BOOLEAN /\ send_to_webrtc \in BOOLEAN
      /\ terminate \in BOOLEAN
    BY Zenon DEF Init
<1>2. QED
    BY <1>1, PositionsAssumption DEF Init, TypeInv, TypeOK, StreamInUse, Pos

(* What the worker forwards are control events.                            *)
LEMMA TranslationType ==
    \A e \in DOMAIN Translation : Translation[e] \in ControlEvents
BY DEF Translation, ControlEvents

(* Queueing an event and taking one keep the queues what they are.         *)
LEMMA QueueTypes ==
    ASSUME NEW S, NEW q \in Seq(S)
    PROVE  /\ \A e \in S : Append(q, e) \in Seq(S)
           /\ q # <<>> => Head(q) \in S /\ Tail(q) \in Seq(S)
BY AppendProperties, HeadTailProperties

(* So is what it queues, whether the control thread lives or not.          *)
LEMMA SendControlType ==
    ASSUME ctl \in Seq(ControlEvents), NEW e \in ControlEvents, SendControl(e)
    PROVE  ctl' \in Seq(ControlEvents)
BY QueueTypes DEF SendControl

(* The types after a step of the ADM,                                      *)
LEMMA EngineTypeInv ==
    ASSUME TypeInv, (\E e \in EngineEvents : EngineSend(e)) \/ EngineClose
    PROVE  TypeInv'
<1>1. ASSUME NEW e \in EngineEvents, EngineSend(e) PROVE TypeInv'
    <2>1. adm' \in Seq(EngineEvents)
        BY <1>1, QueueTypes DEF EngineSend, TypeInv, TypeOK
    <2>2. QED
        BY <1>1, <2>1
           DEF EngineSend, TypeInv, TypeOK, StreamInUse, ctlVars, flagVars,
               modeVars, clockVars, bufVars, peerVars
<1>2. CASE EngineClose
    <2>1. admOpen' \in BOOLEAN
        BY <1>2, Zenon DEF EngineClose
    <2>2. QED
        BY <1>2, <2>1
           DEF EngineClose, TypeInv, TypeOK, StreamInUse, ctlVars, flagVars,
               modeVars, clockVars, bufVars, peerVars
<1>3. QED BY <1>1, <1>2

(* of the worker,                                                          *)
LEMMA WorkerTypeInv ==
    ASSUME TypeInv, Worker
    PROVE  TypeInv'
<1> USE DEF TypeInv, TypeOK, StreamInUse, flagVars, modeVars, ctlVars,
            clockVars, bufVars, peerVars
<1>1. ASSUME NEW e, WorkerReceive(e) PROVE adm' \in Seq(EngineEvents)
    BY <1>1, QueueTypes DEF WorkerReceive
<1>2. CASE WorkerForward
    <2>1. PICK e \in DOMAIN Translation :
             /\ WorkerReceive(e) /\ SendControl(Translation[e])
             /\ UNCHANGED <<worker, callback>>
        BY <1>2 DEF WorkerForward
    <2>2. ctl' \in Seq(ControlEvents)
        BY <2>1, TranslationType, SendControlType
    <2>3. QED
        BY <1>1, <2>1, <2>2 DEF WorkerReceive
<1>3. CASE WorkerSetCallback
    <2>1. callback' \in BOOLEAN
        BY <1>3, Zenon DEF WorkerSetCallback
    <2>2. QED
        BY <1>1, <1>3, <2>1 DEF WorkerSetCallback, WorkerReceive
<1>4. CASE WorkerAnswer
    BY <1>1, <1>4 DEF WorkerAnswer, WorkerReceive
<1>5. CASE WorkerTerminate
    <2>1. ctl' \in Seq(ControlEvents)
        BY <1>5, SendControlType DEF WorkerTerminate, ControlEvents
    <2>2. QED
        BY <1>1, <1>5, <2>1 DEF WorkerTerminate, WorkerReceive
<1>6. CASE WorkerClosed
    BY <1>6 DEF WorkerClosed
<1>7. CASE WorkerFinish
    <2>1. ctl' \in Seq(ControlEvents)
        BY <1>7, SendControlType DEF WorkerFinish, ControlEvents
    <2>2. QED
        BY <1>7, <2>1 DEF WorkerFinish
<1>8. CASE WorkerJoin
    BY <1>8 DEF WorkerJoin
<1>9. QED
    BY <1>2, <1>3, <1>4, <1>5, <1>6, <1>7, <1>8 DEF Worker

(* of the control thread,                                                  *)
LEMMA ControlTypeInv ==
    ASSUME TypeInv, Control
    PROVE  TypeInv'
<1> USE DEF TypeInv, TypeOK, StreamInUse, workerVars, modeVars, clockVars,
            bufVars, peerVars
<1>1. ASSUME NEW e, ControlReceive(e) PROVE ctl' \in Seq(ControlEvents)
    BY <1>1, QueueTypes DEF ControlReceive
<1>2. CASE ControlPlayout
    <2>1. playing' \in BOOLEAN
        BY <1>2, Zenon DEF ControlPlayout
    <2>2. QED
        BY <1>1, <1>2, <2>1 DEF ControlPlayout, ControlReceive
<1>3. CASE ControlStartRecording
    <2>1. ASSUME NEW e \in DOMAIN Mode PROVE Mode[e] \in {"live", "warmup"}
        BY <2>1 DEF Mode
    <2>2. CASE SecondStore /\ recording' = TRUE /\ UNCHANGED send_to_webrtc
        <3>1. recording' \in BOOLEAN
            BY <2>2, Zenon
        <3>2. QED
            BY <2>2, <3>1 DEF SecondStore, flagVars
    <2>3. ASSUME NEW e \in DOMAIN Mode, ControlReceive(e),
                 send_to_webrtc' = (Mode[e] = "live"), Ask(Mode[e]),
                 cthread' = "store_recording",
                 UNCHANGED <<playing, recording, terminate>>
          PROVE  TypeInv'
        <3>1. send_to_webrtc' \in BOOLEAN
            BY <2>3, Zenon
        <3>2. /\ ctl' \in Seq(ControlEvents) /\ request' \in {"live", "warmup"}
              /\ trailing' \in Nat
            BY <1>1, <2>1, <2>3 DEF Ask
        <3>3. QED
            BY <2>3, <3>1, <3>2 DEF ControlReceive
    <2>4. QED
        BY <1>3, <2>2, <2>3 DEF ControlStartRecording
<1>4. CASE ControlStopRecording
    <2>1. recording' \in BOOLEAN
        BY <1>4, Zenon DEF ControlStopRecording
    <2>2. QED
        BY <1>1, <1>4, <2>1 DEF ControlStopRecording, ControlReceive, Ask
<1>5. CASE ControlTerminate
    <2>1. terminate' \in BOOLEAN
        BY <1>5, Zenon DEF ControlTerminate
    <2>2. QED
        BY <1>1, <1>5, <2>1 DEF ControlTerminate, ControlReceive
<1>6. QED
    BY <1>2, <1>3, <1>4, <1>5 DEF Control

(* What the clock thread's operations on the buffers keep.                 *)
LEMMA ClockPullType ==
    ASSUME TypeInv, ClockPull
    PROVE  /\ playout_buf' \in Seq(PlayoutByte) /\ queued' \in Pos
           /\ \/ playout_buf' = playout_buf
              \/ Len(playout_buf') <= max_buffered + 1
<1> USE DEF TypeInv, TypeOK
<1>1. (IF playing /\ callback THEN 0..WEBRTC_WINDOW ELSE {0})
            \subseteq 0..WEBRTC_WINDOW
    BY WindowAssumption
<1>2. PICK n \in IF playing /\ callback THEN 0..WEBRTC_WINDOW ELSE {0} :
        IF playing /\ stream # NoPeer
        THEN /\ playout_buf' = cap_buffer(playout_buf \o
                    [i \in 1..(2 * n) |->
                        [peer |-> stream, at |-> Ahead(queued, i - 1)]])
             /\ queued' = Ahead(queued, 2 * n)
        ELSE UNCHANGED <<playout_buf, queued>>
    BY Zenon DEF ClockPull
<1>3. n \in 0..WEBRTC_WINDOW
    BY <1>1
<1>4. CASE playing /\ stream # NoPeer
    <2> DEFINE pulled == [i \in 1..(2 * n) |->
                            [peer |-> stream, at |-> Ahead(queued, i - 1)]]
    <2>1. pulled \in Seq(PlayoutByte)
        BY <1>3, <1>4, PulledBytes
    <2>2. playout_buf' = cap_buffer(playout_buf \o pulled)
        BY <1>2, <1>4
    <2> HIDE DEF pulled
    <2>3. playout_buf \o pulled \in Seq(PlayoutByte)
        BY <2>1, ConcatProperties
    <2>4. /\ playout_buf' \in Seq(PlayoutByte)
          /\ Len(playout_buf') <= max_buffered + 1
        BY <2>2, <2>3, CapBuffer
    <2>5. 2 * n \in 0..(LAST_BYTE + 1)
        BY <1>3, WindowAssumption, PositionsAssumption
           DEF bytes_per_window, BYTES_PER_SAMPLE
    <2>6. QED
        BY <1>2, <1>4, <2>4, <2>5, AheadInPos
<1>5. CASE ~(playing /\ stream # NoPeer)
    BY <1>2, <1>5
<1>6. QED BY <1>4, <1>5

(* of the clock thread that writes,                                        *)
LEMMA ClockWriteType ==
    ASSUME TypeInv, ClockWrite
    PROVE  /\ playout_buf' \in Seq(PlayoutByte)
           /\ lastWritten' \in Seq(PlayoutByte)
           /\ tx' \in [Peers -> Seq(PlayoutByte)]
<1> USE DEF TypeInv, TypeOK
<1>1. PICK n \in 1..Len(playout_buf) :
        /\ tx' = [tx EXCEPT ![stream] = @ \o SubSeq(playout_buf, 1, n)]
        /\ playout_buf' = SubSeq(playout_buf, n + 1, Len(playout_buf))
        /\ lastWritten' = <<playout_buf[n]>>
    BY DEF ClockWrite
<1>2. stream \in Peers
    BY DEF ClockWrite, StreamInUse
<1>3. \A i \in 1..Len(playout_buf) : playout_buf[i] \in PlayoutByte
    BY ElementOfSeq
<1>4. Len(playout_buf) \in Nat
    BY LenProperties
<1>5. SubSeq(playout_buf, 1, n) \in Seq(PlayoutByte)
    BY <1>3, <1>4, SubSeqProperties
<1>6. SubSeq(playout_buf, n + 1, Len(playout_buf)) \in Seq(PlayoutByte)
    BY <1>3, <1>4, SubSeqProperties
<1>7. tx[stream] \o SubSeq(playout_buf, 1, n) \in Seq(PlayoutByte)
    BY <1>2, <1>5, ConcatProperties
<1>8. QED
    BY <1>1, <1>2, <1>3, <1>6, <1>7

(* or reads,                                                               *)
LEMMA ClockReadType ==
    ASSUME TypeInv, ClockRead
    PROVE  /\ capture_buf' \in Seq(CaptureByte)
           /\ Len(capture_buf') <= max_buffered + 1
           /\ rx' \in [Peers -> Seq(CaptureByte)]
<1> USE DEF TypeInv, TypeOK
<1> DEFINE n == IF Len(rx[stream]) < TMP_LEN THEN Len(rx[stream]) ELSE TMP_LEN
           w == recording /\ ~send_to_webrtc
           read == [i \in 1..n |-> [rx[stream][i] EXCEPT !.warm = w]]
<1>1. stream \in Peers /\ rx[stream] \in Seq(CaptureByte)
    BY DEF ClockRead, StreamInUse
<1>2. Len(rx[stream]) \in Nat /\ n \in 0..Len(rx[stream])
    BY <1>1, LenProperties, SizesAssumption
<1>3. /\ capture_buf' = cap_buffer(capture_buf \o read)
      /\ rx' = [rx EXCEPT ![stream] = SubSeq(@, n + 1, Len(@))]
    BY DEF ClockRead
<1>4. w \in BOOLEAN
    BY Zenon
<1> HIDE DEF n, w
<1>5. read \in Seq(CaptureByte)
    BY <1>1, <1>2, <1>4, ReadBytes
<1> HIDE DEF read
<1>6. capture_buf \o read \in Seq(CaptureByte)
    BY <1>5, ConcatProperties
<1>7. \A i \in 1..Len(rx[stream]) : rx[stream][i] \in CaptureByte
    BY <1>1, ElementOfSeq
<1>8. SubSeq(rx[stream], n + 1, Len(rx[stream])) \in Seq(CaptureByte)
    BY <1>2, <1>7, SubSeqProperties
<1>9. /\ capture_buf' \in Seq(CaptureByte)
      /\ Len(capture_buf') <= max_buffered + 1
    BY <1>3, <1>6, CapBuffer
<1>10. rx' \in [Peers -> Seq(CaptureByte)]
    BY <1>1, <1>3, <1>8
<1>11. QED BY <1>9, <1>10

(* or does anything else,                                                  *)
LEMMA ClockTypeInv ==
    ASSUME TypeInv, Clock
    PROVE  TypeInv'
<1> USE DEF TypeInv, TypeOK, StreamInUse, workerVars, flagVars, modeVars,
            ctlVars, clockVars, bufVars, peerVars
<1>1. CASE ClockCheck
    BY <1>1 DEF ClockCheck
<1>2. CASE ClockAccept
    <2>1. Head(backlog) \in Peers /\ Tail(backlog) \in Seq(Peers)
        BY <1>2, QueueTypes DEF ClockAccept
    <2>2. 0 \in Pos
        BY PositionsAssumption DEF Pos
    <2>3. conn' \in [Peers -> {"idle", "pending", "open", "closed"}]
        BY <1>2 DEF ClockAccept
    <2>4. /\ playout_buf' \in Seq(PlayoutByte)
          /\ capture_buf' \in Seq(CaptureByte)
          /\ lastWritten' \in Seq(PlayoutByte)
          /\ stream' \in Peers /\ backlog' \in Seq(Peers)
        BY <1>2, <2>1, EmptySeq DEF ClockAccept
    <2>5. QED
        <3>1. /\ queued' \in Pos /\ clock' = "pull"
              /\ UNCHANGED <<workerVars, ctlVars, window, rx, tx, sent>>
            BY <1>2, <2>2 DEF ClockAccept
        <3>2. QED BY <2>3, <2>4, <3>1
<1>3. CASE ClockNoPeer
    BY <1>3 DEF ClockNoPeer
<1>4. CASE ClockPull
    <2>1. playout_buf' \in Seq(PlayoutByte) /\ queued' \in Pos
        BY <1>4, ClockPullType
    <2>2. /\ clock' = IF stream = NoPeer THEN "load" ELSE "drain"
          /\ UNCHANGED <<workerVars, ctlVars, stream, capture_buf, lastWritten,
                         window, peerVars>>
        BY <1>4, Zenon DEF ClockPull
    <2>3. QED BY <2>1, <2>2
<1>5. CASE ClockWrite
    <2>1. /\ UNCHANGED <<workerVars, ctlVars, clockVars, capture_buf, queued,
                         window, conn, backlog, rx, sent>>
          /\ playout_buf' \in Seq(PlayoutByte)
          /\ lastWritten' \in Seq(PlayoutByte)
          /\ tx' \in [Peers -> Seq(PlayoutByte)]
        BY <1>5, ClockWriteType, Zenon DEF ClockWrite
    <2>2. QED BY <2>1
<1>6. CASE ClockDrained
    BY <1>6 DEF ClockDrained
<1>7. CASE ClockWriteError
    BY <1>7 DEF ClockWriteError
<1>8. CASE ClockRead
    BY <1>8, ClockReadType DEF ClockRead
<1>9. CASE ClockWouldBlock
    BY <1>9 DEF ClockWouldBlock
<1>10. CASE ClockPeerGone
    BY <1>10 DEF ClockPeerGone
<1>11. CASE ClockLoadRecording \/ ClockLoadSend
    BY <1>11 DEF ClockLoadRecording, ClockLoadSend
<1>12. CASE ClockPush
    <2>1. /\ WindowOf(capture_buf) \in Seq(Samples)
          /\ AfterWindow(capture_buf) \in Seq(CaptureByte)
        BY TakeWindow DEF Samples
    <2>2. QED BY <1>12, <2>1 DEF ClockPush
<1>13. CASE ClockReturn
    BY <1>13 DEF ClockReturn
<1>14. QED
    BY <1>1, <1>2, <1>3, <1>4, <1>5, <1>6, <1>7, <1>8, <1>9, <1>10, <1>11,
       <1>12, <1>13 DEF Clock

(* and of a peer.                                                          *)
LEMMA PeerTypeInv ==
    ASSUME TypeInv, NEW p \in Peers,
           Connect(p) \/ PeerWrite(p) \/ PeerRead(p) \/ PeerClose(p)
    PROVE  TypeInv'
<1> USE DEF TypeInv, TypeOK, StreamInUse, workerVars, flagVars, modeVars,
            ctlVars, clockVars, bufVars
<1>1. CASE Connect(p)
    <2>1. backlog' \in Seq(Peers)
        BY <1>1, QueueTypes DEF Connect
    <2>2. QED BY <1>1, <2>1 DEF Connect
<1>2. CASE PeerWrite(p)
    <2> DEFINE byte == [peer |-> p, at |-> sent[p], warm |-> FALSE]
    <2>1. byte \in CaptureByte
        BY DEF CaptureByte
    <2>2. Append(rx[p], byte) \in Seq(CaptureByte)
        BY <2>1, QueueTypes
    <2>3. Succ(sent[p]) \in Pos
        BY PositionsAssumption, AheadInPos DEF Succ
    <2> HIDE DEF byte
    <2>4. /\ rx' = [rx EXCEPT ![p] = Append(@, byte)]
          /\ sent' = [sent EXCEPT ![p] = Succ(@)]
        BY <1>2 DEF PeerWrite, byte
    <2>5. QED BY <1>2, <2>2, <2>3, <2>4 DEF PeerWrite
<1>3. CASE PeerRead(p)
    <2>1. Tail(tx[p]) \in Seq(PlayoutByte)
        BY <1>3, QueueTypes DEF PeerRead
    <2>2. QED BY <1>3, <2>1 DEF PeerRead
<1>4. CASE PeerClose(p)
    BY <1>4 DEF PeerClose
<1>5. QED BY <1>1, <1>2, <1>3, <1>4

(* TypeInv is inductive.                                                   *)
LEMMA NextTypeInv == TypeInv /\ [Next]_vars => TypeInv'
<1> SUFFICES ASSUME TypeInv, [Next]_vars PROVE TypeInv'
    OBVIOUS
<1>1. CASE (\E e \in EngineEvents : EngineSend(e)) \/ EngineClose
    BY <1>1, EngineTypeInv
<1>2. CASE Worker
    BY <1>2, WorkerTypeInv
<1>3. CASE Control
    BY <1>3, ControlTypeInv
<1>4. CASE Clock
    BY <1>4, ClockTypeInv
<1>5. ASSUME NEW p \in Peers,
             Connect(p) \/ PeerWrite(p) \/ PeerRead(p) \/ PeerClose(p)
      PROVE  TypeInv'
    BY <1>5, PeerTypeInv
<1>6. CASE UNCHANGED vars
    BY <1>6 DEF TypeInv, TypeOK, StreamInUse, vars, workerVars, flagVars,
                modeVars, ctlVars, clockVars, bufVars, peerVars
<1>7. QED
    BY <1>1, <1>2, <1>3, <1>4, <1>5, <1>6 DEF Next, Finished

(* Every variable keeps its type, and no socket is used without a peer     *)
(* (pipe_audio.rs, spawn_custom_worker).                                   *)
THEOREM TypeInvariant == Spec => []TypeInv
BY InitTypeInv, NextTypeInv, PTL DEF Spec

(* Every variable of the device keeps its type (pipe_audio.rs and patch).  *)
THEOREM TypeCorrect == Spec => []TypeOK
BY TypeInvariant, PTL DEF TypeInv

-----------------------------------------------------------------------------
(* The buffers stay bounded.                                               *)

(* The steps of the clock thread that change the buffers and the window;   *)
(* no other step of any thread or peer does.                               *)
LEMMA BufferSteps ==
    ASSUME [Next]_vars
    PROVE  /\ ClockAccept \/ ClockRead \/ ClockPush \/ UNCHANGED capture_buf
           /\ ClockAccept \/ ClockPull \/ ClockWrite \/ UNCHANGED playout_buf
           /\ ClockCheck \/ ClockPush \/ UNCHANGED window
<1> USE DEF bufVars
<1>1. ASSUME NEW e \in EngineEvents, EngineSend(e)
      PROVE  UNCHANGED <<capture_buf, playout_buf, window>>
    BY <1>1 DEF EngineSend
<1>2. CASE EngineClose
    BY <1>2 DEF EngineClose
<1>3. CASE Worker
    BY <1>3 DEF Worker, WorkerForward, WorkerSetCallback, WorkerAnswer,
                WorkerTerminate, WorkerClosed, WorkerFinish, WorkerJoin,
                WorkerReceive
<1>4. CASE Control
    BY <1>4 DEF Control, ControlPlayout, ControlStartRecording, SecondStore,
                ControlStopRecording, ControlTerminate, ControlReceive
<1>5. CASE Clock
    BY <1>5 DEF Clock, ClockCheck, ClockNoPeer, ClockDrained, ClockWriteError,
                ClockWouldBlock, ClockPeerGone, ClockLoadRecording,
                ClockLoadSend, ClockReturn, ClockAccept, ClockPull,
                ClockWrite, ClockRead, ClockPush
<1>6. ASSUME NEW p \in Peers,
             Connect(p) \/ PeerWrite(p) \/ PeerRead(p) \/ PeerClose(p)
      PROVE  UNCHANGED <<capture_buf, playout_buf, window>>
    BY <1>6 DEF Connect, PeerWrite, PeerRead, PeerClose
<1>7. CASE UNCHANGED vars
    BY <1>7 DEF vars
<1>8. QED
    BY <1>1, <1>2, <1>3, <1>4, <1>5, <1>6, <1>7 DEF Next, Finished

(* A step keeps the bound of the capture buffer,                           *)
LEMMA CaptureBounded ==
    ASSUME TypeInv, Len(capture_buf) <= max_buffered + 1, [Next]_vars
    PROVE  Len(capture_buf') <= max_buffered + 1
<1> USE DEF TypeInv, TypeOK
<1>1. Len(capture_buf) \in Nat
    BY LenProperties
<1>2. CASE ClockAccept
    BY <1>2, EmptySeq, SizesPositive DEF ClockAccept
<1>3. CASE ClockRead
    BY <1>3, ClockReadType
<1>4. CASE ClockPush
    <2>1. capture_buf' = AfterWindow(capture_buf)
        BY <1>4 DEF ClockPush
    <2>2. /\ Len(AfterWindow(capture_buf))
                = Len(capture_buf) - 2 * Available(Len(capture_buf))
          /\ 2 * Available(Len(capture_buf)) \in 0..Len(capture_buf)
        BY <1>1, TakeWindow, AvailableRange
    <2>3. QED BY <1>1, <2>1, <2>2, SizesPositive
<1>5. QED
    BY <1>2, <1>3, <1>4, BufferSteps

(* and that of the playout buffer.                                         *)
LEMMA PlayoutBounded ==
    ASSUME TypeInv, Len(playout_buf) <= max_buffered + 1, [Next]_vars
    PROVE  Len(playout_buf') <= max_buffered + 1
<1> USE DEF TypeInv, TypeOK
<1>1. Len(playout_buf) \in Nat
    BY LenProperties
<1>2. CASE ClockAccept
    BY <1>2, EmptySeq, SizesPositive DEF ClockAccept
<1>3. CASE ClockPull
    BY <1>3, ClockPullType
<1>4. CASE ClockWrite
    <2>1. PICK n \in 1..Len(playout_buf) :
            playout_buf' = SubSeq(playout_buf, n + 1, Len(playout_buf))
        BY <1>4 DEF ClockWrite
    <2>2. \A i \in (n + 1)..Len(playout_buf) : playout_buf[i] \in PlayoutByte
        BY <1>1, ElementOfSeq
    <2>3. Len(playout_buf')
            = IF n + 1 <= Len(playout_buf)
              THEN Len(playout_buf) - (n + 1) + 1 ELSE 0
        BY <1>1, <2>1, <2>2, SubSeqProperties
    <2>4. QED BY <1>1, <2>3, SizesPositive
<1>5. QED
    BY <1>2, <1>3, <1>4, BufferSteps

(* cap_buffer after every read and every pull, and windows and writes that *)
(* only take bytes away, keep both buffers within one byte of the bound,   *)
(* for every window size, read size and kernel buffer.                     *)
THEOREM BuffersStayBounded == Spec => []BuffersBounded
<1>1. Init => BuffersBounded
    BY EmptySeq, SizesPositive DEF Init, BuffersBounded
<1>2. TypeInv /\ BuffersBounded /\ [Next]_vars => BuffersBounded'
    <2> SUFFICES ASSUME TypeInv, BuffersBounded, [Next]_vars
                 PROVE  BuffersBounded'
        OBVIOUS
    <2>1. max_buffered' = max_buffered
        BY DEF max_buffered, bytes_per_window, BYTES_PER_SAMPLE
    <2>2. QED
        BY <2>1, CaptureBounded, PlayoutBounded DEF BuffersBounded
<1>3. QED
    BY <1>1, <1>2, TypeInvariant, PTL DEF Spec

-----------------------------------------------------------------------------
(* Recording modes.  The control thread stores send_to_webrtc before it    *)
(* stores `recording`, and the clock thread loads `recording` before it    *)
(* loads send_to_webrtc.  So when a live request has been withdrawn no     *)
(* tick that starts to load the flags finds both true, and the tick that   *)
(* had found them true pushes one window and is over.                      *)

ModeInv ==
    /\ request = "warmup" => ~send_to_webrtc
    /\ request = "stop" => ~recording
    /\ cthread = "store_recording" => request # "stop"
    /\ trailing \in {0, 1}
    /\ trailing # 0 =>
          /\ request # "live" /\ clock # "push"
          /\ recording \/ clock = "load_send" => ~send_to_webrtc

(* A recording request is live or warm-up.                                 *)
LEMMA ModeOfRequest ==
    \A e \in DOMAIN Mode : Mode[e] \in {"live", "warmup"}
BY DEF Mode

(* The control thread keeps flags, requests and what they let through,     *)
LEMMA ControlModeInv ==
    ASSUME TypeInv, ModeInv, Control
    PROVE  ModeInv'
<1> USE DEF ModeInv
<1>1. CASE ControlStartRecording
    <2>1. ASSUME NEW e \in DOMAIN Mode, ControlReceive(e), Ask(Mode[e]),
                 send_to_webrtc' = (Mode[e] = "live"),
                 UNCHANGED recording
          PROVE  ModeInv'
        <3>1. /\ Mode[e] = "live" \/ Mode[e] = "warmup"
              /\ request' = Mode[e] /\ UNCHANGED clock
              /\ trailing' = IF Mode[e] = "live" THEN 0 ELSE trailing
            BY <2>1, ModeOfRequest, Zenon DEF Ask, ControlReceive, clockVars
        <3>2. CASE Mode[e] = "live"
            BY <3>1, <3>2
        <3>3. CASE Mode[e] = "warmup"
            <4>1. ~send_to_webrtc'
                BY <2>1, <3>3, Zenon
            <4>2. QED BY <3>1, <3>3, <4>1
        <3>4. QED BY <3>1, <3>2, <3>3
    <2>2. CASE SecondStore /\ recording' = TRUE /\ UNCHANGED send_to_webrtc
        <3>1. /\ UNCHANGED <<request, trailing, clock, send_to_webrtc>>
              /\ cthread = "store_recording" /\ cthread' = "recv"
            BY <2>2, Zenon DEF SecondStore, modeVars, clockVars
        <3>2. request = "live" \/ request = "warmup"
            BY <3>1 DEF TypeInv, TypeOK
        <3>3. QED BY <3>1, <3>2
    <2>3. QED BY <1>1, <2>1, <2>2 DEF ControlStartRecording
<1>2. CASE ControlStopRecording
    <2>1. /\ recording' = FALSE /\ request' = "stop"
          /\ UNCHANGED <<trailing, clock, cthread, send_to_webrtc>>
          /\ cthread = "recv"
        BY <1>2 DEF ControlStopRecording, ControlReceive, Ask, clockVars
    <2>2. QED BY <2>1
<1>3. CASE ControlPlayout \/ ControlTerminate
    BY <1>3 DEF ControlPlayout, ControlTerminate, ControlReceive, modeVars,
                clockVars
<1>4. QED
    BY <1>1, <1>2, <1>3 DEF Control

(* so does the clock thread,                                               *)
LEMMA ClockModeInv ==
    ASSUME TypeInv, ModeInv, Clock
    PROVE  ModeInv'
<1> USE DEF ModeInv
<1>1. CASE ClockPush
    <2>1. /\ clock = "push" /\ clock' = "check"
          /\ UNCHANGED <<cthread, request, recording, send_to_webrtc>>
          /\ trailing' = IF request = "live" THEN trailing ELSE trailing + 1
        BY <1>1 DEF ClockPush, flagVars
    <2>2. trailing = 0
        BY <2>1
    <2>3. CASE request = "live"
        BY <2>1, <2>2, <2>3
    <2>4. CASE request # "live"
        <3>1. trailing' = 1
            BY <2>1, <2>2, <2>4
        <3>2. request = "stop" \/ request = "warmup"
            BY <2>4 DEF TypeInv, TypeOK
        <3>3. QED BY <2>1, <2>4, <3>1, <3>2
    <2>5. QED BY <2>3, <2>4
<1>2. CASE Clock /\ ~ClockPush
    <2>1. UNCHANGED <<cthread, request, trailing, recording, send_to_webrtc>>
        BY <1>2 DEF Clock, ClockCheck, ClockAccept, ClockNoPeer, ClockPull,
                    ClockWrite, ClockDrained, ClockWriteError, ClockRead,
                    ClockWouldBlock, ClockPeerGone, ClockLoadRecording,
                    ClockLoadSend, ClockReturn, ctlVars, flagVars, modeVars
    <2>2. /\ clock' = "load_send" => recording \/ clock = "load_send"
          /\ clock' = "push" => clock = "load_send" /\ send_to_webrtc
        BY <1>2 DEF Clock, ClockCheck, ClockAccept, ClockNoPeer, ClockPull,
                    ClockWrite, ClockDrained, ClockWriteError, ClockRead,
                    ClockWouldBlock, ClockPeerGone, ClockLoadRecording,
                    ClockLoadSend, ClockReturn, clockVars
    <2>3. QED BY <2>1, <2>2
<1>3. QED BY <1>1, <1>2

(* and so every step.                                                      *)
LEMMA NextModeInv ==
    ASSUME TypeInv, ModeInv, [Next]_vars
    PROVE  ModeInv'
<1>1. CASE Control
    BY <1>1, ControlModeInv
<1>2. CASE Clock
    BY <1>2, ClockModeInv
<1>3. CASE UNCHANGED <<cthread, clock, request, trailing, recording,
                       send_to_webrtc>>
    BY <1>3 DEF ModeInv
<1> USE DEF ctlVars, flagVars, modeVars, clockVars
<1>4. CASE EngineClose \/ Worker \/ \E e \in EngineEvents : EngineSend(e)
    BY <1>3, <1>4
       DEF EngineClose, EngineSend, Worker, WorkerForward, WorkerSetCallback,
           WorkerAnswer, WorkerTerminate, WorkerClosed, WorkerFinish,
           WorkerJoin, WorkerReceive
<1>5. CASE \E p \in Peers :
              Connect(p) \/ PeerWrite(p) \/ PeerRead(p) \/ PeerClose(p)
    BY <1>3, <1>5 DEF Connect, PeerWrite, PeerRead, PeerClose
<1>6. CASE UNCHANGED vars
    BY <1>3, <1>6 DEF vars
<1>7. QED
    BY <1>1, <1>2, <1>4, <1>5, <1>6 DEF Next, Finished

(* Once a live request is withdrawn at most one window is pushed before    *)
(* the next live one, although neither thread locks the two flags and the  *)
(* push comes after both loads (run's control thread and clock_loop).      *)
THEOREM OneWindowTrails == Spec => []OneTrailingWindow
<1>1. Init => ModeInv
    BY DEF Init, ModeInv
<1>2. TypeInv /\ ModeInv /\ [Next]_vars => ModeInv'
    BY NextModeInv
<1>3. ModeInv => OneTrailingWindow
    BY DEF ModeInv, OneTrailingWindow
<1>4. QED
    BY <1>1, <1>2, <1>3, TypeInvariant, PTL DEF Spec

-----------------------------------------------------------------------------
(* How the threads end.  Terminate reaches the control channel only from a *)
(* worker that has left its loop, and it alone sets `terminate`.           *)

Told == \E i \in 1..Len(ctl) : ctl[i] = "Terminate"

StopInv ==
    /\ Told \/ terminate => worker # "serve"
    /\ clock \in {"join", "returned"} => terminate
    /\ clock = "returned" => cthread = "done"
    /\ worker = "done" => clock = "returned"

(* A queue that shrinks holds no new event; one that grows holds one more. *)
LEMMA TakenWasQueued ==
    ASSUME ctl \in Seq(ControlEvents), NEW e, ControlReceive(e)
    PROVE  Told' => Told
<1>1. ctl # <<>> /\ ctl' = Tail(ctl)
    BY DEF ControlReceive
<1>2. /\ Len(Tail(ctl)) = Len(ctl) - 1
      /\ \A i \in 1..Len(Tail(ctl)) : Tail(ctl)[i] = ctl[i + 1]
      /\ Len(ctl) \in Nat /\ Len(Tail(ctl)) \in Nat
    BY <1>1, HeadTailProperties, LenProperties
<1>3. QED
    BY <1>1, <1>2 DEF Told

(* Only a Terminate that is sent tells the control thread to end.          *)
LEMMA SentIsQueued ==
    ASSUME ctl \in Seq(ControlEvents), NEW e \in ControlEvents, SendControl(e)
    PROVE  Told' => Told \/ e = "Terminate"
<1>1. CASE UNCHANGED ctl
    BY <1>1 DEF Told
<1>2. CASE ctl' = Append(ctl, e)
    <2>1. /\ Len(Append(ctl, e)) = Len(ctl) + 1 /\ Len(ctl) \in Nat
          /\ \A i \in 1..Len(ctl) : Append(ctl, e)[i] = ctl[i]
          /\ Append(ctl, e)[Len(ctl) + 1] = e
        BY AppendProperties, LenProperties
    <2>2. QED BY <1>2, <2>1 DEF Told
<1>3. QED BY <1>1, <1>2 DEF SendControl

(* Nobody is told to end at the start.                                     *)
LEMMA InitStopInv == Init => StopInv
BY EmptySeq DEF Init, StopInv, Told

(* A step of the worker keeps who was told to end,                         *)
LEMMA WorkerStopInv ==
    ASSUME TypeInv, StopInv, Worker
    PROVE  StopInv'
<1> USE DEF TypeInv, TypeOK, StopInv, flagVars, clockVars
<1>1. CASE WorkerForward
    <2>1. PICK e \in DOMAIN Translation :
            /\ WorkerReceive(e) /\ SendControl(Translation[e])
            /\ UNCHANGED <<worker, callback>>
        BY <1>1 DEF WorkerForward
    <2>2. Translation[e] \in ControlEvents /\ Translation[e] # "Terminate"
        BY DEF Translation, ControlEvents
    <2>3. Told' => Told
        BY <2>1, <2>2, SentIsQueued
    <2>4. QED BY <2>1, <2>3 DEF WorkerReceive
<1>2. CASE WorkerSetCallback \/ WorkerAnswer
    <2>1. Told' = Told /\ UNCHANGED <<worker, cthread, flagVars, clock>>
        BY <1>2 DEF WorkerSetCallback, WorkerAnswer, WorkerReceive, Told
    <2>2. QED BY <2>1
<1>3. CASE WorkerTerminate
    BY <1>3 DEF WorkerTerminate, WorkerReceive
<1>4. CASE WorkerClosed
    BY <1>4 DEF WorkerClosed, ctlVars
<1>5. CASE WorkerFinish
    BY <1>5 DEF WorkerFinish
<1>6. CASE WorkerJoin
    BY <1>6 DEF WorkerJoin, ctlVars
<1>7. QED
    BY <1>1, <1>2, <1>3, <1>4, <1>5, <1>6 DEF Worker

(* so does one of the control thread,                                      *)
LEMMA ControlStopInv ==
    ASSUME TypeInv, StopInv, Control
    PROVE  StopInv'
<1> USE DEF TypeInv, TypeOK, StopInv, workerVars, clockVars
<1>1. CASE ControlTerminate
    <2>1. ControlReceive("Terminate") /\ cthread' = "done" /\ terminate'
        BY <1>1 DEF ControlTerminate
    <2>2. Told
        <3>1. ctl # <<>> /\ Head(ctl) = "Terminate"
            BY <2>1 DEF ControlReceive
        <3>2. Len(ctl) \in Nat \ {0} /\ ctl[1] = Head(ctl)
            BY <3>1, EmptySeq
        <3>3. QED BY <3>1, <3>2 DEF Told
    <2>3. QED BY <2>1, <2>2 DEF ControlReceive
<1>2. CASE ControlPlayout \/ ControlStopRecording
    <2>1. PICK e : ControlReceive(e) /\ UNCHANGED <<cthread, terminate>>
        BY <1>2 DEF ControlPlayout, ControlStopRecording
    <2>2. Told' => Told
        BY <2>1, TakenWasQueued
    <2>3. QED BY <2>1, <2>2 DEF ControlReceive
<1>3. CASE ControlStartRecording
    <2>1. ASSUME NEW e \in DOMAIN Mode, ControlReceive(e),
                 cthread' = "store_recording", UNCHANGED terminate
          PROVE  StopInv'
        <3>1. Told' => Told
            BY <2>1, TakenWasQueued
        <3>2. QED BY <2>1, <3>1 DEF ControlReceive
    <2>2. CASE SecondStore
        BY <2>2 DEF SecondStore, Told
    <2>3. QED BY <1>3, <2>1, <2>2 DEF ControlStartRecording
<1>4. QED
    BY <1>1, <1>2, <1>3 DEF Control

(* and so every step.                                                      *)
LEMMA NextStopInv ==
    ASSUME TypeInv, StopInv, [Next]_vars
    PROVE  StopInv'
<1> USE DEF StopInv, Told
<1>1. ASSUME NEW e \in EngineEvents, EngineSend(e) PROVE StopInv'
    BY <1>1 DEF EngineSend, ctlVars, flagVars, clockVars
<1>2. CASE EngineClose
    BY <1>2 DEF EngineClose, ctlVars, flagVars, clockVars
<1>3. CASE Worker
    BY <1>3, WorkerStopInv
<1>4. CASE Control
    BY <1>4, ControlStopInv
<1>5. CASE ClockReturn
    BY <1>5 DEF ClockReturn, ctlVars, flagVars, workerVars
<1>6. CASE Clock /\ ~ClockReturn
    <2>1. /\ UNCHANGED <<ctl, terminate, cthread, worker>>
          /\ clock # "returned" /\ clock' # "returned"
          /\ clock' = "join" => terminate
        BY <1>6 DEF Clock, ClockCheck, ClockAccept, ClockNoPeer, ClockPull,
                    ClockWrite, ClockDrained, ClockWriteError, ClockRead,
                    ClockWouldBlock, ClockPeerGone, ClockLoadRecording,
                    ClockLoadSend, ClockPush, ctlVars, flagVars, workerVars,
                    clockVars
    <2>2. QED BY <2>1
<1>7. ASSUME NEW p \in Peers,
             Connect(p) \/ PeerWrite(p) \/ PeerRead(p) \/ PeerClose(p)
      PROVE  StopInv'
    BY <1>7 DEF Connect, PeerWrite, PeerRead, PeerClose, ctlVars, flagVars,
                workerVars, clockVars
<1>8. CASE UNCHANGED vars
    BY <1>8 DEF vars, ctlVars, flagVars, workerVars, clockVars
<1>9. QED
    BY <1>1, <1>2, <1>3, <1>4, <1>5, <1>6, <1>7, <1>8 DEF Next, Finished

(* run() returns only after the worker left its loop, and a joined worker  *)
(* leaves no thread of the device behind (spawn_custom_worker, run).       *)
THEOREM StopsAreTold == Spec => []StopsOnlyWhenTold
<1>1. TypeInv /\ StopInv /\ [Next]_vars => StopInv'
    BY NextStopInv
<1>2. StopInv => StopsOnlyWhenTold
    BY DEF StopInv, StopsOnlyWhenTold
<1>3. QED
    BY InitStopInv, <1>1, <1>2, TypeInvariant, PTL DEF Spec
=============================================================================
