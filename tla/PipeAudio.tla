----------------------------- MODULE PipeAudio -----------------------------
(***************************************************************************)
(* The pipe audio backend of the call tunnel: PipeAudioDevice::run         *)
(* (pipe_audio.rs) together with the worker that drives it                 *)
(* (spawn_custom_worker in ringrtc-custom-audio-backend.patch).            *)
(*                                                                         *)
(* Four parties take turns:                                                *)
(*   - the worker thread turns WebRTC's events into control events;        *)
(*   - the control thread stores them in four atomic flags;                *)
(*   - the clock thread exchanges one window per tick between WebRTC and   *)
(*     at most one peer connected to the Unix socket;                      *)
(*   - the peers connect, write, read and close whenever they like.        *)
(* Time is left out: a tick follows a tick.                                *)
(***************************************************************************)
EXTENDS PipeBuffers

CONSTANTS
    Peers,          \* the connections peers make in the device's lifetime
    NoPeer,         \* Rust's None for `stream`
    EngineEvents,   \* the ADM events the engine sends in this instance
    TMP_LEN,        \* bytes one read(2) takes at most (4096 in the code)
    RX_CAP,         \* bytes the kernel holds on the way to the tunnel (0: the
                    \* peers of this instance only listen)
    TX_CAP,         \* bytes the kernel holds on the way to a peer
    LAST_BYTE,      \* byte positions wrap around after this one
    MAX_QUEUE,      \* bound on the length of the two event queues
    RealtimePeers   \* TRUE: no peer writes between two reads of one tick

AllEngineEvents ==
    {"SetCallback", "ClearCallback", "StartPlayout", "StopPlayout",
     "StartRecording", "WarmupRecording", "StopRecording", "PlayoutDelay",
     "Terminate", "Other"}

ASSUME PeersAssumption == NoPeer \notin Peers
ASSUME EventsAssumption == EngineEvents \subseteq AllEngineEvents
ASSUME SizesAssumption ==
    /\ TMP_LEN \in Nat \ {0}
    /\ RX_CAP \in Nat
    /\ TX_CAP \in Nat \ {0}
    /\ MAX_QUEUE \in Nat \ {0}
    /\ RealtimePeers \in BOOLEAN
ASSUME PositionsAssumption ==
    LAST_BYTE \in Nat /\ LAST_BYTE % 2 = 1 /\ bytes_per_window <= LAST_BYTE

VARIABLES
    adm,             \* events WebRTC queued for the worker
    admOpen,         \* FALSE once the engine dropped its end of that queue
    worker,          \* spawn_custom_worker: "serve", "finish", "join", "done"
    callback,        \* TRUE when the shared transport holds a callback
    ctl,             \* control events the worker queued for the device
    cthread,         \* control thread: "recv", "store_recording", "done"
    playing, recording, send_to_webrtc, terminate,   \* the atomic flags
    clock,           \* where the clock thread is
    stream,          \* the accepted peer, or NoPeer
    playout_buf, capture_buf,
    conn,            \* per peer: "idle", "pending", "open", "closed"
    backlog,         \* connections waiting for accept()
    rx, tx,          \* per peer: kernel buffers towards and from the tunnel
    sent,            \* per peer: position of the next byte it writes
    queued,          \* position of the next byte queued for the peer
    lastWritten,     \* the last byte written to `stream`, in a sequence
    request,         \* what was last asked of recording: "stop", "live" or
                     \* "warmup"
    trailing,        \* windows pushed since a live request was withdrawn
    window           \* the window pushed to WebRTC in this tick, or <<>>

workerVars == <<adm, admOpen, worker, callback>>
flagVars   == <<playing, recording, send_to_webrtc, terminate>>
modeVars   == <<request, trailing>>
ctlVars    == <<ctl, cthread, flagVars, modeVars>>
bufVars    == <<playout_buf, capture_buf, queued, lastWritten, window>>
peerVars   == <<conn, backlog, rx, tx, sent>>
clockVars  == <<clock, stream>>
vars == <<workerVars, ctlVars, clockVars, bufVars, peerVars>>

-----------------------------------------------------------------------------
Pos == 0..LAST_BYTE

(* Positions k after and one after p.  The low byte of a sample is at an   *)
(* even position, its high byte at the next one.                           *)
Ahead(p, k) == IF p + k <= LAST_BYTE THEN p + k ELSE p + k - (LAST_BYTE + 1)
Succ(p) == Ahead(p, 1)

(* A byte a peer wrote: whose, where in its stream, and whether it reached *)
(* the device while recording was warming up.                              *)
CaptureByte == [peer : Peers, at : Pos, warm : BOOLEAN]

(* A byte queued for a peer: for whom, and where in what it is played.     *)
PlayoutByte == [peer : Peers, at : Pos]

Samples == {Silence} \cup (CaptureByte \X CaptureByte)

ControlEvents ==
    {"StartPlayout", "StopPlayout", "StartLive", "StartWarmup",
     "StopRecording", "Terminate"}

TypeOK ==
    /\ adm \in Seq(EngineEvents) /\ admOpen \in BOOLEAN
    /\ worker \in {"serve", "finish", "join", "done"}
    /\ callback \in BOOLEAN
    /\ ctl \in Seq(ControlEvents)
    /\ cthread \in {"recv", "store_recording", "done"}
    /\ playing \in BOOLEAN /\ recording \in BOOLEAN
    /\ send_to_webrtc \in BOOLEAN /\ terminate \in BOOLEAN
    /\ clock \in {"check", "accept", "pull", "drain", "fill", "load",
                  "load_send", "push", "join", "returned"}
    /\ stream \in Peers \cup {NoPeer}
    /\ playout_buf \in Seq(PlayoutByte)
    /\ capture_buf \in Seq(CaptureByte)
    /\ conn \in [Peers -> {"idle", "pending", "open", "closed"}]
    /\ backlog \in Seq(Peers)
    /\ rx \in [Peers -> Seq(CaptureByte)]
    /\ tx \in [Peers -> Seq(PlayoutByte)]
    /\ sent \in [Peers -> Pos]
    /\ queued \in Pos
    /\ lastWritten \in Seq(PlayoutByte)
    /\ request \in {"stop", "live", "warmup"} /\ trailing \in Nat
    /\ window \in Seq(Samples)

Init ==
    /\ adm = <<>> /\ admOpen = TRUE /\ worker = "serve" /\ callback = FALSE
    /\ ctl = <<>> /\ cthread = "recv" /\ request = "stop" /\ trailing = 0
    /\ playing = FALSE /\ recording = FALSE
    /\ send_to_webrtc = TRUE /\ terminate = FALSE
    /\ clock = "check" /\ stream = NoPeer
    /\ playout_buf = <<>> /\ capture_buf = <<>>
    /\ queued = 0 /\ lastWritten = <<>> /\ window = <<>>
    /\ conn = [p \in Peers |-> "idle"] /\ backlog = <<>>
    /\ rx = [p \in Peers |-> <<>>] /\ tx = [p \in Peers |-> <<>>]
    /\ sent = [p \in Peers |-> 0]
-----------------------------------------------------------------------------
(* The engine: WebRTC's side of the audio device module (external).        *)

EngineSend(e) ==
    /\ admOpen /\ worker = "serve" /\ Len(adm) < MAX_QUEUE
    /\ adm' = Append(adm, e)
    /\ UNCHANGED <<admOpen, worker, callback, ctlVars, clockVars, bufVars,
                   peerVars>>

EngineClose ==
    /\ admOpen
    /\ admOpen' = FALSE
    /\ UNCHANGED <<adm, worker, callback, ctlVars, clockVars, bufVars,
                   peerVars>>

-----------------------------------------------------------------------------
(* The worker thread: spawn_custom_worker's loop over `receiver`.          *)

(* Mutant: recording events go on untranslated.                            *)
TranslationRaw ==
    [StartPlayout |-> "StartPlayout", StopPlayout |-> "StopPlayout",
     StartRecording |-> "StartRecording",
     WarmupRecording |-> "WarmupRecording", StopRecording |-> "StopRecording"]

(* What an ADM event becomes on the control channel.                       *)
Translation ==
    [StartPlayout |-> "StartPlayout", StopPlayout |-> "StopPlayout",
     StartRecording |-> "StartLive", WarmupRecording |-> "StartWarmup",
     StopRecording |-> "StopRecording"]

(* Sending never blocks; it fails, ignored, once the control thread is     *)
(* gone and its receiver with it.                                          *)
SendControl(e) ==
    IF cthread = "done" THEN UNCHANGED ctl
    ELSE Len(ctl) < MAX_QUEUE /\ ctl' = Append(ctl, e)

WorkerReceive(e) ==
    /\ worker = "serve" /\ adm # <<>> /\ Head(adm) = e
    /\ adm' = Tail(adm)
    /\ UNCHANGED <<admOpen, cthread, flagVars, modeVars, clockVars, bufVars,
                   peerVars>>

WorkerForward ==
    \E e \in DOMAIN Translation :
        /\ WorkerReceive(e)
        /\ SendControl(Translation[e])
        /\ UNCHANGED <<worker, callback>>

WorkerSetCallback ==
    \/ /\ WorkerReceive("SetCallback")
       /\ callback' = TRUE /\ UNCHANGED <<worker, ctl>>
    \/ /\ WorkerReceive("ClearCallback")
       /\ callback' = FALSE /\ UNCHANGED <<worker, ctl>>

(* PlayoutDelay is answered on a channel of its own; the cubeb-only events *)
(* are skipped.                                                            *)
WorkerAnswer ==
    /\ \E e \in {"PlayoutDelay", "Other"} : WorkerReceive(e)
    /\ UNCHANGED <<worker, callback, ctl>>

WorkerTerminate ==
    /\ WorkerReceive("Terminate")
    /\ SendControl("Terminate")
    /\ worker' = "finish" /\ UNCHANGED callback

(* The engine dropped its sender: the loop over `receiver` ends.           *)
WorkerClosed ==
    /\ worker = "serve" /\ adm = <<>> /\ ~admOpen
    /\ worker' = "finish"
    /\ UNCHANGED <<adm, admOpen, callback, ctlVars, clockVars, bufVars,
                   peerVars>>

(* Terminate once more, in case the event channel closed without one.      *)
WorkerFinish ==
    /\ worker = "finish"
    /\ SendControl("Terminate")
    /\ worker' = "join"
    /\ UNCHANGED <<adm, admOpen, callback, cthread, flagVars, modeVars,
                   clockVars, bufVars, peerVars>>

(* Mutant: the driver's thread is not joined.                              *)
WorkerDetaches ==
    /\ worker = "join"
    /\ worker' = "done"
    /\ UNCHANGED <<adm, admOpen, callback, ctlVars, clockVars, bufVars,
                   peerVars>>

WorkerJoin ==
    /\ worker = "join" /\ clock = "returned"
    /\ worker' = "done"
    /\ UNCHANGED <<adm, admOpen, callback, ctlVars, clockVars, bufVars,
                   peerVars>>

Worker ==
    WorkerForward \/ WorkerSetCallback \/ WorkerAnswer \/ WorkerTerminate
        \/ WorkerClosed \/ WorkerFinish \/ WorkerJoin

-----------------------------------------------------------------------------
(* The control thread: control.recv() and one or two stores per event.     *)

ControlReceive(e) ==
    /\ cthread = "recv" /\ ctl # <<>> /\ Head(ctl) = e
    /\ ctl' = Tail(ctl)
    /\ UNCHANGED <<workerVars, clockVars, bufVars, peerVars>>

ControlPlayout ==
    \/ /\ ControlReceive("StartPlayout") /\ playing' = TRUE
       /\ UNCHANGED <<cthread, recording, send_to_webrtc, terminate,
                      modeVars>>
    \/ /\ ControlReceive("StopPlayout") /\ playing' = FALSE
       /\ UNCHANGED <<cthread, recording, send_to_webrtc, terminate,
                      modeVars>>

(* The mode a StartRecording event asks for.                               *)
Mode == [StartLive |-> "live", StartWarmup |-> "warmup"]

(* What is asked of recording from here on.  The windows pushed after a    *)
(* live request was withdrawn are counted until the next live one.         *)
Ask(mode) ==
    /\ request' = mode
    /\ trailing' = IF mode = "live" THEN 0 ELSE trailing

(* The second store of a StartRecording event.                             *)
SecondStore ==
    /\ cthread = "store_recording"
    /\ cthread' = "recv"
    /\ UNCHANGED <<ctl, playing, terminate, modeVars, workerVars, clockVars,
                   bufVars, peerVars>>

(* Mutant: the two stores of ControlStartRecording in the other order.     *)
ControlStartRecordingSwapped ==
    \/ \E e \in DOMAIN Mode :
        /\ ControlReceive(e)
        /\ recording' = TRUE /\ Ask(Mode[e])
        /\ cthread' = "store_recording"
        /\ UNCHANGED <<playing, send_to_webrtc, terminate>>
    \/ /\ SecondStore
       /\ send_to_webrtc' = (request = "live") /\ UNCHANGED recording

(* StartRecording stores send_to_webrtc first and `recording` second.      *)
ControlStartRecording ==
    \/ \E e \in DOMAIN Mode :
        /\ ControlReceive(e)
        /\ send_to_webrtc' = (Mode[e] = "live") /\ Ask(Mode[e])
        /\ cthread' = "store_recording"
        /\ UNCHANGED <<playing, recording, terminate>>
    \/ /\ SecondStore
       /\ recording' = TRUE /\ UNCHANGED send_to_webrtc

ControlStopRecording ==
    /\ ControlReceive("StopRecording")
    /\ recording' = FALSE /\ Ask("stop")
    /\ UNCHANGED <<cthread, playing, send_to_webrtc, terminate>>

(* Mutant: a `return` where the code breaks out of the loop.               *)
ControlTerminateReturns ==
    /\ ControlReceive("Terminate")
    /\ cthread' = "done"
    /\ UNCHANGED <<playing, recording, send_to_webrtc, terminate, modeVars>>

(* Terminate leaves the loop, and what follows it sets `terminate`.  The   *)
(* worker sends Terminate before it drops its sender, so recv() never      *)
(* finds the channel closed before it finds the event.                     *)
ControlTerminate ==
    /\ ControlReceive("Terminate")
    /\ terminate' = TRUE
    /\ cthread' = "done"
    /\ UNCHANGED <<playing, recording, send_to_webrtc, modeVars>>

Control ==
    ControlPlayout \/ ControlStartRecording \/ ControlStopRecording
        \/ ControlTerminate
-----------------------------------------------------------------------------
(* The clock thread: clock_loop, one tick after another.                   *)

(* Mutant: peers are accepted only while recording.                        *)
ClockCheckRecordingOnly ==
    /\ clock = "check"
    /\ window' = <<>>
    /\ IF terminate
       THEN /\ clock' = "join" /\ stream' = NoPeer
            /\ conn' = [p \in Peers |->
                            IF p = stream THEN "closed" ELSE conn[p]]
       ELSE /\ clock' = IF stream = NoPeer /\ recording
                        THEN "accept" ELSE "pull"
            /\ UNCHANGED <<stream, conn>>
    /\ UNCHANGED <<workerVars, ctlVars, playout_buf, capture_buf, queued,
                   lastWritten, backlog, rx, tx, sent>>

(* Leaving the loop drops the connection.                                  *)
ClockCheck ==
    /\ clock = "check"
    /\ window' = <<>>
    /\ IF terminate
       THEN /\ clock' = "join" /\ stream' = NoPeer
            /\ conn' = [p \in Peers |->
                            IF p = stream THEN "closed" ELSE conn[p]]
       ELSE /\ clock' = IF stream = NoPeer THEN "accept" ELSE "pull"
            /\ UNCHANGED <<stream, conn>>
    /\ UNCHANGED <<workerVars, ctlVars, playout_buf, capture_buf, queued,
                   lastWritten, backlog, rx, tx, sent>>

(* Mutant: the buffers are not cleared for a new peer.                     *)
ClockAcceptKeepsBuffers ==
    /\ clock = "accept" /\ backlog # <<>>
    /\ stream' = Head(backlog) /\ backlog' = Tail(backlog)
    /\ conn' = [p \in Peers |->
                    IF p = Head(backlog) /\ conn[p] = "pending"
                    THEN "open" ELSE conn[p]]
    /\ queued' = 0 /\ lastWritten' = <<>>
    /\ clock' = "pull"
    /\ UNCHANGED <<workerVars, ctlVars, window, playout_buf, capture_buf, rx,
                   tx, sent>>

(* A new peer starts with empty buffers.                                   *)
ClockAccept ==
    /\ clock = "accept" /\ backlog # <<>>
    /\ stream' = Head(backlog) /\ backlog' = Tail(backlog)
    /\ conn' = [p \in Peers |->
                    IF p = Head(backlog) /\ conn[p] = "pending"
                    THEN "open" ELSE conn[p]]
    /\ playout_buf' = <<>> /\ capture_buf' = <<>>
    /\ queued' = 0 /\ lastWritten' = <<>>
    /\ clock' = "pull"
    /\ UNCHANGED <<workerVars, ctlVars, window, rx, tx, sent>>

(* accept() would block, or fails: the loop goes on without a peer.        *)
ClockNoPeer ==
    /\ clock = "accept"
    /\ clock' = "pull"
    /\ UNCHANGED <<workerVars, ctlVars, stream, bufVars, peerVars>>

(* Pull at most a window from WebRTC, nothing without a callback, and      *)
(* queue it when a peer is there to hear it.                               *)
ClockPull ==
    /\ clock = "pull"
    /\ \E n \in IF playing /\ callback THEN 0..WEBRTC_WINDOW ELSE {0} :
        IF playing /\ stream # NoPeer
        THEN /\ playout_buf' = cap_buffer(playout_buf \o
                    [i \in 1..(2 * n) |->
                        [peer |-> stream, at |-> Ahead(queued, i - 1)]])
             /\ queued' = Ahead(queued, 2 * n)
        ELSE UNCHANGED <<playout_buf, queued>>
    /\ clock' = IF stream = NoPeer THEN "load" ELSE "drain"
    /\ UNCHANGED <<workerVars, ctlVars, stream, capture_buf, lastWritten,
                   window, peerVars>>

(* One write(2) of drain_playout's loop: the socket takes n bytes.         *)
ClockWrite ==
    /\ clock = "drain" /\ playout_buf # <<>> /\ conn[stream] = "open"
    /\ \E n \in 1..Len(playout_buf) :
        /\ n <= TX_CAP - Len(tx[stream])
        /\ tx' = [tx EXCEPT ![stream] = @ \o SubSeq(playout_buf, 1, n)]
        /\ playout_buf' = SubSeq(playout_buf, n + 1, Len(playout_buf))
        /\ lastWritten' = <<playout_buf[n]>>
    /\ UNCHANGED <<workerVars, ctlVars, clockVars, capture_buf, queued,
                   window, conn, backlog, rx, sent>>

ClockDrained ==
    /\ clock = "drain"
    /\ \/ playout_buf = <<>>
       \/ conn[stream] = "open" /\ Len(tx[stream]) = TX_CAP
    /\ clock' = "fill"
    /\ UNCHANGED <<workerVars, ctlVars, stream, bufVars, peerVars>>

(* A failed write drops the peer before capture is read.                   *)
ClockWriteError ==
    /\ clock = "drain" /\ playout_buf # <<>> /\ conn[stream] = "closed"
    /\ stream' = NoPeer
    /\ clock' = "load"
    /\ UNCHANGED <<workerVars, ctlVars, bufVars, peerVars>>

(* One read(2) of fill_capture's loop; the mode the device is in marks     *)
(* what was captured during warm-up.                                       *)
ClockRead ==
    /\ clock = "fill" /\ rx[stream] # <<>>
    /\ LET n == IF Len(rx[stream]) < TMP_LEN THEN Len(rx[stream])
                ELSE TMP_LEN
           read == [i \in 1..n |-> [rx[stream][i] EXCEPT
                        !.warm = recording /\ ~send_to_webrtc]]
       IN /\ capture_buf' = cap_buffer(capture_buf \o read)
          /\ rx' = [rx EXCEPT ![stream] = SubSeq(@, n + 1, Len(@))]
    /\ UNCHANGED <<workerVars, ctlVars, clockVars, playout_buf, queued,
                   lastWritten, window, conn, backlog, tx, sent>>

ClockWouldBlock ==
    /\ clock = "fill" /\ rx[stream] = <<>> /\ conn[stream] = "open"
    /\ clock' = "load"
    /\ UNCHANGED <<workerVars, ctlVars, stream, bufVars, peerVars>>

(* Mutant: a read of no bytes is taken for "nothing yet".                  *)
ClockPeerGoneIgnored ==
    /\ clock = "fill" /\ conn[stream] = "closed" /\ rx[stream] = <<>>
    /\ clock' = "load"
    /\ UNCHANGED <<workerVars, ctlVars, stream, bufVars, peerVars>>

(* End of file once everything is read; a peer that closed without reading *)
(* all it was sent resets the connection, and the read fails at once.      *)
ClockPeerGone ==
    /\ clock = "fill" /\ conn[stream] = "closed"
    /\ rx[stream] = <<>> \/ tx[stream] # <<>>
    /\ stream' = NoPeer
    /\ clock' = "load"
    /\ UNCHANGED <<workerVars, ctlVars, bufVars, peerVars>>

(* `recording` and `send_to_webrtc` are loaded one after the other, and    *)
(* either may be stored anew before the window is pushed.                  *)
ClockLoadRecording ==
    /\ clock = "load"
    /\ clock' = IF recording THEN "load_send" ELSE "check"
    /\ UNCHANGED <<workerVars, ctlVars, stream, bufVars, peerVars>>

ClockLoadSend ==
    /\ clock = "load_send"
    /\ clock' = IF send_to_webrtc THEN "push" ELSE "check"
    /\ UNCHANGED <<workerVars, ctlVars, stream, bufVars, peerVars>>

(* The window goes to WebRTC whatever the flags have become.               *)
ClockPush ==
    /\ clock = "push"
    /\ window' = WindowOf(capture_buf)
    /\ capture_buf' = AfterWindow(capture_buf)
    /\ trailing' = IF request = "live" THEN trailing ELSE trailing + 1
    /\ clock' = "check"
    /\ UNCHANGED <<workerVars, ctl, cthread, flagVars, request, stream,
                   playout_buf, queued, lastWritten, peerVars>>

(* run() joins the control thread before it returns.                       *)
ClockReturn ==
    /\ clock = "join" /\ cthread = "done"
    /\ clock' = "returned"
    /\ UNCHANGED <<workerVars, ctlVars, stream, bufVars, peerVars>>

Clock ==
    ClockCheck \/ ClockAccept \/ ClockNoPeer \/ ClockPull \/ ClockWrite
        \/ ClockDrained \/ ClockWriteError \/ ClockRead \/ ClockWouldBlock
        \/ ClockPeerGone \/ ClockLoadRecording \/ ClockLoadSend \/ ClockPush
        \/ ClockReturn

-----------------------------------------------------------------------------
(* The peers of the Unix socket (external): each connects once.            *)

Connect(p) ==
    /\ conn[p] = "idle" /\ clock # "returned"
    /\ conn' = [conn EXCEPT ![p] = "pending"]
    /\ backlog' = Append(backlog, p)
    /\ UNCHANGED <<workerVars, ctlVars, clockVars, bufVars, rx, tx, sent>>

(* Bytes arrive one by one: a read finds any number of them, odd or even.  *)
PeerWrite(p) ==
    /\ conn[p] \in {"pending", "open"} /\ Len(rx[p]) < RX_CAP
    /\ RealtimePeers => clock # "fill"
    /\ rx' = [rx EXCEPT ![p] =
                Append(@, [peer |-> p, at |-> sent[p], warm |-> FALSE])]
    /\ sent' = [sent EXCEPT ![p] = Succ(@)]
    /\ UNCHANGED <<workerVars, ctlVars, clockVars, bufVars, conn, backlog, tx>>

PeerRead(p) ==
    /\ conn[p] = "open" /\ tx[p] # <<>>
    /\ tx' = [tx EXCEPT ![p] = Tail(@)]
    /\ UNCHANGED <<workerVars, ctlVars, clockVars, bufVars, conn, backlog,
                   rx, sent>>

PeerClose(p) ==
    /\ conn[p] \in {"pending", "open"}
    /\ conn' = [conn EXCEPT ![p] = "closed"]
    /\ UNCHANGED <<workerVars, ctlVars, clockVars, bufVars, backlog, rx, tx,
                   sent>>

-----------------------------------------------------------------------------
(* The module is gone: nothing is left for the tunnel to do.               *)
Finished == worker = "done" /\ UNCHANGED vars

Next ==
    \/ \E e \in EngineEvents : EngineSend(e)
    \/ EngineClose
    \/ Worker
    \/ Control
    \/ Clock
    \/ \E p \in Peers :
          Connect(p) \/ PeerWrite(p) \/ PeerRead(p) \/ PeerClose(p)
    \/ Finished

Spec == Init /\ [][Next]_vars

(* The threads run; accept() does not fail for ever.                       *)
FairSpec ==
    /\ Spec
    /\ WF_vars(Worker) /\ WF_vars(Control) /\ WF_vars(Clock)
    /\ SF_vars(ClockAccept)
-----------------------------------------------------------------------------
(* Safety.                                                                 *)

(* At most one odd byte over ~80 ms is ever buffered each way, whatever    *)
(* the peers send and however few of the queued bytes they take            *)
(* (cap_buffer, called after every read and every pull).                   *)
BuffersBounded ==
    /\ Len(capture_buf) <= max_buffered + 1
    /\ Len(playout_buf) <= max_buffered + 1

(* The capture buffer starts at a sample's low byte: reads that split a    *)
(* sample, dropped bytes and windows taken never shift the samples.        *)
CaptureAligned == capture_buf # <<>> => capture_buf[1].at % 2 = 0

Consecutive(bytes) ==
    \A i \in 1..(Len(bytes) - 1) :
        /\ bytes[i + 1].peer = bytes[i].peer
        /\ bytes[i + 1].at = Succ(bytes[i].at)

(* What is buffered and what waits in the socket are one stretch of the    *)
(* connected peer's stream, up to the last byte it wrote: no byte of an    *)
(* earlier peer, none lost in the middle, none twice.                      *)
CaptureIsStream ==
    stream # NoPeer =>
        LET bytes == capture_buf \o rx[stream] IN
        /\ Consecutive(bytes)
        /\ bytes # <<>> =>
              /\ bytes[Len(bytes)].peer = stream
              /\ Succ(bytes[Len(bytes)].at) = sent[stream]

(* Every sample handed to WebRTC is the two bytes of one sample, and the   *)
(* samples of a window follow each other in the peer's stream.             *)
WindowsWhole ==
    window # <<>> =>
        \E n \in 0..Len(window) :
            /\ \A i \in 1..Len(window) : window[i] = Silence <=> n < i
            /\ \A i \in 1..n :
                  /\ window[i][1].at % 2 = 0
                  /\ Consecutive(window[i])
                  /\ i < n => Consecutive(<<window[i][2], window[i + 1][1]>>)

(* A peer only ever gets audio queued since it was accepted, in playing    *)
(* order, and the bytes it gets stay aligned: a low byte follows a high    *)
(* byte across every short write and every dropped stretch.                *)
PlayoutForPeer ==
    /\ \A p \in Peers : \A i \in 1..Len(tx[p]) : tx[p][i].peer = p
    /\ stream # NoPeer =>
        /\ Consecutive(playout_buf)
        /\ playout_buf # <<>> =>
              /\ playout_buf[Len(playout_buf)].peer = stream
              /\ Succ(playout_buf[Len(playout_buf)].at) = queued
        /\ lastWritten # <<>> /\ playout_buf # <<>> =>
              playout_buf[1].at % 2 # lastWritten[1].at % 2

(* The clock thread loads the two recording flags and then pushes, the     *)
(* control thread stores them one after the other, and neither waits for   *)
(* the other.  Still a live request that is withdrawn, by a stop or for a  *)
(* warm-up, lets one window through at most, the one whose flags had been  *)
(* loaded, and no other follows before the next live request, whatever     *)
(* stops and warm-ups are asked for in between.                            *)
OneTrailingWindow == trailing <= 1

(* run() comes back only when the worker told it to, and once the module   *)
(* has joined its worker nothing of the device moves: no thread is left    *)
(* to use the transport.                                                   *)
StopsOnlyWhenTold ==
    /\ clock \in {"join", "returned"} => worker # "serve"
    /\ worker = "done" => clock = "returned" /\ cthread = "done"

-----------------------------------------------------------------------------
(* Liveness, under FairSpec and with peers that write in real time.        *)

(* Shutting the module down always succeeds: after Terminate, or when the  *)
(* event channel closes, the worker gets its driver back.                  *)
ShutdownCompletes == (~admOpen \/ worker # "serve") ~> (worker = "done")

(* A peer that closed is let go of, so that another can be accepted, and   *)
(* a peer that waits is accepted when nobody is connected.                 *)
ClosedPeerReleased ==
    \A p \in Peers :
        (stream = p /\ conn[p] = "closed") ~> (stream # p)
WaitingPeerAccepted ==
    (stream = NoPeer /\ backlog # <<>>) ~> (stream # NoPeer \/ terminate)

-----------------------------------------------------------------------------
(* What the source says and the code does not do.                          *)

(* "Drop whole samples from the front" (cap_buffer): when a short write    *)
(* ended inside a sample, the sample's other byte must be the next one     *)
(* written, not the first one dropped.                                     *)
PlayoutSamplesIntact ==
    lastWritten # <<>> /\ playout_buf # <<>> /\ lastWritten[1].at % 2 = 0 =>
        playout_buf[1].at = Succ(lastWritten[1].at)

(* "When `send_to_webrtc` is false the engine is warming up and captured   *)
(* audio should be discarded rather than pushed" (AudioControlEvent): no   *)
(* byte captured during warm-up may be pushed, then or later.              *)
WarmupDiscarded ==
    \A i \in 1..Len(window) : \A j \in 1..Len(window[i]) : ~window[i][j].warm
=============================================================================
