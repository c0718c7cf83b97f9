-------------------------- MODULE PipeStreamProofs --------------------------
(***************************************************************************)
(* Theorems about the bytes the pipe audio backend carries (PipeAudio):    *)
(* what is captured is the peer's stream from a sample's low byte on, what *)
(* is played belongs to the peer that hears it, and no window has the half *)
(* of a sample, for every size of windows, reads and buffers.              *)
(*                                                                         *)
(* Positions wrap around, so that a buffer may hold one position twice:    *)
(* the invariants speak of the parity of every byte, which a step keeps    *)
(* when it takes an even number of them away from the front.               *)
(***************************************************************************)
EXTENDS PipeAudioProofs

(* The bytes alternate between low and high ones, beginning with a low one *)
(* or ending with a high one.                                              *)
LowFirst(bytes) == \A i \in 1..Len(bytes) : bytes[i].at % 2 = (i + 1) % 2
HighLast(bytes) ==
    \A i \in 1..Len(bytes) : bytes[i].at % 2 = (Len(bytes) + 1 - i) % 2

(* A stretch of peer p's bytes up to, and not with, position next.         *)
Stretch(bytes, p, next) ==
    /\ Consecutive(bytes)
    /\ \A i \in 1..Len(bytes) : bytes[i].peer = p
    /\ 0 < Len(bytes) => Succ(bytes[Len(bytes)].at) = next

-----------------------------------------------------------------------------
(* Positions.                                                              *)

(* Advancing by k changes the parity as k does: positions wrap around      *)
(* after an odd one.                                                       *)
LEMMA AheadParity ==
    ASSUME NEW p \in Pos, NEW k \in 0..(LAST_BYTE + 1)
    PROVE  Ahead(p, k) % 2 = (p + k) % 2
BY PositionsAssumption DEF Ahead, Pos

(* One after k after is k + 1 after.                                       *)
LEMMA SuccAhead ==
    ASSUME NEW p \in Pos, NEW k \in 0..LAST_BYTE
    PROVE  Succ(Ahead(p, k)) = Ahead(p, k + 1)
BY PositionsAssumption DEF Ahead, Pos, Succ

(* An even number changes no parity.                                       *)
LEMMA EvenSum ==
    ASSUME NEW k \in Nat, k % 2 = 0, NEW i \in Nat
    PROVE  ((k + i) + 1) % 2 = (i + 1) % 2
OBVIOUS

(* The next numbers of numbers of one parity have one parity.              *)
LEMMA NextParity ==
    ASSUME NEW i \in Nat, NEW j \in Nat, i % 2 = j % 2
    PROVE  (i + 1) % 2 = (j + 1) % 2
OBVIOUS

(* A byte has a position and a peer.                                       *)
LEMMA ByteTypes ==
    /\ \A b \in CaptureByte : b.at \in Pos /\ b.at \in Nat /\ b.peer \in Peers
    /\ \A b \in PlayoutByte : b.at \in Pos /\ b.at \in Nat /\ b.peer \in Peers
BY DEF CaptureByte, PlayoutByte, Pos

-----------------------------------------------------------------------------
(* Stretches of bytes.                                                     *)

(* b is a without its first k bytes, as far as peers and positions go.     *)
IsRest(b, a, k) ==
    /\ Len(b) = Len(a) - k
    /\ \A i \in 1..Len(b) : /\ b[i].peer = a[k + i].peer
                            /\ b[i].at = a[k + i].at

(* What is taken away from the front leaves a stretch up to the same       *)
(* position; an even number of bytes leaves a low byte first.              *)
LEMMA RestOfStretch ==
    ASSUME NEW S, NEW T, NEW a \in Seq(S), NEW b \in Seq(T),
           NEW k \in 0..Len(a), IsRest(b, a, k), NEW p, NEW next
    PROVE  /\ Consecutive(a) => Consecutive(b)
           /\ Stretch(a, p, next) => Stretch(b, p, next)
           /\ LowFirst(a) /\ k % 2 = 0 => LowFirst(b)
           /\ HighLast(a) => HighLast(b)
<1>1. /\ Len(a) \in Nat /\ Len(b) \in Nat /\ Len(b) = Len(a) - k /\ k \in Nat
      /\ \A i \in 1..Len(b) : /\ b[i].peer = a[k + i].peer
                              /\ b[i].at = a[k + i].at
  BY LenProperties DEF IsRest
<1>2. ASSUME NEW i \in 1..(Len(b) - 1)
      PROVE  /\ i \in 1..Len(b) /\ i + 1 \in 1..Len(b)
             /\ k + i \in 1..(Len(a) - 1) /\ (k + i) + 1 = k + (i + 1)
  BY <1>1
<1>3. Consecutive(a) => Consecutive(b)
  <2> SUFFICES ASSUME Consecutive(a), NEW i \in 1..(Len(b) - 1)
               PROVE  /\ b[i + 1].peer = b[i].peer
                      /\ b[i + 1].at = Succ(b[i].at)
    BY DEF Consecutive
  <2>1. /\ b[i].peer = a[k + i].peer /\ b[i].at = a[k + i].at
        /\ b[i + 1].peer = a[(k + i) + 1].peer
        /\ b[i + 1].at = a[(k + i) + 1].at
    BY <1>1, <1>2
  <2> QED
    BY <1>2, <2>1 DEF Consecutive
<1>4. Stretch(a, p, next) => Stretch(b, p, next)
  <2> SUFFICES ASSUME Stretch(a, p, next) PROVE Stretch(b, p, next)
    OBVIOUS
  <2>1. \A i \in 1..Len(b) : b[i].peer = p
    <3> SUFFICES ASSUME NEW i \in 1..Len(b) PROVE b[i].peer = p
      OBVIOUS
    <3>1. k + i \in 1..Len(a)
      BY <1>1
    <3> QED
      BY <1>1, <3>1 DEF Stretch
  <2>2. 0 < Len(b) => Succ(b[Len(b)].at) = next
    <3> SUFFICES ASSUME 0 < Len(b) PROVE Succ(b[Len(b)].at) = next
      OBVIOUS
    <3>1. Len(b) \in 1..Len(b) /\ k + Len(b) = Len(a) /\ 0 < Len(a)
      BY <1>1
    <3>2. b[Len(b)].at = a[Len(a)].at
      BY <1>1, <3>1
    <3> QED
      BY <3>1, <3>2 DEF Stretch
  <2> QED
    BY <1>3, <2>1, <2>2 DEF Stretch
<1>5. LowFirst(a) /\ k % 2 = 0 => LowFirst(b)
  <2> SUFFICES ASSUME LowFirst(a), k % 2 = 0, NEW i \in 1..Len(b)
               PROVE  b[i].at % 2 = (i + 1) % 2
    BY DEF LowFirst
  <2>1. k + i \in 1..Len(a) /\ i \in Nat
    BY <1>1
  <2>3. ((k + i) + 1) % 2 = (i + 1) % 2
    BY <1>1, <2>1, EvenSum
  <2>2. a[k + i].at % 2 = ((k + i) + 1) % 2
    BY <2>1 DEF LowFirst
  <2> QED
    BY <1>1, <2>2, <2>3
<1>6. HighLast(a) => HighLast(b)
  <2> SUFFICES ASSUME HighLast(a), NEW i \in 1..Len(b)
               PROVE  b[i].at % 2 = (Len(b) + 1 - i) % 2
    BY DEF HighLast
  <2>1. k + i \in 1..Len(a) /\ Len(a) + 1 - (k + i) = Len(b) + 1 - i
    BY <1>1
  <2>2. a[k + i].at % 2 = (Len(a) + 1 - (k + i)) % 2
    BY <2>1 DEF HighLast
  <2> QED
    BY <1>1, <2>1, <2>2
<1> QED
  BY <1>3, <1>4, <1>5, <1>6

(* A stretch followed by the stretch that begins where it ends.            *)
LEMMA JoinStretches ==
    ASSUME NEW S, NEW a \in Seq(S), NEW b \in Seq(S), NEW p,
           NEW middle, NEW next,
           Stretch(a, p, middle), Stretch(b, p, next),
           0 < Len(b) => b[1].at = middle,
           Len(b) = 0 => next = middle
    PROVE  Stretch(a \o b, p, next)
<1> DEFINE c == a \o b
<1>1. /\ Len(a) \in Nat /\ Len(b) \in Nat
      /\ Len(c) = Len(a) + Len(b)
      /\ \A i \in 1..Len(a) : c[i] = a[i]
      /\ \A i \in 1..Len(b) : c[Len(a) + i] = b[i]
  <2>1. /\ Len(c) = Len(a) + Len(b)
        /\ \A i \in 1..Len(c) :
              c[i] = IF i <= Len(a) THEN a[i] ELSE b[i - Len(a)]
    BY ConcatProperties
  <2>2. Len(a) \in Nat /\ Len(b) \in Nat
    BY LenProperties
  <2> HIDE DEF c
  <2>3. ASSUME NEW i \in 1..Len(a) PROVE c[i] = a[i]
    <3>1. i \in 1..Len(c) /\ i <= Len(a)
      BY <2>1, <2>2
    <3> QED
      BY <2>1, <3>1
  <2>4. ASSUME NEW i \in 1..Len(b) PROVE c[Len(a) + i] = b[i]
    <3>1. /\ Len(a) + i \in 1..Len(c) /\ ~(Len(a) + i <= Len(a))
          /\ (Len(a) + i) - Len(a) = i
      BY <2>1, <2>2
    <3> QED
      BY <2>1, <3>1
  <2> QED
    BY <2>1, <2>2, <2>3, <2>4
<1> HIDE DEF c
<1>2. ASSUME NEW i \in 1..Len(c), i \notin 1..Len(a)
      PROVE  \E j \in 1..Len(b) : i = Len(a) + j
  <2>1. i - Len(a) \in 1..Len(b) /\ i = Len(a) + (i - Len(a))
    BY <1>1, <1>2
  <2> QED
    BY <2>1
<1>3. \A i \in 1..Len(c) : c[i].peer = p
  <2> SUFFICES ASSUME NEW i \in 1..Len(c) PROVE c[i].peer = p
    OBVIOUS
  <2>1. CASE i \in 1..Len(a)
    BY <1>1, <2>1 DEF Stretch
  <2>2. CASE i \notin 1..Len(a)
    BY <1>1, <1>2, <2>2 DEF Stretch
  <2> QED
    BY <2>1, <2>2
<1>4. Consecutive(c)
  <2> SUFFICES ASSUME NEW i \in 1..(Len(c) - 1)
               PROVE  /\ c[i + 1].peer = c[i].peer
                      /\ c[i + 1].at = Succ(c[i].at)
    BY DEF Consecutive
  <2>1. i \in 1..Len(c) /\ i + 1 \in 1..Len(c)
    BY <1>1
  <2>2. c[i + 1].peer = c[i].peer
    BY <1>3, <2>1
  <2>3. CASE i \in 1..(Len(a) - 1)
    <3>1. i \in 1..Len(a) /\ i + 1 \in 1..Len(a)
      BY <1>1, <2>3
    <3>2. a[i + 1].at = Succ(a[i].at)
      BY <2>3 DEF Stretch, Consecutive
    <3> QED
      BY <1>1, <2>2, <3>1, <3>2
  <2>4. CASE i = Len(a)
    <3>1. /\ 0 < Len(a) /\ Len(a) \in 1..Len(a)
          /\ 0 < Len(b) /\ 1 \in 1..Len(b)
      BY <1>1, <2>4
    <3>2. c[i] = a[Len(a)] /\ c[i + 1] = b[1]
      BY <1>1, <2>4, <3>1
    <3> QED
      BY <2>2, <3>1, <3>2 DEF Stretch
  <2>5. CASE i > Len(a)
    <3>1. /\ i - Len(a) \in 1..(Len(b) - 1) /\ i - Len(a) \in 1..Len(b)
          /\ (i - Len(a)) + 1 \in 1..Len(b)
          /\ Len(a) + (i - Len(a)) = i
          /\ Len(a) + ((i - Len(a)) + 1) = i + 1
      BY <1>1, <2>5
    <3>2. c[i] = b[i - Len(a)] /\ c[i + 1] = b[(i - Len(a)) + 1]
      <4> DEFINE j == i - Len(a)
      <4>1. /\ j \in 1..Len(b) /\ j + 1 \in 1..Len(b)
            /\ Len(a) + j = i /\ Len(a) + (j + 1) = i + 1
        BY <3>1
      <4> HIDE DEF j
      <4>2. c[Len(a) + j] = b[j] /\ c[Len(a) + (j + 1)] = b[j + 1]
        BY <1>1, <4>1
      <4> QED
        BY <4>1, <4>2 DEF j
    <3>3. b[(i - Len(a)) + 1].at = Succ(b[i - Len(a)].at)
      BY <3>1 DEF Stretch, Consecutive
    <3> QED
      BY <2>2, <3>2, <3>3
  <2> QED
    BY <1>1, <2>3, <2>4, <2>5
<1>5. 0 < Len(c) => Succ(c[Len(c)].at) = next
  <2> SUFFICES ASSUME 0 < Len(c) PROVE Succ(c[Len(c)].at) = next
    OBVIOUS
  <2>1. CASE 0 < Len(b)
    <3>1. Len(b) \in 1..Len(b) /\ Len(c) = Len(a) + Len(b)
      BY <1>1, <2>1
    <3>2. c[Len(c)] = b[Len(b)]
      BY <1>1, <3>1
    <3> QED
      BY <2>1, <3>2 DEF Stretch
  <2>2. CASE Len(b) = 0
    <3>1. Len(a) \in 1..Len(a) /\ Len(c) = Len(a) /\ 0 < Len(a)
      BY <1>1, <2>2
    <3>2. c[Len(c)] = a[Len(a)]
      BY <1>1, <3>1
    <3> QED
      BY <2>2, <3>1, <3>2 DEF Stretch
  <2> QED
    BY <1>1, <2>1, <2>2
<1> QED
  BY <1>3, <1>4, <1>5 DEF Stretch, c

-----------------------------------------------------------------------------
(* Who is connected.  A peer waits for accept() once, and is not idle from *)
(* then on.                                                                *)

Waiting(p) == \E i \in 1..Len(backlog) : backlog[i] = p

Lined ==
    /\ \A i, j \in 1..Len(backlog) : backlog[i] = backlog[j] => i = j
    /\ ~Waiting(stream)
    /\ \A p \in Peers : Waiting(p) => conn[p] # "idle"
    /\ stream # NoPeer => conn[stream] # "idle"

(* A peer of whom nothing was read yet.                                    *)
Fresh(p) == conn[p] = "idle" \/ Waiting(p)

(* Peer p's bytes, from a low one on, up to the last it wrote.             *)
FromLow(bytes, p) ==
    /\ Stretch(bytes, p, sent[p]) /\ LowFirst(bytes)
    /\ sent[p] % 2 = Len(bytes) % 2

Captured ==
    /\ Consecutive(capture_buf) /\ LowFirst(capture_buf)
    /\ stream # NoPeer => FromLow(capture_buf \o rx[stream], stream)
    /\ \A p \in Peers : Fresh(p) => FromLow(rx[p], p)

(* The steps that concern the connections and the capture buffer.          *)
LEMMA StreamSteps ==
    ASSUME [Next]_vars
    PROVE  \/ ClockCheck \/ ClockAccept \/ ClockWriteError \/ ClockPeerGone
           \/ ClockRead \/ ClockPush
           \/ \E p \in Peers : Connect(p) \/ PeerWrite(p) \/ PeerClose(p)
           \/ UNCHANGED <<stream, capture_buf, rx, sent, conn, backlog>>
<1> USE DEF bufVars, peerVars, clockVars
<1>1. ASSUME NEW e \in EngineEvents, EngineSend(e)
      PROVE  UNCHANGED <<stream, capture_buf, rx, sent, conn, backlog>>
  BY <1>1 DEF EngineSend
<1>2. CASE EngineClose
  BY <1>2 DEF EngineClose
<1>3. CASE Worker
  BY <1>3 DEF Worker, WorkerForward, WorkerSetCallback, WorkerAnswer,
              WorkerTerminate, WorkerClosed, WorkerFinish, WorkerJoin,
              WorkerReceive
<1>4. CASE Control
  BY <1>4 DEF Control, ControlPlayout, ControlStartRecording, SecondStore,
              ControlStopRecording, ControlTerminate, ControlReceive
<1>5. CASE Clock
  BY <1>5 DEF Clock, ClockNoPeer, ClockPull, ClockWrite, ClockDrained,
              ClockWouldBlock, ClockLoadRecording, ClockLoadSend,
              ClockReturn
<1>6. ASSUME NEW p \in Peers, PeerRead(p)
      PROVE  UNCHANGED <<stream, capture_buf, rx, sent, conn, backlog>>
  BY <1>6 DEF PeerRead
<1>7. CASE UNCHANGED vars
  BY <1>7 DEF vars
<1> QED
  BY <1>1, <1>2, <1>3, <1>4, <1>5, <1>6, <1>7 DEF Next, Finished

(* The peer that is accepted waited first, and waits no more.              *)
LEMMA AcceptedWaited ==
    ASSUME TypeInv, Lined, ClockAccept
    PROVE  /\ Waiting(stream') /\ stream' \in Peers /\ ~Waiting(stream)'
           /\ \A p \in Peers : Waiting(p)' => Waiting(p)
           /\ \A i, j \in 1..Len(backlog') :
                 backlog'[i] = backlog'[j] => i = j
<1>1. /\ backlog \in Seq(Peers) /\ backlog # <<>>
      /\ stream' = Head(backlog) /\ backlog' = Tail(backlog)
  BY DEF ClockAccept, TypeInv, TypeOK
<1>2. /\ Len(backlog) \in Nat \ {0} /\ Head(backlog) = backlog[1]
      /\ Head(backlog) \in Peers
      /\ Len(Tail(backlog)) = Len(backlog) - 1
      /\ \A i \in 1..Len(Tail(backlog)) : Tail(backlog)[i] = backlog[i + 1]
  BY <1>1, HeadTailProperties, EmptySeq, LenProperties
<1>3. ASSUME NEW i \in 1..Len(backlog')
      PROVE  /\ backlog'[i] = backlog[i + 1]
             /\ i + 1 \in 1..Len(backlog) /\ i + 1 # 1
  BY <1>1, <1>2
<1>4. 1 \in 1..Len(backlog) /\ stream' = backlog[1]
  BY <1>1, <1>2
<1>5. ~Waiting(stream)'
  <2> SUFFICES ASSUME NEW i \in 1..Len(backlog'), backlog'[i] = stream'
               PROVE  FALSE
    BY DEF Waiting
  <2>1. backlog[i + 1] = backlog[1]
    BY <1>3, <1>4
  <2> QED
    BY <1>3, <1>4, <2>1 DEF Lined
<1>6. \A p \in Peers : Waiting(p)' => Waiting(p)
  BY <1>3 DEF Waiting
<1>7. ASSUME NEW i \in 1..Len(backlog'), NEW j \in 1..Len(backlog'),
             backlog'[i] = backlog'[j]
      PROVE  i = j
  <2>1. i + 1 = j + 1
    BY <1>3, <1>7 DEF Lined
  <2> QED
    BY <1>1, <1>2, <2>1
<1> QED
  BY <1>1, <1>2, <1>4, <1>5, <1>6, <1>7 DEF Waiting

(* A peer that connects is the last to wait.                               *)
LEMMA ConnectedWaits ==
    ASSUME TypeInv, Lined, NEW p \in Peers, Connect(p)
    PROVE  /\ ~Waiting(p) /\ p # stream
           /\ \A q : Waiting(q)' <=> Waiting(q) \/ q = p
           /\ \A i, j \in 1..Len(backlog') :
                 backlog'[i] = backlog'[j] => i = j
<1>1. /\ backlog \in Seq(Peers) /\ backlog' = Append(backlog, p)
      /\ conn[p] = "idle"
  BY DEF Connect, TypeInv, TypeOK
<1>2. ~Waiting(p) /\ p # stream
  BY <1>1, PeersAssumption DEF Lined
<1>3. /\ Len(backlog) \in Nat /\ Len(backlog') = Len(backlog) + 1
      /\ \A i \in 1..Len(backlog) : backlog'[i] = backlog[i]
      /\ backlog'[Len(backlog) + 1] = p
  BY <1>1, AppendProperties, LenProperties
<1>4. \A i \in 1..Len(backlog') : i \in 1..Len(backlog) \/ i = Len(backlog) + 1
  BY <1>3
<1>5. ASSUME NEW q PROVE Waiting(q)' <=> Waiting(q) \/ q = p
  <2>1. Waiting(q) => Waiting(q)'
    <3>1. \A i \in 1..Len(backlog) : i \in 1..Len(backlog')
      BY <1>3
    <3> QED
      BY <1>3, <3>1 DEF Waiting
  <2>2. q = p => Waiting(q)'
    <3>1. Len(backlog) + 1 \in 1..Len(backlog')
      BY <1>3
    <3> QED
      BY <1>3, <3>1 DEF Waiting
  <2>3. Waiting(q)' => Waiting(q) \/ q = p
    BY <1>3, <1>4 DEF Waiting
  <2> QED
    BY <2>1, <2>2, <2>3
<1>6. ASSUME NEW i \in 1..Len(backlog'), NEW j \in 1..Len(backlog'),
             backlog'[i] = backlog'[j]
      PROVE  i = j
  <2>1. \A k \in 1..Len(backlog) : backlog[k] # p
    BY <1>2 DEF Waiting
  <2>2. CASE i \in 1..Len(backlog) /\ j \in 1..Len(backlog)
    BY <1>3, <1>6, <2>2 DEF Lined
  <2>3. CASE i \in 1..Len(backlog) /\ j = Len(backlog) + 1
    BY <1>3, <1>6, <2>1, <2>3
  <2>4. CASE i = Len(backlog) + 1 /\ j \in 1..Len(backlog)
    BY <1>3, <1>6, <2>1, <2>4
  <2> QED
    BY <1>4, <2>2, <2>3, <2>4
<1> QED
  BY <1>2, <1>5, <1>6

(* Connections stay lined up.                                              *)
LEMMA NextLined ==
    ASSUME TypeInv, Lined, [Next]_vars
    PROVE  Lined'
<1>0. /\ stream \in Peers \cup {NoPeer} /\ NoPeer \notin Peers
      /\ backlog \in Seq(Peers)
      /\ conn \in [Peers -> {"idle", "pending", "open", "closed"}]
  BY PeersAssumption DEF TypeInv, TypeOK
<1>1. ~Waiting(NoPeer)
  <2>1. \A i \in 1..Len(backlog) : backlog[i] \in Peers
    BY <1>0, ElementOfSeq
  <2> QED
    BY <1>0, <2>1 DEF Waiting
<1>2. CASE ClockCheck
  <2>1. /\ backlog' = backlog
        /\ stream' = stream \/ stream' = NoPeer
        /\ \A p \in Peers : conn'[p] = conn[p] \/ conn'[p] = "closed"
    BY <1>2 DEF ClockCheck
  <2>2. \A q : Waiting(q)' <=> Waiting(q)
    BY <2>1 DEF Waiting
  <2> QED
    BY <1>0, <1>1, <2>1, <2>2 DEF Lined
<1>3. CASE ClockAccept
  <2>1. \A p \in Peers : conn[p] # "idle" => conn'[p] # "idle"
    BY <1>3 DEF ClockAccept
  <2>2. /\ Waiting(stream') /\ stream' \in Peers /\ ~Waiting(stream)'
        /\ \A p \in Peers : Waiting(p)' => Waiting(p)
        /\ \A i, j \in 1..Len(backlog') :
              backlog'[i] = backlog'[j] => i = j
    BY <1>3, AcceptedWaited
  <2>3. \A p \in Peers : Waiting(p)' => conn'[p] # "idle"
    BY <2>1, <2>2 DEF Lined
  <2>4. conn'[stream'] # "idle"
    BY <2>1, <2>2 DEF Lined
  <2> QED
    BY <2>2, <2>3, <2>4 DEF Lined
<1>4. CASE ClockWriteError \/ ClockPeerGone
  <2>1. /\ UNCHANGED <<conn, backlog>> /\ stream' = NoPeer
    BY <1>4 DEF ClockWriteError, ClockPeerGone, peerVars
  <2>2. \A q : Waiting(q)' <=> Waiting(q)
    BY <2>1 DEF Waiting
  <2> QED
    BY <1>0, <1>1, <2>1, <2>2 DEF Lined
<1>5. ASSUME NEW p \in Peers, Connect(p) PROVE Lined'
  <2>1. /\ stream' = stream /\ conn' = [conn EXCEPT ![p] = "pending"]
    BY <1>5 DEF Connect, clockVars
  <2>2. \A q \in Peers : conn[q] # "idle" \/ q = p => conn'[q] # "idle"
    BY <1>0, <2>1
  <2>3. /\ ~Waiting(p) /\ p # stream
        /\ \A q : Waiting(q)' <=> Waiting(q) \/ q = p
        /\ \A i, j \in 1..Len(backlog') :
              backlog'[i] = backlog'[j] => i = j
    BY <1>5, ConnectedWaits
  <2>4. ~Waiting(stream)'
    BY <2>1, <2>3 DEF Lined
  <2> QED
    BY <1>0, <2>1, <2>2, <2>3, <2>4 DEF Lined
<1>6. ASSUME NEW p \in Peers, PeerWrite(p) \/ PeerClose(p) PROVE Lined'
  <2>1. /\ UNCHANGED <<stream, backlog>>
        /\ conn' = conn \/ conn' = [conn EXCEPT ![p] = "closed"]
    BY <1>6 DEF PeerWrite, PeerClose, clockVars
  <2>2. \A q : Waiting(q)' <=> Waiting(q)
    BY <2>1 DEF Waiting
  <2>3. \A q \in Peers : conn[q] # "idle" => conn'[q] # "idle"
    BY <1>0, <2>1
  <2> QED
    BY <1>0, <2>1, <2>2, <2>3 DEF Lined
<1>7. CASE UNCHANGED <<stream, conn, backlog>>
  BY <1>7 DEF Lined, Waiting
<1>8. CASE ClockRead \/ ClockPush
  BY <1>7, <1>8 DEF ClockRead, ClockPush, clockVars, peerVars
<1> QED
  BY <1>2, <1>3, <1>4, <1>5, <1>6, <1>7, <1>8, StreamSteps

-----------------------------------------------------------------------------
(* The capture buffer.                                                     *)

(* The elements of two sequences one after the other.                      *)
LEMMA Joined ==
    ASSUME NEW S, NEW a \in Seq(S), NEW b \in Seq(S)
    PROVE  /\ a \o b \in Seq(S) /\ Len(a) \in Nat /\ Len(b) \in Nat
           /\ Len(a \o b) = Len(a) + Len(b)
           /\ \A i \in 1..Len(a) : (a \o b)[i] = a[i]
           /\ \A i \in (Len(a) + 1)..(Len(a) + Len(b)) :
                 (a \o b)[i] = b[i - Len(a)]
<1>1. /\ a \o b \in Seq(S) /\ Len(a \o b) = Len(a) + Len(b)
      /\ \A i \in 1..Len(a \o b) :
            (a \o b)[i] = IF i <= Len(a) THEN a[i] ELSE b[i - Len(a)]
      /\ Len(a) \in Nat /\ Len(b) \in Nat
  BY ConcatProperties, LenProperties
<1> DEFINE c == a \o b
<1> HIDE DEF c
<1>2. /\ Len(c) = Len(a) + Len(b)
      /\ \A i \in 1..Len(c) :
            c[i] = IF i <= Len(a) THEN a[i] ELSE b[i - Len(a)]
  BY <1>1 DEF c
<1>3. ASSUME NEW i \in 1..Len(a) PROVE c[i] = a[i]
  <2>1. i \in 1..Len(c) /\ i <= Len(a)
    BY <1>1, <1>2
  <2> QED
    BY <1>2, <2>1
<1>4. ASSUME NEW i \in (Len(a) + 1)..(Len(a) + Len(b))
      PROVE  c[i] = b[i - Len(a)]
  <2>1. i \in 1..Len(c) /\ ~(i <= Len(a))
    BY <1>1, <1>2
  <2> QED
    BY <1>2, <2>1
<1> QED
  BY <1>1, <1>3, <1>4 DEF c

(* Samples taken away from the front leave the stream from a low byte on.  *)
LEMMA RestFromLow ==
    ASSUME NEW a \in Seq(CaptureByte), NEW b \in Seq(CaptureByte),
           NEW k \in 0..Len(a), k % 2 = 0, IsRest(b, a, k),
           NEW p, FromLow(a, p)
    PROVE  FromLow(b, p)
<1>1. Stretch(b, p, sent[p]) /\ LowFirst(b)
  BY RestOfStretch DEF FromLow
<1>2. Len(b) % 2 = Len(a) % 2
  <2>1. Len(a) \in Nat /\ Len(b) = Len(a) - k
    BY LenProperties DEF IsRest
  <2> QED
    BY <2>1
<1> QED
  BY <1>1, <1>2 DEF FromLow

(* The byte a peer writes comes next.                                      *)
LEMMA NextByte ==
    ASSUME NEW a \in Seq(CaptureByte), NEW b \in Seq(CaptureByte),
           Len(b) = Len(a) + 1, \A i \in 1..Len(a) : b[i] = a[i],
           NEW p \in Peers, FromLow(a, p), sent[p] \in Pos,
           b[Len(b)].peer = p, b[Len(b)].at = sent[p],
           sent'[p] = Succ(sent[p])
    PROVE  /\ Stretch(b, p, sent'[p]) /\ LowFirst(b)
           /\ sent'[p] % 2 = Len(b) % 2
<1>1. Len(a) \in Nat /\ Len(b) \in Nat /\ Len(b) = Len(a) + 1
  BY LenProperties
<1>2. \A i \in 1..Len(b) : i \in 1..Len(a) \/ i = Len(b)
  BY <1>1
<1>3. sent[p] % 2 = Len(a) % 2 /\ sent[p] \in Nat
  BY DEF FromLow, Pos
<1>4. Consecutive(b)
  <2> SUFFICES ASSUME NEW i \in 1..(Len(b) - 1)
               PROVE  /\ b[i + 1].peer = b[i].peer
                      /\ b[i + 1].at = Succ(b[i].at)
    BY DEF Consecutive
  <2>1. i \in 1..Len(a)
    BY <1>1
  <2>2. CASE i = Len(a)
    <3>1. /\ b[i] = a[Len(a)] /\ i + 1 = Len(b) /\ 0 < Len(a)
      BY <1>1, <2>1, <2>2
    <3> QED
      BY <2>1, <2>2, <3>1 DEF FromLow, Stretch
  <2>3. CASE i # Len(a)
    <3>1. i \in 1..(Len(a) - 1) /\ i + 1 \in 1..Len(a)
      BY <1>1, <2>1, <2>3
    <3> QED
      BY <2>1, <3>1 DEF FromLow, Stretch, Consecutive
  <2> QED
    BY <2>2, <2>3
<1>5. \A i \in 1..Len(b) : b[i].peer = p
  BY <1>2 DEF FromLow, Stretch
<1>6. LowFirst(b)
  <2> SUFFICES ASSUME NEW i \in 1..Len(b)
               PROVE  b[i].at % 2 = (i + 1) % 2
    BY DEF LowFirst
  <2>1. CASE i \in 1..Len(a)
    BY <2>1 DEF FromLow, LowFirst
  <2>2. CASE i = Len(b)
    <3>1. (Len(a) + 2) % 2 = Len(a) % 2
      BY <1>1
    <3>2. i + 1 = Len(a) + 2
      BY <1>1, <2>2
    <3> QED
      BY <1>3, <2>2, <3>1, <3>2
  <2> QED
    BY <1>2, <2>1, <2>2
<1>7. sent'[p] % 2 = Len(b) % 2
  <2>1. 1 \in 0..(LAST_BYTE + 1)
    BY PositionsAssumption
  <2>2. sent'[p] % 2 = (sent[p] + 1) % 2
    BY <2>1, AheadParity DEF Succ
  <2>3. (sent[p] + 1) % 2 = (Len(a) + 1) % 2
    BY <1>1, <1>3, NextParity
  <2> QED
    BY <1>1, <2>2, <2>3
<1> QED
  BY <1>4, <1>5, <1>6, <1>7 DEF Stretch

(* A read moves bytes from the socket to the buffer, and drops an even     *)
(* number of the oldest.                                                   *)
LEMMA ReadIsRest ==
    ASSUME TypeInv, ClockRead
    PROVE  \E k \in 0..Len(capture_buf \o rx[stream]) :
             /\ k % 2 = 0
             /\ capture_buf \o rx[stream] \in Seq(CaptureByte)
             /\ capture_buf' \o rx'[stream] \in Seq(CaptureByte)
             /\ IsRest(capture_buf' \o rx'[stream],
                       capture_buf \o rx[stream], k)
             /\ \A p \in Peers : p # stream => rx'[p] = rx[p]
<1> DEFINE a == capture_buf
           r == rx[stream]
           n == IF Len(r) < TMP_LEN THEN Len(r) ELSE TMP_LEN
           w == recording /\ ~send_to_webrtc
           read == [i \in 1..n |-> [r[i] EXCEPT !.warm = w]]
           rest == SubSeq(r, n + 1, Len(r))
<1>1. /\ stream \in Peers /\ a \in Seq(CaptureByte) /\ r \in Seq(CaptureByte)
      /\ rx \in [Peers -> Seq(CaptureByte)]
  BY DEF ClockRead, TypeInv, TypeOK, StreamInUse
<1>2. /\ capture_buf' = cap_buffer(a \o read)
      /\ rx' = [rx EXCEPT ![stream] = rest]
  BY DEF ClockRead
<1>3. /\ Len(r) \in Nat /\ n \in 0..Len(r) /\ n \in Nat /\ Len(a) \in Nat
  BY <1>1, LenProperties, SizesAssumption
<1>4. w \in BOOLEAN
  BY Zenon DEF TypeInv, TypeOK
<1> HIDE DEF a, r, n, w
<1>5. read \in Seq(CaptureByte) /\ Len(read) = n
  BY <1>1, <1>3, <1>4, ReadBytes
<1>6. \A i \in 1..n : read[i].peer = r[i].peer /\ read[i].at = r[i].at
  <2> SUFFICES ASSUME NEW i \in 1..n
               PROVE  read[i].peer = r[i].peer /\ read[i].at = r[i].at
    OBVIOUS
  <2>1. r[i] \in CaptureByte
    BY <1>1, <1>3, ElementOfSeq
  <2>2. read[i] = [r[i] EXCEPT !.warm = w]
    OBVIOUS
  <2> QED
    BY <2>1, <2>2 DEF CaptureByte
<1>7. /\ rest \in Seq(CaptureByte) /\ Len(rest) = Len(r) - n
      /\ \A i \in 1..Len(rest) : rest[i] = r[n + i]
  <2>1. \A i \in 1..Len(r) : r[i] \in CaptureByte
    BY <1>1, ElementOfSeq
  <2> QED
    BY <1>3, <2>1, SubSeqProperties
<1> HIDE DEF read, rest
<1>8. /\ a \o read \in Seq(CaptureByte) /\ Len(a \o read) = Len(a) + n
      /\ \A i \in 1..Len(a) : (a \o read)[i] = a[i]
      /\ \A i \in (Len(a) + 1)..(Len(a) + n) :
            (a \o read)[i] = read[i - Len(a)]
  BY <1>1, <1>5, Joined
<1>9. /\ a \o r \in Seq(CaptureByte) /\ Len(a \o r) = Len(a) + Len(r)
      /\ \A i \in 1..Len(a) : (a \o r)[i] = a[i]
      /\ \A i \in (Len(a) + 1)..(Len(a) + Len(r)) :
            (a \o r)[i] = r[i - Len(a)]
  BY <1>1, Joined
<1> DEFINE k == Overflow(Len(a) + n)
           c == capture_buf'
           m == (Len(a) + n) - k
<1>10. k \in 0..(Len(a) + n) /\ k \in Nat /\ k % 2 = 0 /\ m \in Nat
       /\ m = (Len(a) + n) - k
  <2>1. Len(a) + n \in Nat
    BY <1>3
  <2>2. k \in 0..(Len(a) + n) /\ k % 2 = 0
    BY <2>1, OverflowRange
  <2> HIDE DEF k
  <2> QED
    BY <2>1, <2>2
<1>11. /\ c \in Seq(CaptureByte) /\ Len(c) = m
       /\ \A i \in 1..m : c[i] = (a \o read)[k + i]
  <2> DEFINE q == a \o read
  <2>1. q \in Seq(CaptureByte) /\ Len(q) = Len(a) + n /\ c = cap_buffer(q)
    BY <1>2, <1>8
  <2> HIDE DEF q, c
  <2>2. /\ c \in Seq(CaptureByte)
        /\ Len(c) = Len(q) - Overflow(Len(q))
        /\ \A i \in 1..Len(c) : c[i] = q[Overflow(Len(q)) + i]
    BY <2>1, CapBuffer
  <2> QED
    BY <2>1, <2>2 DEF q
<1> HIDE DEF k, c, m
<1>12. /\ c \o rest \in Seq(CaptureByte)
       /\ Len(c \o rest) = m + (Len(r) - n)
       /\ \A i \in 1..m : (c \o rest)[i] = c[i]
       /\ \A i \in (m + 1)..(m + (Len(r) - n)) :
             (c \o rest)[i] = rest[i - m]
  <2>1. /\ c \o rest \in Seq(CaptureByte)
        /\ Len(c \o rest) = Len(c) + Len(rest)
        /\ \A i \in 1..Len(c) : (c \o rest)[i] = c[i]
        /\ \A i \in (Len(c) + 1)..(Len(c) + Len(rest)) :
              (c \o rest)[i] = rest[i - Len(c)]
    <3>1. c \in Seq(CaptureByte) /\ rest \in Seq(CaptureByte)
      BY <1>7, <1>11
    <3> QED
      BY <3>1, Joined
  <2>2. Len(c) = m /\ Len(rest) = Len(r) - n
    BY <1>7, <1>11
  <2> QED
    BY <2>1, <2>2
<1>13. IsRest(c \o rest, a \o r, k)
  <2>1. Len(c \o rest) = Len(a \o r) - k
    BY <1>3, <1>9, <1>10, <1>12
  <2>2. ASSUME NEW i \in 1..Len(c \o rest)
        PROVE  /\ (c \o rest)[i].peer = (a \o r)[k + i].peer
               /\ (c \o rest)[i].at = (a \o r)[k + i].at
    <3>1. CASE i <= m /\ k + i <= Len(a)
      <4>1. i \in 1..m /\ k + i \in 1..Len(a)
        BY <1>3, <1>10, <2>2, <3>1
      <4> QED
        BY <1>8, <1>9, <1>11, <1>12, <4>1
    <3>2. CASE i <= m /\ Len(a) < k + i
      <4>1. /\ i \in 1..m /\ k + i \in (Len(a) + 1)..(Len(a) + n)
            /\ k + i \in (Len(a) + 1)..(Len(a) + Len(r))
            /\ (k + i) - Len(a) \in 1..n
        BY <1>3, <1>10, <2>2, <3>2
      <4>2. (c \o rest)[i] = read[(k + i) - Len(a)]
        BY <1>8, <1>11, <1>12, <4>1
      <4>3. (a \o r)[k + i] = r[(k + i) - Len(a)]
        BY <1>9, <4>1
      <4> QED
        BY <1>6, <4>1, <4>2, <4>3
    <3>3. CASE m < i
      <4>1. /\ i \in (m + 1)..(m + (Len(r) - n))
            /\ i - m \in 1..Len(rest)
            /\ k + i \in (Len(a) + 1)..(Len(a) + Len(r))
            /\ n + (i - m) = (k + i) - Len(a)
        BY <1>3, <1>7, <1>10, <1>12, <2>2, <3>3
      <4>2. (c \o rest)[i] = rest[i - m]
        BY <1>12, <4>1
      <4>3. rest[i - m] = r[(k + i) - Len(a)]
        BY <1>7, <4>1
      <4>4. (a \o r)[k + i] = r[(k + i) - Len(a)]
        BY <1>9, <4>1
      <4> QED
        BY <4>2, <4>3, <4>4
    <3>4. i \in Int /\ m \in Int /\ k + i \in Int /\ Len(a) \in Int
      BY <1>3, <1>10, <1>12, <2>2
    <3>5. \/ i <= m /\ k + i <= Len(a)
          \/ i <= m /\ Len(a) < k + i
          \/ m < i
      BY <3>4
    <3> QED
      BY <3>1, <3>2, <3>3, <3>5
  <2> QED
    BY <2>1, <2>2 DEF IsRest
<1>14. k \in 0..Len(a \o r)
  <2>1. Len(a \o r) = Len(a) + Len(r)
    BY <1>9
  <2>2. k \in 0..(Len(a) + Len(r))
    BY <1>3, <1>10
  <2> QED
    BY <2>1, <2>2
<1>15. rx'[stream] = rest /\ \A p \in Peers : p # stream => rx'[p] = rx[p]
  BY <1>1, <1>2
<1> QED
  BY <1>9, <1>10, <1>12, <1>13, <1>14, <1>15 DEF a, r, c

(* A window takes an even number of bytes away from the buffer, and so     *)
(* from the buffer with what waits in the socket.                          *)
LEMMA PushIsRest ==
    ASSUME NEW buf \in Seq(CaptureByte), NEW more \in Seq(CaptureByte)
    PROVE  \E k \in 0..Len(buf) :
             /\ k % 2 = 0 /\ k \in 0..Len(buf \o more)
             /\ AfterWindow(buf) \in Seq(CaptureByte)
             /\ IsRest(AfterWindow(buf), buf, k)
             /\ buf \o more \in Seq(CaptureByte)
             /\ AfterWindow(buf) \o more \in Seq(CaptureByte)
             /\ IsRest(AfterWindow(buf) \o more, buf \o more, k)
<1> DEFINE k == 2 * Available(Len(buf))
           after == AfterWindow(buf)
<1>1. Len(buf) \in Nat /\ k \in 0..Len(buf) /\ k % 2 = 0
  <2>1. Len(buf) \in Nat
    BY LenProperties
  <2>2. k \in 0..Len(buf) /\ Available(Len(buf)) \in Nat
    BY <2>1, AvailableRange, WindowAssumption
  <2> QED
    BY <2>1, <2>2
<1>2. /\ after \in Seq(CaptureByte) /\ Len(after) = Len(buf) - k
      /\ \A i \in 1..Len(after) : after[i] = buf[k + i]
  BY TakeWindow
<1> HIDE DEF k, after
<1>3. IsRest(after, buf, k)
  BY <1>2 DEF IsRest
<1>4. /\ buf \o more \in Seq(CaptureByte) /\ Len(more) \in Nat
      /\ Len(buf \o more) = Len(buf) + Len(more)
      /\ \A i \in 1..Len(buf) : (buf \o more)[i] = buf[i]
      /\ \A i \in (Len(buf) + 1)..(Len(buf) + Len(more)) :
            (buf \o more)[i] = more[i - Len(buf)]
  BY Joined
<1>5. /\ after \o more \in Seq(CaptureByte) /\ Len(after) \in Nat
      /\ Len(after \o more) = Len(after) + Len(more)
      /\ \A i \in 1..Len(after) : (after \o more)[i] = after[i]
      /\ \A i \in (Len(after) + 1)..(Len(after) + Len(more)) :
            (after \o more)[i] = more[i - Len(after)]
  BY <1>2, Joined
<1>6. k \in 0..Len(buf \o more) /\ k \in Nat
  BY <1>1, <1>4
<1>7. IsRest(after \o more, buf \o more, k)
  <2>1. Len(after \o more) = Len(buf \o more) - k
    BY <1>1, <1>2, <1>4, <1>5, <1>6
  <2>2. ASSUME NEW i \in 1..Len(after \o more)
        PROVE  (after \o more)[i] = (buf \o more)[k + i]
    <3>1. CASE i <= Len(after)
      <4>1. i \in 1..Len(after) /\ k + i \in 1..Len(buf)
        BY <1>1, <1>2, <1>5, <1>6, <2>2, <3>1
      <4> QED
        BY <1>2, <1>4, <1>5, <4>1
    <3>2. CASE Len(after) < i
      <4>1. /\ i \in (Len(after) + 1)..(Len(after) + Len(more))
            /\ k + i \in (Len(buf) + 1)..(Len(buf) + Len(more))
            /\ (k + i) - Len(buf) = i - Len(after)
        BY <1>1, <1>2, <1>4, <1>5, <1>6, <2>2, <3>2
      <4>2. (after \o more)[i] = more[i - Len(after)]
        BY <1>5, <4>1
      <4>3. (buf \o more)[k + i] = more[(k + i) - Len(buf)]
        BY <1>4, <4>1
      <4> QED
        BY <4>1, <4>2, <4>3
    <3>3. i <= Len(after) \/ Len(after) < i
      BY <1>5, <2>2
    <3> QED
      BY <3>1, <3>2, <3>3
  <2> QED
    BY <2>1, <2>2 DEF IsRest
<1> QED
  BY <1>1, <1>2, <1>3, <1>4, <1>5, <1>6, <1>7 DEF after

(* The buffer of a connected peer is the beginning of its stretch.         *)
LEMMA BeginningOfStretch ==
    ASSUME NEW a \in Seq(CaptureByte), NEW b \in Seq(CaptureByte)
    PROVE  /\ Consecutive(a \o b) => Consecutive(a)
           /\ LowFirst(a \o b) => LowFirst(a)
<1>1. /\ Len(a) \in Nat /\ Len(b) \in Nat
      /\ Len(a \o b) = Len(a) + Len(b)
      /\ \A i \in 1..Len(a) : (a \o b)[i] = a[i]
  BY Joined
<1>2. \A i \in 1..Len(a) : i \in 1..Len(a \o b)
  BY <1>1
<1>3. \A i \in 1..(Len(a) - 1) :
        /\ i \in 1..Len(a) /\ i + 1 \in 1..Len(a)
        /\ i \in 1..(Len(a \o b) - 1)
  BY <1>1
<1>4. Consecutive(a \o b) => Consecutive(a)
  BY <1>1, <1>3 DEF Consecutive
<1>5. LowFirst(a \o b) => LowFirst(a)
  BY <1>1, <1>2 DEF LowFirst
<1> QED
  BY <1>4, <1>5

(* Nothing joined with bytes is those bytes.                               *)
LEMMA EmptyJoined ==
    ASSUME NEW S, NEW a \in Seq(S)
    PROVE  <<>> \o a = a
BY ConcatEmptySeq

(* Nothing is captured and nobody waits at first.                          *)
LEMMA InitCaptured == Init => Captured /\ Lined
<1> SUFFICES ASSUME Init PROVE Captured /\ Lined
  OBVIOUS
<1>1. /\ capture_buf = <<>> /\ stream = NoPeer /\ backlog = <<>>
      /\ rx = [p \in Peers |-> <<>>] /\ sent = [p \in Peers |-> 0]
  BY DEF Init
<1>2. /\ Consecutive(<<>>) /\ LowFirst(<<>>)
      /\ \A p, next : Stretch(<<>>, p, next)
  BY EmptySeq DEF Consecutive, LowFirst, Stretch
<1>3. \A p \in Peers : FromLow(rx[p], p)
  <2> SUFFICES ASSUME NEW p \in Peers PROVE FromLow(rx[p], p)
    OBVIOUS
  <2>1. rx[p] = <<>> /\ sent[p] = 0 /\ Len(<<>>) = 0
    BY <1>1, EmptySeq
  <2> QED
    BY <1>2, <2>1 DEF FromLow
<1>4. \A p : ~Waiting(p)
  BY <1>1, EmptySeq DEF Waiting
<1>5. Lined
  BY <1>1, <1>4, EmptySeq DEF Lined
<1> QED
  BY <1>1, <1>2, <1>3, <1>5 DEF Captured

(* The steps that leave every byte where it is.                            *)
LEMMA ConnectionsCaptured ==
    ASSUME TypeInv, Lined, Captured,
           UNCHANGED <<capture_buf, rx, sent>>,
           stream' = stream \/ stream' = NoPeer,
           \A p \in Peers : Fresh(p)' => Fresh(p)
    PROVE  Captured'
<1>1. \A a, p : FromLow(a, p) => Stretch(a, p, sent'[p]) /\ LowFirst(a)
                                 /\ sent'[p] % 2 = Len(a) % 2
  BY DEF FromLow
<1>2. ASSUME NEW p \in Peers, Fresh(p)' PROVE FromLow(rx[p], p)'
  BY <1>1, <1>2 DEF Captured, FromLow
<1>3. ASSUME stream' # NoPeer
      PROVE  FromLow(capture_buf \o rx[stream], stream)'
  BY <1>1, <1>3 DEF Captured, FromLow
<1>4. Consecutive(capture_buf)' /\ LowFirst(capture_buf)'
  BY DEF Captured
<1> QED
  BY <1>2, <1>3, <1>4 DEF Captured

(* An accepted peer begins with empty buffers and its first byte.          *)
LEMMA AcceptCaptured ==
    ASSUME TypeInv, Lined, Captured, ClockAccept
    PROVE  Captured'
<1>1. /\ capture_buf' = <<>> /\ UNCHANGED <<rx, sent>>
      /\ rx \in [Peers -> Seq(CaptureByte)]
      /\ \A p \in Peers : conn'[p] = "idle" => conn[p] = "idle"
  BY DEF ClockAccept, TypeInv, TypeOK
<1>2. /\ Waiting(stream') /\ stream' \in Peers
      /\ \A p \in Peers : Waiting(p)' => Waiting(p)
  BY AcceptedWaited
<1>3. FromLow(rx[stream'], stream')
  BY <1>2 DEF Captured, Fresh
<1>4. capture_buf' \o rx'[stream'] = rx[stream']
  BY <1>1, <1>2, EmptyJoined
<1>5. FromLow(capture_buf \o rx[stream], stream)'
  BY <1>1, <1>3, <1>4 DEF FromLow
<1>6. ASSUME NEW p \in Peers, Fresh(p)' PROVE FromLow(rx[p], p)'
  <2>1. Fresh(p)
    BY <1>1, <1>2, <1>6 DEF Fresh
  <2> QED
    BY <1>1, <2>1 DEF Captured, FromLow
<1>7. Consecutive(capture_buf)' /\ LowFirst(capture_buf)'
  BY <1>1, EmptySeq DEF Consecutive, LowFirst
<1> QED
  BY <1>5, <1>6, <1>7 DEF Captured

(* A read keeps what is captured a stretch of the peer's stream.           *)
LEMMA ReadCaptured ==
    ASSUME TypeInv, Lined, Captured, ClockRead
    PROVE  Captured'
<1>1. /\ stream \in Peers /\ stream' = stream /\ UNCHANGED <<sent, conn>>
      /\ backlog' = backlog /\ stream # NoPeer
      /\ capture_buf' \in Seq(CaptureByte)
      /\ rx' \in [Peers -> Seq(CaptureByte)]
  BY ClockReadType, PeersAssumption
     DEF ClockRead, clockVars, TypeInv, StreamInUse
<1>2. PICK k \in 0..Len(capture_buf \o rx[stream]) :
        /\ k % 2 = 0
        /\ capture_buf \o rx[stream] \in Seq(CaptureByte)
        /\ capture_buf' \o rx'[stream] \in Seq(CaptureByte)
        /\ IsRest(capture_buf' \o rx'[stream], capture_buf \o rx[stream], k)
        /\ \A p \in Peers : p # stream => rx'[p] = rx[p]
  BY ReadIsRest
<1>3. FromLow(capture_buf' \o rx'[stream], stream)
  <2> DEFINE a == capture_buf \o rx[stream]
             b == capture_buf' \o rx'[stream]
  <2>1. FromLow(a, stream)
    BY <1>1 DEF Captured
  <2>2. /\ a \in Seq(CaptureByte) /\ b \in Seq(CaptureByte)
        /\ k \in 0..Len(a) /\ k % 2 = 0 /\ IsRest(b, a, k)
    BY <1>2
  <2> HIDE DEF a, b
  <2>3. FromLow(b, stream)
    BY <2>1, <2>2, RestFromLow
  <2> QED
    BY <2>3 DEF b
<1>4. FromLow(capture_buf \o rx[stream], stream)'
  BY <1>1, <1>3 DEF FromLow
<1>5. ASSUME NEW p \in Peers, Fresh(p)' PROVE FromLow(rx[p], p)'
  <2>1. Fresh(p) /\ p # stream
    BY <1>1, <1>5 DEF Fresh, Waiting, Lined
  <2> QED
    BY <1>1, <1>2, <2>1 DEF Captured, FromLow
<1>6. Consecutive(capture_buf)' /\ LowFirst(capture_buf)'
  <2>1. rx'[stream] \in Seq(CaptureByte)
    BY <1>1
  <2>2. /\ Consecutive(capture_buf' \o rx'[stream])
        /\ LowFirst(capture_buf' \o rx'[stream])
    BY <1>3 DEF FromLow, Stretch
  <2> QED
    BY <1>1, <2>1, <2>2, BeginningOfStretch
<1> QED
  BY <1>4, <1>5, <1>6 DEF Captured

(* So does a window that is taken.                                         *)
LEMMA PushCaptured ==
    ASSUME TypeInv, Lined, Captured, ClockPush
    PROVE  Captured'
<1>1. /\ UNCHANGED <<stream, rx, sent, conn, backlog>>
      /\ capture_buf' = AfterWindow(capture_buf)
      /\ capture_buf \in Seq(CaptureByte)
      /\ rx \in [Peers -> Seq(CaptureByte)]
      /\ stream \in Peers \cup {NoPeer}
  BY DEF ClockPush, peerVars, TypeInv, TypeOK
<1>2. ASSUME NEW p \in Peers, Fresh(p)' PROVE FromLow(rx[p], p)'
  BY <1>1, <1>2 DEF Captured, FromLow, Fresh, Waiting
<1>3. Consecutive(capture_buf)' /\ LowFirst(capture_buf)'
  <2>1. <<>> \in Seq(CaptureByte)
    BY EmptySeq
  <2>2. PICK k \in 0..Len(capture_buf) :
          /\ k % 2 = 0 /\ AfterWindow(capture_buf) \in Seq(CaptureByte)
          /\ IsRest(AfterWindow(capture_buf), capture_buf, k)
    BY <1>1, <2>1, PushIsRest
  <2>3. Consecutive(capture_buf) /\ LowFirst(capture_buf)
    BY DEF Captured
  <2>4. /\ Consecutive(AfterWindow(capture_buf))
        /\ LowFirst(AfterWindow(capture_buf))
    BY <1>1, <2>2, <2>3, RestOfStretch
  <2> QED
    BY <1>1, <2>4
<1>4. ASSUME stream' # NoPeer
      PROVE  FromLow(capture_buf \o rx[stream], stream)'
  <2>1. stream \in Peers /\ stream # NoPeer /\ rx[stream] \in Seq(CaptureByte)
    BY <1>1, <1>4
  <2> DEFINE a == capture_buf \o rx[stream]
             b == AfterWindow(capture_buf) \o rx[stream]
  <2>2. PICK k \in 0..Len(capture_buf) :
          /\ k % 2 = 0 /\ k \in 0..Len(a)
          /\ a \in Seq(CaptureByte) /\ b \in Seq(CaptureByte)
          /\ IsRest(b, a, k)
    BY <1>1, <2>1, PushIsRest
  <2>3. FromLow(a, stream)
    BY <2>1 DEF Captured
  <2> HIDE DEF a, b
  <2>4. FromLow(b, stream)
    BY <2>2, <2>3, RestFromLow
  <2>5. b = capture_buf' \o rx'[stream']
    BY <1>1 DEF b
  <2> QED
    BY <1>1, <2>4, <2>5 DEF FromLow
<1> QED
  BY <1>2, <1>3, <1>4 DEF Captured

(* So does a byte the peer writes.                                         *)
LEMMA WriteCaptured ==
    ASSUME TypeInv, Lined, Captured, NEW p \in Peers, PeerWrite(p)
    PROVE  Captured'
<1> DEFINE byte == [peer |-> p, at |-> sent[p], warm |-> FALSE]
<1>1. /\ UNCHANGED <<stream, capture_buf, conn, backlog>>
      /\ rx' = [rx EXCEPT ![p] = Append(@, byte)]
      /\ sent' = [sent EXCEPT ![p] = Succ(@)]
  BY DEF PeerWrite, clockVars, bufVars
<1>2. /\ capture_buf \in Seq(CaptureByte)
      /\ rx \in [Peers -> Seq(CaptureByte)] /\ sent \in [Peers -> Pos]
      /\ stream \in Peers \cup {NoPeer} /\ sent[p] \in Pos
  BY DEF TypeInv, TypeOK
<1>3. /\ byte \in CaptureByte /\ byte.peer = p /\ byte.at = sent[p]
  BY <1>2 DEF CaptureByte
<1>4. /\ rx'[p] = Append(rx[p], byte) /\ sent'[p] = Succ(sent[p])
      /\ \A q \in Peers : q # p => rx'[q] = rx[q] /\ sent'[q] = sent[q]
  BY <1>1, <1>2
<1> HIDE DEF byte
<1>5. /\ rx'[p] \in Seq(CaptureByte) /\ Len(rx[p]) \in Nat
      /\ Len(rx'[p]) = Len(rx[p]) + 1
      /\ \A i \in 1..Len(rx[p]) : rx'[p][i] = rx[p][i]
      /\ rx'[p][Len(rx[p]) + 1] = byte
  BY <1>2, <1>3, <1>4, AppendProperties, LenProperties
<1>6. ASSUME NEW q \in Peers, Fresh(q)' PROVE FromLow(rx[q], q)'
  <2>1. FromLow(rx[q], q)
    BY <1>1, <1>6 DEF Captured, Fresh, Waiting
  <2>2. CASE q # p
    BY <1>4, <2>1, <2>2 DEF FromLow
  <2>3. CASE q = p
    <3>1. /\ Stretch(rx'[p], p, sent'[p]) /\ LowFirst(rx'[p])
          /\ sent'[p] % 2 = Len(rx'[p]) % 2
      <4> DEFINE a == rx[p]
                 b == rx'[p]
      <4>1. /\ a \in Seq(CaptureByte) /\ b \in Seq(CaptureByte)
            /\ Len(a) \in Nat /\ Len(b) = Len(a) + 1
            /\ \A i \in 1..Len(a) : b[i] = a[i]
            /\ b[Len(a) + 1] = byte /\ FromLow(a, p)
        BY <1>2, <1>5, <2>1, <2>3
      <4> HIDE DEF a, b
      <4>2. b[Len(b)].peer = p /\ b[Len(b)].at = sent[p]
        BY <1>3, <4>1
      <4>3. /\ Stretch(b, p, sent'[p]) /\ LowFirst(b)
            /\ sent'[p] % 2 = Len(b) % 2
        BY <1>2, <1>4, <4>1, <4>2, NextByte
      <4> QED
        BY <4>3 DEF b
    <3> QED
      BY <2>3, <3>1 DEF FromLow
  <2> QED
    BY <2>2, <2>3
<1>7. ASSUME stream' # NoPeer
      PROVE  FromLow(capture_buf \o rx[stream], stream)'
  <2>1. /\ stream \in Peers /\ stream # NoPeer
        /\ FromLow(capture_buf \o rx[stream], stream)
    BY <1>1, <1>2, <1>7 DEF Captured
  <2>2. CASE stream # p
    <3>1. /\ capture_buf' = capture_buf /\ stream' = stream
          /\ rx'[stream] = rx[stream] /\ sent'[stream] = sent[stream]
      BY <1>1, <1>4, <2>1, <2>2
    <3> QED
      BY <2>1, <3>1 DEF FromLow
  <2>3. CASE stream = p
    <3> DEFINE a == capture_buf \o rx[p]
               b == capture_buf \o rx'[p]
    <3>1. /\ a \in Seq(CaptureByte) /\ Len(capture_buf) \in Nat
          /\ Len(a) = Len(capture_buf) + Len(rx[p])
          /\ \A i \in 1..Len(capture_buf) : a[i] = capture_buf[i]
          /\ \A i \in (Len(capture_buf) + 1)..(Len(capture_buf) + Len(rx[p])) :
                a[i] = rx[p][i - Len(capture_buf)]
      BY <1>2, Joined
    <3>2. /\ b \in Seq(CaptureByte)
          /\ Len(b) = Len(capture_buf) + Len(rx'[p])
          /\ \A i \in 1..Len(capture_buf) : b[i] = capture_buf[i]
          /\ \A i \in (Len(capture_buf) + 1)
                        ..(Len(capture_buf) + Len(rx'[p])) :
                b[i] = rx'[p][i - Len(capture_buf)]
      <4>1. rx'[p] \in Seq(CaptureByte)
        BY <1>5
      <4> QED
        BY <1>2, <4>1, Joined
    <3> HIDE DEF a, b
    <3>3. Len(b) = Len(a) + 1 /\ Len(a) \in Nat
      BY <1>5, <3>1, <3>2
    <3>4. ASSUME NEW i \in 1..Len(a) PROVE b[i] = a[i]
      <4>1. CASE i <= Len(capture_buf)
        <5>1. i \in 1..Len(capture_buf)
          BY <3>1, <4>1
        <5> QED
          BY <3>1, <3>2, <5>1
      <4>2. CASE Len(capture_buf) < i
        <5>1. /\ i \in (Len(capture_buf) + 1)
                         ..(Len(capture_buf) + Len(rx[p]))
              /\ i \in (Len(capture_buf) + 1)
                         ..(Len(capture_buf) + Len(rx'[p]))
              /\ i - Len(capture_buf) \in 1..Len(rx[p])
          BY <1>5, <3>1, <4>2
        <5>2. b[i] = rx'[p][i - Len(capture_buf)]
          BY <3>2, <5>1
        <5>3. a[i] = rx[p][i - Len(capture_buf)]
          BY <3>1, <5>1
        <5> QED
          BY <1>5, <5>1, <5>2, <5>3
      <4>3. i <= Len(capture_buf) \/ Len(capture_buf) < i
        BY <3>1
      <4> QED
        BY <4>1, <4>2, <4>3
    <3>5. b[Len(b)] = byte
      <4>1. /\ Len(b) \in (Len(capture_buf) + 1)
                            ..(Len(capture_buf) + Len(rx'[p]))
            /\ Len(b) - Len(capture_buf) = Len(rx[p]) + 1
        BY <1>5, <3>1, <3>2
      <4>2. b[Len(b)] = rx'[p][Len(b) - Len(capture_buf)]
        BY <3>2, <4>1
      <4> QED
        BY <1>5, <4>1, <4>2
    <3>6. FromLow(a, p)
      BY <2>1, <2>3 DEF a
    <3>7. /\ Stretch(b, p, sent'[p]) /\ LowFirst(b)
          /\ sent'[p] % 2 = Len(b) % 2
      BY <1>2, <1>3, <1>4, <3>1, <3>2, <3>3, <3>4, <3>5, <3>6, NextByte
    <3>8. b = capture_buf' \o rx'[stream'] /\ stream' = p
      BY <1>1, <2>3 DEF b
    <3> QED
      BY <3>7, <3>8 DEF FromLow
  <2> QED
    BY <2>2, <2>3
<1>8. Consecutive(capture_buf)' /\ LowFirst(capture_buf)'
  BY <1>1 DEF Captured
<1> QED
  BY <1>6, <1>7, <1>8 DEF Captured

(* What is captured stays what it is in every step.                        *)
LEMMA NextCaptured ==
    ASSUME TypeInv, Lined, Captured, [Next]_vars
    PROVE  Captured'
<1>1. CASE ClockCheck
  <2>1. /\ UNCHANGED <<capture_buf, rx, sent, backlog>>
        /\ stream' = stream \/ stream' = NoPeer
        /\ \A p \in Peers : conn'[p] = "idle" => conn[p] = "idle"
    BY <1>1 DEF ClockCheck
  <2>2. \A p \in Peers : Fresh(p)' => Fresh(p)
    BY <2>1 DEF Fresh, Waiting
  <2> QED
    BY <2>1, <2>2, ConnectionsCaptured
<1>2. CASE ClockAccept
  BY <1>2, AcceptCaptured
<1>3. CASE ClockWriteError \/ ClockPeerGone
  <2>1. /\ UNCHANGED <<capture_buf, rx, sent, conn, backlog>>
        /\ stream' = NoPeer
    BY <1>3 DEF ClockWriteError, ClockPeerGone, bufVars, peerVars
  <2>2. \A p \in Peers : Fresh(p)' => Fresh(p)
    BY <2>1 DEF Fresh, Waiting
  <2> QED
    BY <2>1, <2>2, ConnectionsCaptured
<1>4. CASE ClockRead
  BY <1>4, ReadCaptured
<1>5. ASSUME NEW p \in Peers, Connect(p) PROVE Captured'
  <2>1. /\ UNCHANGED <<capture_buf, rx, sent, stream>>
        /\ conn[p] = "idle" /\ conn' = [conn EXCEPT ![p] = "pending"]
    BY <1>5 DEF Connect, bufVars, clockVars
  <2>2. conn \in [Peers -> {"idle", "pending", "open", "closed"}]
    BY DEF TypeInv, TypeOK
  <2>3. \A q \in Peers : conn'[q] = "idle" => conn[q] = "idle"
    BY <2>1, <2>2
  <2>4. \A q : Waiting(q)' <=> Waiting(q) \/ q = p
    BY <1>5, ConnectedWaits
  <2>5. \A q \in Peers : Fresh(q)' => Fresh(q)
    BY <2>1, <2>3, <2>4 DEF Fresh
  <2> QED
    BY <2>1, <2>5, ConnectionsCaptured
<1>6. ASSUME NEW p \in Peers, PeerWrite(p) PROVE Captured'
  BY <1>6, WriteCaptured
<1>7. ASSUME NEW p \in Peers, PeerClose(p) PROVE Captured'
  <2>1. /\ UNCHANGED <<capture_buf, rx, sent, stream, backlog>>
        /\ conn' = [conn EXCEPT ![p] = "closed"]
    BY <1>7 DEF PeerClose, bufVars, clockVars
  <2>2. conn \in [Peers -> {"idle", "pending", "open", "closed"}]
    BY DEF TypeInv, TypeOK
  <2>3. \A q \in Peers : conn'[q] = "idle" => conn[q] = "idle"
    BY <2>1, <2>2
  <2>4. \A q \in Peers : Fresh(q)' => Fresh(q)
    BY <2>1, <2>3 DEF Fresh, Waiting
  <2> QED
    BY <2>1, <2>4, ConnectionsCaptured
<1>8. CASE UNCHANGED <<stream, capture_buf, rx, sent, conn, backlog>>
  <2>1. \A p \in Peers : Fresh(p)' => Fresh(p)
    BY <1>8 DEF Fresh, Waiting
  <2> QED
    BY <1>8, <2>1, ConnectionsCaptured
<1>9. CASE ClockPush
  BY <1>9, PushCaptured
<1> QED
  BY <1>1, <1>2, <1>3, <1>4, <1>5, <1>6, <1>7, <1>8, <1>9, StreamSteps

(* Every step keeps both.                                                  *)
THEOREM CaptureInvariant == Spec => [](Lined /\ Captured)
<1>1. TypeInv /\ Lined /\ Captured /\ [Next]_vars => Lined' /\ Captured'
  BY NextLined, NextCaptured
<1> QED
  BY InitCaptured, <1>1, TypeInvariant, PTL DEF Spec

(* The capture buffer begins with the low byte of a sample, however reads  *)
(* split samples and whatever was dropped or taken (cap_buffer,            *)
(* take_window).                                                           *)
THEOREM CaptureStaysAligned == Spec => []CaptureAligned
<1>1. TypeInv /\ Captured => CaptureAligned
  <2> SUFFICES ASSUME TypeInv, Captured, capture_buf # <<>>
               PROVE  capture_buf[1].at % 2 = 0
    BY DEF CaptureAligned
  <2>1. Len(capture_buf) \in Nat \ {0}
    BY EmptySeq DEF TypeInv, TypeOK
  <2> QED
    BY <2>1 DEF Captured, LowFirst
<1> QED
  BY <1>1, TypeInvariant, CaptureInvariant, PTL

(* What is buffered and what waits in the socket are one stretch of the    *)
(* connected peer's bytes up to the last it wrote (fill_capture,           *)
(* cap_buffer, and the clearing of the buffers for a new peer).            *)
THEOREM CaptureStaysStream == Spec => []CaptureIsStream
<1>1. TypeInv /\ Captured => CaptureIsStream
  <2> SUFFICES ASSUME TypeInv, Captured, stream # NoPeer
               PROVE  LET bytes == capture_buf \o rx[stream] IN
                      /\ Consecutive(bytes)
                      /\ bytes # <<>> =>
                            /\ bytes[Len(bytes)].peer = stream
                            /\ Succ(bytes[Len(bytes)].at) = sent[stream]
    BY DEF CaptureIsStream
  <2> DEFINE bytes == capture_buf \o rx[stream]
  <2>1. /\ capture_buf \in Seq(CaptureByte) /\ rx[stream] \in Seq(CaptureByte)
    BY DEF TypeInv, TypeOK
  <2>2. bytes \in Seq(CaptureByte)
    BY <2>1, Joined
  <2>3. Stretch(bytes, stream, sent[stream])
    BY DEF Captured, FromLow
  <2> HIDE DEF bytes
  <2>4. bytes # <<>> => Len(bytes) \in Nat \ {0}
    BY <2>2, EmptySeq
  <2>5. /\ Consecutive(bytes)
        /\ bytes # <<>> => /\ bytes[Len(bytes)].peer = stream
                           /\ Succ(bytes[Len(bytes)].at) = sent[stream]
    BY <2>3, <2>4 DEF Stretch
  <2> QED
    BY <2>5 DEF bytes
<1> QED
  BY <1>1, TypeInvariant, CaptureInvariant, PTL

-----------------------------------------------------------------------------
(* Windows.                                                                *)

(* Two bytes follow each other.                                            *)
LEMMA Pair ==
    ASSUME NEW a, NEW b, b.peer = a.peer, b.at = Succ(a.at)
    PROVE  Consecutive(<<a, b>>)
<1>1. Len(<<a, b>>) = 2 /\ 1..(2 - 1) = {1}
  OBVIOUS
<1> QED
  BY <1>1 DEF Consecutive

(* The first n samples of a window are whole samples of one stretch.       *)
Whole(w, n) ==
    \A i \in 1..n :
        /\ w[i][1].at % 2 = 0
        /\ Consecutive(w[i])
        /\ i < n => Consecutive(<<w[i][2], w[i + 1][1]>>)

(* A window taken from a stretch that begins with a low byte.              *)
LEMMA WindowWhole ==
    ASSUME NEW buf \in Seq(CaptureByte), Consecutive(buf), LowFirst(buf)
    PROVE  \E n \in 0..Len(WindowOf(buf)) :
             /\ \A i \in 1..Len(WindowOf(buf)) :
                   WindowOf(buf)[i] = Silence <=> n < i
             /\ Whole(WindowOf(buf), n)
<1> DEFINE n == Available(Len(buf))
           w == WindowOf(buf)
<1>1. Len(buf) \in Nat
  BY LenProperties
<1>2. /\ n \in 0..WEBRTC_WINDOW /\ 2 * n \in 0..Len(buf)
      /\ WEBRTC_WINDOW \in Nat
  BY <1>1, AvailableRange, WindowAssumption
<1>3. /\ Len(w) = WEBRTC_WINDOW
      /\ \A i \in 1..WEBRTC_WINDOW :
            w[i] = IF i <= n THEN <<buf[2 * i - 1], buf[2 * i]>> ELSE Silence
  BY WindowAssumption DEF WindowOf
<1> HIDE DEF n, w
<1>4. ASSUME NEW i \in 1..n
      PROVE  /\ i \in 1..WEBRTC_WINDOW /\ i <= n
             /\ 2 * i - 1 \in 1..(Len(buf) - 1)
             /\ 2 * i - 1 \in 1..Len(buf) /\ (2 * i - 1) + 1 = 2 * i
             /\ ((2 * i - 1) + 1) % 2 = 0
  <2>1. n \in Nat /\ 2 * n <= Len(buf)
    BY <1>2
  <2> QED
    BY <1>1, <1>2, <2>1
<1>5. \A i \in 1..n : w[i] = <<buf[2 * i - 1], buf[2 * i]>>
  BY <1>3, <1>4
<1>6. \A i \in 1..Len(w) : w[i] = Silence <=> n < i
  <2> SUFFICES ASSUME NEW i \in 1..WEBRTC_WINDOW
               PROVE  w[i] = Silence <=> n < i
    BY <1>3
  <2>1. n \in Nat /\ i \in Nat
    BY <1>2
  <2>2. CASE i <= n
    <3>1. w[i] = <<buf[2 * i - 1], buf[2 * i]>>
      BY <1>3, <2>2
    <3>2. <<buf[2 * i - 1], buf[2 * i]>> # <<>>
      <4>1. \A a, b : <<a, b>> # <<>>
        <5>1. \A a, b : Len(<<a, b>>) = 2 /\ Len(<<>>) = 0
          OBVIOUS
        <5> QED
          BY <5>1
      <4> QED
        BY <4>1
    <3> QED
      BY <2>1, <2>2, <3>1, <3>2 DEF Silence
  <2>3. CASE n < i
    BY <1>3, <2>1, <2>3
  <2> QED
    BY <2>1, <2>2, <2>3
<1>7. Whole(w, n)
  <2> SUFFICES ASSUME NEW i \in 1..n
               PROVE  /\ w[i][1].at % 2 = 0
                      /\ Consecutive(w[i])
                      /\ i < n => Consecutive(<<w[i][2], w[i + 1][1]>>)
    BY DEF Whole
  <2>1. /\ w[i] = <<buf[2 * i - 1], buf[2 * i]>>
        /\ w[i][1] = buf[2 * i - 1] /\ w[i][2] = buf[2 * i]
    BY <1>5
  <2>2. buf[2 * i - 1].at % 2 = 0
    BY <1>4 DEF LowFirst
  <2>3. Consecutive(w[i])
    <3>1. /\ buf[2 * i].peer = buf[2 * i - 1].peer
          /\ buf[2 * i].at = Succ(buf[2 * i - 1].at)
      BY <1>4 DEF Consecutive
    <3> QED
      BY <2>1, <3>1, Pair
  <2>4. ASSUME i < n PROVE Consecutive(<<w[i][2], w[i + 1][1]>>)
    <3>1. i + 1 \in 1..n /\ 2 * (i + 1) - 1 = 2 * i + 1
      BY <1>2, <2>4
    <3>2. w[i + 1] = <<buf[2 * (i + 1) - 1], buf[2 * (i + 1)]>>
      BY <1>5, <3>1
    <3>3. w[i + 1][1] = buf[2 * i + 1]
      BY <3>1, <3>2
    <3>4. 2 * i \in 1..(Len(buf) - 1)
      BY <1>1, <1>4, <3>1
    <3>5. /\ buf[2 * i + 1].peer = buf[2 * i].peer
          /\ buf[2 * i + 1].at = Succ(buf[2 * i].at)
      BY <3>4 DEF Consecutive
    <3> QED
      BY <2>1, <3>3, <3>5, Pair
  <2> QED
    BY <2>1, <2>2, <2>3, <2>4
<1>8. n \in 0..Len(w)
  BY <1>2, <1>3
<1> QED
  BY <1>6, <1>7, <1>8 DEF w

(* Every sample handed to WebRTC is the two bytes of one sample, the       *)
(* samples of a window follow each other in the peer's stream, and silence *)
(* comes only after them (take_window).                                    *)
THEOREM WindowsAreWhole == Spec => []WindowsWhole
<1>1. Init => WindowsWhole
  BY DEF Init, WindowsWhole
<1>2. TypeInv /\ Captured /\ WindowsWhole /\ [Next]_vars => WindowsWhole'
  <2> SUFFICES ASSUME TypeInv, Captured, WindowsWhole, [Next]_vars
               PROVE  WindowsWhole'
    OBVIOUS
  <2>1. CASE UNCHANGED window
    BY <2>1 DEF WindowsWhole
  <2>2. CASE ClockCheck
    BY <2>2 DEF ClockCheck, WindowsWhole
  <2>3. CASE ClockPush
    <3>1. capture_buf \in Seq(CaptureByte)
      BY DEF TypeInv, TypeOK
    <3>2. \E n \in 0..Len(window') :
             /\ \A i \in 1..Len(window') : window'[i] = Silence <=> n < i
             /\ Whole(window', n)
      BY <2>3, <3>1, WindowWhole DEF Captured, ClockPush
    <3> QED
      BY <3>2 DEF WindowsWhole, Whole
  <2> QED
    BY <2>1, <2>2, <2>3, BufferSteps
<1> QED
  BY <1>1, <1>2, TypeInvariant, CaptureInvariant, PTL DEF Spec

-----------------------------------------------------------------------------
(* Playout.  What is queued for the connected peer ends with a high byte,  *)
(* and the byte written last comes before it as far as parity goes,        *)
(* whatever was dropped between the two.                                   *)

Own(bytes, p) == \A i \in 1..Len(bytes) : bytes[i].peer = p

Played ==
    /\ \A p \in Peers : Own(tx[p], p)
    /\ queued % 2 = 0
    /\ stream # NoPeer =>
         /\ Stretch(playout_buf, stream, queued) /\ HighLast(playout_buf)
         /\ lastWritten # <<>> =>
               lastWritten[1].at % 2 = (Len(playout_buf) + 1) % 2

(* The steps that concern what is played.                                  *)
LEMMA PlayoutSteps ==
    ASSUME [Next]_vars
    PROVE  \/ ClockAccept \/ ClockPull \/ ClockWrite
           \/ \E p \in Peers : PeerRead(p)
           \/ /\ stream' = stream \/ stream' = NoPeer
              /\ UNCHANGED <<tx, queued, playout_buf, lastWritten>>
<1> USE DEF bufVars, peerVars, clockVars
<1>1. ASSUME NEW e \in EngineEvents, EngineSend(e)
      PROVE  UNCHANGED <<stream, tx, queued, playout_buf, lastWritten>>
  BY <1>1 DEF EngineSend
<1>2. CASE EngineClose
  BY <1>2 DEF EngineClose
<1>3. CASE Worker
  BY <1>3 DEF Worker, WorkerForward, WorkerSetCallback, WorkerAnswer,
              WorkerTerminate, WorkerClosed, WorkerFinish, WorkerJoin,
              WorkerReceive
<1>4. CASE Control
  BY <1>4 DEF Control, ControlPlayout, ControlStartRecording, SecondStore,
              ControlStopRecording, ControlTerminate, ControlReceive
<1>5. CASE Clock
  BY <1>5 DEF Clock, ClockCheck, ClockNoPeer, ClockDrained, ClockWriteError,
              ClockRead, ClockWouldBlock, ClockPeerGone, ClockLoadRecording,
              ClockLoadSend, ClockPush, ClockReturn
<1>6. ASSUME NEW p \in Peers, Connect(p) \/ PeerWrite(p) \/ PeerClose(p)
      PROVE  UNCHANGED <<stream, tx, queued, playout_buf, lastWritten>>
  BY <1>6 DEF Connect, PeerWrite, PeerClose
<1>7. CASE UNCHANGED vars
  BY <1>7 DEF vars
<1> QED
  BY <1>1, <1>2, <1>3, <1>4, <1>5, <1>6, <1>7 DEF Next, Finished

(* Adding or taking an even number changes no parity.                      *)
LEMMA EvenApart ==
    ASSUME NEW i \in Int, NEW j \in Int, NEW n \in Int, j = i + 2 * n
    PROVE  i % 2 = j % 2
OBVIOUS

(* So does taking any even number away.                                    *)
LEMMA EvenAway ==
    ASSUME NEW i \in Int, NEW k \in Int, k % 2 = 0
    PROVE  (i - k) % 2 = i % 2
OBVIOUS

(* What one pull queues: whole samples from an even position on.           *)
LEMMA PulledStretch ==
    ASSUME NEW p \in Peers, NEW q \in Pos, q % 2 = 0,
           NEW n \in 0..WEBRTC_WINDOW
    PROVE  LET pulled == [i \in 1..(2 * n) |->
                            [peer |-> p, at |-> Ahead(q, i - 1)]]
           IN /\ pulled \in Seq(PlayoutByte) /\ Len(pulled) = 2 * n
              /\ Stretch(pulled, p, Ahead(q, 2 * n)) /\ HighLast(pulled)
              /\ 0 < Len(pulled) => pulled[1].at = q
              /\ Len(pulled) = 0 => Ahead(q, 2 * n) = q
              /\ Ahead(q, 2 * n) \in Pos /\ Ahead(q, 2 * n) % 2 = 0
<1> DEFINE m == 2 * n
           pulled == [i \in 1..m |-> [peer |-> p, at |-> Ahead(q, i - 1)]]
<1>1. m \in Nat /\ m <= LAST_BYTE /\ LAST_BYTE \in Nat /\ q \in Nat
  BY WindowAssumption, PositionsAssumption
     DEF bytes_per_window, BYTES_PER_SAMPLE, Pos
<1>2. pulled \in Seq(PlayoutByte) /\ Len(pulled) = m
  BY PulledBytes
<1>3. m % 2 = 0 /\ (q + m) % 2 = 0
  BY <1>1
<1> HIDE DEF m
<1>4. \A i \in 1..m : pulled[i].peer = p /\ pulled[i].at = Ahead(q, i - 1)
  OBVIOUS
<1> HIDE DEF pulled
<1>5. Consecutive(pulled)
  <2> SUFFICES ASSUME NEW i \in 1..(m - 1)
               PROVE  /\ pulled[i + 1].peer = pulled[i].peer
                      /\ pulled[i + 1].at = Succ(pulled[i].at)
    BY <1>2 DEF Consecutive
  <2>1. /\ i \in 1..m /\ i + 1 \in 1..m /\ i - 1 \in 0..LAST_BYTE
        /\ (i - 1) + 1 = i /\ (i + 1) - 1 = i
    BY <1>1
  <2>2. Succ(Ahead(q, i - 1)) = Ahead(q, (i - 1) + 1)
    BY <2>1, SuccAhead
  <2> QED
    BY <1>4, <2>1, <2>2
<1>6. ASSUME 0 < m
      PROVE  /\ Succ(pulled[m].at) = Ahead(q, m)
             /\ pulled[1].at = q
  <2>1. /\ m \in 1..m /\ 1 \in 1..m /\ m - 1 \in 0..LAST_BYTE
        /\ (m - 1) + 1 = m /\ 1 - 1 = 0
    BY <1>1, <1>6
  <2>2. Succ(Ahead(q, m - 1)) = Ahead(q, m)
    BY <2>1, SuccAhead
  <2>3. Ahead(q, 0) = q
    BY <1>1 DEF Ahead, Pos
  <2> QED
    BY <1>4, <2>1, <2>2, <2>3
<1>7. m = 0 => Ahead(q, m) = q
  BY <1>1 DEF Ahead, Pos
<1>8. Stretch(pulled, p, Ahead(q, m))
  BY <1>2, <1>4, <1>5, <1>6 DEF Stretch
<1>9. HighLast(pulled)
  <2> SUFFICES ASSUME NEW i \in 1..m
               PROVE  pulled[i].at % 2 = (m + 1 - i) % 2
    BY <1>2 DEF HighLast
  <2>1. i - 1 \in 0..(LAST_BYTE + 1)
    BY <1>1
  <2>2. Ahead(q, i - 1) % 2 = (q + (i - 1)) % 2
    BY <2>1, AheadParity
  <2>3. (q + (i - 1)) % 2 = (m + 1 - i) % 2
    BY <1>1, <1>3
  <2> QED
    BY <1>4, <2>2, <2>3
<1>10. Ahead(q, m) \in Pos /\ Ahead(q, m) % 2 = 0
  <2>1. m \in 0..(LAST_BYTE + 1)
    BY <1>1
  <2> QED
    BY <1>3, <2>1, AheadInPos, AheadParity
<1> QED
  BY <1>2, <1>6, <1>7, <1>8, <1>9, <1>10 DEF m, pulled

(* Whole samples after bytes that end with a high one.                     *)
LEMMA JoinHighLast ==
    ASSUME NEW a \in Seq(PlayoutByte), NEW b \in Seq(PlayoutByte),
           HighLast(a), HighLast(b), NEW n \in Nat, Len(b) = 2 * n
    PROVE  HighLast(a \o b)
<1> DEFINE c == a \o b
<1>1. /\ Len(a) \in Nat /\ Len(c) = Len(a) + Len(b)
      /\ \A i \in 1..Len(a) : c[i] = a[i]
      /\ \A i \in (Len(a) + 1)..(Len(a) + Len(b)) : c[i] = b[i - Len(a)]
  BY Joined
<1> HIDE DEF c
<1> SUFFICES ASSUME NEW i \in 1..Len(c)
             PROVE  c[i].at % 2 = (Len(c) + 1 - i) % 2
  BY DEF HighLast, c
<1>2. CASE i <= Len(a)
  <2>1. i \in 1..Len(a)
    BY <1>1, <1>2
  <2>2. c[i].at % 2 = (Len(a) + 1 - i) % 2
    BY <1>1, <2>1 DEF HighLast
  <2>3. Len(c) + 1 - i = (Len(a) + 1 - i) + 2 * n
    BY <1>1, <2>1
  <2>4. Len(c) + 1 - i \in Int /\ Len(a) + 1 - i \in Int
    BY <1>1, <2>1
  <2> QED
    BY <2>2, <2>3, <2>4, EvenApart
<1>3. CASE Len(a) < i
  <2>1. /\ i \in (Len(a) + 1)..(Len(a) + Len(b))
        /\ i - Len(a) \in 1..Len(b)
        /\ Len(b) + 1 - (i - Len(a)) = Len(c) + 1 - i
    BY <1>1, <1>3
  <2>2. c[i] = b[i - Len(a)]
    BY <1>1, <2>1
  <2>3. b[i - Len(a)].at % 2 = (Len(b) + 1 - (i - Len(a))) % 2
    BY <2>1 DEF HighLast
  <2> QED
    BY <2>1, <2>2, <2>3
<1>4. i <= Len(a) \/ Len(a) < i
  BY <1>1
<1> QED
  BY <1>2, <1>3, <1>4

(* A pull queues whole samples, and drops whole samples.                   *)
LEMMA PullPlayed ==
    ASSUME TypeInv, Played, ClockPull
    PROVE  Played'
<1>1. /\ UNCHANGED <<stream, lastWritten, tx>>
      /\ playout_buf \in Seq(PlayoutByte) /\ queued \in Pos
      /\ stream \in Peers \cup {NoPeer}
  BY DEF ClockPull, peerVars, TypeInv, TypeOK
<1>2. PICK n \in IF playing /\ callback THEN 0..WEBRTC_WINDOW ELSE {0} :
        IF playing /\ stream # NoPeer
        THEN /\ playout_buf' = cap_buffer(playout_buf \o
                    [i \in 1..(2 * n) |->
                        [peer |-> stream, at |-> Ahead(queued, i - 1)]])
             /\ queued' = Ahead(queued, 2 * n)
        ELSE UNCHANGED <<playout_buf, queued>>
  BY Zenon DEF ClockPull
<1>3. n \in 0..WEBRTC_WINDOW /\ n \in Nat
  BY WindowAssumption
<1>4. CASE ~(playing /\ stream # NoPeer)
  BY <1>1, <1>2, <1>4 DEF Played
<1>5. CASE playing /\ stream # NoPeer
  <2> DEFINE pulled == [i \in 1..(2 * n) |->
                          [peer |-> stream, at |-> Ahead(queued, i - 1)]]
             next == Ahead(queued, 2 * n)
             all == playout_buf \o pulled
             k == Overflow(Len(all))
  <2>1. stream \in Peers /\ queued % 2 = 0
    BY <1>1, <1>5 DEF Played
  <2>2. /\ pulled \in Seq(PlayoutByte) /\ Len(pulled) = 2 * n
        /\ Stretch(pulled, stream, next) /\ HighLast(pulled)
        /\ 0 < Len(pulled) => pulled[1].at = queued
        /\ Len(pulled) = 0 => next = queued
        /\ next \in Pos /\ next % 2 = 0
    BY <1>1, <1>3, <2>1, PulledStretch
  <2>3. playout_buf' = cap_buffer(all) /\ queued' = next
    BY <1>2, <1>5
  <2> HIDE DEF pulled, next
  <2>4. Stretch(playout_buf, stream, queued) /\ HighLast(playout_buf)
    BY <1>5 DEF Played
  <2>5. /\ all \in Seq(PlayoutByte) /\ Len(playout_buf) \in Nat
        /\ Len(all) = Len(playout_buf) + 2 * n
    BY <1>1, <2>2, Joined
  <2>6. Stretch(all, stream, next)
    BY <1>1, <2>2, <2>4, JoinStretches
  <2>7. HighLast(all)
    BY <1>1, <1>3, <2>2, <2>4, JoinHighLast
  <2> HIDE DEF all
  <2>8. Len(all) \in Nat /\ k \in 0..Len(all) /\ k % 2 = 0
    BY <2>5, OverflowRange, LenProperties
  <2>9. /\ playout_buf' \in Seq(PlayoutByte)
        /\ Len(playout_buf') = Len(all) - k
        /\ \A i \in 1..Len(playout_buf') : playout_buf'[i] = all[k + i]
    BY <2>3, <2>5, CapBuffer
  <2> HIDE DEF k
  <2>10. IsRest(playout_buf', all, k)
    BY <2>9 DEF IsRest
  <2>11. Stretch(playout_buf', stream, next) /\ HighLast(playout_buf')
    BY <2>5, <2>6, <2>7, <2>8, <2>9, <2>10, RestOfStretch
  <2>12. (Len(playout_buf') + 1) % 2 = (Len(playout_buf) + 1) % 2
    <3>1. Len(playout_buf') + 1 = ((Len(playout_buf) + 1) + 2 * n) - k
      BY <1>3, <2>5, <2>8, <2>9
    <3>2. /\ (Len(playout_buf) + 1) + 2 * n \in Int /\ k \in Int
          /\ Len(playout_buf) + 1 \in Int
      BY <1>3, <2>5, <2>8
    <3>3. ((Len(playout_buf) + 1) + 2 * n) % 2 = (Len(playout_buf) + 1) % 2
      BY <1>3, <3>2, EvenApart
    <3>4. (((Len(playout_buf) + 1) + 2 * n) - k) % 2
            = ((Len(playout_buf) + 1) + 2 * n) % 2
      BY <2>8, <3>2, EvenAway
    <3> QED
      BY <3>1, <3>3, <3>4
  <2>13. lastWritten # <<>> =>
            lastWritten[1].at % 2 = (Len(playout_buf') + 1) % 2
    BY <1>5, <2>12 DEF Played
  <2>14. \A p \in Peers : Own(tx[p], p)
    BY DEF Played
  <2> QED
    BY <1>1, <2>2, <2>3, <2>11, <2>13, <2>14 DEF Played
<1> QED
  BY <1>4, <1>5

(* A write takes any number of bytes and remembers the last.               *)
LEMMA WritePlayed ==
    ASSUME TypeInv, Played, ClockWrite
    PROVE  Played'
<1>1. /\ stream' = stream /\ queued' = queued /\ stream \in Peers
      /\ playout_buf \in Seq(PlayoutByte) /\ stream # NoPeer
      /\ tx \in [Peers -> Seq(PlayoutByte)]
  BY PeersAssumption DEF ClockWrite, clockVars, TypeInv, TypeOK, StreamInUse
<1>2. PICK n \in 1..Len(playout_buf) :
        /\ tx' = [tx EXCEPT ![stream] = @ \o SubSeq(playout_buf, 1, n)]
        /\ playout_buf' = SubSeq(playout_buf, n + 1, Len(playout_buf))
        /\ lastWritten' = <<playout_buf[n]>>
  BY DEF ClockWrite
<1>3. /\ Len(playout_buf) \in Nat /\ n \in Nat /\ n \in 0..Len(playout_buf)
      /\ \A i \in 1..Len(playout_buf) : playout_buf[i] \in PlayoutByte
  BY <1>1, LenProperties, ElementOfSeq
<1>4. /\ Stretch(playout_buf, stream, queued) /\ HighLast(playout_buf)
  BY <1>1 DEF Played
<1>5. /\ playout_buf' \in Seq(PlayoutByte)
      /\ Len(playout_buf') = Len(playout_buf) - n
      /\ \A i \in 1..Len(playout_buf') : playout_buf'[i] = playout_buf[n + i]
  BY <1>2, <1>3, SubSeqProperties
<1>6. IsRest(playout_buf', playout_buf, n)
  BY <1>5 DEF IsRest
<1>7. Stretch(playout_buf', stream, queued) /\ HighLast(playout_buf')
  BY <1>1, <1>3, <1>4, <1>5, <1>6, RestOfStretch
<1>8. lastWritten'[1].at % 2 = (Len(playout_buf') + 1) % 2
  <2>1. lastWritten'[1] = playout_buf[n]
    BY <1>2
  <2>2. playout_buf[n].at % 2 = (Len(playout_buf) + 1 - n) % 2
    BY <1>4 DEF HighLast
  <2>3. Len(playout_buf) + 1 - n = Len(playout_buf') + 1
    BY <1>3, <1>5
  <2> QED
    BY <2>1, <2>2, <2>3
<1>9. \A p \in Peers : Own(tx'[p], p)
  <2> DEFINE some == SubSeq(playout_buf, 1, n)
  <2>1. /\ some \in Seq(PlayoutByte) /\ Len(some) = n
        /\ \A i \in 1..n : some[i] = playout_buf[i]
    BY <1>3, SubSeqProperties
  <2> HIDE DEF some
  <2>2. Own(some, stream)
    BY <1>4, <2>1 DEF Own, Stretch
  <2>3. tx[stream] \in Seq(PlayoutByte) /\ Own(tx[stream], stream)
    BY <1>1 DEF Played
  <2>4. Own(tx[stream] \o some, stream)
    <3> DEFINE a == tx[stream]
               c == a \o some
    <3>1. /\ Len(a) \in Nat /\ Len(c) = Len(a) + n
          /\ \A i \in 1..Len(a) : c[i] = a[i]
          /\ \A i \in (Len(a) + 1)..(Len(a) + n) : c[i] = some[i - Len(a)]
      <4>1. some \in Seq(PlayoutByte) /\ a \in Seq(PlayoutByte)
        BY <2>1, <2>3
      <4> HIDE DEF a
      <4>2. /\ Len(a) \in Nat /\ Len(c) = Len(a) + Len(some)
            /\ \A i \in 1..Len(a) : c[i] = a[i]
            /\ \A i \in (Len(a) + 1)..(Len(a) + Len(some)) :
                  c[i] = some[i - Len(a)]
        BY <4>1, Joined
      <4>3. Len(some) = n
        BY <2>1
      <4> QED
        BY <4>2, <4>3
    <3> HIDE DEF a, c
    <3>2. ASSUME NEW i \in 1..Len(c)
          PROVE  \/ i \in 1..Len(a)
                 \/ /\ i \in (Len(a) + 1)..(Len(a) + n)
                    /\ i - Len(a) \in 1..n
      BY <1>3, <3>1
    <3>3. Own(a, stream)
      BY <2>3 DEF a
    <3>4. Own(c, stream)
      BY <2>1, <2>2, <3>1, <3>2, <3>3 DEF Own
    <3> QED
      BY <3>4 DEF a, c
  <2>5. /\ tx'[stream] = tx[stream] \o some
        /\ \A p \in Peers : p # stream => tx'[p] = tx[p]
    BY <1>1, <1>2 DEF some
  <2> QED
    BY <2>4, <2>5 DEF Played
<1> QED
  BY <1>1, <1>7, <1>8, <1>9 DEF Played

(* What is played stays what it is in every step.                          *)
LEMMA NextPlayed ==
    ASSUME TypeInv, Played, [Next]_vars
    PROVE  Played'
<1>1. CASE ClockAccept
  <2>1. /\ queued' = 0 /\ playout_buf' = <<>> /\ lastWritten' = <<>>
        /\ tx' = tx
    BY <1>1 DEF ClockAccept
  <2>2. Stretch(<<>>, stream', 0) /\ HighLast(<<>>) /\ 0 % 2 = 0
    BY EmptySeq DEF Stretch, HighLast, Consecutive
  <2>3. \A p \in Peers : Own(tx[p], p)
    BY DEF Played
  <2> QED
    BY <2>1, <2>2, <2>3 DEF Played
<1>2. CASE ClockPull
  BY <1>2, PullPlayed
<1>3. CASE ClockWrite
  BY <1>3, WritePlayed
<1>4. ASSUME NEW p \in Peers, PeerRead(p) PROVE Played'
  <2>1. /\ tx[p] # <<>> /\ tx' = [tx EXCEPT ![p] = Tail(@)]
        /\ UNCHANGED <<stream, queued, playout_buf, lastWritten>>
    BY <1>4 DEF PeerRead, clockVars, bufVars
  <2>2. tx \in [Peers -> Seq(PlayoutByte)]
    BY DEF TypeInv, TypeOK
  <2>3. Own(Tail(tx[p]), p)
    <3> DEFINE a == tx[p]
    <3>1. a \in Seq(PlayoutByte) /\ a # <<>> /\ Own(a, p)
      BY <2>1, <2>2 DEF Played
    <3> HIDE DEF a
    <3>2. /\ Len(Tail(a)) = Len(a) - 1 /\ Len(a) \in Nat
          /\ \A i \in 1..Len(Tail(a)) : Tail(a)[i] = a[i + 1]
      BY <3>1, HeadTailProperties, LenProperties
    <3>3. \A i \in 1..Len(Tail(a)) : i + 1 \in 1..Len(a)
      BY <3>2
    <3>4. Own(Tail(a), p)
      BY <3>1, <3>2, <3>3 DEF Own
    <3> QED
      BY <3>4 DEF a
  <2>4. \A q \in Peers : Own(tx'[q], q)
    BY <2>1, <2>2, <2>3 DEF Played
  <2> QED
    BY <2>1, <2>4 DEF Played
<1>5. CASE /\ stream' = stream \/ stream' = NoPeer
           /\ UNCHANGED <<tx, queued, playout_buf, lastWritten>>
  BY <1>5 DEF Played
<1> QED
  BY <1>1, <1>2, <1>3, <1>4, <1>5, PlayoutSteps

(* A peer only ever gets audio queued since it was accepted, in playing    *)
(* order, and a low byte follows a high one across every short write and   *)
(* every dropped stretch (drain_playout, cap_buffer).                      *)
THEOREM PlayoutIsForPeer == Spec => []PlayoutForPeer
<1>1. Init => Played
  <2>1. Init => \A p \in Peers : Own(tx[p], p)
    BY EmptySeq DEF Init, Own
  <2>2. Init => queued = 0 /\ stream = NoPeer
    BY DEF Init
  <2>3. 0 % 2 = 0
    OBVIOUS
  <2> QED
    BY <2>1, <2>2, <2>3 DEF Played
<1>2. TypeInv /\ Played /\ [Next]_vars => Played'
  BY NextPlayed
<1>3. TypeInv /\ Played => PlayoutForPeer
  <2> SUFFICES ASSUME TypeInv, Played PROVE PlayoutForPeer
    OBVIOUS
  <2>1. \A p \in Peers : \A i \in 1..Len(tx[p]) : tx[p][i].peer = p
    BY DEF Played, Own
  <2>2. playout_buf \in Seq(PlayoutByte)
    BY DEF TypeInv, TypeOK
  <2>3. playout_buf # <<>> => Len(playout_buf) \in Nat \ {0}
    BY <2>2, EmptySeq
  <2>4. ASSUME stream # NoPeer
        PROVE  /\ Consecutive(playout_buf)
               /\ playout_buf # <<>> =>
                    /\ playout_buf[Len(playout_buf)].peer = stream
                    /\ Succ(playout_buf[Len(playout_buf)].at) = queued
    BY <2>3, <2>4 DEF Played, Stretch
  <2>5. ASSUME stream # NoPeer, lastWritten # <<>>, playout_buf # <<>>
        PROVE  playout_buf[1].at % 2 # lastWritten[1].at % 2
    <3>1. playout_buf[1].at % 2 = (Len(playout_buf) + 1 - 1) % 2
      BY <2>3, <2>5 DEF Played, HighLast
    <3>2. lastWritten[1].at % 2 = (Len(playout_buf) + 1) % 2
      BY <2>5 DEF Played
    <3>3. (Len(playout_buf) + 1 - 1) % 2 # (Len(playout_buf) + 1) % 2
      BY <2>3, <2>5
    <3> QED
      BY <3>1, <3>2, <3>3
  <2> QED
    BY <2>1, <2>4, <2>5 DEF PlayoutForPeer
<1> QED
  BY <1>1, <1>2, <1>3, TypeInvariant, PTL DEF Spec
=============================================================================
