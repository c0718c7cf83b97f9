-------------------------- MODULE SignalRpcProofs --------------------------
(***************************************************************************)
(* Theorems about SignalRpc: type correctness; a request ends with its own *)
(* answer; a request that times out had not been answered; notifications   *)
(* are given in the order they were sent, none lost.                       *)
(***************************************************************************)
EXTENDS SignalRpc, SublistsProofs, TLAPS

(* The elements of a sequence, and of what is put together or cut from it. *)
LEMMA AppendElements ==
    ASSUME NEW S, NEW s \in Seq(S), NEW e \in S
    PROVE  /\ Append(s, e) \in Seq(S)
           /\ Len(Append(s, e)) = Len(s) + 1
           /\ \A i \in 1..Len(s) : Append(s, e)[i] = s[i]
           /\ Append(s, e)[Len(s) + 1] = e
  OBVIOUS

(* What is left without the first element.                                 *)
LEMMA TailElements ==
    ASSUME NEW S, NEW s \in Seq(S), s # <<>>
    PROVE  /\ Head(s) \in S /\ Head(s) = s[1]
           /\ Tail(s) \in Seq(S)
           /\ Len(Tail(s)) = Len(s) - 1
           /\ \A i \in 1..(Len(s) - 1) : Tail(s)[i] = s[i + 1]
           /\ 1 \in 1..Len(s)
  OBVIOUS

(* What is cut out.                                                        *)
LEMMA SubSeqElements ==
    ASSUME NEW S, NEW s \in Seq(S), NEW m \in Nat, NEW n \in Nat,
           1 <= m, m <= n + 1, n <= Len(s)
    PROVE  /\ SubSeq(s, m, n) \in Seq(S)
           /\ Len(SubSeq(s, m, n)) = n - m + 1
           /\ \A i \in 1..(n - m + 1) : SubSeq(s, m, n)[i] = s[m + i - 1]
  OBVIOUS

-----------------------------------------------------------------------------
(* Type correctness.                                                       *)

(* Answers and notifications are messages.                                 *)
LEMMA MessageTypes ==
    /\ \A i \in Ids, ok \in BOOLEAN : Response(i, ok) \in Messages
    /\ \A n \in 1..MAX_EVENTS : Notification(n) \in Notifications
    /\ Notifications \subseteq Messages
  BY DEF Response, Notification, Messages, Responses, Notifications

(* Types after a step of the daemon,                                       *)
LEMMA TypeCorrectDaemon ==
    ASSUME TypeOK, Daemon PROVE TypeOK'
<1>1. ASSUME NEW i \in Ids, NEW ok \in BOOLEAN, Answer(i, ok) PROVE TypeOK'
  <2>1. wire' \in Seq(Messages)
    BY <1>1, MessageTypes, AppendElements DEF TypeOK, Answer
  <2>2. asked' \subseteq Ids /\ answered' \subseteq (Ids \X BOOLEAN)
    <3>1. <<i, ok>> \in Ids \X BOOLEAN  BY <1>1, Zenon
    <3>2. asked' \subseteq Ids  BY <1>1, Zenon DEF TypeOK, Answer
    <3> QED  BY <1>1, <3>1, <3>2, Zenon DEF TypeOK, Answer
  <2> QED  BY <1>1, <2>1, <2>2, Zenon DEF TypeOK, Answer, client
<1>2. ASSUME Notify PROVE TypeOK'
  <2> DEFINE event == Notification(Len(said) + 1)
  <2>1. event \in Notifications /\ event \in Messages
    <3>1. said \in Seq(Notifications) /\ Len(said) < MAX_EVENTS
      BY <1>2, Zenon DEF TypeOK, Notify
    <3>2. Len(said) + 1 \in 1..MAX_EVENTS
      BY <3>1, BoundsAssumption
    <3> QED  BY <3>2, MessageTypes, Zenon
  <2>2. wire' = Append(wire, event) /\ said' = Append(said, event)
    BY <1>2 DEF Notify
  <2> HIDE DEF event
  <2>3. wire' \in Seq(Messages) /\ said' \in Seq(Notifications)
    BY <2>1, <2>2, AppendElements DEF TypeOK
  <2> QED  BY <1>2, <2>3, Zenon DEF TypeOK, Notify, client
<1>3. ASSUME DaemonCloses PROVE TypeOK'
  <2>1. open' \in BOOLEAN  BY <1>3, Zenon DEF DaemonCloses
  <2> QED  BY <1>3, <2>1, Zenon DEF TypeOK, DaemonCloses, client
<1> QED  BY <1>1, <1>2, <1>3, Zenon DEF Daemon

(* after a read of the client, and                                         *)
LEMMA TypeCorrectReading ==
    ASSUME TypeOK, Reading PROVE TypeOK'
<1>1. ASSUME NEW n \in 1..Len(wire), Receive(n) PROVE TypeOK'
  <2>1. buf' \in Seq(Messages) /\ wire' \in Seq(Messages)
    <3>1. /\ wire \in Seq(Messages)
          /\ buf' = SubSeq(wire, 1, n)
          /\ wire' = SubSeq(wire, n + 1, Len(wire))
      BY <1>1, Zenon DEF TypeOK, Receive
    <3>2. n \in Nat /\ Len(wire) \in Nat /\ 1 <= n /\ n <= Len(wire)
      BY <3>1
    <3> QED  BY <3>1, <3>2, SubSeqElements
  <2> QED  BY <1>1, <2>1, Zenon DEF TypeOK, Receive
<1>2. ASSUME NothingCame PROVE TypeOK'
  <2>1. ended' \in Endings
    BY <1>2 DEF TypeOK, NothingCame, Endings
  <2> QED  BY <1>2, <2>1, Zenon DEF TypeOK, NothingCame, daemon
<1>3. ASSUME WaitResponse PROVE TypeOK'
  <2>1. PICK m \in Messages :
          /\ ResponseLine(m)
          /\ IF m.kind = "response" /\ m.id = next_id
             THEN EndRequest(m) ELSE Keep(m)
    BY <1>3, Zenon DEF WaitResponse
  <2>2. buf' \in Seq(Messages)
    BY <2>1, TailElements DEF TypeOK, ResponseLine
  <2>3. CASE EndRequest(m)
    <3>1. ended' \in Endings
      BY <2>3 DEF TypeOK, EndRequest, Endings
    <3> QED  BY <2>1, <2>2, <2>3, <3>1, Zenon
             DEF TypeOK, ResponseLine, EndRequest, daemon
  <2>4. CASE Keep(m)
    <3>1. pending_events' \in Seq(Messages)
      BY <2>4, AppendElements DEF TypeOK, Keep
    <3> QED  BY <2>1, <2>2, <2>4, <3>1, Zenon
             DEF TypeOK, ResponseLine, Keep, daemon
  <2> QED  BY <2>1, <2>3, <2>4, Zenon
<1>4. ASSUME ReadLine PROVE TypeOK'
  <2>1. Head(buf) \in Messages /\ buf' \in Seq(Messages)
    BY <1>4, TailElements DEF TypeOK, ReadLine
  <2>2. /\ pending_events' \in {pending_events,
                                Append(pending_events, Head(buf))}
        /\ given' \in {given, Append(given, Head(buf))}
        /\ op' \in {op, "idle"}
    BY <1>4, Zenon DEF ReadLine
  <2>3. pending_events' \in Seq(Messages) /\ given' \in Seq(Messages)
    <3>1. pending_events \in Seq(Messages) /\ given \in Seq(Messages)
      BY Zenon DEF TypeOK
    <3>2. /\ Append(pending_events, Head(buf)) \in Seq(Messages)
          /\ Append(given, Head(buf)) \in Seq(Messages)
      BY <2>1, <3>1, AppendElements, Zenon
    <3> QED  BY <2>2, <3>1, <3>2, Zenon
  <2> QED  BY <1>4, <2>1, <2>2, <2>3, Zenon DEF TypeOK, ReadLine, daemon
<1> QED  BY <1>1, <1>2, <1>3, <1>4, Zenon DEF Reading

(* after a call of its methods.                                            *)
LEMMA TypeCorrectCalling ==
    ASSUME TypeOK, Calling PROVE TypeOK'
<1>1. ASSUME Send PROVE TypeOK'
  <2>1. next_id' \in 0..MAX_REQUESTS /\ next_id' \in Ids
    <3>1. /\ next_id \in 0..MAX_REQUESTS /\ next_id < MAX_REQUESTS
          /\ next_id' = next_id + 1
      BY <1>1, Zenon DEF TypeOK, Send
    <3> QED  BY <3>1, BoundsAssumption DEF Ids
  <2>2. asked' \subseteq Ids
    BY <1>1, <2>1, Zenon DEF TypeOK, Send
  <2>3. ended' \in Endings
    <3>1. \/ ended' = ended
          \/ ended' = [id |-> next_id', how |-> "broken"]
      BY <1>1, Zenon DEF Send
    <3>2. ended \in Endings
      BY Zenon DEF TypeOK
    <3>3. [id |-> next_id', how |-> "broken"] \in Endings
      BY <2>1 DEF Endings
    <3> QED  BY <3>1, <3>2, <3>3, Zenon
  <2>4. op' \in {op, "response"}  BY <1>1, Zenon DEF Send
  <2> QED  BY <1>1, <2>1, <2>2, <2>3, <2>4, Zenon DEF TypeOK, Send
<1>2. ASSUME ReadKept PROVE TypeOK'
  <2>1. pending_events' \in Seq(Messages) /\ given' \in Seq(Messages)
    BY <1>2, TailElements, AppendElements DEF TypeOK, ReadKept
  <2> QED  BY <1>2, <2>1, Zenon DEF TypeOK, ReadKept, daemon
<1>3. ASSUME ReadWaits \/ Close PROVE TypeOK'
  BY <1>3, Zenon DEF TypeOK, ReadWaits, Close, daemon
<1> QED  BY <1>1, <1>2, <1>3, Zenon DEF Calling

(* The variables are of the types TypeOK gives.                            *)
THEOREM TypeCorrect == Spec => []TypeOK
<1>1. Init => TypeOK
  <2> SUFFICES ASSUME Init PROVE TypeOK  OBVIOUS
  <2>1. 0 \in 0..MAX_REQUESTS  BY BoundsAssumption
  <2>2. \A S : <<>> \in Seq(S)  OBVIOUS
  <2>3. ended \in Endings
    BY <2>1 DEF Init, Endings
  <2>4. open \in BOOLEAN  BY Zenon DEF Init
  <2> QED  BY <2>1, <2>2, <2>3, <2>4, Zenon DEF Init, TypeOK
<1>2. TypeOK /\ [Next]_vars => TypeOK'
  <2> SUFFICES ASSUME TypeOK, [Next]_vars PROVE TypeOK'  OBVIOUS
  <2>1. CASE UNCHANGED vars
    BY <2>1, Zenon DEF TypeOK, vars, client, daemon
  <2>2. CASE Over
    BY <2>2, Zenon DEF TypeOK, Over, vars, client, daemon
  <2> QED  BY <2>1, <2>2, TypeCorrectDaemon, TypeCorrectReading,
              TypeCorrectCalling, Zenon DEF Next
<1> QED  BY <1>1, <1>2, PTL DEF Spec

-----------------------------------------------------------------------------
(* What is in flight: the lines in the buffer or in the socket.            *)

Elements(s) == {s[k] : k \in 1..Len(s)}
InFlight == Elements(buf) \cup Elements(wire)

(* The elements of a sequence that grows, shrinks or is cut.               *)
LEMMA ElementsOf ==
    ASSUME NEW S, NEW s \in Seq(S)
    PROVE  /\ \A e \in S : Elements(Append(s, e)) = Elements(s) \cup {e}
           /\ s # <<>> => Elements(s) = Elements(Tail(s)) \cup {Head(s)}
           /\ \A n \in 1..Len(s) :
                 Elements(s) = Elements(SubSeq(s, 1, n))
                                 \cup Elements(SubSeq(s, n + 1, Len(s)))
           /\ Elements(<<>>) = {}
<1>1. ASSUME NEW e \in S
      PROVE  Elements(Append(s, e)) = Elements(s) \cup {e}
  <2> DEFINE t == Append(s, e)
  <2>1. /\ Len(t) = Len(s) + 1 /\ Len(s) \in Nat
        /\ \A i \in 1..Len(s) : t[i] = s[i]
        /\ t[Len(s) + 1] = e
    BY AppendElements
  <2> HIDE DEF t
  <2> QED  BY <2>1 DEF Elements, t
<1>2. ASSUME s # <<>>
      PROVE  Elements(s) = Elements(Tail(s)) \cup {Head(s)}
  <2> DEFINE t == Tail(s)
  <2>1. /\ Len(t) = Len(s) - 1 /\ Len(s) \in Nat /\ Head(s) = s[1]
        /\ \A i \in 1..(Len(s) - 1) : t[i] = s[i + 1]
        /\ 1 \in 1..Len(s)
    BY <1>2, TailElements
  <2> HIDE DEF t
  <2>2. \A i \in 1..Len(s) : i = 1 \/ (i - 1 \in 1..Len(t) /\ s[i] = t[i - 1])
    BY <2>1
  <2>3. \A i \in 1..Len(t) : i + 1 \in 1..Len(s) /\ t[i] = s[i + 1]
    BY <2>1
  <2>4. Elements(s) \subseteq Elements(t) \cup {Head(s)}
    BY <2>1, <2>2 DEF Elements
  <2>5. Elements(t) \cup {Head(s)} \subseteq Elements(s)
    BY <2>1, <2>3 DEF Elements
  <2> QED  BY <2>4, <2>5 DEF t
<1>3. ASSUME NEW n \in 1..Len(s)
      PROVE  Elements(s) = Elements(SubSeq(s, 1, n))
                             \cup Elements(SubSeq(s, n + 1, Len(s)))
  <2> DEFINE t == SubSeq(s, 1, n)
             u == SubSeq(s, n + 1, Len(s))
  <2>1. n \in Nat /\ Len(s) \in Nat /\ 1 <= n /\ n <= Len(s)
    OBVIOUS
  <2>2. Len(t) = n /\ \A i \in 1..n : t[i] = s[i]
    BY <2>1, SubSeqElements
  <2>3. Len(u) = Len(s) - n /\ \A i \in 1..(Len(s) - n) : u[i] = s[n + i]
    BY <2>1, SubSeqElements
  <2> HIDE DEF t, u
  <2>4. \A i \in 1..Len(s) : \/ i \in 1..Len(t) /\ s[i] = t[i]
                             \/ i - n \in 1..Len(u) /\ s[i] = u[i - n]
    BY <2>1, <2>2, <2>3
  <2>5. /\ \A i \in 1..Len(t) : i \in 1..Len(s) /\ t[i] = s[i]
        /\ \A i \in 1..Len(u) : n + i \in 1..Len(s) /\ u[i] = s[n + i]
    BY <2>1, <2>2, <2>3
  <2>6. Elements(s) \subseteq Elements(t) \cup Elements(u)
    BY <2>4 DEF Elements
  <2>7. Elements(t) \cup Elements(u) \subseteq Elements(s)
    BY <2>5 DEF Elements
  <2> QED  BY <2>6, <2>7 DEF t, u
<1>4. Elements(<<>>) = {}
  BY DEF Elements
<1> QED  BY <1>1, <1>2, <1>3, <1>4

(* How the steps change what is in flight.                                 *)
LEMMA InFlightSteps ==
    ASSUME TypeOK
    PROVE  /\ \A i \in Ids, ok \in BOOLEAN :
                 Answer(i, ok) => InFlight' = InFlight \cup {Response(i, ok)}
           /\ Notify => InFlight' =
                          InFlight \cup {Notification(Len(said) + 1)}
           /\ \A n \in 1..Len(wire) : Receive(n) => InFlight' = InFlight
           /\ \A m \in Messages :
                 ResponseLine(m) => InFlight = InFlight' \cup {m}
           /\ ReadLine => InFlight = InFlight' \cup {Head(buf)}
<1>0. buf \in Seq(Messages) /\ wire \in Seq(Messages)
  BY Zenon DEF TypeOK
<1>1. ASSUME NEW i \in Ids, NEW ok \in BOOLEAN, Answer(i, ok)
      PROVE  InFlight' = InFlight \cup {Response(i, ok)}
  <2>1. Response(i, ok) \in Messages  BY MessageTypes, Zenon
  <2>2. Elements(Append(wire, Response(i, ok)))
          = Elements(wire) \cup {Response(i, ok)}
    BY <1>0, <2>1, ElementsOf
  <2>3. wire' = Append(wire, Response(i, ok)) /\ buf' = buf
    BY <1>1, Zenon DEF Answer, client
  <2>4. InFlight' = Elements(buf) \cup Elements(Append(wire, Response(i, ok)))
    BY <2>3, Zenon DEF InFlight, Elements
  <2> QED  BY <2>2, <2>4, Zenon DEF InFlight
<1>2. ASSUME Notify
      PROVE  InFlight' = InFlight \cup {Notification(Len(said) + 1)}
  <2> DEFINE event == Notification(Len(said) + 1)
  <2>1. event \in Messages
    <3>1. said \in Seq(Notifications) /\ Len(said) < MAX_EVENTS
      BY <1>2, Zenon DEF TypeOK, Notify
    <3>2. Len(said) + 1 \in 1..MAX_EVENTS
      BY <3>1, BoundsAssumption
    <3> QED  BY <3>2, MessageTypes, Zenon
  <2>2. wire' = Append(wire, event) /\ buf' = buf
    BY <1>2, Zenon DEF Notify, client
  <2> HIDE DEF event
  <2>3. Elements(Append(wire, event)) = Elements(wire) \cup {event}
    BY <1>0, <2>1, ElementsOf
  <2>4. InFlight' = Elements(buf) \cup Elements(Append(wire, event))
    BY <2>2, Zenon DEF InFlight, Elements
  <2>5. InFlight' = InFlight \cup {event}
    BY <2>3, <2>4, Zenon DEF InFlight
  <2> QED  BY <2>5 DEF event
<1>3. ASSUME NEW n \in 1..Len(wire), Receive(n) PROVE InFlight' = InFlight
  <2>1. /\ buf = <<>> /\ buf' = SubSeq(wire, 1, n)
        /\ wire' = SubSeq(wire, n + 1, Len(wire))
    BY <1>3, Zenon DEF Receive
  <2>2. Elements(wire) = Elements(SubSeq(wire, 1, n))
                           \cup Elements(SubSeq(wire, n + 1, Len(wire)))
    BY <1>0, ElementsOf, Zenon
  <2>3. Elements(buf) = {}
    BY <2>1, <1>0, ElementsOf, Zenon
  <2>4. InFlight' = Elements(SubSeq(wire, 1, n))
                      \cup Elements(SubSeq(wire, n + 1, Len(wire)))
    BY <2>1, Zenon DEF InFlight, Elements
  <2> QED  BY <2>2, <2>3, <2>4, Zenon DEF InFlight
<1>4. ASSUME buf # <<>>, buf' = Tail(buf), wire' = wire
      PROVE  InFlight = InFlight' \cup {Head(buf)}
  <2>1. Elements(buf) = Elements(Tail(buf)) \cup {Head(buf)}
    BY <1>0, <1>4, ElementsOf, Zenon
  <2>2. InFlight' = Elements(Tail(buf)) \cup Elements(wire)
    BY <1>4, Zenon DEF InFlight, Elements
  <2> QED  BY <2>1, <2>2, Zenon DEF InFlight
<1>5. ASSUME NEW m \in Messages, ResponseLine(m)
      PROVE  InFlight = InFlight' \cup {m}
  BY <1>4, <1>5, Zenon DEF ResponseLine, daemon
<1>6. ASSUME ReadLine PROVE InFlight = InFlight' \cup {Head(buf)}
  BY <1>4, <1>6, Zenon DEF ReadLine, daemon
<1> QED  BY <1>1, <1>2, <1>3, <1>5, <1>6, Zenon

-----------------------------------------------------------------------------
(* Answers.                                                                *)

(* What is in flight was sent: `answered` is what the daemon says.         *)
Genuine ==
    \A m \in InFlight : m.kind = "response" => <<m.id, m.ok>> \in answered

(* Ids are not used twice.                                                 *)
IdsUsed ==
    /\ \A i \in asked : i <= next_id
    /\ \A i \in Ids, ok \in BOOLEAN : <<i, ok>> \in answered => i <= next_id

(* The answer to the request that is awaited has not been read over.       *)
AnswerComes ==
    op = "response" =>
        \A ok \in BOOLEAN :
            <<next_id, ok>> \in answered => Response(next_id, ok) \in InFlight

(* OwnAnswer is not inductive: it needs to know of what is in flight.      *)
AnswerInv == Genuine /\ IdsUsed /\ AnswerComes /\ OwnAnswer

(* What a response says.                                                   *)
LEMMA ResponseFields ==
    \A i, ok : /\ Response(i, ok).kind = "response"
               /\ Response(i, ok).id = i /\ Response(i, ok).ok = ok
  BY DEF Response

(* A notification is of the other kind.                                    *)
LEMMA NotificationKind == \A n : Notification(n).kind = "event"
  BY DEF Notification

(* The daemon answers what it was asked, once;                             *)
LEMMA AnswersDaemon ==
    ASSUME TypeOK, AnswerInv, Daemon PROVE AnswerInv'
<1>1. ASSUME NEW i \in Ids, NEW ok \in BOOLEAN, Answer(i, ok)
      PROVE  AnswerInv'
  <2>1. InFlight' = InFlight \cup {Response(i, ok)}
    BY <1>1, InFlightSteps, Zenon
  <2>2. /\ answered' = answered \cup {<<i, ok>>} /\ asked' = asked \ {i}
        /\ i \in asked
        /\ next_id' = next_id /\ op' = op /\ ended' = ended
    BY <1>1, Zenon DEF Answer, client
  <2>3. Genuine'
    <3> SUFFICES ASSUME NEW m \in InFlight', m.kind = "response"
                 PROVE  <<m.id, m.ok>> \in answered'
      BY Zenon DEF Genuine
    <3>1. CASE m \in InFlight
      BY <2>2, <3>1, Zenon DEF AnswerInv, Genuine
    <3>2. CASE m = Response(i, ok)
      <4>1. m.id = i /\ m.ok = ok  BY <3>2, ResponseFields, Zenon
      <4> QED  BY <2>2, <4>1, Zenon
    <3> QED  BY <2>1, <3>1, <3>2, Zenon
  <2>4. IdsUsed'
    <3>1. i <= next_id  BY <2>2, Zenon DEF AnswerInv, IdsUsed
    <3>2. ASSUME NEW j \in Ids, NEW o \in BOOLEAN, <<j, o>> \in answered'
          PROVE  j <= next_id
      <4>1. <<j, o>> \in answered \/ j = i  BY <2>2, <3>2, Zenon
      <4> QED  BY <3>1, <4>1, Zenon DEF AnswerInv, IdsUsed
    <3> QED  BY <2>2, <3>2, Zenon DEF AnswerInv, IdsUsed
  <2>5. AnswerComes'
    <3> SUFFICES ASSUME op' = "response", NEW o \in BOOLEAN,
                        <<next_id', o>> \in answered'
                 PROVE  Response(next_id, o) \in InFlight'
      BY <2>2, Zenon DEF AnswerComes, Response
    <3>1. <<next_id, o>> \in answered \/ (next_id = i /\ o = ok)
      BY <2>2, Zenon
    <3> QED  BY <2>1, <2>2, <3>1, Zenon DEF AnswerInv, AnswerComes
  <2>6. OwnAnswer'
    BY <2>2, Zenon DEF AnswerInv, OwnAnswer
  <2> QED  BY <2>3, <2>4, <2>5, <2>6, Zenon DEF AnswerInv
<1>2. ASSUME Notify PROVE AnswerInv'
  <2>1. InFlight' = InFlight \cup {Notification(Len(said) + 1)}
    BY <1>2, InFlightSteps, Zenon
  <2>2. UNCHANGED <<answered, asked, next_id, op, ended>>
    BY <1>2, Zenon DEF Notify, client
  <2>3. Genuine'
    <3>1. "event" # "response"  OBVIOUS
    <3> QED  BY <2>1, <2>2, <3>1, NotificationKind, Zenon
             DEF AnswerInv, Genuine
  <2>4. AnswerComes'
    BY <2>1, <2>2, Zenon DEF AnswerInv, AnswerComes, Response
  <2> QED  BY <2>2, <2>3, <2>4, Zenon DEF AnswerInv, IdsUsed, OwnAnswer
<1>3. ASSUME DaemonCloses PROVE AnswerInv'
  <2>1. UNCHANGED <<answered, asked, next_id, op, ended, buf, wire>>
    BY <1>3, Zenon DEF DaemonCloses, client
  <2> QED  BY <2>1, Zenon DEF AnswerInv, Genuine, IdsUsed, AnswerComes,
               OwnAnswer, InFlight, Elements, Response
<1> QED  BY <1>1, <1>2, <1>3, Zenon DEF Daemon

(* reading an answer ends the request it is for;                           *)
LEMMA AnswersReading ==
    ASSUME TypeOK, AnswerInv, Reading PROVE AnswerInv'
<1>1. ASSUME NEW n \in 1..Len(wire), Receive(n) PROVE AnswerInv'
  <2>1. InFlight' = InFlight  BY <1>1, InFlightSteps, Zenon
  <2>2. UNCHANGED <<answered, asked, next_id, op, ended>>
    BY <1>1, Zenon DEF Receive
  <2> QED  BY <2>1, <2>2, Zenon DEF AnswerInv, Genuine, IdsUsed, AnswerComes,
               OwnAnswer, Response
<1>2. ASSUME NothingCame PROVE AnswerInv'
  <2>1. UNCHANGED <<answered, asked, next_id, buf, wire>> /\ op' = "idle"
    BY <1>2, Zenon DEF NothingCame, daemon
  <2>2. Genuine' /\ IdsUsed'
    BY <2>1, Zenon DEF AnswerInv, Genuine, IdsUsed, InFlight, Elements
  <2>3. AnswerComes'
    <3>1. "idle" # "response"  OBVIOUS
    <3> QED  BY <2>1, <3>1, Zenon DEF AnswerComes
  <2>4. OwnAnswer'
    <3>1. ended' = ended \/ ended'.how \notin {"result", "error"}
      BY <1>2 DEF NothingCame
    <3> QED  BY <2>1, <3>1, Zenon DEF AnswerInv, OwnAnswer
  <2> QED  BY <2>2, <2>3, <2>4, Zenon DEF AnswerInv
<1>3. ASSUME WaitResponse PROVE AnswerInv'
  <2>1. PICK m \in Messages :
          /\ ResponseLine(m)
          /\ IF m.kind = "response" /\ m.id = next_id
             THEN EndRequest(m) ELSE Keep(m)
    BY <1>3, Zenon DEF WaitResponse
  <2>2. InFlight = InFlight' \cup {m}
    BY <2>1, InFlightSteps, Zenon
  <2>3. UNCHANGED <<answered, asked, next_id>>
    BY <2>1, Zenon DEF ResponseLine, daemon
  <2>4. Genuine' /\ IdsUsed'
    BY <2>2, <2>3, Zenon DEF AnswerInv, Genuine, IdsUsed
  <2>5. CASE m.kind = "response" /\ m.id = next_id
    <3>1. EndRequest(m)  BY <2>1, <2>5, Zenon
    <3>2. <<next_id, m.ok>> \in answered
      BY <2>2, <2>5, Zenon DEF AnswerInv, Genuine
    <3>3. m.ok \in BOOLEAN
      <4>1. CASE m \in Responses  BY <4>1, Zenon DEF Responses
      <4>2. CASE m \in Notifications
        BY <2>5, <4>2 DEF Notifications
      <4> QED  BY <4>1, <4>2, Zenon DEF Messages
    <3>4. /\ ended'.id = next_id
          /\ m.ok => ended'.how = "result"
          /\ ~m.ok => ended'.how = "error"
      BY <3>1 DEF EndRequest
    <3>5. (ended'.how = "result") = m.ok
      <4>1. "error" # "result"  OBVIOUS
      <4>2. CASE m.ok = TRUE  BY <3>4, <4>2, Zenon
      <4>3. CASE m.ok = FALSE  BY <3>4, <4>1, <4>3, Zenon
      <4> QED  BY <3>3, <4>2, <4>3, Zenon
    <3>6. OwnAnswer'
      BY <2>3, <3>2, <3>4, <3>5, Zenon DEF OwnAnswer
    <3>7. AnswerComes'
      <4>1. op' = "idle" /\ "idle" # "response"
        BY <3>1 DEF EndRequest
      <4> QED  BY <4>1, Zenon DEF AnswerComes
    <3> QED  BY <2>4, <3>6, <3>7, Zenon DEF AnswerInv
  <2>6. CASE ~(m.kind = "response" /\ m.id = next_id)
    <3>1. UNCHANGED <<op, ended>>  BY <2>1, <2>6, Zenon DEF Keep
    <3>2. \A ok : m # Response(next_id, ok)
      <4> SUFFICES ASSUME NEW ok, m = Response(next_id, ok) PROVE FALSE
        BY Zenon
      <4>1. m.kind = "response" /\ m.id = next_id
        BY ResponseFields, Zenon
      <4> QED  BY <2>6, <4>1, Zenon
    <3>3. AnswerComes'
      BY <2>2, <2>3, <3>1, <3>2, Zenon DEF AnswerInv, AnswerComes, Response
    <3> QED  BY <2>3, <2>4, <3>1, <3>3, Zenon DEF AnswerInv, OwnAnswer
  <2> QED  BY <2>5, <2>6, Zenon
<1>4. ASSUME ReadLine PROVE AnswerInv'
  <2>1. InFlight = InFlight' \cup {Head(buf)}
    BY <1>4, InFlightSteps, Zenon
  <2>2. UNCHANGED <<answered, asked, next_id, ended>>
    BY <1>4, Zenon DEF ReadLine, daemon
  <2>3. op' # "response"
    <3>1. op = "event" /\ op' \in {op, "idle"}  BY <1>4, Zenon DEF ReadLine
    <3> QED  BY <3>1
  <2> QED  BY <2>1, <2>2, <2>3, Zenon
           DEF AnswerInv, Genuine, IdsUsed, AnswerComes, OwnAnswer
<1> QED  BY <1>1, <1>2, <1>3, <1>4, Zenon DEF Reading

(* a new request has an id that was not used.                              *)
LEMMA AnswersCalling ==
    ASSUME TypeOK, AnswerInv, Calling PROVE AnswerInv'
<1>1. ASSUME Send PROVE AnswerInv'
  <2>1. /\ next_id' = next_id + 1 /\ next_id \in 0..MAX_REQUESTS
        /\ next_id < MAX_REQUESTS
        /\ UNCHANGED <<buf, wire, answered>>
        /\ asked' \subseteq asked \cup {next_id'}
    BY <1>1, Zenon DEF TypeOK, Send
  <2>2. next_id \in Nat /\ next_id' \in Nat /\ next_id < next_id'
    BY <2>1
  <2>3. Genuine'
    BY <2>1, Zenon DEF AnswerInv, Genuine, InFlight, Elements
  <2>4. IdsUsed'
    <3>1. \A i \in Ids : i <= next_id => i <= next_id'
      BY <2>2, BoundsAssumption DEF Ids
    <3>2. next_id' <= next_id'  BY <2>2
    <3>3. asked \subseteq Ids  BY Zenon DEF TypeOK
    <3> QED  BY <2>1, <3>1, <3>2, <3>3, Zenon DEF AnswerInv, IdsUsed
  <2>5. AnswerComes'
    <3>1. next_id' \in Ids
      BY <2>1, BoundsAssumption DEF Ids
    <3>2. ~(next_id' <= next_id)
      BY <2>2
    <3>3. \A ok \in BOOLEAN : <<next_id', ok>> \notin answered
      BY <3>1, <3>2, Zenon DEF AnswerInv, IdsUsed
    <3> QED  BY <2>1, <3>3, Zenon DEF AnswerComes
  <2>6. OwnAnswer'
    <3>1. ended' = ended \/ ended'.how \notin {"result", "error"}
      BY <1>1 DEF Send
    <3> QED  BY <2>1, <3>1, Zenon DEF AnswerInv, OwnAnswer
  <2> QED  BY <2>3, <2>4, <2>5, <2>6, Zenon DEF AnswerInv
<1>2. ASSUME ReadKept \/ ReadWaits \/ Close PROVE AnswerInv'
  <2>1. /\ UNCHANGED <<answered, asked, next_id, ended, buf, wire>>
        /\ op' \in {op, "event", "over"} /\ op = "idle"
    BY <1>2, Zenon DEF ReadKept, ReadWaits, Close, daemon
  <2>2. op' # "response"
    BY <2>1
  <2> QED  BY <2>1, <2>2, Zenon DEF AnswerInv, Genuine, IdsUsed, AnswerComes,
               OwnAnswer, InFlight, Elements
<1> QED  BY <1>1, <1>2, Zenon DEF Calling

(* Types and answers, in every reachable state.                            *)
LEMMA AnswerInvariant == Spec => [](TypeOK /\ AnswerInv)
<1>1. Init => AnswerInv
  <2> SUFFICES ASSUME Init PROVE AnswerInv  OBVIOUS
  <2>1. InFlight = {}
    <3>1. buf = <<>> /\ wire = <<>>  BY Zenon DEF Init
    <3>2. \A S : <<>> \in Seq(S)  OBVIOUS
    <3>3. Elements(<<>>) = {}  BY <3>2, ElementsOf, Zenon
    <3>4. Elements(buf) = {} /\ Elements(wire) = {}
      BY <3>1, <3>3, Zenon
    <3> QED  BY <3>4 DEF InFlight
  <2>2. OwnAnswer
    BY DEF Init, OwnAnswer
  <2>3. op # "response"
    BY DEF Init
  <2> QED  BY <2>1, <2>2, <2>3, Zenon
           DEF Init, AnswerInv, Genuine, IdsUsed, AnswerComes
<1>2. TypeOK /\ AnswerInv /\ [Next]_vars => AnswerInv'
  <2> SUFFICES ASSUME TypeOK, AnswerInv, [Next]_vars PROVE AnswerInv'
    OBVIOUS
  <2>1. CASE UNCHANGED vars \/ Over
    <3>1. UNCHANGED <<answered, asked, next_id, op, ended, buf, wire>>
      BY <2>1, Zenon DEF Over, vars, client, daemon
    <3> QED  BY <3>1, Zenon DEF AnswerInv, Genuine, IdsUsed, AnswerComes,
                 OwnAnswer, InFlight, Elements, Response
  <2> QED  BY <2>1, AnswersDaemon, AnswersReading, AnswersCalling, Zenon
           DEF Next
<1> QED  BY <1>1, <1>2, TypeCorrect, PTL DEF Spec

(* A request ends with the daemon's answer to that request and no other,   *)
(* however late the answers to earlier ones come (_wait_response).         *)
THEOREM AnswersAreOwn == Spec => []OwnAnswer
<1>1. AnswerInv => OwnAnswer  BY Zenon DEF AnswerInv
<1> QED  BY <1>1, AnswerInvariant, PTL

(* A request that times out had not been answered: no answer is read over  *)
(* while its request waits (_wait_response, _read_lines).                  *)
THEOREM TimeoutsAreSilent == Spec => TimeoutMeansSilence
<1> DEFINE Silent == ended'.how = "timeout" /\ ended' # ended =>
                       \A ok \in BOOLEAN : <<ended'.id, ok>> \notin answered
<1>1. TypeOK /\ AnswerInv /\ [Next]_vars => [Silent]_vars
  <2> SUFFICES ASSUME TypeOK, AnswerInv, [Next]_vars,
                      ended'.how = "timeout", ended' # ended,
                      NEW ok \in BOOLEAN
               PROVE  <<ended'.id, ok>> \notin answered
    BY Zenon
  <2>1. NothingCame
    <3>1. CASE Daemon \/ UNCHANGED vars \/ Over
      BY <3>1, Zenon DEF Daemon, Answer, Notify, DaemonCloses, Over, vars,
                         client
    <3>2. CASE Calling
      <4>1. Send  BY <3>2, Zenon DEF Calling, ReadKept, ReadWaits, Close
      <4>2. ended' = ended \/ ended'.how = "broken"  BY <4>1 DEF Send
      <4> QED  BY <4>2
    <3>3. CASE WaitResponse
      <4>1. PICK m \in Messages : EndRequest(m) \/ Keep(m)
        BY <3>3, Zenon DEF WaitResponse
      <4>2. ended' = ended \/ ended'.how \in {"result", "error"}
        BY <4>1 DEF EndRequest, Keep
      <4> QED  BY <4>2
    <3>4. CASE ReadLine \/ \E n \in 1..Len(wire) : Receive(n)
      BY <3>4, Zenon DEF ReadLine, Receive
    <3> QED  BY <3>1, <3>2, <3>3, <3>4, Zenon DEF Next, Reading
  <2>2. /\ op = "response" /\ ended'.id = next_id
        /\ buf = <<>> /\ wire = <<>>
    BY <2>1 DEF NothingCame, Waiting
  <2>3. InFlight = {}
    BY <2>2 DEF InFlight, Elements
  <2> QED  BY <2>2, <2>3, Zenon DEF AnswerInv, AnswerComes
<1>2. TimeoutMeansSilence <=> [][Silent]_vars
  BY PTL DEF TimeoutMeansSilence
<1> QED  BY <1>1, <1>2, AnswerInvariant, PTL DEF Spec

-----------------------------------------------------------------------------
(* Notifications.                                                          *)

(* A message is a notification or a response.                              *)
LEMMA MessageKinds ==
    /\ \A m \in Messages : m \in Notifications <=> m.kind # "response"
    /\ \A i, ok : Response(i, ok) \notin Notifications
<1>1. \A m \in Notifications : m.kind = "event"
  BY DEF Notifications
<1>2. \A m \in Responses : m.kind = "response"
  BY DEF Responses
<1>3. "event" # "response"
  OBVIOUS
<1>4. \A i, ok : Response(i, ok).kind = "response"
  BY DEF Response
<1> QED
  BY <1>1, <1>2, <1>3, <1>4, Zenon DEF Messages

(* Four parts in their order.                                              *)
Whole(a, b, c, d) == ((a \o b) \o c) \o d

(* What is appended to the last part is appended to the whole.             *)
LEMMA LastPartGrows ==
    ASSUME NEW S, NEW a \in Seq(S), NEW b \in Seq(S), NEW c \in Seq(S),
           NEW d \in Seq(S), NEW e \in S, NEW d1, IsAppend(d1, d, e),
           NEW all, Whole(a, b, c, d) = all, NEW all1, IsAppend(all1, all, e)
    PROVE  Whole(a, b, c, d1) = all1
<1> DEFINE abc == (a \o b) \o c
<1>1. abc \in Seq(S)
  BY ConcatProperties
<1> HIDE DEF abc
<1>2. abc \o Append(d, e) = Append(abc \o d, e)
  BY <1>1, PartsMove
<1> QED
  BY <1>2 DEF abc, Whole, IsAppend

(* The last part is divided between the last two.                          *)
LEMMA LastPartDivides ==
    ASSUME NEW S, NEW a \in Seq(S), NEW b \in Seq(S), NEW c \in Seq(S),
           NEW d \in Seq(S)
    PROVE  Whole(a, b, <<>>, c \o d) = Whole(a, b, c, d)
<1> DEFINE ab == a \o b
<1>1. ab \in Seq(S)
  BY ConcatProperties
<1> HIDE DEF ab
<1>2. ab \o <<>> = ab
  BY <1>1, ConcatEmptySeq
<1>3. (ab \o c) \o d = ab \o (c \o d)
  BY <1>1, ConcatAssociative
<1> QED
  BY <1>2, <1>3 DEF ab, Whole

(* An element passes from one part to the one before it, or past an empty  *)
(* one.                                                                    *)
LEMMA PartsPass ==
    ASSUME NEW S, NEW a \in Seq(S), NEW b \in Seq(S), NEW c \in Seq(S),
           NEW d \in Seq(S), NEW e \in S
    PROVE  /\ Whole(a, Append(b, e), c, d) = Whole(a, b, <<e>> \o c, d)
           /\ Whole(Append(a, e), b, c, d) = Whole(a, <<e>> \o b, c, d)
           /\ Whole(Append(a, e), <<>>, c, d) = Whole(a, <<>>, <<e>> \o c, d)
<1> DEFINE ab == a \o b
           ae == Append(a, e)
<1>1. ab \in Seq(S) /\ ae \in Seq(S)
  BY ConcatProperties, AppendElements
<1> HIDE DEF ab, ae
<1>2. (a \o Append(b, e)) \o c = ab \o (<<e>> \o c)
  <2>1. a \o Append(b, e) = Append(ab, e)
    BY PartsMove DEF ab
  <2>2. Append(ab, e) \o c = ab \o (<<e>> \o c)
    BY <1>1, PartsMove
  <2> QED
    BY <2>1, <2>2
<1>3. ae \o b = a \o (<<e>> \o b)
  BY PartsMove DEF ae
<1>4. (ae \o <<>>) \o c = (a \o <<>>) \o (<<e>> \o c)
  <2>1. ae \o <<>> = ae /\ a \o <<>> = a
    BY <1>1, ConcatEmptySeq
  <2>2. ae \o c = a \o (<<e>> \o c)
    BY PartsMove DEF ae
  <2> QED
    BY <2>1, <2>2
<1> QED
  BY <1>2, <1>3, <1>4 DEF ab, ae, Whole

(* Events of messages are notifications; one more, or one less, is an      *)
(* event or makes no difference.                                           *)
LEMMA EventsOf ==
    ASSUME NEW s \in Seq(Messages)
    PROVE  /\ Events(s) \in Seq(Notifications)
           /\ \A m \in Messages :
                 Events(Append(s, m)) = IF m \in Notifications
                                        THEN Append(Events(s), m)
                                        ELSE Events(s)
           /\ s # <<>> =>
                 Events(s) = IF Head(s) \in Notifications
                             THEN <<Head(s)>> \o Events(Tail(s))
                             ELSE Events(Tail(s))
           /\ \A n \in 1..Len(s) :
                 Events(s) = Events(SubSeq(s, 1, n))
                               \o Events(SubSeq(s, n + 1, Len(s)))
           /\ Events(<<>>) = <<>>
<1>1. Events(s) \in Seq(Notifications)
  <2>1. Only(s, Notifications) \in Seq(Messages \cap Notifications)
    BY OnlyType
  <2>2. Messages \cap Notifications = Notifications
    BY DEF Messages
  <2> QED
    BY <2>1, <2>2 DEF Events
<1>2. ASSUME NEW m \in Messages
      PROVE  Events(Append(s, m)) = IF m \in Notifications
                                    THEN Append(Events(s), m)
                                    ELSE Events(s)
  BY OnlyAppend DEF Events
<1>3. s # <<>> =>
          Events(s) = IF Head(s) \in Notifications
                      THEN <<Head(s)>> \o Events(Tail(s))
                      ELSE Events(Tail(s))
  BY OnlyTail DEF Events
<1>4. ASSUME NEW n \in 1..Len(s)
      PROVE  Events(s) = Events(SubSeq(s, 1, n))
                           \o Events(SubSeq(s, n + 1, Len(s)))
  BY OnlyCut DEF Events
<1>5. Events(<<>>) = <<>>
  BY OnlyEmpty DEF Events
<1> QED
  BY <1>1, <1>2, <1>3, <1>4, <1>5

(* read_event waits only when no notification is kept, and keeps none: a   *)
(* notification it reads from the socket overtakes no other.               *)
NoneKept == op = "event" => Events(pending_events) = <<>>

(* Where the notifications are, from the caller to the socket.             *)
Given == Events(given)
Kept == Events(pending_events)
Buffered == Events(buf)
InSocket == Events(wire)

KeptInv == EventsKept /\ NoneKept

(* Each part is a sequence of notifications.                               *)
LEMMA PartTypes ==
    TypeOK => /\ Given \in Seq(Notifications)
              /\ Kept \in Seq(Notifications)
              /\ Buffered \in Seq(Notifications)
              /\ InSocket \in Seq(Notifications)
BY EventsOf DEF TypeOK, Given, Kept, Buffered, InSocket

(* Nothing was sent yet.                                                   *)
LEMMA InitialEvents == Init => KeptInv
<1> SUFFICES ASSUME Init PROVE KeptInv
  OBVIOUS
<1>1. Events(<<>>) = <<>> /\ <<>> \o <<>> = <<>>
  <2>1. \A S : <<>> \in Seq(S)
    BY EmptySeq
  <2> QED
    BY <2>1, EventsOf, ConcatEmptySeq
<1>2. /\ given = <<>> /\ pending_events = <<>> /\ buf = <<>> /\ wire = <<>>
      /\ said = <<>>
  BY DEF Init
<1> QED
  BY <1>1, <1>2 DEF KeptInv, EventsKept, NoneKept

(* What every step does to the four parts: a notification is appended to   *)
(* the last part, or moves from the front of one to the end of the one     *)
(* before it.                                                              *)
EventsStep ==
    \/ \E e \in Notifications :
          /\ InSocket' = Append(InSocket, e) /\ said' = Append(said, e)
          /\ UNCHANGED <<Given, Kept, Buffered>>
    \/ /\ Buffered = <<>> /\ InSocket = Buffered' \o InSocket'
       /\ UNCHANGED <<Given, Kept, said>>
    \/ \E e \in Notifications :
          /\ Buffered = <<e>> \o Buffered' /\ Kept' = Append(Kept, e)
          /\ UNCHANGED <<Given, InSocket, said>>
    \/ \E e \in Notifications :
          /\ Kept = <<e>> \o Kept' /\ Given' = Append(Given, e)
          /\ UNCHANGED <<Buffered, InSocket, said>>
    \/ \E e \in Notifications :
          /\ Kept = <<>> /\ Buffered = <<e>> \o Buffered'
          /\ Given' = Append(Given, e)
          /\ UNCHANGED <<Kept, InSocket, said>>
    \/ UNCHANGED <<Given, Kept, Buffered, InSocket, said>>

(* Each step of the client and the daemon is one of these.                 *)
LEMMA EventsSteps ==
    TypeOK /\ TypeOK' /\ NoneKept /\ [Next]_vars => EventsStep /\ NoneKept'
<1> SUFFICES ASSUME TypeOK, TypeOK', NoneKept, [Next]_vars
             PROVE  EventsStep /\ NoneKept'
  OBVIOUS
<1>0. /\ buf \in Seq(Messages) /\ wire \in Seq(Messages)
      /\ pending_events \in Seq(Messages) /\ given \in Seq(Messages)
      /\ said \in Seq(Notifications)
  BY Zenon DEF TypeOK
<1>1. ASSUME NEW i \in Ids, NEW ok \in BOOLEAN, Answer(i, ok)
      PROVE  EventsStep /\ NoneKept'
  <2>1. /\ wire' = Append(wire, Response(i, ok))
        /\ UNCHANGED <<buf, pending_events, given, said, op>>
    BY <1>1, Zenon DEF Answer, client
  <2>2. Response(i, ok) \in Messages /\ Response(i, ok) \notin Notifications
    BY MessageTypes, MessageKinds, Zenon
  <2>3. Events(Append(wire, Response(i, ok))) = Events(wire)
    BY <1>0, <2>2, EventsOf
  <2>4. InSocket' = InSocket
    BY <2>1, <2>3, Zenon DEF InSocket
  <2> QED
    BY <2>1, <2>4, Zenon DEF EventsStep, NoneKept, Given, Kept, Buffered
<1>2. ASSUME Notify PROVE EventsStep /\ NoneKept'
  <2> DEFINE e == Notification(Len(said) + 1)
  <2>1. /\ wire' = Append(wire, e) /\ said' = Append(said, e)
        /\ UNCHANGED <<buf, pending_events, given, op>>
    BY <1>2, Zenon DEF Notify, client
  <2>2. e \in Notifications /\ e \in Messages
    <3>1. said \in Seq(Notifications) /\ Len(said) < MAX_EVENTS
      BY <1>2, Zenon DEF TypeOK, Notify
    <3>2. Len(said) + 1 \in 1..MAX_EVENTS
      BY <3>1, BoundsAssumption
    <3> QED  BY <3>2, MessageTypes, Zenon
  <2> HIDE DEF e
  <2>3. Events(Append(wire, e)) = Append(Events(wire), e)
    BY <1>0, <2>2, EventsOf
  <2>4. InSocket' = Append(InSocket, e)
    BY <2>1, <2>3, Zenon DEF InSocket
  <2> QED
    BY <2>1, <2>2, <2>4, Zenon DEF EventsStep, NoneKept, Given, Kept, Buffered
<1>3. ASSUME NEW n \in 1..Len(wire), Receive(n) PROVE EventsStep /\ NoneKept'
  <2>1. /\ buf = <<>> /\ buf' = SubSeq(wire, 1, n)
        /\ wire' = SubSeq(wire, n + 1, Len(wire))
        /\ UNCHANGED <<pending_events, given, said, op>>
    BY <1>3, Zenon DEF Receive
  <2>2. Events(wire) = Events(SubSeq(wire, 1, n))
                         \o Events(SubSeq(wire, n + 1, Len(wire)))
    BY <1>0, EventsOf
  <2>3. Events(<<>>) = <<>>
    BY <1>0, EventsOf
  <2>4. Buffered = <<>> /\ InSocket = Buffered' \o InSocket'
    BY <2>1, <2>2, <2>3, Zenon DEF InSocket, Buffered
  <2> QED
    BY <2>1, <2>4, Zenon DEF EventsStep, NoneKept, Given, Kept
<1>4. ASSUME NothingCame PROVE EventsStep /\ NoneKept'
  <2>1. UNCHANGED <<buf, wire, pending_events, given, said>> /\ op' = "idle"
    BY <1>4, Zenon DEF NothingCame, daemon
  <2>2. op' # "event"
    BY <2>1
  <2> QED
    BY <2>1, <2>2, Zenon
    DEF EventsStep, NoneKept, Given, Kept, Buffered, InSocket
<1>5. ASSUME WaitResponse PROVE EventsStep /\ NoneKept'
  <2>1. PICK m \in Messages :
          /\ ResponseLine(m)
          /\ IF m.kind = "response" /\ m.id = next_id
             THEN EndRequest(m) ELSE Keep(m)
    BY <1>5, Zenon DEF WaitResponse
  <2>2. /\ op = "response" /\ buf # <<>> /\ m = Head(buf)
        /\ buf' = Tail(buf)
        /\ UNCHANGED <<wire, given, said>>
    BY <2>1, Zenon DEF ResponseLine, daemon
  <2>3. Buffered = IF m \in Notifications THEN <<m>> \o Buffered'
                                          ELSE Buffered'
    BY <1>0, <2>2, EventsOf DEF Buffered
  <2>4. op' # "event"
    <3>1. op' = op \/ op' = "idle"
      BY <2>1, Zenon DEF EndRequest, Keep
    <3> QED  BY <2>2, <3>1
  <2>5. CASE m \in Notifications
    <3>1. m.kind # "response"
      BY <2>5, MessageKinds, Zenon
    <3>2. pending_events' = Append(pending_events, m)
      BY <2>1, <3>1, Zenon DEF Keep
    <3>3. Events(Append(pending_events, m)) = Append(Events(pending_events), m)
      BY <1>0, <2>5, EventsOf
    <3>4. Kept' = Append(Kept, m)
      BY <3>2, <3>3, Zenon DEF Kept
    <3>5. Buffered = <<m>> \o Buffered'
      BY <2>3, <2>5, Zenon
    <3>6. UNCHANGED <<Given, InSocket, said>>
      BY <2>2, Zenon DEF Given, InSocket
    <3>7. EventsStep
      BY <2>5, <3>4, <3>5, <3>6, Zenon DEF EventsStep
    <3> QED
      BY <2>4, <3>7, Zenon DEF NoneKept
  <2>6. CASE m \notin Notifications
    <3>1. \/ pending_events' = pending_events
          \/ pending_events' = Append(pending_events, m)
      BY <2>1, Zenon DEF EndRequest, Keep
    <3>2. Events(Append(pending_events, m)) = Events(pending_events)
      BY <1>0, <2>6, EventsOf
    <3>3. Kept' = Kept
      BY <3>1, <3>2, Zenon DEF Kept
    <3>4. Buffered' = Buffered
      BY <2>3, <2>6, Zenon
    <3>5. UNCHANGED <<Given, InSocket, said>>
      BY <2>2, Zenon DEF Given, InSocket
    <3>6. EventsStep
      BY <3>3, <3>4, <3>5, Zenon DEF EventsStep
    <3> QED
      BY <2>4, <3>6, Zenon DEF NoneKept
  <2> QED  BY <2>5, <2>6
<1>6. ASSUME ReadLine PROVE EventsStep /\ NoneKept'
  <2> DEFINE m == Head(buf)
  <2>1. /\ op = "event" /\ buf # <<>> /\ buf' = Tail(buf)
        /\ UNCHANGED <<wire, said>>
        /\ m.kind = "response" =>
              /\ pending_events' = Append(pending_events, m)
              /\ UNCHANGED <<op, given>>
        /\ m.kind # "response" =>
              /\ given' = Append(given, m) /\ op' = "idle"
              /\ UNCHANGED pending_events
    BY <1>6, Zenon DEF ReadLine, daemon
  <2>2. m \in Messages
    BY <1>0, <2>1, TailElements
  <2>3. Buffered = IF m \in Notifications THEN <<m>> \o Buffered'
                                          ELSE Buffered'
    BY <1>0, <2>1, EventsOf DEF Buffered
  <2> HIDE DEF m
  <2>4. Kept = <<>>
    BY <2>1, Zenon DEF NoneKept, Kept
  <2>5. CASE m.kind = "response"
    <3>1. m \notin Notifications
      BY <2>2, <2>5, MessageKinds, Zenon
    <3>2. Events(Append(pending_events, m)) = Events(pending_events)
      BY <1>0, <2>2, <3>1, EventsOf
    <3>3. Kept' = Kept
      BY <2>1, <2>5, <3>2, Zenon DEF Kept
    <3>4. Buffered' = Buffered
      BY <2>3, <3>1, Zenon
    <3>5. UNCHANGED <<Given, InSocket, said>>
      BY <2>1, <2>5, Zenon DEF Given, InSocket
    <3> QED
      BY <2>4, <3>3, <3>4, <3>5, Zenon DEF EventsStep, NoneKept, Kept
  <2>6. CASE m.kind # "response"
    <3>1. m \in Notifications
      BY <2>2, <2>6, MessageKinds, Zenon
    <3>2. Events(Append(given, m)) = Append(Events(given), m)
      BY <1>0, <2>2, <3>1, EventsOf
    <3>3. Given' = Append(Given, m)
      BY <2>1, <2>6, <3>2, Zenon DEF Given
    <3>4. Buffered = <<m>> \o Buffered'
      BY <2>3, <3>1, Zenon
    <3>5. UNCHANGED <<Kept, InSocket, said>>
      BY <2>1, <2>6, Zenon DEF Kept, InSocket
    <3>6. EventsStep
      BY <2>4, <3>1, <3>3, <3>4, <3>5, Zenon DEF EventsStep
    <3> QED
      BY <2>4, <3>5, <3>6, Zenon DEF NoneKept, Kept
  <2> QED  BY <2>5, <2>6
<1>7. ASSUME Send PROVE EventsStep /\ NoneKept'
  <2>1. UNCHANGED <<buf, wire, pending_events, given, said>>
    BY <1>7, Zenon DEF Send
  <2>2. op' # "event"
    <3>1. op = "idle" /\ (op' = op \/ op' = "response")
      BY <1>7, Zenon DEF Send
    <3> QED  BY <3>1
  <2> QED
    BY <2>1, <2>2, Zenon
    DEF EventsStep, NoneKept, Given, Kept, Buffered, InSocket
<1>8. ASSUME ReadKept PROVE EventsStep /\ NoneKept'
  <2> DEFINE m == Head(pending_events)
  <2>1. /\ op = "idle" /\ op' = op /\ pending_events # <<>>
        /\ given' = Append(given, m)
        /\ pending_events' = Tail(pending_events)
        /\ UNCHANGED <<buf, wire, said>>
    BY <1>8, Zenon DEF ReadKept, daemon
  <2>2. m \in Messages
    BY <1>0, <2>1, TailElements
  <2>3. Kept = IF m \in Notifications THEN <<m>> \o Kept' ELSE Kept'
    BY <1>0, <2>1, EventsOf DEF Kept
  <2> HIDE DEF m
  <2>4. Events(Append(given, m)) = IF m \in Notifications
                                   THEN Append(Events(given), m)
                                   ELSE Events(given)
    BY <1>0, <2>2, EventsOf
  <2>5. Given' = IF m \in Notifications THEN Append(Given, m) ELSE Given
    BY <2>1, <2>4, Zenon DEF Given
  <2>6. UNCHANGED <<Buffered, InSocket, said>>
    BY <2>1, Zenon DEF Buffered, InSocket
  <2>7. EventsStep
    <3>1. CASE m \in Notifications
      BY <2>3, <2>5, <2>6, <3>1, Zenon DEF EventsStep
    <3>2. CASE m \notin Notifications
      BY <2>3, <2>5, <2>6, <3>2, Zenon DEF EventsStep
    <3> QED  BY <3>1, <3>2
  <2>8. op' # "event"
    BY <2>1
  <2> QED
    BY <2>7, <2>8, Zenon DEF NoneKept
<1>9. ASSUME ReadWaits PROVE EventsStep /\ NoneKept'
  <2>1. UNCHANGED <<buf, wire, pending_events, given, said>>
    BY <1>9, Zenon DEF ReadWaits, daemon
  <2>2. pending_events = <<>> /\ Events(<<>>) = <<>>
    BY <1>0, <1>9, EventsOf DEF ReadWaits
  <2> QED
    BY <2>1, <2>2, Zenon
    DEF EventsStep, NoneKept, Given, Kept, Buffered, InSocket
<1>10. ASSUME Close PROVE EventsStep /\ NoneKept'
  <2>1. UNCHANGED <<buf, wire, pending_events, given, said>> /\ op' = "over"
    BY <1>10, Zenon DEF Close, daemon
  <2>2. op' # "event"
    BY <2>1
  <2> QED
    BY <2>1, <2>2, Zenon
    DEF EventsStep, NoneKept, Given, Kept, Buffered, InSocket
<1>11. ASSUME DaemonCloses \/ Over \/ UNCHANGED vars
       PROVE  EventsStep /\ NoneKept'
  <2>1. UNCHANGED <<buf, wire, pending_events, given, said, op>>
    BY <1>11, Zenon DEF DaemonCloses, Over, vars, client, daemon
  <2> QED
    BY <2>1, Zenon DEF EventsStep, NoneKept, Given, Kept, Buffered, InSocket
<1> QED
  BY <1>1, <1>2, <1>3, <1>4, <1>5, <1>6, <1>7, <1>8, <1>9, <1>10, <1>11, Zenon
  DEF Next, Daemon, Reading, Calling

(* None is lost, doubled or overtaken by such a step.                      *)
LEMMA EventsStay ==
    TypeOK /\ TypeOK' /\ EventsKept /\ EventsStep => EventsKept'
<1> SUFFICES ASSUME TypeOK, TypeOK', EventsKept, EventsStep
             PROVE  Whole(Given', Kept', Buffered', InSocket') = said'
  BY DEF EventsKept, Given, Kept, Buffered, InSocket, Whole
<1> DEFINE N == Notifications
           whole == Whole(Given', Kept', Buffered', InSocket')
<1>1. /\ Given \in Seq(N) /\ Kept \in Seq(N)
      /\ Buffered \in Seq(N) /\ InSocket \in Seq(N)
  BY PartTypes
<1>2. /\ Given' \in Seq(N) /\ Kept' \in Seq(N)
      /\ Buffered' \in Seq(N) /\ InSocket' \in Seq(N)
  BY EventsOf DEF TypeOK, Given, Kept, Buffered, InSocket
<1>3. Whole(Given, Kept, Buffered, InSocket) = said
  BY DEF EventsKept, Given, Kept, Buffered, InSocket, Whole
<1> HIDE DEF N
<1>4. ASSUME NEW e \in N, InSocket' = Append(InSocket, e),
             said' = Append(said, e), UNCHANGED <<Given, Kept, Buffered>>
      PROVE  whole = said'
  <2>1. IsAppend(InSocket', InSocket, e) /\ IsAppend(said', said, e)
    BY <1>4 DEF IsAppend
  <2>2. Whole(Given, Kept, Buffered, InSocket') = said'
    BY <1>1, <1>3, <2>1, LastPartGrows
  <2> QED
    BY <1>4, <2>2
<1>5. ASSUME Buffered = <<>>, InSocket = Buffered' \o InSocket',
             UNCHANGED <<Given, Kept, said>>
      PROVE  whole = said'
  <2>1. Whole(Given, Kept, <<>>, Buffered' \o InSocket')
          = Whole(Given, Kept, Buffered', InSocket')
    BY <1>1, <1>2, LastPartDivides
  <2> QED
    BY <1>3, <1>5, <2>1
<1>6. ASSUME NEW e \in N, Buffered = <<e>> \o Buffered',
             Kept' = Append(Kept, e), UNCHANGED <<Given, InSocket, said>>
      PROVE  whole = said'
  <2>1. Whole(Given, Append(Kept, e), Buffered', InSocket)
          = Whole(Given, Kept, <<e>> \o Buffered', InSocket)
    BY <1>1, <1>2, PartsPass
  <2> QED
    BY <1>3, <1>6, <2>1
<1>7. ASSUME NEW e \in N, Kept = <<e>> \o Kept', Given' = Append(Given, e),
             UNCHANGED <<Buffered, InSocket, said>>
      PROVE  whole = said'
  <2>1. Whole(Append(Given, e), Kept', Buffered, InSocket)
          = Whole(Given, <<e>> \o Kept', Buffered, InSocket)
    BY <1>1, <1>2, PartsPass
  <2> QED
    BY <1>3, <1>7, <2>1
<1>8. ASSUME NEW e \in N, Kept = <<>>, Buffered = <<e>> \o Buffered',
             Given' = Append(Given, e), UNCHANGED <<Kept, InSocket, said>>
      PROVE  whole = said'
  <2>1. Whole(Append(Given, e), <<>>, Buffered', InSocket)
          = Whole(Given, <<>>, <<e>> \o Buffered', InSocket)
    BY <1>1, <1>2, PartsPass
  <2> QED
    BY <1>3, <1>8, <2>1
<1>9. ASSUME UNCHANGED <<Given, Kept, Buffered, InSocket, said>>
      PROVE  whole = said'
  BY <1>3, <1>9
<1> QED
  BY <1>4, <1>5, <1>6, <1>7, <1>8, <1>9, Zenon DEF EventsStep, N

(* Both hold in every state.                                               *)
LEMMA KeptInvariant == Spec => [](TypeOK /\ KeptInv)
<1>1. TypeOK /\ TypeOK' /\ KeptInv /\ [Next]_vars => KeptInv'
  BY EventsSteps, EventsStay, Zenon DEF KeptInv
<1> QED
  BY <1>1, InitialEvents, TypeCorrect, PTL DEF Spec

(* Every notification the daemon sent is in one place, in its order:       *)
(* nothing is lost to a response that is awaited, a timeout or a read that *)
(* stops early (_wait_response, read_event, _read_lines).                  *)
THEOREM EventsAreKept == Spec => []EventsKept
<1>1. KeptInv => EventsKept
  BY DEF KeptInv
<1> QED
  BY <1>1, KeptInvariant, PTL

(* The element behind the first Len(g) is the one appended to g next.      *)
LEMMA NextOfWhole ==
    ASSUME NEW S, NEW g \in Seq(S), NEW k \in Seq(S), NEW b \in Seq(S),
           NEW w \in Seq(S), NEW e \in S, NEW g1, IsAppend(g1, g, e),
           NEW all, Whole(g1, k, b, w) = all
    PROVE  IsNext(all, g, e)
<1> DEFINE ge == g1
           gk == ge \o k
           gkb == gk \o b
<1>1. /\ ge \in Seq(S) /\ Len(ge) = Len(g) + 1 /\ Len(g) \in Nat
      /\ ge[Len(g) + 1] = e
  BY AppendElements DEF IsAppend
<1> HIDE DEF ge
<1>2. /\ gk \in Seq(S) /\ Len(gk) >= Len(ge)
      /\ \A i \in 1..Len(ge) : gk[i] = ge[i]
  BY <1>1
<1> HIDE DEF gk
<1>3. /\ gkb \in Seq(S) /\ Len(gkb) >= Len(gk)
      /\ \A i \in 1..Len(gk) : gkb[i] = gk[i]
  BY <1>2
<1> HIDE DEF gkb
<1>4. /\ Len(gkb \o w) >= Len(gkb)
      /\ \A i \in 1..Len(gkb) : (gkb \o w)[i] = gkb[i]
  BY <1>3
<1>5. all = gkb \o w
  BY DEF gkb, gk, ge, Whole
<1>6. /\ Len(g) + 1 \in 1..Len(ge) /\ Len(g) + 1 \in 1..Len(gk)
      /\ Len(g) + 1 \in 1..Len(gkb)
  BY <1>1, <1>2, <1>3
<1>7. all[Len(g) + 1] = e
  BY <1>1, <1>2, <1>3, <1>4, <1>5, <1>6
<1>8. Len(g) < Len(all)
  <2>1. Len(gkb) \in Nat /\ Len(gkb \o w) \in Nat
    BY <1>3
  <2> QED
    BY <1>1, <1>4, <1>5, <1>6, <2>1
<1> QED
  BY <1>7, <1>8 DEF IsNext

(* What is given is the next notification that was sent.                   *)
LEMMA NextGiven ==
    ASSUME TypeOK, TypeOK', EventsKept', NEW e \in Notifications,
           Given' = Append(Given, e), said' = said
    PROVE  /\ Len(Given) < Len(said)
           /\ Given' = Append(Given, said[Len(Given) + 1])
<1> DEFINE N == Notifications
<1>1. Given \in Seq(N) /\ e \in N
  BY PartTypes
<1>2. Kept' \in Seq(N) /\ Buffered' \in Seq(N) /\ InSocket' \in Seq(N)
  BY EventsOf DEF TypeOK, Kept, Buffered, InSocket
<1>3. Whole(Given', Kept', Buffered', InSocket') = said'
  BY DEF EventsKept, Given, Kept, Buffered, InSocket, Whole
<1> HIDE DEF N
<1>4. IsAppend(Given', Given, e)
  BY DEF IsAppend
<1>5. IsNext(said', Given, e)
  BY <1>1, <1>2, <1>3, <1>4, NextOfWhole
<1> QED
  BY <1>5 DEF IsNext

(* The client implements the relay: notifications are given in the order   *)
(* in which they were sent, none skipped, whatever comes in between.       *)
THEOREM NotificationsInOrder == Spec => NotificationsRelayed
<1>1. Init => NotificationRelay!Init
  <2>1. \A S : <<>> \in Seq(S)
    BY EmptySeq
  <2>2. Events(<<>>) = <<>>
    BY <2>1, EventsOf
  <2> QED
    BY <2>2 DEF Init, NotificationRelay!Init
<1>2. TypeOK /\ TypeOK' /\ KeptInv /\ KeptInv' /\ [Next]_vars
        => [NotificationRelay!Next]_<<said, Events(given)>>
  <2> SUFFICES ASSUME TypeOK, TypeOK', KeptInv, KeptInv', [Next]_vars
               PROVE  \/ NotificationRelay!Next
                      \/ UNCHANGED <<said, Given>>
    BY DEF Given
  <2>1. EventsStep
    BY EventsSteps DEF KeptInv
  <2>2. ASSUME NEW e \in Notifications, said' = Append(said, e),
               UNCHANGED Given
        PROVE  NotificationRelay!Next
    BY <2>2 DEF NotificationRelay!Next, NotificationRelay!Send, Given
  <2>3. ASSUME NEW e \in Notifications, Given' = Append(Given, e),
               said' = said
        PROVE  NotificationRelay!Next
    <3>1. /\ Len(Given) < Len(said)
          /\ Given' = Append(Given, said[Len(Given) + 1])
      BY <2>3, NextGiven DEF KeptInv
    <3> QED
      BY <2>3, <3>1
      DEF NotificationRelay!Next, NotificationRelay!Deliver, Given
  <2> QED
    BY <2>1, <2>2, <2>3, Zenon DEF EventsStep
<1> QED
  BY <1>1, <1>2, KeptInvariant, PTL
  DEF Spec, NotificationsRelayed, NotificationRelay!Spec
=============================================================================
