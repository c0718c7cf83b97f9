----------------------------- MODULE SignalRpc -----------------------------
(***************************************************************************)
(* SignalRPC (voice-test/lib/signal_rpc.py): the client of the daemon's    *)
(* JSON-RPC socket, called by one thread, against a daemon (external) that *)
(* answers requests when and in the order it likes, sends notifications at *)
(* any time and may close the connection.                                  *)
(*                                                                         *)
(* Two orders meet here: responses are waited for by id, notifications are *)
(* read in order, and both come over one stream.  What is read while       *)
(* something else is awaited is kept in _pending_events.                   *)
(***************************************************************************)
EXTENDS Sublists

CONSTANTS
    MAX_REQUESTS,    \* bound on the requests of the caller
    MAX_EVENTS       \* bound on the notifications of the daemon

ASSUME BoundsAssumption == MAX_REQUESTS \in Nat /\ MAX_EVENTS \in Nat

VARIABLES
    next_id,             \* self._next_id
    buf,                 \* the complete lines of self._buf
    pending_events,      \* self._pending_events
    op,                  \* what is awaited, or "idle"; "over" after close()
    ended,               \* how the last request ended, with its id
    wire,                \* lines in the socket
    open,                \* FALSE: the daemon closed the connection
    asked,               \* requests the daemon has not answered
    answered,            \* answers it gave: id and whether it is a result
    said,                \* notifications it sent
    given                \* messages read_event returned

client == <<next_id, buf, pending_events, op, ended, given>>
daemon == <<wire, open, asked, answered, said>>
vars == <<client, daemon>>

Ids == 1..MAX_REQUESTS

(* One line of the daemon.  `ok` is FALSE for an error response.           *)
Responses     == [kind : {"response"}, id : Ids, ok : BOOLEAN]
Notifications == [kind : {"event"}, id : 1..MAX_EVENTS, ok : {TRUE}]
Messages      == Responses \cup Notifications

Response(i, ok) == [kind |-> "response", id |-> i, ok |-> ok]
Notification(n) == [kind |-> "event", id |-> n, ok |-> TRUE]

Endings ==
    [id  : 0..MAX_REQUESTS,
     how : {"", "result", "error", "timeout", "closed", "broken"}]

Events(messages) == Only(messages, Notifications)

TypeOK ==
    /\ next_id \in 0..MAX_REQUESTS
    /\ buf \in Seq(Messages) /\ wire \in Seq(Messages)
    /\ pending_events \in Seq(Messages) /\ given \in Seq(Messages)
    /\ op \in {"idle", "response", "event", "over"}
    /\ ended \in Endings
    /\ open \in BOOLEAN
    /\ asked \subseteq Ids
    /\ answered \subseteq (Ids \X BOOLEAN)
    /\ said \in Seq(Notifications)

Init ==
    /\ next_id = 0 /\ buf = <<>> /\ pending_events = <<>> /\ op = "idle"
    /\ ended = [id |-> 0, how |-> ""]
    /\ wire = <<>> /\ open = TRUE /\ asked = {} /\ answered = {}
    /\ said = <<>> /\ given = <<>>

-----------------------------------------------------------------------------
(* The daemon (external).                                                  *)

Answer(i, ok) ==
    /\ open /\ i \in asked
    /\ wire' = Append(wire, Response(i, ok))
    /\ asked' = asked \ {i}
    /\ answered' = answered \cup {<<i, ok>>}
    /\ UNCHANGED <<open, said, client>>

Notify ==
    /\ open /\ Len(said) < MAX_EVENTS
    /\ LET event == Notification(Len(said) + 1) IN
          /\ wire' = Append(wire, event)
          /\ said' = Append(said, event)
    /\ UNCHANGED <<open, asked, answered, client>>

DaemonCloses ==
    /\ open
    /\ open' = FALSE
    /\ UNCHANGED <<wire, asked, answered, said, client>>

-----------------------------------------------------------------------------
(* _read_lines: complete lines first, then whatever recv() finds.          *)

Waiting == op \in {"response", "event"}

(* Mutant: the next read starts with an empty buffer.                      *)
ReceiveFresh(n) ==
    /\ Waiting /\ n \in 1..Len(wire)
    /\ buf' = SubSeq(wire, 1, n)
    /\ wire' = SubSeq(wire, n + 1, Len(wire))
    /\ UNCHANGED <<next_id, pending_events, op, ended, given, open, asked,
                   answered, said>>

(* recv() returns up to 4096 bytes: some of the lines that wait.           *)
Receive(n) ==
    /\ Waiting /\ buf = <<>> /\ n \in 1..Len(wire)
    /\ buf' = SubSeq(wire, 1, n)
    /\ wire' = SubSeq(wire, n + 1, Len(wire))
    /\ UNCHANGED <<next_id, pending_events, op, ended, given, open, asked,
                   answered, said>>

(* Nothing came within the timeout, or nothing will come any more.         *)
NothingCame ==
    /\ Waiting /\ buf = <<>> /\ wire = <<>>
    /\ op' = "idle"
    /\ ended' = IF op = "event" THEN ended
                ELSE [id |-> next_id,
                      how |-> IF open THEN "timeout" ELSE "closed"]
    /\ UNCHANGED <<next_id, buf, pending_events, given, daemon>>

-----------------------------------------------------------------------------
(* Requests: _send and _wait_response.                                     *)

(* Mutant: the id is the counter's value before it is incremented.         *)
SendOldId ==
    /\ op = "idle" /\ next_id < MAX_REQUESTS
    /\ next_id' = next_id + 1
    /\ IF open
       THEN /\ op' = "response" /\ asked' = asked \cup {next_id}
            /\ UNCHANGED ended
       ELSE /\ ended' = [id |-> next_id, how |-> "broken"]
            /\ UNCHANGED <<op, asked>>
    /\ UNCHANGED <<buf, pending_events, given, wire, open, answered, said>>

(* The id is used up even when the daemon is gone and sendall() raises.    *)
Send ==
    /\ op = "idle" /\ next_id < MAX_REQUESTS
    /\ next_id' = next_id + 1
    /\ IF open
       THEN /\ op' = "response" /\ asked' = asked \cup {next_id'}
            /\ UNCHANGED ended
       ELSE /\ ended' = [id |-> next_id', how |-> "broken"]
            /\ UNCHANGED <<op, asked>>
    /\ UNCHANGED <<buf, pending_events, given, wire, open, answered, said>>

(* The next line of the response loop.                                     *)
ResponseLine(m) ==
    /\ op = "response" /\ buf # <<>> /\ m = Head(buf)
    /\ buf' = Tail(buf)
    /\ UNCHANGED <<next_id, given, daemon>>

Keep(m) ==
    /\ pending_events' = Append(pending_events, m)
    /\ UNCHANGED <<op, ended>>

EndRequest(m) ==
    /\ op' = "idle"
    /\ ended' = [id |-> next_id, how |-> IF m.ok THEN "result" ELSE "error"]
    /\ UNCHANGED pending_events

(* Mutant: the first response is taken for the answer.                     *)
AnyResponse ==
    \E m \in Messages :
        /\ ResponseLine(m)
        /\ IF m.kind = "response" THEN EndRequest(m) ELSE Keep(m)

(* Mutant: a response without a result is kept with the events.            *)
ResultsOnly ==
    \E m \in Messages :
        /\ ResponseLine(m)
        /\ IF m.kind = "response" /\ m.id = next_id /\ m.ok
           THEN EndRequest(m) ELSE Keep(m)

(* Only the response with the request's id ends the wait; an event or the  *)
(* late response to an earlier request is kept.                            *)
WaitResponse ==
    \E m \in Messages :
        /\ ResponseLine(m)
        /\ IF m.kind = "response" /\ m.id = next_id
           THEN EndRequest(m) ELSE Keep(m)

-----------------------------------------------------------------------------
(* read_event.                                                             *)

(* Mutant: the message kept last is given out first.                       *)
ReadKeptLast ==
    /\ op = "idle" /\ pending_events # <<>>
    /\ LET last == Len(pending_events) IN
          /\ given' = Append(given, pending_events[last])
          /\ pending_events' = SubSeq(pending_events, 1, last - 1)
    /\ UNCHANGED <<next_id, buf, op, ended, daemon>>

(* A kept message is returned as it is, a late response too.               *)
ReadKept ==
    /\ op = "idle" /\ pending_events # <<>>
    /\ given' = Append(given, Head(pending_events))
    /\ pending_events' = Tail(pending_events)
    /\ UNCHANGED <<next_id, buf, op, ended, daemon>>

ReadWaits ==
    /\ op = "idle" /\ pending_events = <<>>
    /\ op' = "event"
    /\ UNCHANGED <<next_id, buf, pending_events, ended, given, daemon>>

(* A response is kept and the reading goes on.                             *)
ReadLine ==
    /\ op = "event" /\ buf # <<>>
    /\ buf' = Tail(buf)
    /\ IF Head(buf).kind = "response"
       THEN /\ pending_events' = Append(pending_events, Head(buf))
            /\ UNCHANGED <<op, given>>
       ELSE /\ given' = Append(given, Head(buf))
            /\ op' = "idle"
            /\ UNCHANGED pending_events
    /\ UNCHANGED <<next_id, ended, daemon>>

Close ==
    /\ op = "idle"
    /\ op' = "over"
    /\ UNCHANGED <<next_id, buf, pending_events, ended, given, daemon>>

-----------------------------------------------------------------------------
Daemon ==
    \/ \E i \in Ids, ok \in BOOLEAN : Answer(i, ok)
    \/ Notify
    \/ DaemonCloses

Reading ==
    \/ \E n \in 1..Len(wire) : Receive(n)
    \/ NothingCame
    \/ WaitResponse
    \/ ReadLine

Calling == Send \/ ReadKept \/ ReadWaits \/ Close

(* Nobody reads any more.                                                  *)
Over == op = "over" /\ UNCHANGED vars

Next == Daemon \/ Reading \/ Calling \/ Over

Spec == Init /\ [][Next]_vars

-----------------------------------------------------------------------------
(* Every notification the daemon sent is, once and in its place, with the  *)
(* caller, among the kept ones, in the buffer or in the socket: none is    *)
(* lost or overtaken when a response is awaited, when a call times out     *)
(* with lines in the buffer, or when reading stops after the line wanted.  *)
EventsKept ==
    Events(given) \o Events(pending_events) \o Events(buf) \o Events(wire)
        = said

(* The caller gets the notifications in the order they were sent, none     *)
(* skipped.                                                                *)
NotificationRelay == INSTANCE Relay
    WITH Messages <- Notifications, sent <- said, received <- Events(given)
NotificationsRelayed == NotificationRelay!Spec

(* A request ends with the daemon's answer to that request, whatever       *)
(* answers to requests that timed out come in before it.                   *)
OwnAnswer ==
    ended.how \in {"result", "error"} =>
        <<ended.id, ended.how = "result">> \in answered

(* A request that timed out had not been answered by then: at the moment   *)
(* it gives up its answer is neither in the socket nor in the buffer, nor  *)
(* was it kept among the events.                                           *)
TimeoutMeansSilence ==
    [][ended'.how = "timeout" /\ ended' # ended =>
          \A ok \in BOOLEAN : <<ended'.id, ok>> \notin answered]_vars
=============================================================================
