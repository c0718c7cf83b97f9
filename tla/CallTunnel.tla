----------------------------- MODULE CallTunnel -----------------------------
(***************************************************************************)
(* The call tunnel between the parent process and RingRTC: startup, event  *)
(* loop and event forwarder (main.rs), the stdin reader and the stdout     *)
(* writer (control.rs), the platform callbacks (platform.rs), from the     *)
(* start of the process to its end.                                        *)
(*                                                                         *)
(*   parent -> stdin -> reader -> msgs -> event loop -> RingRTC            *)
(*   RingRTC -> callbacks -> events -> forwarder -> out -> writer -> stdout*)
(*                                                                         *)
(* The four channels are unbounded queues.  RingRTC and the parent are     *)
(* external: RingRTC calls back at any time after its first call, a call   *)
(* into it may fail; the parent writes lines, stops reading, closes either *)
(* pipe and signals as it likes.                                           *)
(***************************************************************************)
EXTENDS AudioBinding, Sublists

CONSTANTS
    Peers,           \* the peer ids the parent names
    CallIds,         \* the call ids the parent names
    CONFIG_CALL,     \* config.call_id
    Absent,          \* a field the parent left out of its line
    ParentLines,     \* the lines the parent may write in this instance
    Callbacks,       \* the callbacks RingRTC makes in this instance
    MAX_LINES,       \* bound on the lines the parent writes
    MAX_EVENTS,      \* bound on the callbacks of RingRTC
    PIPE_CAP         \* lines the stdout pipe holds before a write blocks

AllCommandTypes ==
    {"createOutgoingCall", "proceed", "receivedOffer", "receivedAnswer",
     "receivedIce", "accept", "hangup"}

(* RingRTC's callbacks: the messages given to send_signaling and the       *)
(* states given to handle_call_state.                                      *)
SignalingMessages == {"Offer", "Answer", "Ice", "Hangup", "Busy"}
CallStates ==
    {"Incoming", "Outgoing", "Ringing", "Connected", "Connecting", "Ended",
     "Rejected", "Concluded"}

(* A line of the parent.  "config" is a configuration that parses; "junk"  *)
(* stands for blank lines and those nobody can parse; "torn" for one that  *)
(* is not UTF-8, on which the read fails.  `valid` is FALSE when RingRTC   *)
(* cannot parse the opaque blob of an offer or an answer.                  *)
RawLines ==
    [type : AllCommandTypes \cup {"config", "junk", "torn"},
     peer : Peers \cup {Absent}, call : CallIds \cup {Absent},
     valid : BOOLEAN]

ASSUME LinesAssumption ==
    /\ ParentLines \subseteq RawLines
    /\ Absent \notin Peers /\ Absent \notin CallIds
ASSUME CallbacksAssumption ==
    Callbacks \subseteq (SignalingMessages \cup CallStates)
ASSUME BoundsAssumption ==
    /\ MAX_LINES \in Nat /\ MAX_EVENTS \in Nat /\ PIPE_CAP \in Nat \ {0}

VARIABLES
    stdin, stdinOpen,      \* lines in the pipe; FALSE: the parent closed it
    written,               \* lines the parent wrote
    reader,                \* stdin reader thread: "new", "run", "done"
    msgs,                  \* parsed messages for the event loop
    main,                  \* where main() is, see MainSteps
    active_peer_id,
    terminate,             \* the flag SIGTERM sets
    ending,                \* why it ended: "none" (not yet), "error",
                           \* "killed", "eof", "term", "hangup"
    ringing,               \* TRUE once RingRTC was handed a call
    owesHangup,            \* RingRTC accepted hangup() and has not told yet
    events,                \* platform events for the forwarder
    out,                   \* lines for the writer
    writer,                \* stdout writer thread: "new", "run", "done"
    stdout, unread,        \* lines written; how many the parent has not read
    stdoutOpen,            \* FALSE: the parent closed its end
    issued, handled,       \* commands the parent wrote; commands handled
    torn,                  \* TRUE once the parent wrote a torn line
    readable,              \* commands it had issued by then
    emitted,               \* lines of the events RingRTC reported
    calls                  \* RingRTC calls made, with their peer and call id

writtenVars == <<written, issued, torn, readable>>
inVars   == <<stdin, stdinOpen, writtenVars>>
loopVars == <<main, active_peer_id, ending, handled, calls, bindingVars>>
ringVars == <<ringing, owesHangup, events, emitted>>
outVars  == <<out, writer, stdout, unread, stdoutOpen>>
vars == <<inVars, reader, msgs, loopVars, terminate, ringVars, outVars>>

-----------------------------------------------------------------------------
(* The peer ids and call ids a parsed command can hold, defaults included. *)
PeerIds == Peers \cup {"empty", "remote"}
AnyCall == CallIds \cup {0, CONFIG_CALL}

Commands == [type : AllCommandTypes, peer : PeerIds, call : AnyCall,
             valid : BOOLEAN]

(* Mutant: a missing call id stays missing.                                *)
parse_message_no_default(l) ==
    [type  |-> l.type,
     peer  |-> IF l.peer = Absent THEN "empty" ELSE l.peer,
     call  |-> l.call,
     valid |-> l.valid]

(* parse_message: a missing call id is 0, a missing peer id the empty      *)
(* string ("empty" here) or, in an offer, "remote".                        *)
parse_message(l) ==
    [type  |-> l.type,
     peer  |-> CASE l.peer # Absent           -> l.peer
                 [] l.type = "receivedOffer" -> "remote"
                 [] OTHER                    -> "empty",
     call  |-> IF l.call = Absent THEN 0 ELSE l.call,
     valid |-> l.valid]

Line(type, detail) == [type |-> type, detail |-> detail]
ReadyLine == Line("ready", "none")
ErrorLine == Line("error", "none")

(* send_signaling and handle_call_state, then to_json: a callback's line.  *)
LineOf(cb) ==
    CASE cb = "Offer"  -> Line("sendOffer", "none")
      [] cb = "Answer" -> Line("sendAnswer", "none")
      [] cb = "Ice"    -> Line("sendIce", "none")
      [] cb = "Hangup" -> Line("sendHangup", "none")
      [] cb = "Busy"   -> Line("sendBusy", "none")
      [] OTHER         -> Line("stateChange", cb)

EventLines == {LineOf(cb) : cb \in SignalingMessages \cup CallStates}
Lines == EventLines \cup {ReadyLine, ErrorLine}

Apis == {"create_outgoing_call", "proceed", "received_offer",
         "received_answer", "received_ice", "accept_call", "hangup"}

(* main() before its event loop, in it, and after.                         *)
Startup == {"config", "bind", "channel", "factory", "devices", "manager"}
MainSteps == Startup \cup {"check", "recv", "linger", "exited"}

TypeOK ==
    /\ BindingTypeOK
    /\ stdin \in Seq(RawLines) /\ stdinOpen \in BOOLEAN
    /\ written \in Nat /\ torn \in BOOLEAN /\ readable \in Nat
    /\ reader \in {"new", "run", "done"}
    /\ msgs \in Seq(Commands)
    /\ main \in MainSteps
    /\ active_peer_id \in PeerIds
    /\ terminate \in BOOLEAN
    /\ ending \in {"none", "error", "killed", "eof", "term", "hangup"}
    /\ ringing \in BOOLEAN /\ owesHangup \in BOOLEAN
    /\ events \in Seq(SignalingMessages \cup CallStates)
    /\ out \in Seq(Lines) /\ writer \in {"new", "run", "done"}
    /\ stdout \in Seq(Lines) /\ unread \in Nat /\ stdoutOpen \in BOOLEAN
    /\ issued \in Seq(Commands) /\ handled \in Seq(Commands)
    /\ emitted \in Seq(EventLines)
    /\ calls \in Seq([api : Apis, peer : PeerIds, call : AnyCall])

Init ==
    /\ BindingInit
    /\ stdin = <<>> /\ stdinOpen = TRUE /\ written = 0 /\ reader = "new"
    /\ msgs = <<>>
    /\ main = "config" /\ active_peer_id = "remote" /\ terminate = FALSE
    /\ ending = "none" /\ ringing = FALSE /\ owesHangup = FALSE
    /\ events = <<>> /\ out = <<>> /\ writer = "new"
    /\ stdout = <<>> /\ unread = 0 /\ stdoutOpen = TRUE
    /\ issued = <<>> /\ handled = <<>> /\ emitted = <<>> /\ calls = <<>>
    /\ torn = FALSE /\ readable = 0
-----------------------------------------------------------------------------
(* The parent process (external).                                          *)

Alive == main # "exited"

(* The configuration comes first, well-formed or not.                      *)
ParentWrite(l) ==
    /\ Alive /\ stdinOpen /\ written < MAX_LINES
    /\ IF written = 0 THEN l.type \in {"config", "junk", "torn"}
                      ELSE l.type # "config"
    /\ stdin' = Append(stdin, l)
    /\ written' = written + 1
    /\ torn' = (torn \/ l.type = "torn")
    /\ IF l.type \in AllCommandTypes
       THEN /\ issued' = Append(issued, parse_message(l))
            /\ readable' = IF torn THEN readable ELSE readable + 1
       ELSE UNCHANGED <<issued, readable>>
    /\ UNCHANGED <<stdinOpen, reader, msgs, loopVars, terminate, ringVars,
                   outVars>>

ParentCloseStdin ==
    /\ Alive /\ stdinOpen
    /\ stdinOpen' = FALSE
    /\ UNCHANGED <<stdin, writtenVars, reader, msgs, loopVars, terminate,
                   ringVars, outVars>>

ParentRead ==
    /\ unread > 0 /\ stdoutOpen
    /\ unread' = unread - 1
    /\ UNCHANGED <<inVars, reader, msgs, loopVars, terminate, ringVars, out,
                   writer, stdout, stdoutOpen>>

ParentCloseStdout ==
    /\ Alive /\ stdoutOpen
    /\ stdoutOpen' = FALSE
    /\ UNCHANGED <<inVars, reader, msgs, loopVars, terminate, ringVars, out,
                   writer, stdout, unread>>

(* Until its handler is registered SIGTERM kills the process on the spot.  *)
Sigterm ==
    /\ Alive /\ ~terminate
    /\ IF main \in Startup
       THEN /\ main' = "exited" /\ ending' = "killed"
            /\ UNCHANGED <<terminate, active_peer_id, handled, calls,
                           bindingVars>>
       ELSE terminate' = TRUE /\ UNCHANGED loopVars
    /\ UNCHANGED <<inVars, reader, msgs, ringVars, outVars>>

-----------------------------------------------------------------------------
(* The stdin reader thread.                                                *)

ReaderTake(l) ==
    /\ Alive /\ reader = "run" /\ stdin # <<>> /\ l = Head(stdin)
    /\ stdin' = Tail(stdin)
    /\ UNCHANGED <<stdinOpen, writtenVars, loopVars, terminate, ringVars,
                   outVars>>

(* Mutant: one slot for the latest message in place of the channel.        *)
ReadLineLatest(l) ==
    /\ ReaderTake(l)
    /\ msgs' = IF l.type \in AllCommandTypes
               THEN <<parse_message(l)>> ELSE msgs
    /\ reader' = IF l.type = "torn" THEN "done" ELSE "run"

(* A command goes to the event loop, a line that does not parse is         *)
(* skipped, a failing read ends the thread, whatever lines are behind it.  *)
ReadLine(l) ==
    /\ ReaderTake(l)
    /\ msgs' = IF l.type \in AllCommandTypes
               THEN Append(msgs, parse_message(l)) ELSE msgs
    /\ reader' = IF l.type = "torn" THEN "done" ELSE "run"

ReadEof ==
    /\ Alive /\ reader = "run" /\ stdin = <<>> /\ ~stdinOpen
    /\ reader' = "done"
    /\ UNCHANGED <<inVars, msgs, loopVars, terminate, ringVars, outVars>>

Reader ==
    \/ \E l \in ParentLines : ReadLine(l)
    \/ ReadEof

-----------------------------------------------------------------------------
(* RingRTC (external) and the platform callbacks it makes.                 *)

(* send_signaling or handle_call_state queues one event.  A hangup RingRTC *)
(* accepted is told of, whatever the bound.                                *)
Callback(cb) ==
    /\ Alive /\ ringing
    /\ Len(emitted) < MAX_EVENTS \/ (cb = "Hangup" /\ owesHangup)
    /\ events' = Append(events, cb)
    /\ emitted' = Append(emitted, LineOf(cb))
    /\ owesHangup' = (owesHangup /\ cb # "Hangup")
    /\ UNCHANGED <<inVars, reader, msgs, loopVars, terminate, ringing,
                   outVars>>

-----------------------------------------------------------------------------
(* The forwarder and the stdout writer threads.                            *)

(* Mutant: a bounded channel and a send that gives up when it is full.     *)
SendLineBounded(l) ==
    out' = IF writer = "run" /\ Len(out) < 2 THEN Append(out, l) ELSE out

(* send_line: queued while the writer lives, dropped afterwards.           *)
SendLine(l) == out' = IF writer = "run" THEN Append(out, l) ELSE out

Forward ==
    /\ Alive /\ main \notin Startup /\ events # <<>>
    /\ events' = Tail(events)
    /\ SendLine(LineOf(Head(events)))
    /\ UNCHANGED <<inVars, reader, msgs, loopVars, terminate, ringing,
                   owesHangup, emitted, writer, stdout, unread, stdoutOpen>>

WriteLine ==
    /\ Alive /\ writer = "run" /\ out # <<>>
    /\ stdoutOpen /\ unread < PIPE_CAP
    /\ stdout' = Append(stdout, Head(out))
    /\ out' = Tail(out)
    /\ unread' = unread + 1
    /\ UNCHANGED <<inVars, reader, msgs, loopVars, terminate, ringVars, writer,
                   stdoutOpen>>

(* Writing to a closed pipe fails and ends the writer.                     *)
WriteFails ==
    /\ Alive /\ writer = "run" /\ out # <<>> /\ ~stdoutOpen
    /\ writer' = "done"
    /\ out' = <<>>
    /\ UNCHANGED <<inVars, reader, msgs, loopVars, terminate, ringVars, stdout,
                   unread, stdoutOpen>>

Writer == WriteLine \/ WriteFails
-----------------------------------------------------------------------------
(* main(): startup.                                                        *)

Return(why) == main' = "exited" /\ ending' = why

(* A step of main() before the event loop; it takes nothing from stdin.    *)
StartupStep(from, to) ==
    /\ main = from /\ main' = to
    /\ UNCHANGED <<inVars, reader, msgs, active_peer_id, ending, handled,
                   calls, terminate, ringVars, outVars>>

(* `?` on an error: main() returns it, and Drop runs.                      *)
StartupError(from) ==
    /\ main = from /\ Return("error")
    /\ UNCHANGED <<inVars, reader, msgs, active_peer_id, handled, calls,
                   terminate, ringVars, outVars>>

(* Mutant: a reader of its own for the first line takes along what it      *)
(* buffered behind it.                                                     *)
ReadConfigOwnBuffer ==
    /\ main = "config" /\ stdin # <<>>
    /\ stdin' = <<>>
    /\ IF Head(stdin).type = "config"
       THEN main' = "bind" /\ UNCHANGED ending
       ELSE Return("error")
    /\ UNCHANGED <<stdinOpen, writtenVars, reader, msgs, active_peer_id,
                   handled, calls, terminate, ringVars, outVars, bindingVars>>

(* The first line, from the same buffer the reader thread goes on with.    *)
ReadConfig ==
    /\ main = "config" /\ stdin # <<>>
    /\ stdin' = Tail(stdin)
    /\ IF Head(stdin).type = "config"
       THEN main' = "bind" /\ UNCHANGED ending
       ELSE Return("error")
    /\ UNCHANGED <<stdinOpen, writtenVars, reader, msgs, active_peer_id,
                   handled, calls, terminate, ringVars, outVars, bindingVars>>

NoConfig ==
    /\ StartupError("config") /\ stdin = <<>> /\ ~stdinOpen
    /\ UNCHANGED bindingVars

BindAudio ==
    \/ StartupStep("bind", "channel") /\ Bind
    \/ StartupError("bind") /\ BindFails

(* start_control_channel queues the ready line and starts its threads,     *)
(* before there is a call manager.                                         *)
StartChannel ==
    /\ main = "channel" /\ main' = "factory"
    /\ out' = Append(out, ReadyLine) /\ writer' = "run" /\ reader' = "run"
    /\ UNCHANGED <<inVars, msgs, active_peer_id, ending, handled, calls,
                   terminate, ringVars, stdout, unread, stdoutOpen,
                   bindingVars>>

(* PeerConnectionFactory::new; only virtual devices are waited for.        *)
CreateFactory ==
    \/ /\ StartupStep("factory", IF mode = "Device" THEN "devices"
                                                    ELSE "manager")
       /\ UNCHANGED bindingVars
    \/ StartupError("factory") /\ DropBinding

(* Both device lists are non-empty at last (external); then the devices    *)
(* are looked up by name, or are not there.                                *)
DevicesListed ==
    \/ StartupStep("devices", "manager") /\ UNCHANGED bindingVars
    \/ StartupError("devices") /\ DropBinding

(* CallManager::new, then the SIGTERM handler and the forwarder.           *)
CreateManager ==
    \/ StartupStep("manager", "check") /\ UNCHANGED bindingVars
    \/ StartupError("manager") /\ DropBinding

Start ==
    ReadConfig \/ NoConfig \/ BindAudio \/ StartChannel \/ CreateFactory
        \/ CreateManager

-----------------------------------------------------------------------------
(* The event loop of main().                                               *)

(* Mutant: the loop calls exit() when it is told to terminate.             *)
LoopCheckExits ==
    /\ main = "check"
    /\ IF terminate
       THEN Return("term") /\ UNCHANGED bindingVars
       ELSE main' = "recv" /\ UNCHANGED <<ending, bindingVars>>
    /\ UNCHANGED <<inVars, reader, msgs, active_peer_id, handled, calls,
                   terminate, ringVars, outVars>>

LoopCheck ==
    /\ main = "check"
    /\ IF terminate
       THEN Return("term") /\ DropBinding
       ELSE main' = "recv" /\ UNCHANGED <<ending, bindingVars>>
    /\ UNCHANGED <<inVars, reader, msgs, active_peer_id, handled, calls,
                   terminate, ringVars, outVars>>

(* Mutant: a closed channel is taken for a timeout.                        *)
LoopTimeoutForever ==
    /\ main = "recv" /\ msgs = <<>>
    /\ main' = "check"
    /\ UNCHANGED <<inVars, reader, msgs, active_peer_id, ending, handled,
                   calls, terminate, ringVars, outVars, bindingVars>>

(* recv_timeout found nothing; with the reader gone the channel is closed. *)
LoopTimeout ==
    /\ main = "recv" /\ msgs = <<>>
    /\ IF reader = "done"
       THEN Return("eof") /\ DropBinding
       ELSE main' = "check" /\ UNCHANGED <<ending, bindingVars>>
    /\ UNCHANGED <<inVars, reader, msgs, active_peer_id, handled, calls,
                   terminate, ringVars, outVars>>

(* Take the next message, a command m of the given type.                   *)
Handling(m, type) ==
    /\ main = "recv" /\ msgs # <<>> /\ m = Head(msgs) /\ m.type = type
    /\ msgs' = Tail(msgs)
    /\ handled' = Append(handled, m)
    /\ UNCHANGED <<inVars, reader, terminate, events, emitted, writer, stdout,
                   unread, stdoutOpen, bindingVars>>

Continue == main' = "check" /\ UNCHANGED ending

RingRTC(api, peer, call) ==
    calls' = Append(calls, [api |-> api, peer |-> peer, call |-> call])

(* Mutant: the peer of the outgoing call is not kept.                      *)
HandleCreateForgetsPeer(m) ==
    /\ Handling(m, "createOutgoingCall") /\ Continue
    /\ RingRTC("create_outgoing_call", m.peer, m.call)
    /\ \/ ringing' = TRUE /\ UNCHANGED out
       \/ SendLine(ErrorLine) /\ UNCHANGED ringing
    /\ UNCHANGED <<owesHangup, active_peer_id>>

HandleCreateOutgoingCall(m) ==
    /\ Handling(m, "createOutgoingCall") /\ Continue
    /\ active_peer_id' = m.peer
    /\ RingRTC("create_outgoing_call", m.peer, m.call)
    /\ \/ ringing' = TRUE /\ UNCHANGED out
       \/ SendLine(ErrorLine) /\ UNCHANGED ringing
    /\ UNCHANGED owesHangup

(* A track that cannot be created ends the handler without a line.         *)
HandleProceed(m) ==
    /\ Handling(m, "proceed") /\ Continue
    /\ \/ UNCHANGED <<calls, out>>
       \/ /\ RingRTC("proceed", "empty", m.call)
          /\ UNCHANGED out \/ SendLine(ErrorLine)
    /\ UNCHANGED <<active_peer_id, ringing, owesHangup>>

(* The peer is kept before the offer is parsed.                            *)
HandleReceivedOffer(m) ==
    /\ Handling(m, "receivedOffer") /\ Continue
    /\ active_peer_id' = m.peer
    /\ IF m.valid
       THEN /\ RingRTC("received_offer", m.peer, m.call)
            /\ ringing' \in {ringing, TRUE}
       ELSE UNCHANGED <<calls, ringing>>
    /\ UNCHANGED <<owesHangup, out>>

(* Answers, candidates and the acceptance are about config.call_id.        *)
HandleReceivedAnswer(m) ==
    /\ Handling(m, "receivedAnswer") /\ Continue
    /\ IF m.valid
       THEN RingRTC("received_answer", active_peer_id, CONFIG_CALL)
       ELSE UNCHANGED calls
    /\ UNCHANGED <<active_peer_id, ringing, owesHangup, out>>

HandleReceivedIce(m) ==
    /\ Handling(m, "receivedIce") /\ Continue
    /\ RingRTC("received_ice", active_peer_id, CONFIG_CALL)
    /\ UNCHANGED <<active_peer_id, ringing, owesHangup, out>>

HandleAccept(m) ==
    /\ Handling(m, "accept") /\ Continue
    /\ RingRTC("accept_call", "empty", CONFIG_CALL)
    /\ UNCHANGED <<active_peer_id, ringing, owesHangup, out>>

(* Mutant: the loop goes on after a hangup.                                *)
HandleHangupGoesOn(m) ==
    /\ Handling(m, "hangup") /\ Continue
    /\ RingRTC("hangup", "empty", CONFIG_CALL)
    /\ owesHangup' \in {ringing /\ "Hangup" \in Callbacks, FALSE}
    /\ UNCHANGED <<active_peer_id, ringing, out>>

(* hangup() may fail; either way the loop sleeps and ends.                 *)
HandleHangup(m) ==
    /\ Handling(m, "hangup")
    /\ main' = "linger" /\ ending' = "hangup"
    /\ RingRTC("hangup", "empty", CONFIG_CALL)
    /\ owesHangup' \in {ringing /\ "Hangup" \in Callbacks, FALSE}
    /\ UNCHANGED <<active_peer_id, ringing, out>>

(* The 500 ms are over, whatever happened meanwhile.                       *)
LingerEnds ==
    /\ main = "linger"
    /\ main' = "exited" /\ DropBinding
    /\ UNCHANGED <<inVars, reader, msgs, active_peer_id, ending, handled,
                   calls, terminate, ringVars, outVars>>

Handle ==
    \E m \in {msgs[i] : i \in 1..Len(msgs)} :
        \/ HandleCreateOutgoingCall(m)
        \/ HandleProceed(m)
        \/ HandleReceivedOffer(m)
        \/ HandleReceivedAnswer(m)
        \/ HandleReceivedIce(m)
        \/ HandleAccept(m)
        \/ HandleHangup(m)

Loop == LoopCheck \/ LoopTimeout \/ Handle \/ LingerEnds

(* The process is gone and takes its other threads along.                  *)
Exited == ~Alive /\ UNCHANGED vars

Next ==
    \/ \E l \in ParentLines : ParentWrite(l)
    \/ ParentCloseStdin \/ ParentRead \/ ParentCloseStdout \/ Sigterm
    \/ Reader
    \/ \E cb \in Callbacks : Callback(cb)
    \/ Forward
    \/ Writer
    \/ Start \/ DevicesListed
    \/ Loop
    \/ PredecessorEnds /\ UNCHANGED <<inVars, reader, msgs, main,
                                      active_peer_id, ending, handled, calls,
                                      terminate, ringVars, outVars>>
    \/ Exited

Spec == Init /\ [][Next]_vars

(* Every thread of the tunnel runs; that the virtual devices show up is    *)
(* not up to it.                                                           *)
FairSpec ==
    Spec /\ WF_vars(Reader) /\ WF_vars(Forward) /\ WF_vars(Writer)
         /\ WF_vars(Start) /\ WF_vars(Loop)

-----------------------------------------------------------------------------
(* Safety.                                                                 *)

(* The lines of events the parent got, without the ready line and errors.  *)
shown == Only(stdout, EventLines)

(* The commands of the parent reach the event loop, and the events of      *)
(* RingRTC the parent's end of stdout, in order, each at most once and     *)
(* none skipped: through two threads and two queues each way, whatever     *)
(* lines do not parse and whatever error lines come in between.            *)
CommandRelay == INSTANCE Relay
    WITH Messages <- Commands, sent <- issued, received <- handled
EventRelay == INSTANCE Relay
    WITH Messages <- EventLines, sent <- emitted, received <- shown

CommandsRelayed == CommandRelay!Spec
EventsRelayed   == EventRelay!Spec

(* The loop ends on the closed channel only after the last message in it:  *)
(* a parent that closes its pipe gets all its commands handled.  What is   *)
(* lost is what it wrote behind a line that is not UTF-8.  The reader      *)
(* gives up on that line, and the loop ends as on end of file.             *)
EofLosesOnlyUnreadable ==
    ending = "eof" => handled = SubSeq(issued, 1, readable)

(* hangup() is the last call RingRTC gets: commands queued behind it are   *)
(* not started while the process is on its way out.                        *)
NothingAfterHangup ==
    \A i \in 1..(Len(calls) - 1) : calls[i].api # "hangup"

(* The commands are about one peer and one call: the first names them, and *)
(* whatever names a peer or a call later names the same.                   *)
Starts(m) == m.type \in {"createOutgoingCall", "receivedOffer"}

OneCall(commands) ==
    /\ commands # <<>> /\ Starts(commands[1])
    /\ \A i \in 1..Len(commands) :
          /\ Starts(commands[i]) =>
                /\ commands[i].peer = commands[1].peer
                /\ commands[i].peer \in Peers
          /\ Starts(commands[i]) \/ commands[i].type = "proceed" =>
                commands[i].call = CONFIG_CALL

(* "RingRTC requires consistent peer ID across all API calls"              *)
(* (TEST_HARNESS.md): as long as the parent keeps to one peer and one      *)
(* call, RingRTC hears of no other, although answers and candidates carry  *)
(* neither.                                                                *)
ConsistentPeer ==
    OneCall(issued) =>
        \A i \in 1..Len(calls) :
            /\ calls[i].peer \in {issued[1].peer, "empty"}
            /\ calls[i].call = CONFIG_CALL

(* A parent that was shown the ready line can connect to the socket it     *)
(* names for as long as the tunnel lives ("it exists by the time we report *)
(* its path", main.rs:93), whatever an earlier tunnel of the same call     *)
(* left behind; one that is still alive when the path is bound is another  *)
(* matter: its Drop removes the file, and the call has no audio.           *)
SocketReachable ==
    ReadyLine \in {stdout[i] : i \in 1..Len(stdout)} /\ Alive
        /\ mode = "Pipe" /\ ~overtook => sockfile = "mine"

(* No virtual device outlives its tunnel, on whatever step startup fails   *)
(* and however the loop ends ("so the process exits cleanly and Drop runs  *)
(* on virtual_audio", main.rs:237): all but a SIGTERM that comes before    *)
(* its handler.                                                            *)
DevicesReleased == ~Alive /\ devices = "held" => ending = "killed"

-----------------------------------------------------------------------------
(* Liveness.                                                               *)

(* The tunnel ends once its stdin is closed or cannot be read on, or it is *)
(* signalled, in startup or later, even when the parent reads nothing of   *)
(* what it is told (FairSpec); only virtual devices that never show up     *)
(* keep it.                                                                *)
TunnelEnds ==
    []<>(main # "devices") => ((~stdinOpen \/ torn \/ terminate) ~> ~Alive)

(* Every event RingRTC reports is shown to a parent that never stops       *)
(* reading, unless the tunnel or the parent goes away first.               *)
EventsShown ==
    []<>(unread < PIPE_CAP) =>
        \A n \in 1..(MAX_EVENTS + 1) :
            (Len(emitted) >= n) ~> (Len(shown) >= n \/ ~Alive \/ ~stdoutOpen)
=============================================================================
