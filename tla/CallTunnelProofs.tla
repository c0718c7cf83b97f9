-------------------------- MODULE CallTunnelProofs --------------------------
(***************************************************************************)
(* Theorems about the call tunnel, for all peers, calls and lines of the   *)
(* parent and for every number of them.                                    *)
(***************************************************************************)
EXTENDS CallTunnel, SublistsProofs, TLAPS

-----------------------------------------------------------------------------
(* Types.                                                                  *)

FlagTypes ==
    /\ stdinOpen \in BOOLEAN /\ terminate \in BOOLEAN
    /\ ringing \in BOOLEAN /\ owesHangup \in BOOLEAN
    /\ stdoutOpen \in BOOLEAN /\ torn \in BOOLEAN
PlaceTypes ==
    /\ reader \in {"new", "run", "done"} /\ writer \in {"new", "run", "done"}
    /\ main \in MainSteps
    /\ ending \in {"none", "error", "killed", "eof", "term", "hangup"}
CountTypes == written \in Nat /\ unread \in Nat /\ readable \in Nat
CommandTypes ==
    /\ stdin \in Seq(RawLines)
    /\ msgs \in Seq(Commands) /\ issued \in Seq(Commands)
    /\ handled \in Seq(Commands)
    /\ active_peer_id \in PeerIds
    /\ calls \in Seq([api : Apis, peer : PeerIds, call : AnyCall])
EventTypes ==
    /\ events \in Seq(SignalingMessages \cup CallStates)
    /\ emitted \in Seq(EventLines)
    /\ out \in Seq(Lines) /\ stdout \in Seq(Lines)

Types == BindingTypeOK /\ FlagTypes /\ PlaceTypes /\ CountTypes
            /\ CommandTypes /\ EventTypes

(* A line that names a command parses to one.                              *)
LEMMA ParsedCommand ==
    ASSUME NEW l \in RawLines, l.type \in AllCommandTypes
    PROVE  parse_message(l) \in Commands
BY DEF RawLines, parse_message, Commands, PeerIds, AnyCall

(* The parent writes lines of the known kinds.                             *)
LEMMA ParentLine == ParentLines \subseteq RawLines
BY LinesAssumption

(* Every callback has a line, and every line of a callback can be shown.   *)
LEMMA CallbackLine ==
    /\ \A cb \in SignalingMessages \cup CallStates : LineOf(cb) \in EventLines
    /\ EventLines \subseteq Lines /\ ReadyLine \in Lines /\ ErrorLine \in Lines
    /\ Callbacks \subseteq SignalingMessages \cup CallStates
BY CallbacksAssumption DEF EventLines, Lines

(* create, offer and proceed carry a call id, the others do not.           *)
CallOf(m) == IF Starts(m) \/ m.type = "proceed" THEN m.call ELSE CONFIG_CALL

(* What every handler has in common: it takes the next command, calls      *)
(* RingRTC at most once, about the peer it knows, and may report an error. *)
OneCallMore(m) ==
    \E api \in Apis, peer \in {active_peer_id', "empty"} :
        /\ RingRTC(api, peer, CallOf(m))
        /\ api = "hangup" => m.type = "hangup"

HandlerEffect(m) ==
    /\ main = "recv" /\ msgs # <<>> /\ m = Head(msgs)
    /\ msgs' = Tail(msgs) /\ handled' = Append(handled, m)
    /\ active_peer_id' = IF Starts(m) THEN m.peer ELSE active_peer_id
    /\ calls' = calls \/ OneCallMore(m)
    /\ out' = out \/ SendLine(ErrorLine)
    /\ ringing' \in BOOLEAN /\ owesHangup' \in BOOLEAN
    /\ IF m.type = "hangup" THEN main' = "linger" /\ ending' = "hangup"
                            ELSE main' = "check" /\ ending' = ending
    /\ UNCHANGED <<inVars, reader, terminate, events, emitted, writer, stdout,
                   unread, stdoutOpen, bindingVars>>

(* Every command's handler does that much and no more.                     *)
LEMMA Handlers ==
    ASSUME Types, Handle
    PROVE  \E m \in Commands : HandlerEffect(m)
<1>1. PICK m \in {msgs[i] : i \in 1..Len(msgs)} :
        \/ HandleCreateOutgoingCall(m) \/ HandleProceed(m)
        \/ HandleReceivedOffer(m) \/ HandleReceivedAnswer(m)
        \/ HandleReceivedIce(m) \/ HandleAccept(m) \/ HandleHangup(m)
  BY DEF Handle
<1>2. m \in Commands
  BY DEF Types, CommandTypes
<1> USE DEF HandlerEffect, OneCallMore, CallOf, Handling, Continue, Apis,
            Starts
<1>3. CASE HandleCreateOutgoingCall(m)
  <2>1. ringing' \in BOOLEAN /\ owesHangup' \in BOOLEAN
    BY <1>3 DEF HandleCreateOutgoingCall, Types, FlagTypes
  <2>2. out' = out \/ SendLine(ErrorLine)
    BY <1>3 DEF HandleCreateOutgoingCall
  <2>3. OneCallMore(m)
    BY <1>3 DEF HandleCreateOutgoingCall
  <2> QED
    BY <1>2, <1>3, <2>1, <2>2, <2>3 DEF HandleCreateOutgoingCall
<1>4. CASE HandleProceed(m)
  <2>1. ringing' \in BOOLEAN /\ owesHangup' \in BOOLEAN
    BY <1>4 DEF HandleProceed, Types, FlagTypes
  <2>2. out' = out \/ SendLine(ErrorLine)
    BY <1>4 DEF HandleProceed
  <2>3. calls' = calls \/ OneCallMore(m)
    BY <1>4 DEF HandleProceed
  <2> QED
    BY <1>2, <1>4, <2>1, <2>2, <2>3 DEF HandleProceed
<1>5. CASE HandleReceivedOffer(m)
  <2>1. ringing' \in BOOLEAN /\ owesHangup' \in BOOLEAN
    BY <1>5 DEF HandleReceivedOffer, Types, FlagTypes
  <2>2. out' = out \/ SendLine(ErrorLine)
    BY <1>5 DEF HandleReceivedOffer
  <2>3. calls' = calls \/ OneCallMore(m)
    BY <1>5 DEF HandleReceivedOffer
  <2> QED
    BY <1>2, <1>5, <2>1, <2>2, <2>3 DEF HandleReceivedOffer
<1>6. CASE HandleReceivedAnswer(m)
  <2>1. ringing' \in BOOLEAN /\ owesHangup' \in BOOLEAN
    BY <1>6 DEF HandleReceivedAnswer, Types, FlagTypes
  <2>2. out' = out \/ SendLine(ErrorLine)
    BY <1>6 DEF HandleReceivedAnswer
  <2>3. calls' = calls \/ OneCallMore(m)
    BY <1>6 DEF HandleReceivedAnswer
  <2> QED
    BY <1>2, <1>6, <2>1, <2>2, <2>3 DEF HandleReceivedAnswer
<1>7. CASE HandleReceivedIce(m)
  <2>1. ringing' \in BOOLEAN /\ owesHangup' \in BOOLEAN
    BY <1>7 DEF HandleReceivedIce, Types, FlagTypes
  <2>2. out' = out \/ SendLine(ErrorLine)
    BY <1>7 DEF HandleReceivedIce
  <2>3. calls' = calls \/ OneCallMore(m)
    BY <1>7 DEF HandleReceivedIce
  <2> QED
    BY <1>2, <1>7, <2>1, <2>2, <2>3 DEF HandleReceivedIce
<1>8. CASE HandleAccept(m)
  <2>1. ringing' \in BOOLEAN /\ owesHangup' \in BOOLEAN
    BY <1>8 DEF HandleAccept, Types, FlagTypes
  <2>2. out' = out \/ SendLine(ErrorLine)
    BY <1>8 DEF HandleAccept
  <2>3. calls' = calls \/ OneCallMore(m)
    BY <1>8 DEF HandleAccept
  <2> QED
    BY <1>2, <1>8, <2>1, <2>2, <2>3 DEF HandleAccept
<1>9. CASE HandleHangup(m)
  <2>1. ringing' \in BOOLEAN /\ owesHangup' \in BOOLEAN
    BY <1>9 DEF HandleHangup, Types, FlagTypes
  <2>2. out' = out \/ SendLine(ErrorLine)
    BY <1>9 DEF HandleHangup
  <2>3. calls' = calls \/ OneCallMore(m)
    BY <1>9 DEF HandleHangup
  <2> QED
    BY <1>2, <1>9, <2>1, <2>2, <2>3 DEF HandleHangup
<1> QED
  BY <1>1, <1>3, <1>4, <1>5, <1>6, <1>7, <1>8, <1>9

(* The types, a group at a time: a step keeps the audio binding's,         *)
LEMMA StepBindingTypes == Types /\ [Next]_vars => BindingTypeOK'
<1> SUFFICES ASSUME Types, [Next]_vars
             PROVE  BindingTypeOK'
  OBVIOUS
<1> USE DEF Types, BindingTypeOK, Resolved, resolve_audio_mode, inVars,
        writtenVars,
        loopVars, ringVars, outVars, bindingVars
<1>1. ASSUME NEW l \in ParentLines, ParentWrite(l)
      PROVE  BindingTypeOK'
  BY <1>1 DEF ParentWrite
<1>2. CASE ParentCloseStdin
  BY <1>2 DEF ParentCloseStdin
<1>3. CASE ParentRead
  BY <1>3 DEF ParentRead
<1>4. CASE ParentCloseStdout
  BY <1>4 DEF ParentCloseStdout
<1>5. CASE Sigterm
  BY <1>5 DEF Sigterm
<1>6. ASSUME NEW l \in ParentLines, ReadLine(l)
      PROVE  BindingTypeOK'
  BY <1>6 DEF ReadLine, ReaderTake
<1>7. CASE ReadEof
  BY <1>7 DEF ReadEof
<1>8. ASSUME NEW cb \in Callbacks, Callback(cb)
      PROVE  BindingTypeOK'
  BY <1>8 DEF Callback
<1>9. CASE Forward
  BY <1>9 DEF Forward, SendLine
<1>10. CASE WriteLine
  BY <1>10 DEF WriteLine
<1>11. CASE WriteFails
  BY <1>11 DEF WriteFails
<1>12. CASE ReadConfig
  BY <1>12 DEF ReadConfig, Return
<1>13. CASE NoConfig
  BY <1>13 DEF NoConfig, StartupError, Return
<1>14. CASE BindAudio
  BY <1>14 DEF BindAudio, StartupStep, StartupError, Return, Bind,
     BindPipe, CreateDevices, BindFails
<1>15. CASE StartChannel
  BY <1>15 DEF StartChannel
<1>16. CASE CreateFactory
  BY <1>16 DEF CreateFactory, StartupStep, StartupError, Return, DropBinding
<1>17. CASE DevicesListed
  BY <1>17 DEF DevicesListed, StartupStep, StartupError, Return, DropBinding
<1>18. CASE CreateManager
  BY <1>18 DEF CreateManager, StartupStep, StartupError, Return, DropBinding
<1>19. CASE LoopCheck
  BY <1>19 DEF LoopCheck, Return, DropBinding
<1>20. CASE LoopTimeout
  BY <1>20 DEF LoopTimeout, Return, DropBinding
<1>21. CASE Handle
  <2>1. PICK m \in Commands : HandlerEffect(m)
    BY <1>21, Handlers
  <2> QED
    BY <2>1 DEF HandlerEffect
<1>22. CASE LingerEnds
  BY <1>22 DEF LingerEnds, DropBinding
<1>23. CASE PredecessorEnds /\ UNCHANGED <<inVars, reader, msgs, main,
            active_peer_id, ending, handled, calls, terminate, ringVars,
            outVars>>
  BY <1>23 DEF PredecessorEnds
<1>24. CASE Exited \/ UNCHANGED vars
  BY <1>24 DEF Exited, vars
<1> QED
  BY <1>1, <1>2, <1>3, <1>4, <1>5, <1>6, <1>7, <1>8, <1>9, <1>10, <1>11,
     <1>12, <1>13, <1>14, <1>15, <1>16, <1>17, <1>18, <1>19, <1>20, <1>21,
     <1>22, <1>23, <1>24
  DEF Next, Reader, Writer, Start, Loop

(* the flags,                                                              *)
LEMMA StepFlagTypes == Types /\ [Next]_vars => FlagTypes'
<1> SUFFICES ASSUME Types, [Next]_vars
             PROVE  FlagTypes'
  OBVIOUS
<1> USE DEF Types, FlagTypes, inVars, writtenVars, loopVars, ringVars,
        outVars, bindingVars
<1>1. ASSUME NEW l \in ParentLines, ParentWrite(l)
      PROVE  FlagTypes'
  BY <1>1 DEF ParentWrite
<1>2. CASE ParentCloseStdin
  BY <1>2 DEF ParentCloseStdin
<1>3. CASE ParentRead
  BY <1>3 DEF ParentRead
<1>4. CASE ParentCloseStdout
  BY <1>4 DEF ParentCloseStdout
<1>5. CASE Sigterm
  BY <1>5 DEF Sigterm
<1>6. ASSUME NEW l \in ParentLines, ReadLine(l)
      PROVE  FlagTypes'
  BY <1>6 DEF ReadLine, ReaderTake
<1>7. CASE ReadEof
  BY <1>7 DEF ReadEof
<1>8. ASSUME NEW cb \in Callbacks, Callback(cb)
      PROVE  FlagTypes'
  BY <1>8 DEF Callback
<1>9. CASE Forward
  BY <1>9 DEF Forward, SendLine
<1>10. CASE WriteLine
  BY <1>10 DEF WriteLine
<1>11. CASE WriteFails
  BY <1>11 DEF WriteFails
<1>12. CASE ReadConfig
  BY <1>12 DEF ReadConfig, Return
<1>13. CASE NoConfig
  BY <1>13 DEF NoConfig, StartupError, Return
<1>14. CASE BindAudio
  BY <1>14 DEF BindAudio, StartupStep, StartupError, Return, Bind,
     BindPipe, CreateDevices, BindFails
<1>15. CASE StartChannel
  BY <1>15 DEF StartChannel
<1>16. CASE CreateFactory
  BY <1>16 DEF CreateFactory, StartupStep, StartupError, Return, DropBinding
<1>17. CASE DevicesListed
  BY <1>17 DEF DevicesListed, StartupStep, StartupError, Return, DropBinding
<1>18. CASE CreateManager
  BY <1>18 DEF CreateManager, StartupStep, StartupError, Return, DropBinding
<1>19. CASE LoopCheck
  BY <1>19 DEF LoopCheck, Return, DropBinding
<1>20. CASE LoopTimeout
  BY <1>20 DEF LoopTimeout, Return, DropBinding
<1>21. CASE Handle
  <2>1. PICK m \in Commands : HandlerEffect(m)
    BY <1>21, Handlers
  <2> QED
    BY <2>1 DEF HandlerEffect
<1>22. CASE LingerEnds
  BY <1>22 DEF LingerEnds, DropBinding
<1>23. CASE PredecessorEnds /\ UNCHANGED <<inVars, reader, msgs, main,
            active_peer_id, ending, handled, calls, terminate, ringVars,
            outVars>>
  BY <1>23 DEF PredecessorEnds
<1>24. CASE Exited \/ UNCHANGED vars
  BY <1>24 DEF Exited, vars
<1> QED
  BY <1>1, <1>2, <1>3, <1>4, <1>5, <1>6, <1>7, <1>8, <1>9, <1>10, <1>11,
     <1>12, <1>13, <1>14, <1>15, <1>16, <1>17, <1>18, <1>19, <1>20, <1>21,
     <1>22, <1>23, <1>24
  DEF Next, Reader, Writer, Start, Loop

(* where main and the threads are,                                         *)
LEMMA StepPlaceTypes == Types /\ [Next]_vars => PlaceTypes'
<1> SUFFICES ASSUME Types, [Next]_vars
             PROVE  PlaceTypes'
  OBVIOUS
<1> USE DEF Types, PlaceTypes, MainSteps, Startup, inVars, writtenVars,
        loopVars, ringVars, outVars, bindingVars
<1>1. ASSUME NEW l \in ParentLines, ParentWrite(l)
      PROVE  PlaceTypes'
  BY <1>1 DEF ParentWrite
<1>2. CASE ParentCloseStdin
  BY <1>2 DEF ParentCloseStdin
<1>3. CASE ParentRead
  BY <1>3 DEF ParentRead
<1>4. CASE ParentCloseStdout
  BY <1>4 DEF ParentCloseStdout
<1>5. CASE Sigterm
  BY <1>5 DEF Sigterm
<1>6. ASSUME NEW l \in ParentLines, ReadLine(l)
      PROVE  PlaceTypes'
  BY <1>6 DEF ReadLine, ReaderTake
<1>7. CASE ReadEof
  BY <1>7 DEF ReadEof
<1>8. ASSUME NEW cb \in Callbacks, Callback(cb)
      PROVE  PlaceTypes'
  BY <1>8 DEF Callback
<1>9. CASE Forward
  BY <1>9 DEF Forward, SendLine
<1>10. CASE WriteLine
  BY <1>10 DEF WriteLine
<1>11. CASE WriteFails
  BY <1>11 DEF WriteFails
<1>12. CASE ReadConfig
  BY <1>12 DEF ReadConfig, Return
<1>13. CASE NoConfig
  BY <1>13 DEF NoConfig, StartupError, Return
<1>14. CASE BindAudio
  BY <1>14 DEF BindAudio, StartupStep, StartupError, Return, Bind,
     BindPipe, CreateDevices, BindFails
<1>15. CASE StartChannel
  BY <1>15 DEF StartChannel
<1>16. CASE CreateFactory
  BY <1>16 DEF CreateFactory, StartupStep, StartupError, Return, DropBinding
<1>17. CASE DevicesListed
  BY <1>17 DEF DevicesListed, StartupStep, StartupError, Return, DropBinding
<1>18. CASE CreateManager
  BY <1>18 DEF CreateManager, StartupStep, StartupError, Return, DropBinding
<1>19. CASE LoopCheck
  BY <1>19 DEF LoopCheck, Return, DropBinding
<1>20. CASE LoopTimeout
  BY <1>20 DEF LoopTimeout, Return, DropBinding
<1>21. CASE Handle
  <2>1. PICK m \in Commands : HandlerEffect(m)
    BY <1>21, Handlers
  <2> QED
    BY <2>1 DEF HandlerEffect
<1>22. CASE LingerEnds
  BY <1>22 DEF LingerEnds, DropBinding
<1>23. CASE PredecessorEnds /\ UNCHANGED <<inVars, reader, msgs, main,
            active_peer_id, ending, handled, calls, terminate, ringVars,
            outVars>>
  BY <1>23 DEF PredecessorEnds
<1>24. CASE Exited \/ UNCHANGED vars
  BY <1>24 DEF Exited, vars
<1> QED
  BY <1>1, <1>2, <1>3, <1>4, <1>5, <1>6, <1>7, <1>8, <1>9, <1>10, <1>11,
     <1>12, <1>13, <1>14, <1>15, <1>16, <1>17, <1>18, <1>19, <1>20, <1>21,
     <1>22, <1>23, <1>24
  DEF Next, Reader, Writer, Start, Loop

(* the counters,                                                           *)
LEMMA StepCountTypes == Types /\ [Next]_vars => CountTypes'
<1> SUFFICES ASSUME Types, [Next]_vars
             PROVE  CountTypes'
  OBVIOUS
<1> USE DEF Types, CountTypes, inVars, writtenVars, loopVars, ringVars,
        outVars, bindingVars
<1>1. ASSUME NEW l \in ParentLines, ParentWrite(l)
      PROVE  CountTypes'
  BY <1>1 DEF ParentWrite
<1>2. CASE ParentCloseStdin
  BY <1>2 DEF ParentCloseStdin
<1>3. CASE ParentRead
  BY <1>3 DEF ParentRead
<1>4. CASE ParentCloseStdout
  BY <1>4 DEF ParentCloseStdout
<1>5. CASE Sigterm
  BY <1>5 DEF Sigterm
<1>6. ASSUME NEW l \in ParentLines, ReadLine(l)
      PROVE  CountTypes'
  BY <1>6 DEF ReadLine, ReaderTake
<1>7. CASE ReadEof
  BY <1>7 DEF ReadEof
<1>8. ASSUME NEW cb \in Callbacks, Callback(cb)
      PROVE  CountTypes'
  BY <1>8 DEF Callback
<1>9. CASE Forward
  BY <1>9 DEF Forward, SendLine
<1>10. CASE WriteLine
  BY <1>10 DEF WriteLine
<1>11. CASE WriteFails
  BY <1>11 DEF WriteFails
<1>12. CASE ReadConfig
  BY <1>12 DEF ReadConfig, Return
<1>13. CASE NoConfig
  BY <1>13 DEF NoConfig, StartupError, Return
<1>14. CASE BindAudio
  BY <1>14 DEF BindAudio, StartupStep, StartupError, Return, Bind,
     BindPipe, CreateDevices, BindFails
<1>15. CASE StartChannel
  BY <1>15 DEF StartChannel
<1>16. CASE CreateFactory
  BY <1>16 DEF CreateFactory, StartupStep, StartupError, Return, DropBinding
<1>17. CASE DevicesListed
  BY <1>17 DEF DevicesListed, StartupStep, StartupError, Return, DropBinding
<1>18. CASE CreateManager
  BY <1>18 DEF CreateManager, StartupStep, StartupError, Return, DropBinding
<1>19. CASE LoopCheck
  BY <1>19 DEF LoopCheck, Return, DropBinding
<1>20. CASE LoopTimeout
  BY <1>20 DEF LoopTimeout, Return, DropBinding
<1>21. CASE Handle
  <2>1. PICK m \in Commands : HandlerEffect(m)
    BY <1>21, Handlers
  <2> QED
    BY <2>1 DEF HandlerEffect
<1>22. CASE LingerEnds
  BY <1>22 DEF LingerEnds, DropBinding
<1>23. CASE PredecessorEnds /\ UNCHANGED <<inVars, reader, msgs, main,
            active_peer_id, ending, handled, calls, terminate, ringVars,
            outVars>>
  BY <1>23 DEF PredecessorEnds
<1>24. CASE Exited \/ UNCHANGED vars
  BY <1>24 DEF Exited, vars
<1> QED
  BY <1>1, <1>2, <1>3, <1>4, <1>5, <1>6, <1>7, <1>8, <1>9, <1>10, <1>11,
     <1>12, <1>13, <1>14, <1>15, <1>16, <1>17, <1>18, <1>19, <1>20, <1>21,
     <1>22, <1>23, <1>24
  DEF Next, Reader, Writer, Start, Loop

(* the queues of commands and the calls made of them,                      *)
LEMMA StepCommandTypes == Types /\ [Next]_vars => CommandTypes'
<1> SUFFICES ASSUME Types, [Next]_vars
             PROVE  CommandTypes'
  OBVIOUS
<1> USE ParsedCommand, ParentLine DEF Types, CommandTypes, inVars, writtenVars,
        loopVars, ringVars, outVars, bindingVars
<1>1. ASSUME NEW l \in ParentLines, ParentWrite(l)
      PROVE  CommandTypes'
  <2>1. /\ l \in RawLines /\ stdin' = Append(stdin, l)
        /\ UNCHANGED <<msgs, handled, active_peer_id, calls>>
    BY <1>1 DEF ParentWrite
  <2>2. issued' \in Seq(Commands)
    <3>1. l.type \in AllCommandTypes =>
            issued' = Append(issued, parse_message(l))
      BY <1>1, Zenon DEF ParentWrite
    <3>2. l.type \notin AllCommandTypes => issued' = issued
      BY <1>1, Zenon DEF ParentWrite
    <3>3. l.type \in AllCommandTypes => parse_message(l) \in Commands
      BY <2>1, ParsedCommand
    <3>4. issued \in Seq(Commands)
      OBVIOUS
    <3> QED
      BY ONLY <3>1, <3>2, <3>3, <3>4
  <2> QED
    BY <2>1, <2>2
<1>2. CASE ParentCloseStdin
  BY <1>2 DEF ParentCloseStdin
<1>3. CASE ParentRead
  BY <1>3 DEF ParentRead
<1>4. CASE ParentCloseStdout
  BY <1>4 DEF ParentCloseStdout
<1>5. CASE Sigterm
  BY <1>5 DEF Sigterm
<1>6. ASSUME NEW l \in ParentLines, ReadLine(l)
      PROVE  CommandTypes'
  BY <1>6 DEF ReadLine, ReaderTake
<1>7. CASE ReadEof
  BY <1>7 DEF ReadEof
<1>8. ASSUME NEW cb \in Callbacks, Callback(cb)
      PROVE  CommandTypes'
  BY <1>8 DEF Callback
<1>9. CASE Forward
  BY <1>9 DEF Forward, SendLine
<1>10. CASE WriteLine
  BY <1>10 DEF WriteLine
<1>11. CASE WriteFails
  BY <1>11 DEF WriteFails
<1>12. CASE ReadConfig
  BY <1>12 DEF ReadConfig, Return
<1>13. CASE NoConfig
  BY <1>13 DEF NoConfig, StartupError, Return
<1>14. CASE BindAudio
  BY <1>14 DEF BindAudio, StartupStep, StartupError, Return, Bind,
     BindPipe, CreateDevices, BindFails
<1>15. CASE StartChannel
  BY <1>15 DEF StartChannel
<1>16. CASE CreateFactory
  BY <1>16 DEF CreateFactory, StartupStep, StartupError, Return, DropBinding
<1>17. CASE DevicesListed
  BY <1>17 DEF DevicesListed, StartupStep, StartupError, Return, DropBinding
<1>18. CASE CreateManager
  BY <1>18 DEF CreateManager, StartupStep, StartupError, Return, DropBinding
<1>19. CASE LoopCheck
  BY <1>19 DEF LoopCheck, Return, DropBinding
<1>20. CASE LoopTimeout
  BY <1>20 DEF LoopTimeout, Return, DropBinding
<1>21. CASE Handle
  <2>1. PICK m \in Commands : HandlerEffect(m)
    BY <1>21, Handlers
  <2>2. m.peer \in PeerIds /\ m.call \in AnyCall
    BY DEF Commands
  <2>3. active_peer_id' \in PeerIds
    BY <2>1, <2>2 DEF HandlerEffect
  <2>4. calls' \in Seq([api : Apis, peer : PeerIds, call : AnyCall])
    <3>1. CASE calls' = calls
      BY <3>1
    <3>2. CASE OneCallMore(m)
      <4>1. PICK api \in Apis, peer \in {active_peer_id', "empty"} :
                 RingRTC(api, peer, CallOf(m))
        BY <3>2 DEF OneCallMore
      <4>2. peer \in PeerIds /\ CallOf(m) \in AnyCall
        BY <2>2, <2>3 DEF PeerIds, AnyCall, CallOf
      <4> QED
        BY <4>1, <4>2 DEF RingRTC
    <3> QED
      BY <2>1, <3>1, <3>2 DEF HandlerEffect
  <2>5. msgs' \in Seq(Commands) /\ handled' \in Seq(Commands)
    BY <2>1 DEF HandlerEffect
  <2>6. stdin' = stdin /\ issued' = issued
    BY <2>1 DEF HandlerEffect
  <2> QED
    BY <2>3, <2>4, <2>5, <2>6
<1>22. CASE LingerEnds
  BY <1>22 DEF LingerEnds, DropBinding
<1>23. CASE PredecessorEnds /\ UNCHANGED <<inVars, reader, msgs, main,
            active_peer_id, ending, handled, calls, terminate, ringVars,
            outVars>>
  BY <1>23 DEF PredecessorEnds
<1>24. CASE Exited \/ UNCHANGED vars
  BY <1>24 DEF Exited, vars
<1> QED
  BY <1>1, <1>2, <1>3, <1>4, <1>5, <1>6, <1>7, <1>8, <1>9, <1>10, <1>11,
     <1>12, <1>13, <1>14, <1>15, <1>16, <1>17, <1>18, <1>19, <1>20, <1>21,
     <1>22, <1>23, <1>24
  DEF Next, Reader, Writer, Start, Loop

(* and the queues of events and lines.                                     *)
LEMMA StepEventTypes == Types /\ [Next]_vars => EventTypes'
<1> SUFFICES ASSUME Types, [Next]_vars
             PROVE  EventTypes'
  OBVIOUS
<1> USE CallbackLine DEF Types, EventTypes, inVars, writtenVars, loopVars,
        ringVars,
        outVars, bindingVars
<1>1. ASSUME NEW l \in ParentLines, ParentWrite(l)
      PROVE  EventTypes'
  BY <1>1 DEF ParentWrite
<1>2. CASE ParentCloseStdin
  BY <1>2 DEF ParentCloseStdin
<1>3. CASE ParentRead
  BY <1>3 DEF ParentRead
<1>4. CASE ParentCloseStdout
  BY <1>4 DEF ParentCloseStdout
<1>5. CASE Sigterm
  BY <1>5 DEF Sigterm
<1>6. ASSUME NEW l \in ParentLines, ReadLine(l)
      PROVE  EventTypes'
  BY <1>6 DEF ReadLine, ReaderTake
<1>7. CASE ReadEof
  BY <1>7 DEF ReadEof
<1>8. ASSUME NEW cb \in Callbacks, Callback(cb)
      PROVE  EventTypes'
  BY <1>8 DEF Callback
<1>9. CASE Forward
  BY <1>9 DEF Forward, SendLine
<1>10. CASE WriteLine
  BY <1>10 DEF WriteLine
<1>11. CASE WriteFails
  BY <1>11 DEF WriteFails
<1>12. CASE ReadConfig
  BY <1>12 DEF ReadConfig, Return
<1>13. CASE NoConfig
  BY <1>13 DEF NoConfig, StartupError, Return
<1>14. CASE BindAudio
  BY <1>14 DEF BindAudio, StartupStep, StartupError, Return, Bind,
     BindPipe, CreateDevices, BindFails
<1>15. CASE StartChannel
  BY <1>15 DEF StartChannel
<1>16. CASE CreateFactory
  BY <1>16 DEF CreateFactory, StartupStep, StartupError, Return, DropBinding
<1>17. CASE DevicesListed
  BY <1>17 DEF DevicesListed, StartupStep, StartupError, Return, DropBinding
<1>18. CASE CreateManager
  BY <1>18 DEF CreateManager, StartupStep, StartupError, Return, DropBinding
<1>19. CASE LoopCheck
  BY <1>19 DEF LoopCheck, Return, DropBinding
<1>20. CASE LoopTimeout
  BY <1>20 DEF LoopTimeout, Return, DropBinding
<1>21. CASE Handle
  <2>1. PICK m \in Commands : HandlerEffect(m)
    BY <1>21, Handlers
  <2> QED
    <3>1. out' = out \/ out' = Append(out, ErrorLine)
      BY <2>1 DEF HandlerEffect, SendLine
    <3>2. ErrorLine \in Lines /\ out \in Seq(Lines)
      OBVIOUS
    <3>3. out' \in Seq(Lines)
      BY ONLY <3>1, <3>2
    <3>4. UNCHANGED <<events, emitted, stdout>>
      BY <2>1 DEF HandlerEffect
    <3> QED
      BY <3>3, <3>4
<1>22. CASE LingerEnds
  BY <1>22 DEF LingerEnds, DropBinding
<1>23. CASE PredecessorEnds /\ UNCHANGED <<inVars, reader, msgs, main,
            active_peer_id, ending, handled, calls, terminate, ringVars,
            outVars>>
  BY <1>23 DEF PredecessorEnds
<1>24. CASE Exited \/ UNCHANGED vars
  BY <1>24 DEF Exited, vars
<1> QED
  BY <1>1, <1>2, <1>3, <1>4, <1>5, <1>6, <1>7, <1>8, <1>9, <1>10, <1>11,
     <1>12, <1>13, <1>14, <1>15, <1>16, <1>17, <1>18, <1>19, <1>20, <1>21,
     <1>22, <1>23, <1>24
  DEF Next, Reader, Writer, Start, Loop

(* The program starts with these types.                                    *)
LEMMA InitialTypes == Init => Types
<1> SUFFICES ASSUME Init PROVE Types
  OBVIOUS
<1>1. BindingTypeOK
  BY PredecessorsAssumption DEF Init, BindingInit, BindingTypeOK
<1>2. FlagTypes /\ PlaceTypes /\ CountTypes
  BY DEF Init, FlagTypes, PlaceTypes, CountTypes, MainSteps, Startup
<1>3. CommandTypes
  BY DEF Init, CommandTypes, PeerIds
<1>4. EventTypes
  BY DEF Init, EventTypes
<1> QED
  BY <1>1, <1>2, <1>3, <1>4 DEF Types

(* Types, in groups, of every reachable state.                             *)
LEMMA TypesInvariant == Spec => []Types
<1>1. Types /\ [Next]_vars => Types'
  BY StepBindingTypes, StepFlagTypes, StepPlaceTypes, StepCountTypes,
     StepCommandTypes, StepEventTypes DEF Types
<1> QED
  BY InitialTypes, <1>1, PTL DEF Spec

(* Every queue holds what it should, for any number of lines and events.   *)
THEOREM TypeCorrect == Spec => []TypeOK
<1>1. Types => TypeOK
  BY DEF Types, FlagTypes, PlaceTypes, CountTypes, CommandTypes, EventTypes,
         TypeOK
<1> QED
  BY <1>1, TypesInvariant, PTL

-----------------------------------------------------------------------------
(* Audio resources.                                                        *)

BeforeChannel == {"config", "bind", "channel"}

(* The pair of devices is there from the binding to Drop; the socket file  *)
(* stays this tunnel's when no other one held the path.                    *)
Resources ==
    /\ main \in {"config", "bind"} => devices = "none"
    /\ main = "exited" /\ devices = "held" => ending = "killed"
    /\ main \notin {"config", "bind", "exited"} /\ mode = "Pipe"
          /\ ~overtook =>
          sockfile = "mine" /\ ~predecessor

(* Nothing is shown before the socket is bound.                            *)
ShownLate ==
    main \in BeforeChannel => writer = "new" /\ out = <<>> /\ stdout = <<>>

(* No resource is held and nothing shown at first.                         *)
LEMMA InitialResources == Init => Resources /\ ShownLate
BY DEF Init, BindingInit, Resources, ShownLate, BeforeChannel

(* Every step keeps to who holds what.                                     *)
LEMMA StepResources == Types /\ Resources /\ [Next]_vars => Resources'
<1> SUFFICES ASSUME Types, Resources, [Next]_vars
             PROVE  Resources'
  OBVIOUS
<1> USE DEF Types, PlaceTypes, BindingTypeOK, Resources, Startup,
        MainSteps, inVars, writtenVars, loopVars, ringVars, outVars,
        bindingVars
<1>1. ASSUME NEW l \in ParentLines, ParentWrite(l)
      PROVE  Resources'
  BY <1>1 DEF ParentWrite
<1>2. CASE ParentCloseStdin
  BY <1>2 DEF ParentCloseStdin
<1>3. CASE ParentRead
  BY <1>3 DEF ParentRead
<1>4. CASE ParentCloseStdout
  BY <1>4 DEF ParentCloseStdout
<1>5. CASE Sigterm
  BY <1>5 DEF Sigterm
<1>6. ASSUME NEW l \in ParentLines, ReadLine(l)
      PROVE  Resources'
  BY <1>6 DEF ReadLine, ReaderTake
<1>7. CASE ReadEof
  BY <1>7 DEF ReadEof
<1>8. ASSUME NEW cb \in Callbacks, Callback(cb)
      PROVE  Resources'
  BY <1>8 DEF Callback
<1>9. CASE Forward
  BY <1>9 DEF Forward, SendLine
<1>10. CASE WriteLine
  BY <1>10 DEF WriteLine
<1>11. CASE WriteFails
  BY <1>11 DEF WriteFails
<1>12. CASE ReadConfig
  BY <1>12 DEF ReadConfig, Return
<1>13. CASE NoConfig
  BY <1>13 DEF NoConfig, StartupError, Return
<1>14. CASE BindAudio
  BY <1>14 DEF BindAudio, StartupStep, StartupError, Return, Bind,
     BindPipe, CreateDevices, BindFails
<1>15. CASE StartChannel
  BY <1>15 DEF StartChannel
<1>16. CASE CreateFactory
  BY <1>16 DEF CreateFactory, StartupStep, StartupError, Return, DropBinding
<1>17. CASE DevicesListed
  BY <1>17 DEF DevicesListed, StartupStep, StartupError, Return, DropBinding
<1>18. CASE CreateManager
  BY <1>18 DEF CreateManager, StartupStep, StartupError, Return, DropBinding
<1>19. CASE LoopCheck
  BY <1>19 DEF LoopCheck, Return, DropBinding
<1>20. CASE LoopTimeout
  BY <1>20 DEF LoopTimeout, Return, DropBinding
<1>21. CASE Handle
  <2>1. PICK m \in Commands : HandlerEffect(m)
    BY <1>21, Handlers
  <2> QED
    BY <2>1 DEF HandlerEffect
<1>22. CASE LingerEnds
  BY <1>22 DEF LingerEnds, DropBinding
<1>23. CASE PredecessorEnds /\ UNCHANGED <<inVars, reader, msgs, main,
            active_peer_id, ending, handled, calls, terminate, ringVars,
            outVars>>
  BY <1>23 DEF PredecessorEnds
<1>24. CASE Exited \/ UNCHANGED vars
  BY <1>24 DEF Exited, vars
<1> QED
  BY <1>1, <1>2, <1>3, <1>4, <1>5, <1>6, <1>7, <1>8, <1>9, <1>10, <1>11,
     <1>12, <1>13, <1>14, <1>15, <1>16, <1>17, <1>18, <1>19, <1>20, <1>21,
     <1>22, <1>23, <1>24
  DEF Next, Reader, Writer, Start, Loop

(* The writer starts behind the binding.                                   *)
LEMMA StepShownLate == Types /\ ShownLate /\ [Next]_vars => ShownLate'
<1> SUFFICES ASSUME Types, ShownLate, [Next]_vars
             PROVE  ShownLate'
  OBVIOUS
<1> USE DEF Types, PlaceTypes, ShownLate, BeforeChannel, Startup,
        MainSteps, inVars, writtenVars, loopVars, ringVars, outVars,
        bindingVars
<1>1. ASSUME NEW l \in ParentLines, ParentWrite(l)
      PROVE  ShownLate'
  BY <1>1 DEF ParentWrite
<1>2. CASE ParentCloseStdin
  BY <1>2 DEF ParentCloseStdin
<1>3. CASE ParentRead
  BY <1>3 DEF ParentRead
<1>4. CASE ParentCloseStdout
  BY <1>4 DEF ParentCloseStdout
<1>5. CASE Sigterm
  BY <1>5 DEF Sigterm
<1>6. ASSUME NEW l \in ParentLines, ReadLine(l)
      PROVE  ShownLate'
  BY <1>6 DEF ReadLine, ReaderTake
<1>7. CASE ReadEof
  BY <1>7 DEF ReadEof
<1>8. ASSUME NEW cb \in Callbacks, Callback(cb)
      PROVE  ShownLate'
  BY <1>8 DEF Callback
<1>9. CASE Forward
  BY <1>9 DEF Forward, SendLine
<1>10. CASE WriteLine
  BY <1>10 DEF WriteLine
<1>11. CASE WriteFails
  BY <1>11 DEF WriteFails
<1>12. CASE ReadConfig
  BY <1>12 DEF ReadConfig, Return
<1>13. CASE NoConfig
  BY <1>13 DEF NoConfig, StartupError, Return
<1>14. CASE BindAudio
  BY <1>14 DEF BindAudio, StartupStep, StartupError, Return, Bind,
     BindPipe, CreateDevices, BindFails
<1>15. CASE StartChannel
  BY <1>15 DEF StartChannel
<1>16. CASE CreateFactory
  BY <1>16 DEF CreateFactory, StartupStep, StartupError, Return, DropBinding
<1>17. CASE DevicesListed
  BY <1>17 DEF DevicesListed, StartupStep, StartupError, Return, DropBinding
<1>18. CASE CreateManager
  BY <1>18 DEF CreateManager, StartupStep, StartupError, Return, DropBinding
<1>19. CASE LoopCheck
  BY <1>19 DEF LoopCheck, Return, DropBinding
<1>20. CASE LoopTimeout
  BY <1>20 DEF LoopTimeout, Return, DropBinding
<1>21. CASE Handle
  <2>1. PICK m \in Commands : HandlerEffect(m)
    BY <1>21, Handlers
  <2> QED
    BY <2>1 DEF HandlerEffect, SendLine
<1>22. CASE LingerEnds
  BY <1>22 DEF LingerEnds, DropBinding
<1>23. CASE PredecessorEnds /\ UNCHANGED <<inVars, reader, msgs, main,
            active_peer_id, ending, handled, calls, terminate, ringVars,
            outVars>>
  BY <1>23 DEF PredecessorEnds
<1>24. CASE Exited \/ UNCHANGED vars
  BY <1>24 DEF Exited, vars
<1> QED
  BY <1>1, <1>2, <1>3, <1>4, <1>5, <1>6, <1>7, <1>8, <1>9, <1>10, <1>11,
     <1>12, <1>13, <1>14, <1>15, <1>16, <1>17, <1>18, <1>19, <1>20, <1>21,
     <1>22, <1>23, <1>24
  DEF Next, Reader, Writer, Start, Loop

(* Both hold throughout.                                                   *)
LEMMA ResourcesInvariant == Spec => [](Resources /\ ShownLate)
BY TypesInvariant, InitialResources, StepResources, StepShownLate, PTL
DEF Spec

(* No virtual device outlives a tunnel that lived to install its SIGTERM   *)
(* handler or failed in startup by itself (main.rs:237).                   *)
THEOREM DevicesLetGo == Spec => []DevicesReleased
<1>1. Resources => DevicesReleased
  BY DEF Resources, DevicesReleased, Alive
<1> QED
  BY <1>1, ResourcesInvariant, PTL

(* The socket exists from before the parent is told until the tunnel ends, *)
(* unless another tunnel held its path (main.rs:93, pipe_audio.rs:67).     *)
THEOREM SocketStays == Spec => []SocketReachable
<1>1. Types /\ Resources /\ ShownLate => SocketReachable
  <2> SUFFICES ASSUME Types, Resources, ShownLate,
                      ReadyLine \in {stdout[i] : i \in 1..Len(stdout)},
                      Alive, mode = "Pipe", ~overtook
               PROVE  sockfile = "mine"
    BY DEF SocketReachable
  <2>1. stdout # <<>>
    OBVIOUS
  <2>2. main \notin BeforeChannel
    BY <2>1 DEF ShownLate
  <2> QED
    BY <2>2 DEF Resources, BeforeChannel, Alive
<1> QED
  BY <1>1, TypesInvariant, ResourcesInvariant, PTL

-----------------------------------------------------------------------------
(* The end of the call.                                                    *)

(* A hangup is the last call, and the loop does not go on after it.        *)
HangupLast ==
    /\ NothingAfterHangup
    /\ main \notin {"linger", "exited"} =>
          \A i \in 1..Len(calls) : calls[i].api # "hangup"

(* No call was made yet.                                                   *)
LEMMA InitialHangup == Init => HangupLast
BY DEF Init, HangupLast, NothingAfterHangup

(* A hangup leaves the loop for good.                                      *)
LEMMA StepHangup == Types /\ HangupLast /\ [Next]_vars => HangupLast'
<1> SUFFICES ASSUME Types, HangupLast, [Next]_vars
             PROVE  HangupLast'
  OBVIOUS
<1> USE DEF HangupLast, NothingAfterHangup, Startup, inVars, writtenVars,
        loopVars, ringVars, outVars, bindingVars
<1>1. ASSUME NEW l \in ParentLines, ParentWrite(l)
      PROVE  HangupLast'
  BY <1>1 DEF ParentWrite
<1>2. CASE ParentCloseStdin
  BY <1>2 DEF ParentCloseStdin
<1>3. CASE ParentRead
  BY <1>3 DEF ParentRead
<1>4. CASE ParentCloseStdout
  BY <1>4 DEF ParentCloseStdout
<1>5. CASE Sigterm
  BY <1>5 DEF Sigterm
<1>6. ASSUME NEW l \in ParentLines, ReadLine(l)
      PROVE  HangupLast'
  BY <1>6 DEF ReadLine, ReaderTake
<1>7. CASE ReadEof
  BY <1>7 DEF ReadEof
<1>8. ASSUME NEW cb \in Callbacks, Callback(cb)
      PROVE  HangupLast'
  BY <1>8 DEF Callback
<1>9. CASE Forward
  BY <1>9 DEF Forward, SendLine
<1>10. CASE WriteLine
  BY <1>10 DEF WriteLine
<1>11. CASE WriteFails
  BY <1>11 DEF WriteFails
<1>12. CASE ReadConfig
  BY <1>12 DEF ReadConfig, Return
<1>13. CASE NoConfig
  BY <1>13 DEF NoConfig, StartupError, Return
<1>14. CASE BindAudio
  BY <1>14 DEF BindAudio, StartupStep, StartupError, Return, Bind,
     BindPipe, CreateDevices, BindFails
<1>15. CASE StartChannel
  BY <1>15 DEF StartChannel
<1>16. CASE CreateFactory
  BY <1>16 DEF CreateFactory, StartupStep, StartupError, Return, DropBinding
<1>17. CASE DevicesListed
  BY <1>17 DEF DevicesListed, StartupStep, StartupError, Return, DropBinding
<1>18. CASE CreateManager
  BY <1>18 DEF CreateManager, StartupStep, StartupError, Return, DropBinding
<1>19. CASE LoopCheck
  BY <1>19 DEF LoopCheck, Return, DropBinding
<1>20. CASE LoopTimeout
  BY <1>20 DEF LoopTimeout, Return, DropBinding
<1>21. CASE Handle
  <2>1. PICK m \in Commands : HandlerEffect(m)
    BY <1>21, Handlers
  <2>2. \A i \in 1..Len(calls) : calls[i].api # "hangup"
    BY <2>1 DEF HandlerEffect
  <2>3. CASE calls' = calls
    BY <2>2, <2>3
  <2>4. CASE OneCallMore(m)
    <3>1. PICK api \in Apis, peer \in {active_peer_id', "empty"} :
            /\ RingRTC(api, peer, CallOf(m))
            /\ api = "hangup" => m.type = "hangup"
      BY <2>4 DEF OneCallMore
    <3>2. /\ calls \in Seq([api : Apis, peer : PeerIds, call : AnyCall])
          /\ calls' = Append(calls, [api |-> api, peer |-> peer,
                                     call |-> CallOf(m)])
      BY <3>1 DEF RingRTC, Types, CommandTypes
    <3>3. /\ Len(calls') = Len(calls) + 1
          /\ calls'[Len(calls) + 1].api = api
          /\ \A i \in 1..Len(calls) : calls'[i] = calls[i]
      BY <3>2
    <3>4. api = "hangup" => main' = "linger"
      BY <2>1, <3>1 DEF HandlerEffect
    <3> QED
      BY <2>2, <3>2, <3>3, <3>4
  <2> QED
    BY <2>1, <2>3, <2>4 DEF HandlerEffect
<1>22. CASE LingerEnds
  BY <1>22 DEF LingerEnds, DropBinding
<1>23. CASE PredecessorEnds /\ UNCHANGED <<inVars, reader, msgs, main,
            active_peer_id, ending, handled, calls, terminate, ringVars,
            outVars>>
  BY <1>23 DEF PredecessorEnds
<1>24. CASE Exited \/ UNCHANGED vars
  BY <1>24 DEF Exited, vars
<1> QED
  BY <1>1, <1>2, <1>3, <1>4, <1>5, <1>6, <1>7, <1>8, <1>9, <1>10, <1>11,
     <1>12, <1>13, <1>14, <1>15, <1>16, <1>17, <1>18, <1>19, <1>20, <1>21,
     <1>22, <1>23, <1>24
  DEF Next, Reader, Writer, Start, Loop

(* hangup() is the last call RingRTC gets (main.rs:455-462).               *)
THEOREM HangupIsLast == Spec => []NothingAfterHangup
<1>1. HangupLast => NothingAfterHangup
  BY DEF HangupLast
<1> QED
  BY <1>1, TypesInvariant, InitialHangup, StepHangup, PTL DEF Spec

-----------------------------------------------------------------------------
(* The way of the commands.                                                *)

IsCommand(l) == l.type \in AllCommandTypes

HasTorn(lines) == \E j \in 1..Len(lines) : lines[j].type = "torn"
FirstTorn(lines, j) ==
    /\ lines[j].type = "torn"
    /\ \A i \in 1..(j - 1) : lines[i].type # "torn"

(* The commands among `lines` are the members of `cmds` behind the first   *)
(* n, in order: line j brings their number to k[j], which is r at the      *)
(* first torn line.                                                        *)
Placed(k, lines, cmds, n, r) ==
    /\ k[0] = n /\ k[Len(lines)] = Len(cmds)
    /\ \A j \in 1..Len(lines) : FirstTorn(lines, j) => k[j] = r
    /\ \A j \in 1..Len(lines) :
          IF IsCommand(lines[j])
          THEN /\ k[j] = k[j - 1] + 1
               /\ cmds[k[j]] = parse_message(lines[j])
          ELSE k[j] = k[j - 1]

Pending(lines, cmds, n, r) ==
    \E k \in [0..Len(lines) -> 0..Len(cmds)] : Placed(k, lines, cmds, n, r)

(* Nothing is pending in an empty pipe: all n are there.                   *)
LEMMA PendingNone ==
    ASSUME NEW cmds \in Seq(Commands), NEW r
    PROVE  /\ Pending(<<>>, cmds, Len(cmds), r)
           /\ \A n : Pending(<<>>, cmds, n, r) => n = Len(cmds)
<1>1. [j \in 0..0 |-> Len(cmds)] \in [0..0 -> 0..Len(cmds)]
  OBVIOUS
<1>2. Placed([j \in 0..0 |-> Len(cmds)], <<>>, cmds, Len(cmds), r)
  BY DEF Placed
<1> QED
  BY <1>1, <1>2 DEF Pending, Placed

(* A line written is pending behind the others.                            *)
LEMMA PendingAppend ==
    ASSUME NEW lines \in Seq(RawLines), NEW cmds \in Seq(Commands), NEW n,
           NEW r, NEW s, NEW l \in RawLines, Pending(lines, cmds, n, r),
           HasTorn(lines) => s = r,
           ~HasTorn(lines) /\ l.type = "torn" => s = Len(cmds)
    PROVE  Pending(Append(lines, l),
                   IF IsCommand(l) THEN Append(cmds, parse_message(l))
                                   ELSE cmds, n, s)
<1> DEFINE cmds2 == IF IsCommand(l) THEN Append(cmds, parse_message(l))
                                    ELSE cmds
           lines2 == Append(lines, l)
<1>1. PICK k \in [0..Len(lines) -> 0..Len(cmds)] :
        Placed(k, lines, cmds, n, r)
  BY DEF Pending
<1> DEFINE k2 == [j \in 0..Len(lines2) |->
                    IF j \in 0..Len(lines) THEN k[j] ELSE Len(cmds2)]
<1>2. /\ cmds2 \in Seq(Commands)
      /\ Len(cmds2) = IF IsCommand(l) THEN Len(cmds) + 1 ELSE Len(cmds)
      /\ \A i \in 1..Len(cmds) : cmds2[i] = cmds[i]
      /\ IsCommand(l) => cmds2[Len(cmds) + 1] = parse_message(l)
  BY ParsedCommand DEF IsCommand
<1>3. /\ Len(lines2) = Len(lines) + 1
      /\ lines2[Len(lines) + 1] = l
      /\ \A j \in 1..Len(lines) : lines2[j] = lines[j]
  OBVIOUS
<1> HIDE DEF cmds2, lines2
<1>4. k2 \in [0..Len(lines2) -> 0..Len(cmds2)]
  BY <1>2, <1>3
<1>5. k2[0] = n /\ k2[Len(lines2)] = Len(cmds2)
  BY <1>1, <1>3 DEF Placed
<1>6. ASSUME NEW j \in 1..Len(lines2)
      PROVE  IF IsCommand(lines2[j])
             THEN /\ k2[j] = k2[j - 1] + 1
                  /\ cmds2[k2[j]] = parse_message(lines2[j])
             ELSE k2[j] = k2[j - 1]
  <2>1. CASE j \in 1..Len(lines)
    <3>1. /\ lines2[j] = lines[j] /\ k2[j] = k[j] /\ k2[j - 1] = k[j - 1]
          /\ k[j] \in 0..Len(cmds) /\ k[j - 1] \in 0..Len(cmds)
      <4>1. /\ j \in 0..Len(lines) /\ j - 1 \in 0..Len(lines)
            /\ j \in 0..Len(lines2) /\ j - 1 \in 0..Len(lines2)
        BY <1>3, <2>1
      <4> QED
        BY <1>1, <1>3, <2>1, <4>1
    <3>2. IF IsCommand(lines[j])
          THEN k[j] = k[j - 1] + 1 /\ cmds[k[j]] = parse_message(lines[j])
          ELSE k[j] = k[j - 1]
      BY <1>1, <2>1 DEF Placed
    <3> QED
      BY <1>2, <3>1, <3>2
  <2>2. CASE j = Len(lines) + 1
    <3>1. /\ lines2[j] = l /\ k2[j] = Len(cmds2)
          /\ k2[j - 1] = Len(cmds)
      BY <1>1, <1>3, <2>2 DEF Placed
    <3> QED
      BY <1>2, <3>1
  <2> QED
    BY <1>3, <2>1, <2>2
<1>7. ASSUME NEW j \in 1..Len(lines2), FirstTorn(lines2, j)
      PROVE  k2[j] = s
  <2>1. /\ lines2[j].type = "torn"
        /\ \A i \in 1..(j - 1) : lines2[i].type # "torn"
    BY <1>7 DEF FirstTorn
  <2>2. CASE j \in 1..Len(lines)
    <3>1. \A i \in 1..(j - 1) : i \in 1..Len(lines)
      BY <2>2
    <3>2. FirstTorn(lines, j) /\ HasTorn(lines)
      BY <1>3, <2>1, <2>2, <3>1 DEF FirstTorn, HasTorn
    <3>3. k2[j] = k[j] /\ k[j] = r
      BY <1>1, <2>2, <3>2 DEF Placed
    <3> QED
      BY <3>2, <3>3
  <2>3. CASE j = Len(lines) + 1
    <3>1. \A i \in 1..Len(lines) : i \in 1..(j - 1) /\ lines2[i] = lines[i]
      BY <1>3, <2>3
    <3>2. ~HasTorn(lines) /\ l.type = "torn"
      BY <1>3, <2>1, <2>3, <3>1 DEF HasTorn
    <3>3. ~IsCommand(l)
      BY <3>2 DEF IsCommand, AllCommandTypes
    <3>4. k2[j] = Len(cmds2) /\ Len(cmds2) = Len(cmds)
      BY <1>2, <1>3, <2>3, <3>3
    <3> QED
      BY <3>2, <3>4
  <2> QED
    BY <1>3, <2>2, <2>3
<1>8. Placed(k2, lines2, cmds2, n, s)
  BY <1>5, <1>6, <1>7 DEF Placed
<1>9. Pending(lines2, cmds2, n, s)
  BY <1>4, <1>8 DEF Pending
<1> QED
  BY <1>9 DEF cmds2, lines2

(* A command read is the next of cmds; a torn line comes behind r of them. *)
LEMMA PendingTail ==
    ASSUME NEW lines \in Seq(RawLines), NEW cmds \in Seq(Commands),
           NEW n \in Nat, NEW r, Pending(lines, cmds, n, r), lines # <<>>
    PROVE  /\ Head(lines).type = "torn" => n = r
           /\ IsCommand(Head(lines)) =>
                 /\ n < Len(cmds)
                 /\ cmds[n + 1] = parse_message(Head(lines))
                 /\ Pending(Tail(lines), cmds, n + 1, r)
           /\ ~IsCommand(Head(lines)) /\ Head(lines).type # "torn" =>
                 Pending(Tail(lines), cmds, n, r)
<1>1. PICK k \in [0..Len(lines) -> 0..Len(cmds)] :
        Placed(k, lines, cmds, n, r)
  BY DEF Pending
<1> DEFINE rest == Tail(lines)
           k2 == [j \in 0..Len(rest) |-> k[j + 1]]
<1>2. /\ rest \in Seq(RawLines) /\ Len(lines) \in Nat /\ Len(lines) >= 1
      /\ Len(rest) = Len(lines) - 1
      /\ \A j \in 1..Len(rest) : rest[j] = lines[j + 1]
      /\ Head(lines) = lines[1]
  OBVIOUS
<1> HIDE DEF rest
<1>3. k2 \in [0..Len(rest) -> 0..Len(cmds)]
  BY <1>2
<1>4. IF IsCommand(lines[1])
      THEN k[1] = k[0] + 1 /\ cmds[k[1]] = parse_message(lines[1])
      ELSE k[1] = k[0]
  BY <1>1, <1>2 DEF Placed
<1>5. k[0] = n /\ k[1] \in 0..Len(cmds)
  BY <1>1, <1>2 DEF Placed
<1>6. k2[0] = k[1] /\ k2[Len(rest)] = Len(cmds)
  BY <1>1, <1>2 DEF Placed
<1>7. ASSUME NEW j \in 1..Len(rest)
      PROVE  IF IsCommand(rest[j])
             THEN /\ k2[j] = k2[j - 1] + 1
                  /\ cmds[k2[j]] = parse_message(rest[j])
             ELSE k2[j] = k2[j - 1]
  <2>1. /\ j + 1 \in 1..Len(lines) /\ rest[j] = lines[j + 1]
        /\ k2[j] = k[j + 1] /\ k2[j - 1] = k[j] /\ (j + 1) - 1 = j
    BY <1>2
  <2>2. IF IsCommand(lines[j + 1])
        THEN /\ k[j + 1] = k[(j + 1) - 1] + 1
             /\ cmds[k[j + 1]] = parse_message(lines[j + 1])
        ELSE k[j + 1] = k[(j + 1) - 1]
    BY <1>1, <2>1 DEF Placed
  <2> QED
    BY <2>1, <2>2
<1>8. ASSUME lines[1].type # "torn", NEW j \in 1..Len(rest),
             FirstTorn(rest, j)
      PROVE  k2[j] = r
  <2>1. j + 1 \in 1..Len(lines) /\ k2[j] = k[j + 1] /\ rest[j] = lines[j + 1]
    BY <1>2
  <2>2. ASSUME NEW i \in 1..((j + 1) - 1) PROVE lines[i].type # "torn"
    <3>1. CASE i = 1
      BY <1>8, <3>1
    <3>2. CASE i # 1
      <4>1. i - 1 \in 1..(j - 1) /\ i - 1 \in 1..Len(rest)
        BY <1>2, <2>1, <3>2
      <4>2. rest[i - 1] = lines[(i - 1) + 1] /\ (i - 1) + 1 = i
        BY <1>2, <4>1
      <4> QED
        BY <1>8, <4>1, <4>2 DEF FirstTorn
    <3> QED
      BY <3>1, <3>2
  <2>3. FirstTorn(lines, j + 1)
    BY <1>8, <2>1, <2>2 DEF FirstTorn
  <2> QED
    BY <1>1, <2>1, <2>3 DEF Placed
<1>9. lines[1].type # "torn" => Pending(rest, cmds, k[1], r)
  <2> SUFFICES ASSUME lines[1].type # "torn"
               PROVE  Pending(rest, cmds, k[1], r)
    OBVIOUS
  <2>1. Placed(k2, rest, cmds, k[1], r)
    BY <1>6, <1>7, <1>8 DEF Placed
  <2> QED
    BY <1>3, <2>1 DEF Pending
<1>10. ASSUME IsCommand(lines[1])
       PROVE  /\ n < Len(cmds) /\ cmds[n + 1] = parse_message(lines[1])
              /\ Pending(rest, cmds, n + 1, r)
  <2>1. lines[1].type # "torn"
    BY <1>10 DEF IsCommand, AllCommandTypes
  <2> QED
    BY <1>4, <1>5, <1>9, <1>10, <2>1
<1>11. ASSUME ~IsCommand(lines[1]), lines[1].type # "torn"
       PROVE  Pending(rest, cmds, n, r)
  BY <1>4, <1>5, <1>9, <1>11
<1>12. ASSUME lines[1].type = "torn"
       PROVE  n = r
  <2>1. FirstTorn(lines, 1) /\ ~IsCommand(lines[1])
    BY <1>12 DEF FirstTorn, IsCommand, AllCommandTypes
  <2>2. k[1] = r
    BY <1>1, <1>2, <2>1 DEF Placed
  <2> QED
    BY <1>4, <1>5, <2>1, <2>2
<1> QED
  BY <1>2, <1>10, <1>11, <1>12 DEF rest

(* What was read is handled or waits in the channel, and is what was       *)
(* issued, in order; the rest is in the pipe.                              *)
Passed ==
    /\ Len(handled) + Len(msgs) <= Len(issued)
    /\ \A i \in 1..Len(handled) : handled[i] = issued[i]
    /\ \A i \in 1..Len(msgs) : msgs[i] = issued[Len(handled) + i]
InPipe ==
    reader # "done" /\ Alive =>
        Pending(stdin, issued, Len(handled) + Len(msgs), readable)

(* The first line, which the startup takes, is no command.                 *)
FirstLine ==
    /\ main \in BeforeChannel => reader = "new"
    /\ main = "config" =>
          /\ written = 0 <=> stdin = <<>>
          /\ stdin # <<>> => ~IsCommand(stdin[1])

(* The reader stops at the end of the input or at the first torn line, and *)
(* has then read the commands before it, or all.                           *)
InputEnds ==
    /\ ~torn => readable = Len(issued)
    /\ reader # "done" /\ Alive /\ torn => HasTorn(stdin)
    /\ reader # "done" /\ Alive /\ HasTorn(stdin) => torn
    /\ reader = "done" =>
          /\ Len(handled) + Len(msgs) = readable
          /\ torn \/ ~stdinOpen
    /\ ending = "eof" => main = "exited" /\ reader = "done" /\ msgs = <<>>

InOrder == Passed /\ InPipe /\ FirstLine /\ InputEnds

(* The calls are about the peer and the call of the first command.         *)
PeerKept ==
    /\ handled = <<>> => calls = <<>>
    /\ OneCall(issued) =>
          /\ handled # <<>> => active_peer_id = issued[1].peer
          /\ \A i \in 1..Len(calls) :
                /\ calls[i].peer \in {issued[1].peer, "empty"}
                /\ calls[i].call = CONFIG_CALL

(* Only four steps move a command; the others end the input at most.       *)
InputKept ==
    /\ UNCHANGED <<stdin, writtenVars, msgs, handled, calls, active_peer_id>>
    /\ stdinOpen' => stdinOpen
    /\ main' = "config" => main = "config"
    /\ main' \in BeforeChannel => main \in BeforeChannel /\ reader' = reader
    /\ main = "exited" => main' = "exited"
    /\ reader = "done" => reader' = "done"
    /\ reader' = "done" =>
          reader = "done" \/ (stdin = <<>> /\ ~stdinOpen /\ Alive)
    /\ ending' = "eof" =>
          main' = "exited" /\ reader' = "done" /\ msgs = <<>>

InputStep ==
    \/ \E l \in ParentLines : ParentWrite(l)
    \/ \E l \in ParentLines : ReadLine(l)
    \/ ReadConfig
    \/ \E m \in Commands : HandlerEffect(m)
    \/ InputKept

(* Every step is one of these.                                             *)
LEMMA InputSteps ==
    Types /\ FirstLine /\ InputEnds /\ [Next]_vars => InputStep
<1> SUFFICES ASSUME Types, FirstLine, InputEnds, [Next]_vars
             PROVE  InputStep
  OBVIOUS
<1>0. ending = "eof" => main = "exited" /\ reader = "done" /\ msgs = <<>>
  BY DEF InputEnds
<1> USE <1>0 DEF Types, PlaceTypes, FirstLine, InputKept, Alive, Startup,
        BeforeChannel, inVars, writtenVars, loopVars, ringVars, outVars,
        bindingVars
<1>1. ASSUME NEW l \in ParentLines, ParentWrite(l)
      PROVE  InputStep
  BY <1>1 DEF InputStep
<1>2. CASE ParentCloseStdin
  BY <1>2 DEF ParentCloseStdin, InputStep
<1>3. CASE ParentRead
  BY <1>3 DEF ParentRead, InputStep
<1>4. CASE ParentCloseStdout
  BY <1>4 DEF ParentCloseStdout, InputStep
<1>5. CASE Sigterm
  BY <1>5 DEF Sigterm, InputStep
<1>6. ASSUME NEW l \in ParentLines, ReadLine(l)
      PROVE  InputStep
  BY <1>6 DEF InputStep
<1>7. CASE ReadEof
  BY <1>7 DEF ReadEof, InputStep
<1>8. ASSUME NEW cb \in Callbacks, Callback(cb)
      PROVE  InputStep
  BY <1>8 DEF Callback, InputStep
<1>9. CASE Forward
  BY <1>9 DEF Forward, SendLine, InputStep
<1>10. CASE WriteLine
  BY <1>10 DEF WriteLine, InputStep
<1>11. CASE WriteFails
  BY <1>11 DEF WriteFails, InputStep
<1>12. CASE ReadConfig
  BY <1>12 DEF InputStep
<1>13. CASE NoConfig
  BY <1>13 DEF NoConfig, StartupError, Return, InputStep
<1>14. CASE BindAudio
  BY <1>14 DEF BindAudio, StartupStep, StartupError, Return, Bind,
     BindPipe, CreateDevices, BindFails, InputStep
<1>15. CASE StartChannel
  BY <1>15 DEF StartChannel, InputStep
<1>16. CASE CreateFactory
  BY <1>16 DEF CreateFactory, StartupStep, StartupError, Return,
     DropBinding, InputStep
<1>17. CASE DevicesListed
  BY <1>17 DEF DevicesListed, StartupStep, StartupError, Return,
     DropBinding, InputStep
<1>18. CASE CreateManager
  BY <1>18 DEF CreateManager, StartupStep, StartupError, Return,
     DropBinding, InputStep
<1>19. CASE LoopCheck
  BY <1>19 DEF LoopCheck, Return, DropBinding, InputStep
<1>20. CASE LoopTimeout
  BY <1>20 DEF LoopTimeout, Return, DropBinding, InputStep
<1>21. CASE Handle
  <2>1. PICK m \in Commands : HandlerEffect(m)
    BY <1>21, Handlers
  <2> QED
    BY <2>1 DEF InputStep
<1>22. CASE LingerEnds
  BY <1>22 DEF LingerEnds, DropBinding, InputStep
<1>23. CASE PredecessorEnds /\ UNCHANGED <<inVars, reader, msgs, main,
            active_peer_id, ending, handled, calls, terminate, ringVars,
            outVars>>
  BY <1>23 DEF PredecessorEnds, InputStep
<1>24. CASE Exited \/ UNCHANGED vars
  BY <1>24 DEF Exited, vars, InputStep
<1> QED
  BY <1>1, <1>2, <1>3, <1>4, <1>5, <1>6, <1>7, <1>8, <1>9, <1>10, <1>11,
     <1>12, <1>13, <1>14, <1>15, <1>16, <1>17, <1>18, <1>19, <1>20, <1>21,
     <1>22, <1>23, <1>24
  DEF Next, Reader, Writer, Start, Loop

(* Nothing was issued yet.                                                 *)
LEMMA InitialOrder == Init => InOrder /\ PeerKept
<1> SUFFICES ASSUME Init PROVE InOrder /\ PeerKept
  OBVIOUS
<1>1. Pending(<<>>, <<>>, 0, 0)
  <2>1. <<>> \in Seq(Commands) /\ Len(<<>>) = 0
    OBVIOUS
  <2> QED
    BY <2>1, PendingNone
<1>2. InPipe
  BY <1>1 DEF Init, InPipe
<1>3. Passed /\ FirstLine /\ InputEnds /\ PeerKept
  BY DEF Init, Passed, FirstLine, InputEnds, HasTorn, PeerKept
<1> QED
  BY <1>2, <1>3 DEF InOrder

(* No step loses, doubles or swaps a command.                              *)
LEMMA StepOrder == Types /\ InOrder /\ [Next]_vars => InOrder'
<1> SUFFICES ASSUME Types, InOrder, [Next]_vars
             PROVE  InOrder'
  OBVIOUS
<1> USE DEF InOrder
<1>1. InputStep
  BY InputSteps
<1>2. /\ stdin \in Seq(RawLines) /\ issued \in Seq(Commands)
      /\ msgs \in Seq(Commands) /\ handled \in Seq(Commands)
      /\ written \in Nat /\ readable \in Nat
  BY DEF Types, CommandTypes, CountTypes
<1>3. ASSUME NEW l \in ParentLines, ParentWrite(l)
      PROVE  InOrder'
  <2>1. /\ l \in RawLines /\ stdin' = Append(stdin, l)
        /\ issued' = IF IsCommand(l) THEN Append(issued, parse_message(l))
                                     ELSE issued
        /\ written' = written + 1 /\ stdinOpen /\ Alive
        /\ written = 0 => ~IsCommand(l)
        /\ UNCHANGED <<stdinOpen, msgs, handled, main, reader, ending>>
    BY <1>3, ParentLine DEF ParentWrite, IsCommand, loopVars, AllCommandTypes
  <2>2. /\ torn' <=> torn \/ l.type = "torn"
        /\ torn \/ ~IsCommand(l) => readable' = readable
        /\ ~torn /\ IsCommand(l) => readable' = readable + 1
    BY <1>3, Zenon DEF ParentWrite, IsCommand
  <2>3. /\ Len(issued') = IF IsCommand(l) THEN Len(issued) + 1
                                          ELSE Len(issued)
        /\ \A i \in 1..Len(issued) : issued'[i] = issued[i]
    BY <1>2, <2>1, ParsedCommand DEF IsCommand
  <2>4. Passed'
    BY <1>2, <2>1, <2>3 DEF Passed
  <2>5. /\ Len(stdin') = Len(stdin) + 1 /\ stdin' # <<>>
        /\ Len(stdin) \in Nat
        /\ stdin'[Len(stdin) + 1] = l
        /\ \A i \in 1..Len(stdin) : stdin'[i] = stdin[i]
    <3>1. /\ stdin \in Seq(RawLines) /\ l \in RawLines
          /\ stdin' = Append(stdin, l)
      BY <1>2, <2>1
    <3> QED
      BY ONLY <3>1
  <2>6. l.type = "torn" => ~IsCommand(l)
    BY DEF IsCommand, AllCommandTypes
  <2>7. InPipe'
    <3> SUFFICES ASSUME reader' # "done"
                 PROVE  Pending(stdin', issued', Len(handled') + Len(msgs'),
                                readable')
      BY DEF InPipe
    <3>1. Pending(stdin, issued, Len(handled) + Len(msgs), readable)
      BY <2>1 DEF InPipe
    <3>2. HasTorn(stdin) => readable' = readable
      BY <2>1, <2>2 DEF InputEnds
    <3>3. ~HasTorn(stdin) /\ l.type = "torn" => readable' = Len(issued)
      BY <2>1, <2>2, <2>6 DEF InputEnds
    <3>4. Pending(Append(stdin, l), issued', Len(handled) + Len(msgs),
                  readable')
      BY <1>2, <2>1, <3>1, <3>2, <3>3, PendingAppend
    <3> QED
      BY <2>1, <3>4
  <2>8. FirstLine'
    BY <1>2, <2>1, <2>5 DEF FirstLine
  <2>9. HasTorn(stdin') <=> HasTorn(stdin) \/ l.type = "torn"
    BY <2>5 DEF HasTorn
  <2>10. ~torn' => readable' = Len(issued')
    BY <2>2, <2>3 DEF InputEnds
  <2>11. reader = "done" => readable' = readable /\ torn
    BY <2>1, <2>2 DEF InputEnds
  <2>12. ending # "eof"
    BY <2>1 DEF InputEnds, Alive
  <2>13. Alive'
    BY <2>1 DEF Alive
  <2>14. InputEnds'
    BY <2>1, <2>2, <2>9, <2>10, <2>11, <2>12, <2>13 DEF InputEnds
  <2> QED
    BY <2>4, <2>7, <2>8, <2>14
<1>4. ASSUME NEW l \in ParentLines, ReadLine(l)
      PROVE  InOrder'
  <2>1. /\ Alive /\ reader = "run" /\ stdin # <<>> /\ l = Head(stdin)
        /\ stdin' = Tail(stdin)
        /\ msgs' = IF IsCommand(l) THEN Append(msgs, parse_message(l))
                                   ELSE msgs
        /\ reader' = IF l.type = "torn" THEN "done" ELSE "run"
        /\ UNCHANGED <<issued, handled, main, stdinOpen, ending, torn,
                       readable>>
    BY <1>4 DEF ReadLine, ReaderTake, IsCommand, loopVars, writtenVars
  <2>2. /\ stdin' \in Seq(RawLines) /\ Len(stdin') = Len(stdin) - 1
        /\ \A i \in 1..Len(stdin') : stdin'[i] = stdin[i + 1]
        /\ l = stdin[1] /\ Len(stdin) \in Nat /\ Len(stdin) >= 1
    BY <1>2, <2>1
  <2>3. /\ l.type = "torn" => Len(handled) + Len(msgs) = readable
        /\ IsCommand(l) =>
             /\ Len(handled) + Len(msgs) < Len(issued)
             /\ issued[Len(handled) + Len(msgs) + 1] = parse_message(l)
             /\ Pending(stdin', issued, Len(handled) + Len(msgs) + 1, readable)
        /\ ~IsCommand(l) /\ l.type # "torn" =>
             Pending(stdin', issued, Len(handled) + Len(msgs), readable)
    <3>1. Pending(stdin, issued, Len(handled) + Len(msgs), readable)
      BY <2>1 DEF InPipe
    <3>2. Len(handled) + Len(msgs) \in Nat
      BY <1>2
    <3> QED
      BY <1>2, <2>1, <3>1, <3>2, PendingTail
  <2>4. l.type = "torn" => ~IsCommand(l)
    BY DEF IsCommand, AllCommandTypes
  <2>5. Passed' /\ InPipe'
    <3>1. CASE IsCommand(l)
      <4>1. msgs' = Append(msgs, parse_message(l))
        BY <2>1, <3>1
      <4>2. /\ Len(msgs') = Len(msgs) + 1
            /\ msgs'[Len(msgs) + 1] = parse_message(l)
            /\ \A i \in 1..Len(msgs) : msgs'[i] = msgs[i]
        BY <1>2, <4>1
      <4>3. Passed'
        BY <1>2, <2>1, <2>3, <3>1, <4>2 DEF Passed
      <4>4. Len(handled) + Len(msgs') = Len(handled) + Len(msgs) + 1
        BY <1>2, <4>2
      <4>5. InPipe'
        BY <2>1, <2>3, <3>1, <4>4 DEF InPipe
      <4> QED
        BY <4>3, <4>5
    <3>2. CASE ~IsCommand(l)
      BY <2>1, <2>3, <3>2 DEF Passed, InPipe
    <3> QED
      BY <3>1, <3>2
  <2>6. FirstLine'
    BY <2>1 DEF FirstLine, BeforeChannel
  <2>7. HasTorn(stdin) <=> HasTorn(stdin') \/ l.type = "torn"
    <3>1. ASSUME NEW j \in 1..Len(stdin), stdin[j].type = "torn", j # 1
          PROVE  HasTorn(stdin')
      <4>1. j - 1 \in 1..Len(stdin') /\ (j - 1) + 1 = j
        BY <2>2, <3>1
      <4> QED
        BY <2>2, <3>1, <4>1 DEF HasTorn
    <3>2. ASSUME NEW j \in 1..Len(stdin'), stdin'[j].type = "torn"
          PROVE  HasTorn(stdin)
      <4>1. j + 1 \in 1..Len(stdin)
        BY <2>2
      <4> QED
        BY <2>2, <3>2, <4>1 DEF HasTorn
    <3>3. l.type = "torn" => HasTorn(stdin)
      BY <2>2 DEF HasTorn
    <3> QED
      BY <2>2, <3>1, <3>2, <3>3 DEF HasTorn
  <2>8. ending # "eof"
    BY <2>1 DEF InputEnds
  <2>9. InputEnds'
    <3>1. CASE l.type = "torn"
      <4>1. Len(handled') + Len(msgs') = readable' /\ torn' /\ reader' = "done"
        BY <2>1, <2>3, <2>4, <2>7, <3>1 DEF InputEnds
      <4> QED
        BY <2>1, <2>8, <4>1 DEF InputEnds
    <3>2. CASE l.type # "torn"
      <4>1. reader' = "run" /\ (HasTorn(stdin') <=> HasTorn(stdin))
        BY <2>1, <2>7, <3>2
      <4> QED
        BY <2>1, <2>8, <4>1 DEF InputEnds, Alive
    <3> QED
      BY <3>1, <3>2
  <2> QED
    BY <2>5, <2>6, <2>9
<1>5. CASE ReadConfig
  <2>1. /\ main = "config" /\ stdin # <<>> /\ stdin' = Tail(stdin)
        /\ \/ Head(stdin).type = "config" /\ main' = "bind"
           \/ main' = "exited"
        /\ (ending' = ending \/ ending' = "error")
        /\ UNCHANGED <<issued, handled, msgs, reader, stdinOpen, torn,
                       readable>>
    BY <1>5 DEF ReadConfig, Return, writtenVars
  <2>2. /\ stdin' \in Seq(RawLines) /\ Len(stdin') = Len(stdin) - 1
        /\ \A i \in 1..Len(stdin') : stdin'[i] = stdin[i + 1]
        /\ Head(stdin) = stdin[1] /\ Len(stdin) \in Nat /\ Len(stdin) >= 1
    BY <1>2, <2>1
  <2>3. reader = "new" /\ ~IsCommand(stdin[1]) /\ Alive
    BY <2>1 DEF FirstLine, BeforeChannel, Alive
  <2>4. InPipe'
    <3> SUFFICES ASSUME main' # "exited"
                 PROVE  Pending(stdin', issued', Len(handled') + Len(msgs'),
                                readable')
      BY DEF InPipe, Alive
    <3>1. Pending(stdin, issued, Len(handled) + Len(msgs), readable)
      BY <2>3 DEF InPipe
    <3>2. Len(handled) + Len(msgs) \in Nat /\ Head(stdin).type # "torn"
      BY <1>2, <2>1
    <3>3. Pending(Tail(stdin), issued, Len(handled) + Len(msgs), readable)
      BY <1>2, <2>1, <2>2, <2>3, <3>1, <3>2, PendingTail
    <3> QED
      BY <2>1, <3>3
  <2>5. Alive' => (HasTorn(stdin') <=> HasTorn(stdin))
    <3> SUFFICES ASSUME main' # "exited"
                 PROVE  HasTorn(stdin') <=> HasTorn(stdin)
      BY DEF Alive
    <3>1. stdin[1].type # "torn"
      BY <2>1, <2>2
    <3>2. ASSUME NEW j \in 1..Len(stdin), stdin[j].type = "torn"
          PROVE  HasTorn(stdin')
      <4>1. j - 1 \in 1..Len(stdin') /\ (j - 1) + 1 = j
        BY <2>2, <3>1, <3>2
      <4> QED
        BY <2>2, <3>2, <4>1 DEF HasTorn
    <3>3. ASSUME NEW j \in 1..Len(stdin'), stdin'[j].type = "torn"
          PROVE  HasTorn(stdin)
      <4>1. j + 1 \in 1..Len(stdin)
        BY <2>2
      <4> QED
        BY <2>2, <3>3, <4>1 DEF HasTorn
    <3> QED
      BY <3>2, <3>3 DEF HasTorn
  <2>6. ending' # "eof"
    BY <2>1, <2>3 DEF InputEnds
  <2>7. InputEnds'
    BY <2>1, <2>3, <2>5, <2>6 DEF InputEnds
  <2>8. FirstLine'
    BY <2>1, <2>3 DEF FirstLine, BeforeChannel
  <2> QED
    BY <2>1, <2>4, <2>7, <2>8 DEF Passed
<1>6. ASSUME NEW m \in Commands, HandlerEffect(m)
      PROVE  InOrder'
  <2>1. /\ main = "recv" /\ msgs # <<>> /\ m = Head(msgs)
        /\ msgs' = Tail(msgs) /\ handled' = Append(handled, m)
        /\ main' \in {"linger", "check"}
        /\ (ending' = ending \/ ending' = "hangup")
        /\ UNCHANGED <<stdin, stdinOpen, issued, reader, torn, readable>>
    BY <1>6 DEF HandlerEffect, inVars, writtenVars
  <2>2. /\ Len(msgs') = Len(msgs) - 1 /\ m = msgs[1]
        /\ Len(msgs) \in Nat /\ Len(msgs) >= 1
        /\ \A i \in 1..Len(msgs') : msgs'[i] = msgs[i + 1]
    BY <1>2, <2>1
  <2>3. /\ Len(handled') = Len(handled) + 1 /\ handled'[Len(handled) + 1] = m
        /\ \A i \in 1..Len(handled) : handled'[i] = handled[i]
    BY <1>2, <2>1
  <2>4. Passed'
    BY <1>2, <2>1, <2>2, <2>3 DEF Passed
  <2>5. Len(handled') + Len(msgs') = Len(handled) + Len(msgs)
    BY <1>2, <2>2, <2>3
  <2>6. Alive /\ Alive'
    BY <2>1 DEF Alive
  <2>7. InPipe'
    BY <2>1, <2>5, <2>6 DEF InPipe
  <2>8. ending' # "eof"
    BY <2>1 DEF InputEnds
  <2>9. InputEnds'
    BY <2>1, <2>5, <2>6, <2>8 DEF InputEnds
  <2>10. FirstLine'
    BY <2>1 DEF FirstLine, BeforeChannel
  <2> QED
    BY <2>4, <2>7, <2>9, <2>10
<1>7. CASE InputKept
  <2>1. /\ UNCHANGED <<stdin, written, issued, torn, readable, msgs, handled>>
        /\ reader' # "done" => reader # "done"
        /\ Alive' => Alive
    BY <1>7 DEF InputKept, writtenVars, Alive
  <2>2. Passed' /\ FirstLine'
    BY <1>7, <2>1 DEF InputKept, Passed, FirstLine
  <2>3. InPipe'
    BY <2>1 DEF InPipe
  <2>4. ending' = "eof" => main' = "exited" /\ reader' = "done" /\ msgs' = <<>>
    BY <1>7, <2>1 DEF InputKept
  <2>5. /\ HasTorn(stdin') <=> HasTorn(stdin)
        /\ Len(handled') + Len(msgs') = Len(handled) + Len(msgs)
        /\ Len(issued') = Len(issued)
    BY <2>1
  <2>6. ASSUME reader' = "done", reader # "done"
        PROVE  InputEnds'
    <3>1. stdin = <<>> /\ ~stdinOpen' /\ Alive
      BY <1>7, <2>6 DEF InputKept
    <3>2. Len(handled) + Len(msgs) = Len(issued)
      BY <1>2, <2>6, <3>1, PendingNone DEF InPipe
    <3>3. ~torn
      BY <2>6, <3>1 DEF InputEnds, HasTorn
    <3>4. Len(handled') + Len(msgs') = readable'
      BY <2>1, <3>2, <3>3 DEF InputEnds
    <3> QED
      BY <2>1, <2>4, <2>5, <2>6, <3>1, <3>4 DEF InputEnds
  <2>7. ASSUME reader' = "done" => reader = "done"
        PROVE  InputEnds'
    <3>1. ~torn' => readable' = Len(issued')
      BY <2>1, <2>5 DEF InputEnds
    <3>2. reader' # "done" /\ Alive' => (torn' <=> HasTorn(stdin'))
      BY <2>1, <2>5 DEF InputEnds
    <3>3. reader' = "done" => torn' \/ ~stdinOpen'
      BY <1>7, <2>1, <2>7 DEF InputEnds, InputKept
    <3>4. reader' = "done" => Len(handled') + Len(msgs') = readable'
      BY <2>1, <2>5, <2>7 DEF InputEnds
    <3> QED
      BY <2>4, <3>1, <3>2, <3>3, <3>4 DEF InputEnds
  <2> QED
    BY <2>2, <2>3, <2>6, <2>7
<1> QED
  BY <1>1, <1>3, <1>4, <1>5, <1>6, <1>7 DEF InputStep

(* The order of the commands holds throughout.                             *)
LEMMA OrderInvariant == Spec => []InOrder
BY TypesInvariant, InitialOrder, StepOrder, PTL DEF Spec

(* What the loop has handled when it ends on the closed channel is what    *)
(* the parent wrote before the first line that is not UTF-8, and all when  *)
(* there is none (main.rs:259, control.rs:393).                            *)
THEOREM AllReadableHandledAtEof == Spec => []EofLosesOnlyUnreadable
<1>1. Types /\ InOrder => EofLosesOnlyUnreadable
  <2> SUFFICES ASSUME Types, InOrder, ending = "eof"
               PROVE  handled = SubSeq(issued, 1, readable)
    BY DEF EofLosesOnlyUnreadable
  <2>1. /\ issued \in Seq(Commands) /\ handled \in Seq(Commands)
        /\ msgs = <<>> /\ Len(handled) + Len(msgs) = readable
    BY DEF Types, CommandTypes, InOrder, InputEnds
  <2>2. Len(handled) = readable /\ readable \in Nat
    BY <2>1
  <2>3. /\ readable <= Len(issued) /\ Len(issued) \in Nat
        /\ \A i \in 1..Len(handled) : handled[i] = issued[i]
    BY <2>1, <2>2 DEF InOrder, Passed
  <2>4. /\ SubSeq(issued, 1, readable) \in Seq(Commands)
        /\ Len(SubSeq(issued, 1, readable)) = readable
        /\ \A i \in 1..readable : SubSeq(issued, 1, readable)[i] = issued[i]
    BY <2>1, <2>2, <2>3
  <2> QED
    BY <2>1, <2>2, <2>3, <2>4, SeqEqual
<1> QED
  BY <1>1, TypesInvariant, OrderInvariant, PTL

(* The next command to be handled is the next one issued.                  *)
LEMMA NextHandled ==
    ASSUME Types, Passed, NEW m \in Commands, HandlerEffect(m)
    PROVE  /\ Len(handled) < Len(issued) /\ m = issued[Len(handled) + 1]
           /\ handled' = Append(handled, m) /\ issued' = issued
<1>1. /\ msgs # <<>> /\ m = Head(msgs) /\ handled' = Append(handled, m)
      /\ issued' = issued
  BY DEF HandlerEffect, inVars, writtenVars
<1>2. msgs \in Seq(Commands) /\ Len(handled) \in Nat /\ Len(issued) \in Nat
  BY DEF Types, CommandTypes
<1>3. Len(msgs) \in Nat /\ Len(msgs) >= 1 /\ m = msgs[1]
  BY <1>1, <1>2
<1>4. Len(handled) < Len(issued) /\ m = issued[Len(handled) + 1]
  BY <1>2, <1>3 DEF Passed
<1> QED
  BY <1>1, <1>4

(* The commands reach the event loop in order, each once and none skipped: *)
(* the tunnel implements the relay of the parent's commands.               *)
THEOREM CommandsReachLoop == Spec => CommandsRelayed
<1>1. Init => CommandRelay!Init
  BY DEF Init, CommandRelay!Init
<1>2. Types /\ InOrder /\ [Next]_vars
        => [CommandRelay!Next]_<<issued, handled>>
  <2> SUFFICES ASSUME Types, InOrder, [Next]_vars
               PROVE  CommandRelay!Next \/ UNCHANGED <<issued, handled>>
    OBVIOUS
  <2>1. InputStep
    BY InputSteps DEF InOrder
  <2>2. ASSUME NEW l \in ParentLines, ParentWrite(l)
        PROVE  CommandRelay!Next \/ UNCHANGED <<issued, handled>>
    <3>1. handled' = handled
      BY <2>2 DEF ParentWrite, loopVars
    <3>2. CASE l.type \in AllCommandTypes
      <4>1. issued' = Append(issued, parse_message(l))
        BY <2>2, <3>2 DEF ParentWrite
      <4>2. parse_message(l) \in Commands
        BY <3>2, ParsedCommand, ParentLine
      <4> QED
        BY <3>1, <4>1, <4>2 DEF CommandRelay!Next, CommandRelay!Send
    <3>3. CASE l.type \notin AllCommandTypes
      BY <2>2, <3>1, <3>3 DEF ParentWrite
    <3> QED
      BY <3>2, <3>3
  <2>3. ASSUME NEW l \in ParentLines, ReadLine(l)
        PROVE  UNCHANGED <<issued, handled>>
    BY <2>3 DEF ReadLine, ReaderTake, loopVars, writtenVars
  <2>4. CASE ReadConfig
    BY <2>4 DEF ReadConfig, writtenVars
  <2>5. ASSUME NEW m \in Commands, HandlerEffect(m)
        PROVE  CommandRelay!Next
    BY <2>5, NextHandled DEF InOrder, CommandRelay!Next, CommandRelay!Deliver
  <2>6. CASE InputKept
    BY <2>6 DEF InputKept, writtenVars
  <2> QED
    BY <2>1, <2>2, <2>3, <2>4, <2>5, <2>6 DEF InputStep
<1> QED
  BY <1>1, <1>2, TypesInvariant, OrderInvariant, PTL
  DEF Spec, CommandsRelayed, CommandRelay!Spec

(* Handling the next command keeps to the peer and the call of the first.  *)
LEMMA HandledPeer ==
    ASSUME Types, Passed, PeerKept, NEW m \in Commands, HandlerEffect(m)
    PROVE  PeerKept'
<1>1. /\ Len(handled) < Len(issued) /\ m = issued[Len(handled) + 1]
      /\ handled' = Append(handled, m) /\ issued' = issued
  BY NextHandled
<1>2. /\ issued \in Seq(Commands) /\ handled \in Seq(Commands)
      /\ calls \in Seq([api : Apis, peer : PeerIds, call : AnyCall])
  BY DEF Types, CommandTypes
<1>3. handled' # <<>>
  BY <1>1, <1>2
<1>4. ASSUME OneCall(issued)
      PROVE  /\ active_peer_id' = issued[1].peer
             /\ \A i \in 1..Len(calls') :
                   /\ calls'[i].peer \in {issued[1].peer, "empty"}
                   /\ calls'[i].call = CONFIG_CALL
  <2>1. Len(handled) + 1 \in 1..Len(issued)
    BY <1>1, <1>2
  <2>2. /\ Starts(m) => m.peer = issued[1].peer
        /\ CallOf(m) = CONFIG_CALL
    BY <1>1, <1>4, <2>1 DEF OneCall, CallOf
  <2>3. active_peer_id' = issued[1].peer
    <3>1. CASE Starts(m)
      BY <2>2, <3>1 DEF HandlerEffect
    <3>2. CASE ~Starts(m)
      <4>1. handled # <<>>
        BY <1>1, <1>2, <1>4, <3>2 DEF OneCall
      <4> QED
        BY <1>4, <3>2, <4>1 DEF HandlerEffect, PeerKept
    <3> QED
      BY <3>1, <3>2
  <2>4. \A i \in 1..Len(calls) :
          /\ calls[i].peer \in {issued[1].peer, "empty"}
          /\ calls[i].call = CONFIG_CALL
    BY <1>4 DEF PeerKept
  <2>5. CASE calls' = calls
    BY <2>3, <2>4, <2>5
  <2>6. CASE OneCallMore(m)
    <3>1. PICK api \in Apis, peer \in {active_peer_id', "empty"} :
            RingRTC(api, peer, CallOf(m))
      BY <2>6 DEF OneCallMore
    <3>2. calls' = Append(calls, [api |-> api, peer |-> peer,
                                  call |-> CallOf(m)])
      BY <3>1 DEF RingRTC
    <3>3. /\ Len(calls') = Len(calls) + 1 /\ Len(calls) \in Nat
          /\ calls'[Len(calls) + 1].peer = peer
          /\ calls'[Len(calls) + 1].call = CallOf(m)
          /\ \A i \in 1..Len(calls) : calls'[i] = calls[i]
      BY <1>2, <3>2
    <3>4. peer \in {issued[1].peer, "empty"}
      BY <2>3
    <3> QED
      BY <2>2, <2>3, <2>4, <3>3, <3>4
  <2> QED
    BY <2>5, <2>6 DEF HandlerEffect
<1> QED
  BY <1>1, <1>3, <1>4 DEF PeerKept

(* A parent may yet issue its first command, when nothing was handled.     *)
LEMMA WrittenPeer ==
    ASSUME Types, Passed, PeerKept, NEW l \in ParentLines, ParentWrite(l)
    PROVE  PeerKept'
<1>1. UNCHANGED <<handled, calls, active_peer_id>>
  BY DEF ParentWrite, loopVars
<1>2. CASE issued' = issued
  BY <1>1, <1>2 DEF PeerKept
<1>3. CASE issued' = Append(issued, parse_message(l)) /\ issued = <<>>
  <2>1. Len(handled) \in Nat /\ Len(msgs) \in Nat /\ handled \in Seq(Commands)
    BY DEF Types, CommandTypes
  <2>2. Len(handled) = 0
    BY <1>3, <2>1 DEF Passed
  <2>3. handled = <<>>
    BY ONLY <2>1, <2>2
  <2>4. handled' = <<>> /\ calls' = <<>>
    BY <1>1, <2>3 DEF PeerKept
  <2> QED
    BY <2>4 DEF PeerKept
<1>4. CASE /\ issued' = Append(issued, parse_message(l)) /\ issued # <<>>
           /\ l.type \in AllCommandTypes
  <2>1. issued \in Seq(Commands) /\ parse_message(l) \in Commands
    BY <1>4, ParsedCommand, ParentLine DEF Types, CommandTypes
  <2>2. /\ Len(issued') = Len(issued) + 1 /\ Len(issued) \in Nat
        /\ Len(issued) >= 1
        /\ \A i \in 1..Len(issued) : issued'[i] = issued[i]
    BY <1>4, <2>1
  <2>3. issued'[1] = issued[1]
    BY <2>2
  <2>4. OneCall(issued') => OneCall(issued)
    <3> SUFFICES ASSUME OneCall(issued')
                 PROVE  OneCall(issued)
      OBVIOUS
    <3>1. \A i \in 1..Len(issued) : i \in 1..Len(issued')
      BY <2>2
    <3>2. Starts(issued[1])
      BY <2>3 DEF OneCall
    <3>3. ASSUME NEW i \in 1..Len(issued)
          PROVE  /\ Starts(issued[i]) =>
                       /\ issued[i].peer = issued[1].peer
                       /\ issued[i].peer \in Peers
                 /\ Starts(issued[i]) \/ issued[i].type = "proceed" =>
                       issued[i].call = CONFIG_CALL
      <4>1. issued'[i] = issued[i] /\ i \in 1..Len(issued')
        BY <2>2, <3>1
      <4> QED
        BY <2>3, <4>1 DEF OneCall
    <3> QED
      BY <1>4, <3>2, <3>3 DEF OneCall
  <2> QED
    BY <1>1, <2>3, <2>4 DEF PeerKept
<1> QED
  BY <1>2, <1>3, <1>4 DEF ParentWrite

(* Every step keeps to the peer.                                           *)
LEMMA StepPeer == Types /\ InOrder /\ PeerKept /\ [Next]_vars => PeerKept'
<1> SUFFICES ASSUME Types, InOrder, PeerKept, [Next]_vars
             PROVE  PeerKept'
  OBVIOUS
<1>1. InputStep
  BY InputSteps DEF InOrder
<1>2. ASSUME NEW l \in ParentLines, ParentWrite(l)
      PROVE  PeerKept'
  BY <1>2, WrittenPeer DEF InOrder
<1>3. ASSUME NEW l \in ParentLines, ReadLine(l)
      PROVE  PeerKept'
  BY <1>3 DEF ReadLine, ReaderTake, loopVars, writtenVars, PeerKept
<1>4. CASE ReadConfig
  BY <1>4 DEF ReadConfig, writtenVars, PeerKept
<1>5. ASSUME NEW m \in Commands, HandlerEffect(m)
      PROVE  PeerKept'
  BY <1>5, HandledPeer DEF InOrder
<1>6. CASE InputKept
  BY <1>6 DEF InputKept, writtenVars, PeerKept
<1> QED
  BY <1>1, <1>2, <1>3, <1>4, <1>5, <1>6 DEF InputStep

(* As long as the parent keeps to one peer and one call, RingRTC hears of  *)
(* no other (TEST_HARNESS.md, "consistent peer ID across all API calls").  *)
THEOREM OnePeerThroughout == Spec => []ConsistentPeer
<1>1. PeerKept => ConsistentPeer
  BY DEF PeerKept, ConsistentPeer
<1> QED
  BY <1>1, TypesInvariant, OrderInvariant, InitialOrder, StepPeer, PTL
  DEF Spec

-----------------------------------------------------------------------------
(* The way of the events.                                                  *)

(* The lines of the events the forwarder has not taken, and of those the   *)
(* writer has not written.                                                 *)
LinesOf(cbs) == [i \in 1..Len(cbs) |-> LineOf(cbs[i])]
Reported == LinesOf(events)
Queued == Only(out, EventLines)

(* RingRTC is not called before the writer runs, so no event is reported   *)
(* to a forwarder that would drop it.                                      *)
NotStarted ==
    /\ main \in BeforeChannel => writer = "new"
    /\ writer = "new" => /\ events = <<>> /\ ~ringing
                         /\ main \in BeforeChannel \cup {"exited"}

(* As long as the writer lives, every event is in one place, in order.     *)
EventsPassed ==
    writer # "done" => InRow(shown, Queued, Reported) = emitted

EventsInv == NotStarted /\ EventsPassed

(* An event more, or one less, is a line more or less.                     *)
LEMMA LinesOfEvents ==
    ASSUME NEW cbs \in Seq(SignalingMessages \cup CallStates)
    PROVE  /\ LinesOf(cbs) \in Seq(EventLines)
           /\ \A cb \in SignalingMessages \cup CallStates :
                 LinesOf(Append(cbs, cb)) = Append(LinesOf(cbs), LineOf(cb))
           /\ cbs # <<>> =>
                 LinesOf(cbs) = <<LineOf(Head(cbs))>> \o LinesOf(Tail(cbs))
<1> DEFINE C == SignalingMessages \cup CallStates
<1>1. \A cb \in C : LineOf(cb) \in EventLines
  BY CallbackLine
<1>2. Len(cbs) \in Nat /\ \A i \in 1..Len(cbs) : cbs[i] \in C
  OBVIOUS
<1> HIDE DEF C
<1>3. LinesOf(cbs) \in Seq(EventLines) /\ Len(LinesOf(cbs)) = Len(cbs)
  BY <1>1, <1>2 DEF LinesOf
<1>4. ASSUME NEW cb \in C
      PROVE  LinesOf(Append(cbs, cb)) = Append(LinesOf(cbs), LineOf(cb))
  <2> DEFINE more == Append(cbs, cb)
  <2>1. /\ Len(more) = Len(cbs) + 1 /\ more[Len(cbs) + 1] = cb
        /\ \A i \in 1..Len(cbs) : more[i] = cbs[i]
    BY <1>4 DEF C
  <2> HIDE DEF more
  <2>2. LinesOf(more) = Append(LinesOf(cbs), LineOf(cb))
    BY <1>2, <1>3, <2>1 DEF LinesOf
  <2> QED
    BY <2>2 DEF more
<1>5. ASSUME cbs # <<>>
      PROVE  LinesOf(cbs) = <<LineOf(Head(cbs))>> \o LinesOf(Tail(cbs))
  <2> DEFINE rest == Tail(cbs)
             h == Head(cbs)
  <2>1. /\ Len(cbs) >= 1 /\ Len(rest) = Len(cbs) - 1 /\ h = cbs[1]
        /\ \A i \in 1..Len(rest) : rest[i] = cbs[i + 1]
    BY <1>5
  <2> HIDE DEF rest, h
  <2>2. LinesOf(cbs) = <<LineOf(h)>> \o LinesOf(rest)
    BY <1>2, <2>1 DEF LinesOf
  <2> QED
    BY <2>2 DEF rest, h
<1> QED
  BY <1>3, <1>4, <1>5 DEF C

(* The event lines among the lines: one more or less of them, or none.     *)
LEMMA EventLinesOf ==
    ASSUME NEW s \in Seq(Lines)
    PROVE  /\ Only(s, EventLines) \in Seq(EventLines)
           /\ \A l \in Lines :
                 Only(Append(s, l), EventLines)
                    = IF l \in EventLines
                      THEN Append(Only(s, EventLines), l)
                      ELSE Only(s, EventLines)
           /\ s # <<>> =>
                 Only(s, EventLines)
                    = IF Head(s) \in EventLines
                      THEN <<Head(s)>> \o Only(Tail(s), EventLines)
                      ELSE Only(Tail(s), EventLines)
<1> DEFINE E == EventLines
<1>1. Only(s, E) \in Seq(Lines \cap E)
  BY OnlyType
<1>2. Lines \cap E = E
  BY CallbackLine
<1> HIDE DEF E
<1>3. \A l \in Lines : Only(Append(s, l), E) = IF l \in E
                                               THEN Append(Only(s, E), l)
                                               ELSE Only(s, E)
  BY OnlyAppend
<1>4. s # <<>> => Only(s, E) = IF Head(s) \in E
                               THEN <<Head(s)>> \o Only(Tail(s), E)
                               ELSE Only(Tail(s), E)
  BY OnlyTail
<1> QED
  BY <1>1, <1>2, <1>3, <1>4 DEF E

(* The ready line and the error line tell of no event.                     *)
LEMMA OtherLines == ReadyLine \notin EventLines /\ ErrorLine \notin EventLines
<1>1. \A cb : LineOf(cb).type \notin {"ready", "error"}
  BY DEF LineOf, Line
<1>2. ReadyLine.type = "ready" /\ ErrorLine.type = "error"
  BY DEF ReadyLine, ErrorLine, Line
<1> QED
  BY <1>1, <1>2 DEF EventLines

(* Six kinds of step touch the events or the lines; the others leave the   *)
(* writer, and nobody calls RingRTC, before the channel is there.          *)
OutputKept ==
    /\ UNCHANGED <<ringing, events, emitted, out, writer, stdout>>
    /\ main' \in BeforeChannel => main \in BeforeChannel
    /\ main \in BeforeChannel \cup {"exited"} =>
          main' \in BeforeChannel \cup {"exited"}

OutputStep ==
    \/ \E cb \in Callbacks : Callback(cb)
    \/ Forward
    \/ WriteLine
    \/ WriteFails
    \/ StartChannel
    \/ \E m \in Commands : HandlerEffect(m)
    \/ OutputKept

(* Every step is one of these.                                             *)
LEMMA OutputSteps == Types /\ [Next]_vars => OutputStep
<1> SUFFICES ASSUME Types, [Next]_vars
             PROVE  OutputStep
  OBVIOUS
<1> USE DEF OutputKept, BeforeChannel, Alive, Startup, inVars, writtenVars,
        loopVars, ringVars, outVars, bindingVars
<1>1. ASSUME NEW l \in ParentLines, ParentWrite(l)
      PROVE  OutputStep
  BY <1>1 DEF ParentWrite, OutputStep
<1>2. CASE ParentCloseStdin
  BY <1>2 DEF ParentCloseStdin, OutputStep
<1>3. CASE ParentRead
  BY <1>3 DEF ParentRead, OutputStep
<1>4. CASE ParentCloseStdout
  BY <1>4 DEF ParentCloseStdout, OutputStep
<1>5. CASE Sigterm
  BY <1>5 DEF Sigterm, OutputStep
<1>6. ASSUME NEW l \in ParentLines, ReadLine(l)
      PROVE  OutputStep
  BY <1>6 DEF ReadLine, ReaderTake, OutputStep
<1>7. CASE ReadEof
  BY <1>7 DEF ReadEof, OutputStep
<1>8. ASSUME NEW cb \in Callbacks, Callback(cb)
      PROVE  OutputStep
  BY <1>8 DEF OutputStep
<1>9. CASE Forward
  BY <1>9 DEF OutputStep
<1>10. CASE WriteLine
  BY <1>10 DEF OutputStep
<1>11. CASE WriteFails
  BY <1>11 DEF OutputStep
<1>12. CASE ReadConfig
  BY <1>12 DEF ReadConfig, Return, OutputStep
<1>13. CASE NoConfig
  BY <1>13 DEF NoConfig, StartupError, Return, OutputStep
<1>14. CASE BindAudio
  BY <1>14 DEF BindAudio, StartupStep, StartupError, Return, Bind,
     BindPipe, CreateDevices, BindFails, OutputStep
<1>15. CASE StartChannel
  BY <1>15 DEF OutputStep
<1>16. CASE CreateFactory
  BY <1>16 DEF CreateFactory, StartupStep, StartupError, Return,
     DropBinding, OutputStep
<1>17. CASE DevicesListed
  BY <1>17 DEF DevicesListed, StartupStep, StartupError, Return,
     DropBinding, OutputStep
<1>18. CASE CreateManager
  BY <1>18 DEF CreateManager, StartupStep, StartupError, Return,
     DropBinding, OutputStep
<1>19. CASE LoopCheck
  BY <1>19 DEF LoopCheck, Return, DropBinding, OutputStep
<1>20. CASE LoopTimeout
  BY <1>20 DEF LoopTimeout, Return, DropBinding, OutputStep
<1>21. CASE Handle
  <2>1. PICK m \in Commands : HandlerEffect(m)
    BY <1>21, Handlers
  <2> QED
    BY <2>1 DEF OutputStep
<1>22. CASE LingerEnds
  BY <1>22 DEF LingerEnds, DropBinding, OutputStep
<1>23. CASE PredecessorEnds /\ UNCHANGED <<inVars, reader, msgs, main,
            active_peer_id, ending, handled, calls, terminate, ringVars,
            outVars>>
  BY <1>23 DEF PredecessorEnds, OutputStep
<1>24. CASE Exited \/ UNCHANGED vars
  BY <1>24 DEF Exited, vars, OutputStep
<1> QED
  BY <1>1, <1>2, <1>3, <1>4, <1>5, <1>6, <1>7, <1>8, <1>9, <1>10, <1>11,
     <1>12, <1>13, <1>14, <1>15, <1>16, <1>17, <1>18, <1>19, <1>20, <1>21,
     <1>22, <1>23, <1>24
  DEF Next, Reader, Writer, Start, Loop

(* No event before the writer.                                             *)
LEMMA StepNotStarted == Types /\ NotStarted /\ OutputStep => NotStarted'
<1> SUFFICES ASSUME Types, NotStarted, OutputStep
             PROVE  NotStarted'
  OBVIOUS
<1> USE DEF NotStarted, BeforeChannel
<1>1. ASSUME NEW cb \in Callbacks, Callback(cb) PROVE NotStarted'
  BY <1>1 DEF Callback, loopVars, outVars
<1>2. CASE Forward
  BY <1>2 DEF Forward, Alive, Startup, loopVars
<1>3. CASE WriteLine
  BY <1>3 DEF WriteLine, loopVars, ringVars
<1>4. CASE WriteFails
  BY <1>4 DEF WriteFails, loopVars, ringVars
<1>5. CASE StartChannel
  BY <1>5 DEF StartChannel
<1>6. ASSUME NEW m \in Commands, HandlerEffect(m) PROVE NotStarted'
  <2>1. main = "recv" /\ main' \in {"linger", "check"} /\ writer' = writer
    BY <1>6 DEF HandlerEffect
  <2> QED
    BY <2>1
<1>7. CASE OutputKept
  BY <1>7 DEF OutputKept
<1> QED
  BY <1>1, <1>2, <1>3, <1>4, <1>5, <1>6, <1>7 DEF OutputStep

(* What a step does to the events: one is reported, forwarded or shown, or *)
(* the writer is gone.                                                     *)
EventMoves ==
    \/ \E l \in EventLines :
          /\ Reported' = Append(Reported, l) /\ emitted' = Append(emitted, l)
          /\ UNCHANGED <<shown, Queued, writer>>
    \/ \E l \in EventLines :
          /\ Reported = <<l>> \o Reported' /\ Queued' = Append(Queued, l)
          /\ UNCHANGED <<shown, emitted, writer>>
    \/ \E l \in EventLines :
          /\ Queued = <<l>> \o Queued' /\ shown' = Append(shown, l)
          /\ UNCHANGED <<Reported, emitted, writer>> /\ writer = "run"
    \/ UNCHANGED <<shown, Queued, Reported, emitted>>
          /\ (writer' = "done" \/ writer # "done")
    \/ writer' = "done" /\ UNCHANGED <<shown, emitted>>

(* Every step does one of these.                                           *)
LEMMA EventSteps == Types /\ NotStarted /\ OutputStep => EventMoves
<1> SUFFICES ASSUME Types, NotStarted, OutputStep
             PROVE  EventMoves
  OBVIOUS
<1>0. /\ events \in Seq(SignalingMessages \cup CallStates)
      /\ out \in Seq(Lines) /\ stdout \in Seq(Lines)
      /\ writer \in {"new", "run", "done"}
  BY DEF Types, EventTypes, PlaceTypes
<1>1. ASSUME NEW cb \in Callbacks, Callback(cb) PROVE EventMoves
  <2>1. cb \in SignalingMessages \cup CallStates /\ LineOf(cb) \in EventLines
    BY CallbackLine
  <2>2. /\ events' = Append(events, cb)
        /\ emitted' = Append(emitted, LineOf(cb))
        /\ UNCHANGED <<stdout, out, writer>>
    BY <1>1, Zenon DEF Callback, outVars
  <2>3. Reported' = Append(Reported, LineOf(cb))
    <3>1. LinesOf(Append(events, cb)) = Append(LinesOf(events), LineOf(cb))
      BY <1>0, <2>1, LinesOfEvents
    <3> QED
      BY <2>2, <3>1, Zenon DEF Reported
  <2>4. UNCHANGED <<shown, Queued, writer>>
    BY <2>2, Zenon DEF shown, Queued
  <2> QED
    BY <2>1, <2>2, <2>3, <2>4, Zenon DEF EventMoves
<1>2. CASE Forward
  <2> DEFINE l == LineOf(Head(events))
  <2>1. /\ events # <<>> /\ events' = Tail(events)
        /\ out' = IF writer = "run" THEN Append(out, l) ELSE out
        /\ UNCHANGED <<stdout, emitted, writer>>
    BY <1>2, Zenon DEF Forward, SendLine
  <2>2. Head(events) \in SignalingMessages \cup CallStates
    BY <1>0, <2>1
  <2>3. l \in EventLines /\ l \in Lines
    BY <2>2, CallbackLine
  <2>4. Reported = <<l>> \o Reported'
    <3>1. LinesOf(events) = <<l>> \o LinesOf(Tail(events))
      BY <1>0, <2>1, LinesOfEvents
    <3> QED
      BY <2>1, <3>1, Zenon DEF Reported
  <2>5. UNCHANGED <<shown, emitted, writer>>
    BY <2>1, Zenon DEF shown
  <2>6. writer # "new"
    BY <2>1 DEF NotStarted
  <2> HIDE DEF l
  <2>7. CASE writer = "run"
    <3>1. Only(Append(out, l), EventLines) = Append(Queued, l)
      BY <1>0, <2>3, EventLinesOf DEF Queued
    <3>2. Queued' = Append(Queued, l)
      BY <2>1, <2>7, <3>1, Zenon DEF Queued
    <3> QED
      BY <2>3, <2>4, <2>5, <3>2, Zenon DEF EventMoves
  <2>8. CASE writer = "done"
    BY <2>5, <2>8, Zenon DEF EventMoves
  <2> QED
    BY <1>0, <2>6, <2>7, <2>8
<1>3. CASE WriteLine
  <2> DEFINE l == Head(out)
  <2>1. /\ writer = "run" /\ out # <<>>
        /\ stdout' = Append(stdout, l) /\ out' = Tail(out)
        /\ UNCHANGED <<events, emitted, writer>>
    BY <1>3, Zenon DEF WriteLine, ringVars
  <2>2. l \in Lines
    BY <1>0, <2>1
  <2>3. Queued = IF l \in EventLines THEN <<l>> \o Queued' ELSE Queued'
    <3>1. Only(out, EventLines) = IF l \in EventLines
                                  THEN <<l>> \o Only(Tail(out), EventLines)
                                  ELSE Only(Tail(out), EventLines)
      BY <1>0, <2>1, EventLinesOf
    <3> QED
      BY <2>1, <3>1, Zenon DEF Queued
  <2> HIDE DEF l
  <2>4. Only(Append(stdout, l), EventLines)
          = IF l \in EventLines THEN Append(shown, l) ELSE shown
    BY <1>0, <2>2, EventLinesOf DEF shown
  <2>5. shown' = IF l \in EventLines THEN Append(shown, l) ELSE shown
    BY <2>1, <2>4, Zenon DEF shown
  <2>6. UNCHANGED <<Reported, emitted, writer>>
    BY <2>1, Zenon DEF Reported
  <2>7. CASE l \in EventLines
    BY <2>1, <2>3, <2>5, <2>6, <2>7, Zenon DEF EventMoves
  <2>8. CASE l \notin EventLines
    <3>1. UNCHANGED <<shown, Queued, Reported, emitted>> /\ writer # "done"
      BY <2>1, <2>3, <2>5, <2>6, <2>8
    <3> QED
      BY <3>1, Zenon DEF EventMoves
  <2> QED
    BY <2>7, <2>8
<1>4. CASE WriteFails
  <2>1. writer' = "done" /\ UNCHANGED <<stdout, emitted>>
    BY <1>4, Zenon DEF WriteFails, ringVars
  <2> QED
    BY <2>1, Zenon DEF EventMoves, shown
<1>5. CASE StartChannel
  <2>1. /\ main = "channel" /\ out' = Append(out, ReadyLine)
        /\ UNCHANGED <<stdout, events, emitted>>
    BY <1>5, Zenon DEF StartChannel, ringVars
  <2>2. writer # "done"
    BY <2>1 DEF NotStarted, BeforeChannel
  <2>3. Only(Append(out, ReadyLine), EventLines) = Only(out, EventLines)
    BY <1>0, CallbackLine, OtherLines, EventLinesOf
  <2>4. UNCHANGED <<shown, Queued, Reported, emitted>>
    BY <2>1, <2>3, Zenon DEF shown, Queued, Reported
  <2> QED
    BY <2>2, <2>4, Zenon DEF EventMoves
<1>6. ASSUME NEW m \in Commands, HandlerEffect(m) PROVE EventMoves
  <2>1. /\ out' = out \/ out' = Append(out, ErrorLine)
        /\ UNCHANGED <<stdout, events, emitted, writer>>
    BY <1>6, Zenon DEF HandlerEffect, SendLine
  <2>2. Only(Append(out, ErrorLine), EventLines) = Only(out, EventLines)
    BY <1>0, CallbackLine, OtherLines, EventLinesOf
  <2>3. UNCHANGED <<shown, Queued, Reported, emitted>>
    BY <2>1, <2>2, Zenon DEF shown, Queued, Reported
  <2>4. writer' = "done" \/ writer # "done"
    BY <2>1
  <2> QED
    BY <2>3, <2>4, Zenon DEF EventMoves
<1>7. CASE OutputKept
  <2>1. UNCHANGED <<events, emitted, out, writer, stdout>>
    BY <1>7, Zenon DEF OutputKept
  <2>2. UNCHANGED <<shown, Queued, Reported, emitted>>
    BY <2>1, Zenon DEF shown, Queued, Reported
  <2>3. writer' = "done" \/ writer # "done"
    BY <2>1
  <2> QED
    BY <2>2, <2>3, Zenon DEF EventMoves
<1> QED
  BY <1>1, <1>2, <1>3, <1>4, <1>5, <1>6, <1>7, Zenon DEF OutputStep

(* What is shown, queued and reported are event lines.                     *)
LEMMA RowTypes ==
    EventTypes => /\ shown \in Seq(EventLines) /\ Queued \in Seq(EventLines)
                  /\ Reported \in Seq(EventLines)
                  /\ emitted \in Seq(EventLines)
BY EventLinesOf, LinesOfEvents DEF EventTypes, shown, Queued, Reported

(* The same of the next state.                                             *)
LEMMA NextRowTypes ==
    EventTypes' =>
        /\ shown' \in Seq(EventLines) /\ Queued' \in Seq(EventLines)
        /\ Reported' \in Seq(EventLines)
BY EventLinesOf, LinesOfEvents DEF EventTypes, shown, Queued, Reported

(* None is lost, doubled or overtaken by such a step.                      *)
LEMMA EventsPass ==
    EventTypes /\ EventTypes' /\ EventsPassed /\ EventMoves => EventsPassed'
<1> SUFFICES ASSUME EventTypes, EventTypes', EventsPassed, EventMoves,
                    writer' # "done"
             PROVE  InRow(shown', Queued', Reported') = emitted'
  BY Zenon DEF EventsPassed
<1> DEFINE E == EventLines
           row == InRow(shown', Queued', Reported')
<1>1. shown \in Seq(E) /\ Queued \in Seq(E) /\ Reported \in Seq(E)
  BY RowTypes
<1>2. shown' \in Seq(E) /\ Queued' \in Seq(E) /\ Reported' \in Seq(E)
  BY NextRowTypes
<1>3. writer # "done" => InRow(shown, Queued, Reported) = emitted
  BY Zenon DEF EventsPassed
<1> HIDE DEF E
<1>4. ASSUME NEW l \in E, Reported' = Append(Reported, l),
             emitted' = Append(emitted, l), UNCHANGED <<shown, Queued, writer>>
      PROVE  row = emitted'
  <2>1. IsAppend(Reported', Reported, l) /\ IsAppend(emitted', emitted, l)
    BY <1>4 DEF IsAppend
  <2>2. InRow(shown, Queued, Reported) = emitted
    BY <1>3, <1>4
  <2>3. InRow(shown, Queued, Reported') = emitted'
    BY <1>1, <2>1, <2>2, RowGrows
  <2> QED
    BY <1>4, <2>3
<1>5. ASSUME NEW l \in E, Reported = <<l>> \o Reported',
             Queued' = Append(Queued, l), UNCHANGED <<shown, emitted, writer>>
      PROVE  row = emitted'
  <2>1. InRow(shown, Append(Queued, l), Reported')
          = InRow(shown, Queued, <<l>> \o Reported')
    BY <1>1, <1>2, RowPasses
  <2> QED
    BY <1>3, <1>5, <2>1
<1>6. ASSUME NEW l \in E, Queued = <<l>> \o Queued',
             shown' = Append(shown, l), UNCHANGED <<Reported, emitted, writer>>
      PROVE  row = emitted'
  <2>1. InRow(Append(shown, l), Queued', Reported)
          = InRow(shown, <<l>> \o Queued', Reported)
    BY <1>1, <1>2, RowPasses
  <2> QED
    BY <1>3, <1>6, <2>1
<1>7. ASSUME UNCHANGED <<shown, Queued, Reported, emitted>>,
             writer # "done"
      PROVE  row = emitted'
  BY <1>3, <1>7
<1> QED
  BY <1>4, <1>5, <1>6, <1>7, Zenon DEF EventMoves, E

(* Nothing was reported yet.                                               *)
LEMMA InitialEvents == Init => EventsInv
<1> SUFFICES ASSUME Init PROVE EventsInv
  OBVIOUS
<1>1. NotStarted
  BY DEF Init, NotStarted, BeforeChannel
<1>2. LinesOf(<<>>) = <<>> /\ InRow(<<>>, <<>>, <<>>) = <<>>
  BY DEF LinesOf, InRow
<1>3. Only(<<>>, EventLines) = <<>>
  BY OnlyEmpty
<1>4. events = <<>> /\ out = <<>> /\ stdout = <<>> /\ emitted = <<>>
  BY DEF Init
<1>5. shown = <<>> /\ Queued = <<>> /\ Reported = <<>>
  BY <1>2, <1>3, <1>4, Zenon DEF shown, Queued, Reported
<1>6. EventsPassed
  BY <1>2, <1>4, <1>5, Zenon DEF EventsPassed
<1> QED
  BY <1>1, <1>6 DEF EventsInv

(* Both hold in every state.                                               *)
LEMMA EventsInvariant == Spec => [](Types /\ EventsInv)
<1>1. Types /\ Types' /\ EventsInv /\ [Next]_vars => EventsInv'
  BY OutputSteps, StepNotStarted, EventSteps, EventsPass, Zenon
  DEF EventsInv, Types
<1> QED
  BY <1>1, InitialEvents, TypesInvariant, PTL DEF Spec

(* What is shown is the next event that was reported.                      *)
LEMMA NextShown ==
    ASSUME Types, Types', EventsPassed', NEW l \in EventLines,
           shown' = Append(shown, l), writer' = "run", emitted' = emitted
    PROVE  /\ Len(shown) < Len(emitted)
           /\ shown' = Append(shown, emitted[Len(shown) + 1])
<1> DEFINE E == EventLines
<1>1. shown \in Seq(E) /\ l \in E
  BY RowTypes DEF Types
<1>2. Queued' \in Seq(E) /\ Reported' \in Seq(E)
  BY NextRowTypes DEF Types
<1>3. InRow(shown', Queued', Reported') = emitted'
  <2>1. writer' # "done"
    OBVIOUS
  <2> QED
    BY <2>1, Zenon DEF EventsPassed
<1> HIDE DEF E
<1>4. IsAppend(shown', shown, l)
  BY DEF IsAppend
<1>5. IsNext(emitted', shown, l)
  BY <1>1, <1>2, <1>3, <1>4, RowNext
<1> QED
  BY <1>5 DEF IsNext

(* The tunnel implements the relay for the events of RingRTC: the parent   *)
(* is shown them in the order of the callbacks, none skipped, through the  *)
(* forwarder and the writer, whatever lines come in between.               *)
THEOREM EventsReachParent == Spec => EventsRelayed
<1>1. Init => EventRelay!Init
  BY OnlyEmpty DEF Init, EventRelay!Init, shown
<1>2. Types /\ Types' /\ EventsInv /\ EventsInv' /\ [Next]_vars
        => [EventRelay!Next]_<<emitted, shown>>
  <2> SUFFICES ASSUME Types, Types', EventsInv, EventsInv', [Next]_vars
               PROVE  EventRelay!Next \/ UNCHANGED <<emitted, shown>>
    OBVIOUS
  <2>1. EventMoves
    BY OutputSteps, EventSteps DEF EventsInv
  <2>2. ASSUME NEW l \in EventLines, emitted' = Append(emitted, l),
               UNCHANGED shown
        PROVE  EventRelay!Next
    BY <2>2 DEF EventRelay!Next, EventRelay!Send
  <2>3. ASSUME NEW l \in EventLines, shown' = Append(shown, l),
               UNCHANGED <<emitted, writer>>, writer = "run"
        PROVE  EventRelay!Next
    <3>1. /\ Len(shown) < Len(emitted)
          /\ shown' = Append(shown, emitted[Len(shown) + 1])
      BY <2>3, NextShown DEF EventsInv
    <3> QED
      BY <2>3, <3>1 DEF EventRelay!Next, EventRelay!Deliver
  <2> QED
    BY <2>1, <2>2, <2>3, Zenon DEF EventMoves
<1> QED
  BY <1>1, <1>2, EventsInvariant, PTL
  DEF Spec, EventsRelayed, EventRelay!Spec
=============================================================================
