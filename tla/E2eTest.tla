------------------------------ MODULE E2eTest ------------------------------
(***************************************************************************)
(* The end-to-end test runner (voice-test/e2e_test.py): main() runs the    *)
(* selected scenarios one after the other, each over a connection of its   *)
(* own, against the daemon and its calls and the emulator (external).      *)
(*                                                                         *)
(* The RPC client is used as SignalRpc promises it: a request ends with    *)
(* its own answer, with nothing (None) or with an exception; notifications *)
(* are read in the order they were sent.  Every wait has a deadline, which *)
(* may pass at any moment.                                                 *)
(***************************************************************************)
EXTENDS Naturals, Sequences

CONSTANTS
    Selections,      \* the values of --scenarios in this instance
    MAX_CALLS        \* bound on the calls that come to be

ScenarioIds == {"A", "B", "C", "D", "E"}

ASSUME SelectionsAssumption ==
    /\ Selections \subseteq (Seq(ScenarioIds) \ {<<>>})
    /\ MAX_CALLS \in Nat

VARIABLES
    selected, no_fail_fast,    \* the arguments
    index,                     \* which of `selected` is running
    retried,                   \* scenario E is running again
    at,                        \* where main() is
    todo,                      \* the steps the scenario has left
    outcome,                   \* result.passed
    call_id,                   \* call_id of the scenario, 0 for None
    results,                   \* results[i].passed
    exit,                      \* the exit code, once there is one
    events,                    \* notifications not read on this connection
    subscribed,
    up,                        \* FALSE: the daemon is gone
    calls,                     \* the daemon's calls
    said, own, known,          \* history, see below
    asked, leftover

runner  == <<selected, no_fail_fast, index, retried, at, results, exit>>
script  == <<todo, outcome, call_id>>
rpc     == <<events, subscribed>>
history == <<said, own, known, asked, leftover>>
vars == <<runner, script, rpc, up, calls, history>>

(* said:     states reported on this connection, each with its call        *)
(* own:      the call the scenario placed or was called by, 0 for none     *)
(* known:    it has learned this call's id                                 *)
(* asked:    calls the daemon was asked to hang up or reject               *)
(* leftover: a call was still up when a scenario subscribed                *)

CallIds == 1..MAX_CALLS
States == {"RINGING_INCOMING", "RINGING_OUTGOING", "CONNECTED", "ENDED"}
Reports == [state : States, call : CallIds]

(* The steps of each scenario, in order.                                   *)
scenario_a == <<"connect", "subscribe", "start", "ring", "emulator",
                "connected", "stable", "hangup", "ended">>
scenario_b == <<"connect", "subscribe", "emulator", "dial", "incoming",
                "accept", "connected", "stable", "hangup", "ended">>
scenario_c == <<"connect", "subscribe", "emulator", "dial", "incoming",
                "reject", "verdict">>
scenario_d == <<"connect", "emulator", "subscribe", "start", "ring",
                "timeout">>
scenario_e == <<"connect", "emulator", "subscribe", "start", "ring",
                "emulator", "connected", "emulator", "stable", "audio",
                "hangup", "ended">>

SCENARIOS == [A |-> scenario_a, B |-> scenario_b, C |-> scenario_c,
              D |-> scenario_d, E |-> scenario_e]

StepsOf(scenario) == {scenario[i] : i \in 1..Len(scenario)}
Steps == UNION {StepsOf(SCENARIOS[s]) : s \in ScenarioIds}

TypeOK ==
    /\ selected \in Selections /\ no_fail_fast \in BOOLEAN
    /\ index \in 1..Len(selected) /\ retried \in BOOLEAN
    /\ at \in {"start", "steps", "finally", "result", "retry", "next",
               "clean", "exited"}
    /\ todo \in Seq(Steps) /\ outcome \in BOOLEAN
    /\ call_id \in CallIds \cup {0}
    /\ results \in Seq(BOOLEAN) /\ exit \in {"none", "0", "1"}
    /\ events \in Seq(Reports) /\ subscribed \in BOOLEAN /\ up \in BOOLEAN
    /\ calls \in Seq([dir : {"in", "out"},
                      state : {"new", "ringing", "connected", "ended"}])
    /\ said \in Seq(Reports) /\ own \in CallIds \cup {0}
    /\ known \in BOOLEAN /\ asked \subseteq CallIds /\ leftover \in BOOLEAN

Init ==
    /\ selected \in Selections /\ no_fail_fast \in BOOLEAN
    /\ index = 1 /\ retried = FALSE /\ at = "start"
    /\ todo = <<>> /\ outcome = FALSE /\ call_id = 0
    /\ results = <<>> /\ exit = "none"
    /\ events = <<>> /\ subscribed = FALSE /\ up = TRUE /\ calls = <<>>
    /\ said = <<>> /\ own = 0 /\ known = FALSE /\ asked = {}
    /\ leftover = FALSE

Scenario == selected[index]

-----------------------------------------------------------------------------
(* The daemon, its calls and the emulator (external).                      *)

RingState(c) == IF calls[c].dir = "in" THEN "RINGING_INCOMING"
                                       ELSE "RINGING_OUTGOING"

(* A call rings, connects or ends; a subscriber is told.                   *)
CallMoves(c, to) ==
    /\ up /\ exit = "none"
    /\ \/ to = "ringing" /\ calls[c].state = "new"
       \/ to = "connected" /\ calls[c].state = "ringing"
       \/ to = "ended" /\ calls[c].state # "ended"
    /\ calls' = [calls EXCEPT ![c].state = to]
    /\ LET report == [call  |-> c,
                      state |-> CASE to = "ringing"   -> RingState(c)
                                  [] to = "connected" -> "CONNECTED"
                                  [] to = "ended"     -> "ENDED"] IN
       IF subscribed
       THEN events' = Append(events, report) /\ said' = Append(said, report)
       ELSE UNCHANGED <<events, said>>
    /\ UNCHANGED <<runner, script, subscribed, up, own, known, asked,
                   leftover>>

DaemonDies ==
    /\ up /\ exit = "none"
    /\ up' = FALSE
    /\ UNCHANGED <<runner, script, rpc, calls, history>>

NewCall(dir) ==
    /\ Len(calls) < MAX_CALLS
    /\ calls' = Append(calls, [dir |-> dir, state |-> "new"])

-----------------------------------------------------------------------------
(* How a step of a scenario ends.                                          *)

At(step) == at = "steps" /\ todo # <<>> /\ Head(todo) = step

Done  == todo' = Tail(todo) /\ UNCHANGED <<at, outcome>>
Raise == at' = "finally" /\ outcome' = FALSE /\ todo' = <<>>

same == <<selected, no_fail_fast, index, retried, results, exit>>

(* SignalRPC() before the try: nothing to clean up when it fails, nor when *)
(* scenario E finds that it cannot run.                                    *)
Connect ==
    /\ At("connect")
    /\ \/ up /\ Done
       \/ at' = "result" /\ outcome' = FALSE /\ todo' = <<>>
    /\ UNCHANGED <<same, call_id, rpc, up, calls, history>>

(* Something done to the emulator or checked about it.                     *)
Emulator ==
    /\ At("emulator")
    /\ Done \/ Raise
    /\ UNCHANGED <<same, call_id, rpc, up, calls, history>>

(* The tones: an exception, or a verdict that counts in the end.           *)
Audio ==
    /\ At("audio")
    /\ \/ Done
       \/ todo' = Tail(todo) /\ outcome' = FALSE /\ UNCHANGED at
       \/ Raise
    /\ UNCHANGED <<same, call_id, rpc, up, calls, history>>

(* The emulator's call may or may not get through.                         *)
Dial ==
    /\ At("dial")
    /\ NewCall("in") \/ UNCHANGED calls
    /\ Done \/ Raise
    /\ UNCHANGED <<same, call_id, rpc, up, history>>

(* subscribe_receive: events may flow although the answer never came.      *)
Subscribe ==
    /\ At("subscribe")
    /\ Done \/ Raise
    /\ subscribed' \in {up, FALSE}
    /\ leftover' = (leftover \/ \E c \in 1..Len(calls) :
                                    calls[c].state # "ended")
    /\ UNCHANGED <<same, call_id, events, up, calls, said, own, known, asked>>

(* start_call is answered with the call's state and id; D alone goes on    *)
(* without the id ...                                                      *)
StartCall ==
    /\ At("start") /\ up
    /\ NewCall("out") /\ own' = Len(calls')
    /\ \/ call_id' = Len(calls') /\ known' = TRUE
       \/ Scenario = "D" /\ call_id' = 0 /\ known' = FALSE
    /\ UNCHANGED <<at, outcome>>
    /\ \/ Done /\ UNCHANGED said
       \/ /\ todo' = Tail(Tail(todo))
          /\ said' = Append(said, [state |-> "RINGING_OUTGOING",
                                   call  |-> Len(calls')])
    /\ UNCHANGED <<same, rpc, up, asked, leftover>>

(* ... or fails: no call, or one of which A and E miss the id.             *)
StartCallFails ==
    /\ At("start")
    /\ \/ up /\ NewCall("out")
       \/ UNCHANGED calls
    /\ Raise
    /\ UNCHANGED <<same, call_id, rpc, up, history>>

(* accept_call: the answer is not looked at.                               *)
AcceptCall ==
    /\ At("accept")
    /\ \/ up /\ Done
       \/ Raise
    /\ UNCHANGED <<same, call_id, rpc, up, calls, history>>

(* A request about the call reaches a daemon that is up; the answer may    *)
(* not come, or come as None.                                              *)
Ask == asked' = IF up THEN asked \cup {call_id} ELSE asked

(* hangup_call or reject_call; the id is forgotten once it returns.        *)
LetGo ==
    /\ At("hangup") \/ At("reject")
    /\ \/ up /\ Ask /\ call_id' = 0 /\ Done
       \/ Ask /\ Raise /\ UNCHANGED call_id
    /\ UNCHANGED <<same, rpc, up, calls, said, own, known, leftover>>

-----------------------------------------------------------------------------
(* wait_for_state and assert_call_stable.                                  *)

Awaited ==
    [ring |-> "RINGING_OUTGOING", incoming |-> "RINGING_INCOMING",
     connected |-> "CONNECTED", ended |-> "ENDED", verdict |-> "ENDED",
     timeout |-> "ENDED"]

Waiting(step) == step \in DOMAIN Awaited /\ At(step)

(* The next notification, read off the connection.                         *)
Read(report) ==
    /\ events # <<>> /\ report = Head(events)
    /\ events' = Tail(events)
    /\ UNCHANGED <<same, subscribed, up, calls, said, asked, leftover>>

(* What the scenario does with the event it waited for: B and C take the   *)
(* call's id from it, D forgets it; C, D and E may not like the reason.    *)
Take(step, report) ==
    /\ call_id' = CASE step = "incoming" -> report.call
                    [] step = "timeout"  -> 0
                    [] OTHER             -> call_id
    /\ own' = IF step = "incoming" THEN report.call ELSE own
    /\ known' = IF step = "incoming" THEN TRUE ELSE known
    /\ \/ Done
       \/ /\ \/ step \in {"verdict", "timeout"}
             \/ step = "ended" /\ Scenario = "E"
          /\ Raise

(* Mutant: any event of a call ends the wait.                              *)
WaitForAnyState(step) ==
    /\ Waiting(step)
    /\ \E report \in Reports : Read(report) /\ Take(step, report)

(* An event of another state is dropped and the wait goes on.              *)
WaitForState(step) ==
    /\ Waiting(step)
    /\ \E report \in Reports :
        /\ Read(report)
        /\ IF report.state = Awaited[step]
           THEN Take(step, report)
           ELSE UNCHANGED <<at, todo, outcome, call_id, own, known>>

WaitTimesOut(step) ==
    /\ Waiting(step)
    /\ Raise
    /\ UNCHANGED <<same, call_id, rpc, up, calls, history>>

StableReads ==
    /\ At("stable")
    /\ \E report \in Reports :
        /\ Read(report)
        /\ IF report.state = "ENDED"
           THEN Raise ELSE UNCHANGED <<at, todo, outcome>>
    /\ UNCHANGED <<call_id, own, known>>

StableEnds ==
    /\ At("stable")
    /\ Done
    /\ UNCHANGED <<same, call_id, rpc, up, calls, history>>

-----------------------------------------------------------------------------
(* The end of a scenario.                                                  *)

Finish ==
    /\ at = "steps" /\ todo = <<>>
    /\ at' = "finally"
    /\ UNCHANGED <<same, script, rpc, up, calls, history>>

(* Mutant: a scenario that failed hangs nothing up.                        *)
FinallyOnlyCloses ==
    /\ at = "finally"
    /\ at' = "result"
    /\ call_id' = 0 /\ subscribed' = FALSE /\ events' = <<>>
    /\ UNCHANGED <<same, todo, outcome, up, calls, history>>

(* The finally block: a call whose id is still known is hung up, whatever  *)
(* comes of it; the connection is closed.  In E the audio channel is       *)
(* closed between the two: an exception there fails the scenario, and the  *)
(* connection goes with its object.                                        *)
Finally ==
    /\ at = "finally"
    /\ at' = "result"
    /\ IF call_id = 0 THEN UNCHANGED asked ELSE Ask
    /\ call_id' = 0 /\ subscribed' = FALSE /\ events' = <<>>
    /\ UNCHANGED outcome \/ (Scenario = "E" /\ outcome' = FALSE)
    /\ UNCHANGED <<same, todo, up, calls, said, own, known, leftover>>

-----------------------------------------------------------------------------
(* main().                                                                 *)

Start ==
    /\ at = "start"
    /\ at' = "steps" /\ todo' = SCENARIOS[Scenario] /\ outcome' = TRUE
    /\ said' = <<>> /\ own' = 0 /\ known' = FALSE
    /\ UNCHANGED <<same, call_id, rpc, up, calls, asked, leftover>>

(* Mutant: the loop is left before the failure is among the results.       *)
ResultBreaksFirst ==
    /\ at = "result"
    /\ IF ~outcome /\ Scenario = "E" /\ ~retried
       THEN at' = "retry" /\ UNCHANGED results
       ELSE /\ results' = IF outcome \/ no_fail_fast
                          THEN Append(results, outcome) ELSE results
            /\ at' = "next"
    /\ UNCHANGED <<selected, no_fail_fast, index, retried, exit, script, rpc,
                   up, calls, history>>

Result ==
    /\ at = "result"
    /\ IF ~outcome /\ Scenario = "E" /\ ~retried
       THEN at' = "retry" /\ UNCHANGED results
       ELSE at' = "next" /\ results' = Append(results, outcome)
    /\ UNCHANGED <<selected, no_fail_fast, index, retried, exit, script, rpc,
                   up, calls, history>>

Crash == at' = "exited" /\ exit' = "1"

(* Mutant: scenario E is retried for as long as it fails.                  *)
RetryAgain ==
    /\ at = "retry"
    /\ \/ at' = "start" /\ UNCHANGED <<retried, results, exit>>
       \/ at' = "next" /\ results' = Append(results, FALSE)
          /\ UNCHANGED <<retried, exit>>
       \/ Crash /\ UNCHANGED <<retried, results>>
    /\ UNCHANGED <<selected, no_fail_fast, index, script, rpc, up, calls,
                   history>>

(* wait_for_clean_state before the second attempt: it succeeds, gives up   *)
(* (RuntimeError), or adb does not answer in time, which nobody catches.   *)
Retry ==
    /\ at = "retry"
    /\ \/ at' = "start" /\ retried' = TRUE /\ UNCHANGED <<results, exit>>
       \/ at' = "next" /\ results' = Append(results, FALSE)
          /\ UNCHANGED <<retried, exit>>
       \/ Crash /\ UNCHANGED <<retried, results>>
    /\ UNCHANGED <<selected, no_fail_fast, index, script, rpc, up, calls,
                   history>>

(* passed == total, over the scenarios that have a result.                 *)
ExitCode == IF \A i \in 1..Len(results) : results[i] THEN "0" ELSE "1"

Summary == at' = "exited" /\ exit' = ExitCode

(* Mutant: the loop goes one past the last scenario.                       *)
NextPastTheLast ==
    /\ at = "next"
    /\ IF index > Len(selected) \/ (~outcome /\ ~no_fail_fast)
       THEN Summary /\ UNCHANGED <<index, retried>>
       ELSE IF Scenario = selected[Len(selected)]
       THEN at' = "start" /\ index' = index + 1 /\ retried' = FALSE
            /\ UNCHANGED exit
       ELSE at' = "clean" /\ UNCHANGED <<index, retried, exit>>
    /\ UNCHANGED <<selected, no_fail_fast, results, script, rpc, up, calls,
                   history>>

(* After the last one, or after a failure, comes the summary.              *)
NextScenario ==
    /\ at = "next"
    /\ IF index = Len(selected) \/ (~outcome /\ ~no_fail_fast)
       THEN Summary /\ UNCHANGED <<index, retried>>
       ELSE IF Scenario = selected[Len(selected)]
       THEN at' = "start" /\ index' = index + 1 /\ retried' = FALSE
            /\ UNCHANGED exit
       ELSE at' = "clean" /\ UNCHANGED <<index, retried, exit>>
    /\ UNCHANGED <<selected, no_fail_fast, results, script, rpc, up, calls,
                   history>>

(* wait_for_clean_state between scenarios; a failure is only warned of.    *)
Clean ==
    /\ at = "clean"
    /\ \/ at' = "start" /\ index' = index + 1 /\ retried' = FALSE
          /\ UNCHANGED exit
       \/ Crash /\ UNCHANGED <<index, retried>>
    /\ UNCHANGED <<selected, no_fail_fast, results, script, rpc, up, calls,
                   history>>

Exited == at = "exited" /\ UNCHANGED vars

-----------------------------------------------------------------------------
World ==
    \/ \E c \in 1..Len(calls), to \in {"ringing", "connected", "ended"} :
          CallMoves(c, to)
    \/ DaemonDies

Step ==
    \/ Connect \/ Emulator \/ Audio \/ Dial \/ Subscribe
    \/ StartCall \/ StartCallFails \/ AcceptCall \/ LetGo
    \/ \E step \in DOMAIN Awaited : WaitForState(step) \/ WaitTimesOut(step)
    \/ StableReads \/ StableEnds

Main == Start \/ Finish \/ Finally \/ Result \/ Retry \/ NextScenario \/ Clean

Next == World \/ Step \/ Main \/ Exited

Spec == Init /\ [][Next]_vars

(* The runner goes on: every wait reaches its deadline.                    *)
FairSpec == Spec /\ WF_vars(Step \/ Main)

-----------------------------------------------------------------------------
Passed == at = "result" /\ outcome

Expected ==
    [A |-> <<"RINGING_OUTGOING", "CONNECTED", "ENDED">>,
     B |-> <<"RINGING_INCOMING", "CONNECTED", "ENDED">>,
     C |-> <<"RINGING_INCOMING", "ENDED">>,
     D |-> <<"RINGING_OUTGOING", "ENDED">>,
     E |-> <<"RINGING_OUTGOING", "CONNECTED", "ENDED">>]

(* The states were reported of call c in this order.                       *)
Reported(states, c) ==
    \E f \in [1..Len(states) -> 1..Len(said)] :
        /\ \A i \in 1..Len(states) :
              said[f[i]] = [state |-> states[i], call |-> c]
        /\ \A i, j \in 1..Len(states) : i < j => f[i] < f[j]

(* A scenario passes only if the daemon reported the states of its flow    *)
(* (TEST_HARNESS.md) in their order and of the scenario's own call,        *)
(* although waits compare states only, drop what they do not look for and  *)
(* skip RINGING_OUTGOING when the answer to startCall said so: provided no *)
(* earlier call was left up, whose events nothing tells from its own.      *)
PassMeansReached ==
    Passed /\ ~leftover => Reported(Expected[Scenario], own)

(* Whatever goes wrong in a scenario, a call whose id it learned has ended *)
(* or the daemon was asked to end it when its connection is closed: unless *)
(* the daemon is gone, or events of an earlier call were taken for its own.*)
CallsLetGo ==
    at \in {"result", "retry", "next", "clean", "exited"} /\ known =>
        \/ own \in asked \/ calls[own].state = "ended"
        \/ ~up \/ leftover

(* Exit code 0 means that every selected scenario has run and passed, in   *)
(* its last attempt, whatever was retried or skipped.                      *)
ExitZeroMeansPassed ==
    exit = "0" => /\ Len(results) = Len(selected)
                  /\ \A i \in 1..Len(results) : results[i]

(* The runner comes to an exit code, also against a daemon that died in    *)
(* the middle of a wait (FairSpec).                                        *)
RunnerEnds == <>(exit # "none")
=============================================================================
