----------------------------- MODULE PipeTimed -----------------------------
(***************************************************************************)
(* The pipe audio backend in time: PipeAudio with its clock thread paced   *)
(* as TickPacing says.  Every step of PipeAudio is one of this module, at  *)
(* the times the pacing leaves open; time passes between any two steps.    *)
(***************************************************************************)
EXTENDS PipeAudio, TickPacing

timedVars == <<vars, pacingVars>>

TimedInit == Init /\ PacingInit

(* A turn of the loop starts with next_tick += tick; when `terminate` is   *)
(* set there is none.                                                      *)
TimedCheck ==
    /\ ClockCheck /\ at = "top"
    /\ IF terminate THEN UNCHANGED pacingVars ELSE BeginTick

(* What push_recording hands to WebRTC is a window of its tick.            *)
TimedPush == ClockPush /\ ExchangeWindow

(* The last step of a tick, after the recording half.                      *)
TimedEnd == clock = "check" /\ EndTick /\ UNCHANGED vars

(* The other threads, and the clock thread inside a tick.                  *)
Untimed ==
    /\ Next /\ (clock \in {"check", "push"} => clock' = clock)
    /\ UNCHANGED pacingVars

(* The bound on time is reached.                                           *)
TimeIsUp == now = MAX_NOW /\ UNCHANGED timedVars

TimedNext ==
    \/ TimedCheck \/ TimedPush \/ TimedEnd
    \/ Untimed
    \/ (TimePasses \/ WakeUp) /\ UNCHANGED vars
    \/ TimeIsUp

TimedSpec == TimedInit /\ [][TimedNext]_timedVars
=============================================================================
