---------------------------- MODULE TickPacing -----------------------------
(***************************************************************************)
(* The pacing of the clock thread: how clock_loop (pipe_audio.rs) spaces   *)
(* its ticks by `next_tick`, `Instant::now()` and thread::sleep.  What a   *)
(* tick does takes any time, and a sleep lasts at least as long as asked   *)
(* for and may last longer.                                                *)
(***************************************************************************)
EXTENDS Integers, Sequences

CONSTANTS
    TICK,        \* the length of a window in units of time (WINDOW_MS)
    MAX_NOW      \* bound on the time of a run

ASSUME TickAssumption == TICK \in Nat \ {0}
ASSUME TimeAssumption == MAX_NOW \in Nat

VARIABLES
    now,         \* the monotonic clock
    next_tick,   \* when the next tick is due
    at,          \* clock thread: "top" of the loop, "work", "sleep"
    fresh,       \* no window was exchanged in this tick yet
    windows,     \* when each window was exchanged with WebRTC
    ticks,       \* ticks begun
    late         \* some tick ended after the next was due

pacingVars == <<now, next_tick, at, fresh, windows, ticks, late>>

PacingTypeOK ==
    /\ now \in Nat /\ next_tick \in Nat
    /\ at \in {"top", "work", "sleep"}
    /\ fresh \in BOOLEAN
    /\ windows \in Seq(Nat)
    /\ ticks \in Nat
    /\ late \in BOOLEAN

PacingInit ==
    /\ now = 0 /\ next_tick = 0 /\ at = "top" /\ fresh = FALSE
    /\ windows = <<>> /\ ticks = 0 /\ late = FALSE

TimePasses ==
    /\ now < MAX_NOW
    /\ now' = now + 1
    /\ UNCHANGED <<next_tick, at, fresh, windows, ticks, late>>

(* Mutant: the next tick is due a window after this one began.             *)
BeginTickFromNow ==
    /\ at = "top" /\ now < MAX_NOW
    /\ next_tick' = now + TICK
    /\ at' = "work" /\ fresh' = TRUE
    /\ ticks' = ticks + 1
    /\ UNCHANGED <<now, windows, late>>

BeginTick ==
    /\ at = "top" /\ now < MAX_NOW
    /\ next_tick' = next_tick + TICK
    /\ at' = "work" /\ fresh' = TRUE
    /\ ticks' = ticks + 1
    /\ UNCHANGED <<now, windows, late>>

(* One window per tick goes to WebRTC, at some moment of the tick.         *)
ExchangeWindow ==
    /\ at = "work" /\ fresh
    /\ windows' = Append(windows, now)
    /\ fresh' = FALSE
    /\ UNCHANGED <<now, next_tick, at, ticks, late>>

(* Mutant: a schedule that was missed is caught up with.                   *)
EndTickCatchesUp ==
    /\ at = "work"
    /\ at' = IF next_tick > now THEN "sleep" ELSE "top"
    /\ late' = (late \/ now > next_tick)
    /\ UNCHANGED <<now, next_tick, fresh, windows, ticks>>

(* Mutant: a tick that was late is waited for like the others.             *)
EndTickNeverSleeps ==
    /\ at = "work" /\ at' = "top"
    /\ next_tick' = IF next_tick > now THEN next_tick ELSE now
    /\ late' = (late \/ now > next_tick)
    /\ UNCHANGED <<now, fresh, windows, ticks>>

(* The end of a tick: sleep until the next is due, or start over from now. *)
EndTick ==
    /\ at = "work"
    /\ IF next_tick > now
       THEN at' = "sleep" /\ UNCHANGED next_tick
       ELSE at' = "top" /\ next_tick' = now
    /\ late' = (late \/ now > next_tick)
    /\ UNCHANGED <<now, fresh, windows, ticks>>

WakeUp ==
    /\ at = "sleep" /\ now >= next_tick
    /\ at' = "top"
    /\ UNCHANGED <<now, next_tick, fresh, windows, ticks, late>>

PacingNext ==
    TimePasses \/ BeginTick \/ ExchangeWindow \/ EndTick \/ WakeUp

PacingSpec == PacingInit /\ [][PacingNext]_pacingVars

-----------------------------------------------------------------------------
(* Real time is never outrun: by the time of the k-th window k - 1 windows *)
(* of real time have passed, however short the ticks and however late some *)
(* of them were ("fixed cadence", pipe_audio.rs:100).                      *)
NeverAhead ==
    \A k \in 1..Len(windows) : windows[k] >= (k - 1) * TICK

(* "avoid a runaway catch-up loop" (pipe_audio.rs:220): wherever one       *)
(* starts to look, n windows take at least n - 2 windows of time: after a  *)
(* stall of any length one window may follow at once, never a burst.       *)
NoBurst ==
    \A k \in 1..Len(windows) : \A j \in 1..(k - 1) :
        windows[k] - windows[j] >= (k - j - 1) * TICK

(* Sleeps that last too long and ticks of uneven length do not add up: as  *)
(* long as no tick outlasted its window the schedule is that of the first  *)
(* tick, and the clock never sleeps for more than a window.                *)
NoDrift ==
    /\ ~late => next_tick = ticks * TICK
    /\ next_tick <= now + TICK
=============================================================================
