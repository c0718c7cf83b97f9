-------------------------- MODULE TickPacingProofs -------------------------
(***************************************************************************)
(* Theorems about the pacing of the clock thread (TickPacing), for every   *)
(* window length and every time a tick or a sleep takes, and their         *)
(* transfer to the paced device (PipeTimed).                               *)
(*                                                                         *)
(* PacingInv adds to the type: next_tick is a window further for every     *)
(* tick begun (Schedule), and n windows further from a window after n      *)
(* later ones (Spaced); a window just exchanged is only known to lie in    *)
(* the past until its tick ends.                                           *)
(***************************************************************************)
EXTENDS PipeTimed, SequenceTheorems, TLAPS

Schedule ==
    /\ next_tick >= ticks * TICK
    /\ ~late => next_tick = ticks * TICK
    /\ next_tick <= now + TICK
    /\ at = "top" => next_tick <= now
    /\ Len(windows) <= ticks
    /\ at = "work" /\ fresh => Len(windows) + 1 <= ticks

Spaced ==
    \A j \in 1..Len(windows) :
        /\ windows[j] <= now
        /\ at = "work" /\ fresh =>
              next_tick >= windows[j] + (Len(windows) + 1 - j) * TICK
        /\ at # "work" \/ j < Len(windows) =>
              next_tick >= windows[j] + (Len(windows) - j) * TICK

PacingInv == PacingTypeOK /\ Schedule /\ Spaced /\ NeverAhead /\ NoBurst

-----------------------------------------------------------------------------
(* Products with TICK, for the steps that need no more of arithmetic.      *)
LEMMA TickTimes ==
    /\ TICK \in Nat
    /\ \A n \in Int : n * TICK \in Int /\ (n + 1) * TICK = n * TICK + TICK
    /\ 0 * TICK = 0
<1>1. TICK \in Nat
    BY TickAssumption
<1>2. \A n \in Int : n * TICK \in Int /\ (n + 1) * TICK = n * TICK + TICK
    BY <1>1
<1>3. 0 * TICK = 0
    BY <1>1
<1>4. QED
    BY <1>1, <1>2, <1>3

(* More windows last longer.                                               *)
LEMMA TickMonotone ==
    ASSUME NEW m \in Nat, NEW n \in Nat, m <= n
    PROVE  m * TICK <= n * TICK
<1>1. PICK d \in Nat : n = m + d
    BY n - m \in Nat
<1>2. n * TICK = m * TICK + d * TICK /\ d * TICK >= 0
    BY <1>1, TickTimes
<1>3. QED
    BY <1>2, TickTimes

(* The schedule starts with the clock.                                     *)
LEMMA PacingInvInit == PacingInit => PacingInv
<1> SUFFICES ASSUME PacingInit PROVE PacingInv
    OBVIOUS
<1>0. windows \in Seq(Nat) /\ Len(windows) = 0
    BY EmptySeq DEF PacingInit
<1>1. PacingTypeOK /\ Len(windows) = 0
    BY <1>0 DEF PacingInit, PacingTypeOK
<1>2. Schedule
    BY <1>1, TickTimes DEF PacingInit, Schedule
<1>3. QED
    BY <1>1, <1>2 DEF PacingInv, Spaced, NeverAhead, NoBurst

(* The steps that exchange no window leave the windows' own spacing alone. *)
LEMMA WindowsKept ==
    ASSUME PacingInv, windows' = windows
    PROVE  NeverAhead' /\ NoBurst'
BY DEF PacingInv, NeverAhead, NoBurst

(* The start of a tick,                                                    *)
LEMMA BeginKeeps == PacingInv /\ BeginTick => PacingInv'
<1> SUFFICES ASSUME PacingInv, BeginTick PROVE PacingInv'
    OBVIOUS
<1> USE DEF PacingInv
<1>1. PacingTypeOK'
    BY TickTimes DEF PacingTypeOK, BeginTick
<1>2. Schedule'
    <2>1. ticks \in Nat /\ ticks' = ticks + 1 /\ next_tick' = next_tick + TICK
        BY DEF PacingTypeOK, BeginTick
    <2>2. ticks' * TICK = ticks * TICK + TICK /\ ticks * TICK \in Int
        BY <2>1, TickTimes
    <2> HIDE DEF PacingInv
    <2>3. QED
        BY <2>1, <2>2, TickTimes
           DEF PacingInv, PacingTypeOK, Schedule, BeginTick
<1>3. Spaced'
    <2> SUFFICES ASSUME NEW j \in 1..Len(windows)
                 PROVE  /\ windows[j] <= now
                        /\ next_tick + TICK
                             >= windows[j] + (Len(windows) + 1 - j) * TICK
                        /\ next_tick + TICK
                             >= windows[j] + (Len(windows) - j) * TICK
        BY DEF Spaced, BeginTick
    <2>1. /\ Len(windows) \in Nat /\ j \in Int /\ windows[j] \in Nat
          /\ next_tick \in Nat /\ Len(windows) - j \in Nat
        BY LenProperties, ElementOfSeq DEF PacingTypeOK
    <2>2. windows[j] <= now
          /\ next_tick >= windows[j] + (Len(windows) - j) * TICK
        BY DEF Spaced, BeginTick
    <2>3. (Len(windows) + 1 - j) * TICK = (Len(windows) - j) * TICK + TICK
        BY <2>1, TickTimes
    <2>4. (Len(windows) - j) * TICK \in Int
        BY <2>1, TickTimes
    <2>5. QED
        BY <2>1, <2>2, <2>3, <2>4, TickTimes
<1>4. QED
    BY <1>1, <1>2, <1>3, WindowsKept DEF BeginTick

(* a window exchanged, and                                                 *)
LEMMA ExchangeKeeps == PacingInv /\ ExchangeWindow => PacingInv'
<1> SUFFICES ASSUME PacingInv, ExchangeWindow PROVE PacingInv'
    OBVIOUS
<1> DEFINE L == Len(windows)
<1>1. /\ now \in Nat /\ next_tick \in Nat /\ ticks \in Nat /\ L \in Nat
      /\ windows \in Seq(Nat) /\ at = "work" /\ fresh
    BY LenProperties DEF PacingInv, PacingTypeOK, ExchangeWindow
<1>2. /\ windows' = Append(windows, now) /\ windows' \in Seq(Nat)
      /\ Len(windows') = L + 1
      /\ \A j \in 1..L : windows'[j] = windows[j] /\ windows[j] \in Nat
      /\ windows'[L + 1] = now
    BY <1>1, AppendProperties, ElementOfSeq DEF ExchangeWindow
<1>3. PacingTypeOK'
    BY <1>1, <1>2 DEF PacingInv, PacingTypeOK, ExchangeWindow
<1>4. Schedule'
    BY <1>1, <1>2 DEF PacingInv, Schedule, ExchangeWindow
<1>5. now >= L * TICK
    <2>1. /\ L * TICK \in Int /\ (ticks - 1) * TICK \in Int
          /\ ticks * TICK \in Int
        BY <1>1, TickTimes
    <2>2. L <= ticks - 1 /\ next_tick >= ticks * TICK /\ next_tick <= now + TICK
        BY <1>1 DEF PacingInv, Schedule
    <2>3. ticks - 1 \in Nat /\ ticks * TICK = (ticks - 1) * TICK + TICK
        <3>1. ticks - 1 \in Nat /\ ticks = (ticks - 1) + 1
            BY <1>1, <2>2
        <3>2. QED
            BY <3>1, TickTimes
    <2>4. L * TICK <= (ticks - 1) * TICK
        BY <1>1, <2>2, <2>3, TickMonotone
    <2>5. QED
        BY <1>1, <2>1, <2>2, <2>3, <2>4, TickTimes
<1>6. \A j \in 1..L : /\ windows[j] <= now
                      /\ next_tick >= windows[j] + (L + 1 - j) * TICK
                      /\ (L + 1 - j) * TICK = (L - j) * TICK + TICK
                      /\ (L - j) * TICK \in Int
    <2> SUFFICES ASSUME NEW j \in 1..L
                 PROVE  /\ windows[j] <= now
                        /\ next_tick >= windows[j] + (L + 1 - j) * TICK
                        /\ (L + 1 - j) * TICK = (L - j) * TICK + TICK
                        /\ (L - j) * TICK \in Int
        OBVIOUS
    <2>1. windows[j] <= now /\ next_tick >= windows[j] + (L + 1 - j) * TICK
        BY <1>1 DEF PacingInv, Spaced
    <2>2. L - j \in Int /\ L + 1 - j = (L - j) + 1
        BY <1>1
    <2>3. (L + 1 - j) * TICK = (L - j) * TICK + TICK /\ (L - j) * TICK \in Int
        BY <2>2, TickTimes
    <2>4. QED
        BY <2>1, <2>3
<1> HIDE DEF L
<1>7. Spaced'
    <2> SUFFICES ASSUME NEW j \in 1..(L + 1)
                 PROVE  /\ windows'[j] <= now
                        /\ j < L + 1 =>
                             next_tick >= windows'[j] + (L + 1 - j) * TICK
        BY <1>1, <1>2 DEF Spaced, ExchangeWindow
    <2>1. CASE j = L + 1
        BY <2>1, <1>1, <1>2
    <2>2. CASE j \in 1..L
        BY <2>2, <1>2, <1>6
    <2>3. QED
        BY <2>1, <2>2, <1>1
<1>8. NeverAhead'
    <2> SUFFICES ASSUME NEW k \in 1..(L + 1)
                 PROVE  windows'[k] >= (k - 1) * TICK
        BY <1>2 DEF NeverAhead
    <2>1. CASE k = L + 1
        <3>1. k - 1 = L
            BY <2>1, <1>1
        <3>2. QED
            BY <3>1, <2>1, <1>2, <1>5
    <2>2. CASE k \in 1..L
        BY <2>2, <1>2 DEF PacingInv, NeverAhead, L
    <2>3. QED
        BY <2>1, <2>2, <1>1
<1>9. NoBurst'
    <2> SUFFICES ASSUME NEW k \in 1..(L + 1), NEW j \in 1..(k - 1)
                 PROVE  windows'[k] - windows'[j] >= (k - j - 1) * TICK
        BY <1>2 DEF NoBurst
    <2>0. j \in 1..L
        BY <1>1
    <2>1. CASE k = L + 1
        <3>1. k - j - 1 = L - j
            BY <2>1, <1>1
        <3>2. next_tick <= now + TICK
            BY DEF PacingInv, Schedule
        <3>3. windows[j] \in Nat /\ windows'[j] = windows[j] /\ windows'[k] = now
            BY <2>0, <2>1, <1>2
        <3>4. /\ next_tick >= windows[j] + ((L - j) * TICK + TICK)
              /\ (L - j) * TICK \in Int
            BY <2>0, <1>6
        <3> DEFINE t == (L - j) * TICK
        <3> HIDE DEF t
        <3>5. now - windows[j] >= t
            BY <3>2, <3>3, <3>4, <1>1, TickTimes DEF t
        <3>6. QED
            BY <3>1, <3>3, <3>5 DEF t
    <2>2. CASE k \in 1..L
        BY <2>0, <2>2, <1>2 DEF PacingInv, NoBurst, L
    <2>3. QED
        BY <2>1, <2>2, <1>1
<1>10. QED
    BY <1>3, <1>4, <1>7, <1>8, <1>9 DEF PacingInv

(* the end of a tick keep the schedule and its distance to the windows.    *)
LEMMA EndKeeps == PacingInv /\ EndTick => PacingInv'
<1> SUFFICES ASSUME PacingInv, EndTick PROVE PacingInv'
    OBVIOUS
<1>1. /\ now \in Nat /\ next_tick \in Nat /\ ticks \in Nat
      /\ Len(windows) \in Nat /\ ticks * TICK \in Int
    BY LenProperties, TickTimes DEF PacingInv, PacingTypeOK
<1>2. PacingTypeOK'
    BY DEF PacingInv, PacingTypeOK, EndTick
<1>3. next_tick' >= next_tick /\ next_tick' >= now /\ next_tick' \in Nat
      /\ windows' = windows /\ now' = now /\ ticks' = ticks
    BY <1>1 DEF EndTick
<1>4. Schedule'
    <2> DEFINE due == ticks * TICK
    <2>1. /\ due \in Int /\ next_tick >= due /\ (~late => next_tick = due)
          /\ next_tick <= now + TICK /\ Len(windows) <= ticks
          /\ late \in BOOLEAN
        BY <1>1 DEF PacingInv, Schedule, PacingTypeOK
    <2>2. ticks' * TICK = due
        BY <1>3
    <2> HIDE DEF due
    <2>3. /\ next_tick' >= due /\ (~late' => next_tick' = due)
          /\ next_tick' <= now + TICK /\ at' # "work"
          /\ (at' = "top" => next_tick' <= now)
        <3>1. TICK \in Nat
            BY TickAssumption
        <3>2. CASE next_tick > now
            BY <3>1, <3>2, <1>1, <2>1 DEF EndTick
        <3>3. CASE ~(next_tick > now)
            <4>1. at' = "top" /\ next_tick' = now /\ next_tick <= now
                BY <3>3, <1>1 DEF EndTick
            <4>2. ~late' => ~late /\ ~(now > next_tick)
                BY Zenon DEF EndTick
            <4>3. ~late' => next_tick = due /\ now = next_tick
                <5>1. ~(now > next_tick) => now = next_tick
                    BY <4>1, <1>1
                <5>2. QED
                    BY <4>2, <5>1, <2>1, Zenon
            <4>4. QED
                BY <4>1, <4>3, <3>1, <1>1, <2>1
        <3>4. QED
            BY <3>2, <3>3
    <2>4. QED
        BY <1>1, <1>3, <2>1, <2>2, <2>3, TickTimes DEF Schedule
<1>5. Spaced'
    <2> SUFFICES ASSUME NEW j \in 1..Len(windows)
                 PROVE  /\ windows[j] <= now
                        /\ next_tick' >= windows[j] + (Len(windows) - j) * TICK
        BY <1>3 DEF Spaced, EndTick
    <2>1. windows[j] <= now /\ windows[j] \in Nat /\ at = "work"
        BY ElementOfSeq DEF PacingInv, Spaced, PacingTypeOK, EndTick
    <2>2. CASE j = Len(windows)
        <3>1. (Len(windows) - j) * TICK = 0
            BY <2>2, <1>1, TickTimes
        <3>2. QED
            BY <3>1, <2>1, <1>1, <1>3
    <2>3. CASE j < Len(windows)
        <3>1. next_tick >= windows[j] + (Len(windows) - j) * TICK
            BY <2>3 DEF PacingInv, Spaced
        <3>2. (Len(windows) - j) * TICK \in Int
            BY <1>1, TickTimes
        <3>3. QED
            BY <3>1, <3>2, <2>1, <1>1, <1>3
    <2>4. QED
        BY <2>2, <2>3, <1>1
<1>6. QED
    BY <1>2, <1>3, <1>4, <1>5, WindowsKept DEF PacingInv

(* Time passing and waking up.                                             *)
LEMMA WaitingKeeps == PacingInv /\ (TimePasses \/ WakeUp) => PacingInv'
<1> SUFFICES ASSUME PacingInv, TimePasses \/ WakeUp PROVE PacingInv'
    OBVIOUS
<1>1. /\ now \in Nat /\ next_tick \in Nat /\ ticks \in Nat
      /\ ticks * TICK \in Int /\ windows \in Seq(Nat)
    BY TickTimes DEF PacingInv, PacingTypeOK
<1>2. /\ windows' = windows /\ next_tick' = next_tick /\ ticks' = ticks
      /\ fresh' = fresh /\ late' = late /\ now' \in Nat /\ now' >= now
      /\ at' = "work" <=> at = "work"
    BY <1>1 DEF TimePasses, WakeUp
<1>3. PacingTypeOK'
    BY <1>1, <1>2 DEF PacingInv, PacingTypeOK, TimePasses, WakeUp
<1>4. Schedule'
    <2> DEFINE due == ticks * TICK
    <2>1. /\ due \in Int /\ next_tick >= due /\ (~late => next_tick = due)
          /\ next_tick <= now + TICK /\ (at = "top" => next_tick <= now)
          /\ Len(windows) <= ticks
          /\ (at = "work" /\ fresh => Len(windows) + 1 <= ticks)
        BY <1>1 DEF PacingInv, Schedule
    <2>2. ticks' * TICK = due
        BY <1>2
    <2> HIDE DEF due
    <2>3. next_tick <= now' + TICK /\ (at' = "top" => next_tick <= now')
        <3>1. TICK \in Nat
            BY TickAssumption
        <3>2. next_tick <= now' + TICK
            <4>1. now' \in {now, now + 1}
                BY DEF TimePasses, WakeUp
            <4>2. next_tick <= now + TICK /\ next_tick <= (now + 1) + TICK
                BY <3>1, <1>1, <2>1
            <4>3. QED
                BY <4>1, <4>2
        <3>3. at' = "top" => next_tick <= now'
            BY <1>1, <1>2, <2>1 DEF TimePasses, WakeUp
        <3>4. QED
            BY <3>2, <3>3
    <2>4. QED
        BY <1>1, <1>2, <2>1, <2>2, <2>3, TickTimes DEF Schedule
<1>5. Spaced'
    <2> SUFFICES ASSUME NEW j \in 1..Len(windows)
                 PROVE  /\ windows[j] <= now'
                        /\ at' # "work" \/ j < Len(windows) =>
                             next_tick >= windows[j]
                                            + (Len(windows) - j) * TICK
                        /\ at' = "work" /\ fresh =>
                             next_tick >= windows[j]
                                            + (Len(windows) + 1 - j) * TICK
        BY <1>2 DEF Spaced
    <2>1. windows[j] <= now /\ windows[j] \in Nat
        BY <1>1, ElementOfSeq DEF PacingInv, Spaced
    <2>2. QED
        BY <2>1, <1>1, <1>2 DEF PacingInv, Spaced
<1>6. QED
    BY <1>2, <1>3, <1>4, <1>5, WindowsKept DEF PacingInv

(* What the pacing guarantees while nothing else is known of it.           *)
THEOREM PacingInvariant == PacingSpec => []PacingInv
<1>1. PacingInv /\ [PacingNext]_pacingVars => PacingInv'
    <2> SUFFICES ASSUME PacingInv, [PacingNext]_pacingVars PROVE PacingInv'
        OBVIOUS
    <2>1. CASE UNCHANGED pacingVars
        BY <2>1 DEF pacingVars, PacingInv, PacingTypeOK, Schedule, Spaced,
                    NeverAhead, NoBurst
    <2>2. QED
        BY <2>1, BeginKeeps, ExchangeKeeps, EndKeeps, WaitingKeeps
           DEF PacingNext
<1>2. QED
    BY PacingInvInit, <1>1, PTL DEF PacingSpec

(* The k-th window is exchanged k - 1 windows of real time after the first *)
(* tick or later, for every window length and every timing.                *)
THEOREM StaysBehindRealTime == PacingSpec => []NeverAhead
<1>1. PacingInv => NeverAhead
    BY DEF PacingInv
<1>2. QED
    BY <1>1, PacingInvariant, PTL

(* However long a tick or a sleep took, n + 1 windows take n - 1 windows   *)
(* of time: nothing is caught up with (pipe_audio.rs:220).                 *)
THEOREM NothingCaughtUp == PacingSpec => []NoBurst
<1>1. PacingInv => NoBurst
    BY DEF PacingInv
<1>2. QED
    BY <1>1, PacingInvariant, PTL

(* Sleeps that overshoot do not add up while no tick outlasts its window.  *)
THEOREM SleepsDoNotDrift == PacingSpec => []NoDrift
<1>1. PacingInv => NoDrift
    BY DEF PacingInv, Schedule, NoDrift
<1>2. QED
    BY <1>1, PacingInvariant, PTL

(* The paced device is the device of PipeAudio, and its clock thread keeps *)
(* the pace: what holds of either holds of it.                             *)
THEOREM PacedDevice == TimedSpec => Spec /\ PacingSpec
<1>1. TimedInit => Init /\ PacingInit
    BY DEF TimedInit
<1>2. [TimedNext]_timedVars => [Next]_vars
    BY DEF TimedNext, TimedCheck, TimedPush, TimedEnd, Untimed, TimeIsUp,
           timedVars, Next, Clock
<1>3. [TimedNext]_timedVars => [PacingNext]_pacingVars
    BY DEF TimedNext, TimedCheck, TimedPush, TimedEnd, Untimed, TimeIsUp,
           timedVars, PacingNext
<1>4. QED
    BY <1>1, <1>2, <1>3, PTL DEF TimedSpec, Spec, PacingSpec
=============================================================================
