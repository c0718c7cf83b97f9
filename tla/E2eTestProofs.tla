--------------------------- MODULE E2eTestProofs ---------------------------
(***************************************************************************)
(* What the test runner promises (E2eTest), for every selection of         *)
(* scenarios and every number of calls.                                    *)
(***************************************************************************)
EXTENDS E2eTest, SequenceTheorems, TLAPS

-----------------------------------------------------------------------------
(* Where the five scripts have which step.                                 *)

SubscribeAt == [A |-> 2, B |-> 2, C |-> 2, D |-> 3, E |-> 3]
CreateAt    == [A |-> 3, B |-> 4, C |-> 4, D |-> 4, E |-> 4]
OwnAt       == [A |-> 3, B |-> 5, C |-> 5, D |-> 4, E |-> 4]
RingAt      == [A |-> 4, B |-> 5, C |-> 5, D |-> 5, E |-> 5]
ConnectedAt == [A |-> 6, B |-> 7, C |-> 0, D |-> 0, E |-> 7]
ReleaseAt   == [A |-> 8, B |-> 9, C |-> 6, D |-> 6, E |-> 11]
Length      == [A |-> 9, B |-> 10, C |-> 7, D |-> 6, E |-> 12]

(* How many of the expected states are reached once k steps are done.      *)
Reached(s, k) ==
    (IF RingAt[s] <= k THEN 1 ELSE 0)
    + (IF s \notin {"C", "D"} /\ ConnectedAt[s] <= k THEN 1 ELSE 0)
    + (IF Length[s] <= k THEN 1 ELSE 0)

(* What a step of a script tells about where it is.                        *)
Placed(s, steps, k) ==
    LET step == steps[k] IN
    /\ step = "connect" => k < SubscribeAt[s]
    /\ step = "subscribe" <=> k = SubscribeAt[s]
    /\ step \in {"start", "dial"} <=> k = CreateAt[s]
    /\ step \in {"start", "incoming"} <=> k = OwnAt[s]
    /\ step \in {"ring", "incoming"} <=> k = RingAt[s]
    /\ step = "start" => k + 1 = RingAt[s]
    /\ step \in {"hangup", "reject"} => k = ReleaseAt[s] /\ s # "D"
    /\ step \in {"ended", "verdict", "timeout"} <=> k = Length[s]
    /\ step = "timeout" => k = ReleaseAt[s]
    /\ step \notin DOMAIN Awaited => Reached(s, k) = Reached(s, k - 1)
    /\ step \in DOMAIN Awaited =>
          /\ Reached(s, k) = Reached(s, k - 1) + 1
          /\ Expected[s][Reached(s, k)] = Awaited[step]
          /\ OwnAt[s] <= k
    /\ step = "start" => Expected[s][1] = "RINGING_OUTGOING"

(* Scenario A's script, place by place; then those of B to E.              *)
LEMMA PlacesInA ==
    /\ scenario_a \in Seq(StepsOf(scenario_a)) /\ Len(scenario_a) = Length.A
    /\ \A k \in 1..Length.A : Placed("A", scenario_a, k)
<1>1. Len(scenario_a) = 9 /\ Length.A = 9
  BY DEF scenario_a, Length
<1>2. 1..9 = {1, 2, 3, 4, 5, 6, 7, 8, 9}
  OBVIOUS
<1>3. scenario_a \in Seq(StepsOf(scenario_a))
  BY <1>1 DEF scenario_a, StepsOf
<1>4. ASSUME NEW k \in 1..9 PROVE Placed("A", scenario_a, k)
  BY <1>2 DEF scenario_a, Placed, SubscribeAt, CreateAt, OwnAt, RingAt,
              ConnectedAt, ReleaseAt, Length, Reached, Expected, Awaited
<1> QED
  BY <1>1, <1>3, <1>4

(* Scenario B: the emulator calls, the daemon accepts.                     *)
LEMMA PlacesInB ==
    /\ scenario_b \in Seq(StepsOf(scenario_b)) /\ Len(scenario_b) = Length.B
    /\ \A k \in 1..Length.B : Placed("B", scenario_b, k)
<1>1. Len(scenario_b) = 10 /\ Length.B = 10
  BY DEF scenario_b, Length
<1>2. 1..10 = {1, 2, 3, 4, 5, 6, 7, 8, 9, 10}
  OBVIOUS
<1>3. scenario_b \in Seq(StepsOf(scenario_b))
  BY <1>1 DEF scenario_b, StepsOf
<1>4. ASSUME NEW k \in 1..10 PROVE Placed("B", scenario_b, k)
  BY <1>2 DEF scenario_b, Placed, SubscribeAt, CreateAt, OwnAt, RingAt,
              ConnectedAt, ReleaseAt, Length, Reached, Expected, Awaited
<1> QED
  BY <1>1, <1>3, <1>4

(* Scenario C: the emulator calls, the daemon rejects.                     *)
LEMMA PlacesInC ==
    /\ scenario_c \in Seq(StepsOf(scenario_c)) /\ Len(scenario_c) = Length.C
    /\ \A k \in 1..Length.C : Placed("C", scenario_c, k)
<1>1. Len(scenario_c) = 7 /\ Length.C = 7
  BY DEF scenario_c, Length
<1>2. 1..7 = {1, 2, 3, 4, 5, 6, 7}
  OBVIOUS
<1>3. scenario_c \in Seq(StepsOf(scenario_c))
  BY <1>1 DEF scenario_c, StepsOf
<1>4. ASSUME NEW k \in 1..7 PROVE Placed("C", scenario_c, k)
  BY <1>2 DEF scenario_c, Placed, SubscribeAt, CreateAt, OwnAt, RingAt,
              ConnectedAt, ReleaseAt, Length, Reached, Expected, Awaited
<1> QED
  BY <1>1, <1>3, <1>4

(* Scenario D: the daemon calls, nobody answers.                           *)
LEMMA PlacesInD ==
    /\ scenario_d \in Seq(StepsOf(scenario_d)) /\ Len(scenario_d) = Length.D
    /\ \A k \in 1..Length.D : Placed("D", scenario_d, k)
<1>1. Len(scenario_d) = 6 /\ Length.D = 6
  BY DEF scenario_d, Length
<1>2. 1..6 = {1, 2, 3, 4, 5, 6}
  OBVIOUS
<1>3. scenario_d \in Seq(StepsOf(scenario_d))
  BY <1>1 DEF scenario_d, StepsOf
<1>4. ASSUME NEW k \in 1..6 PROVE Placed("D", scenario_d, k)
  BY <1>2 DEF scenario_d, Placed, SubscribeAt, CreateAt, OwnAt, RingAt,
              ConnectedAt, ReleaseAt, Length, Reached, Expected, Awaited
<1> QED
  BY <1>1, <1>3, <1>4

(* Scenario E: the daemon calls, tones go both ways.                       *)
LEMMA PlacesInE ==
    /\ scenario_e \in Seq(StepsOf(scenario_e)) /\ Len(scenario_e) = Length.E
    /\ \A k \in 1..Length.E : Placed("E", scenario_e, k)
<1>1. Len(scenario_e) = 12 /\ Length.E = 12
  BY DEF scenario_e, Length
<1>2. 1..12 = {1, 2, 3, 4, 5, 6, 7, 8, 9, 10, 11, 12}
  OBVIOUS
<1>3. scenario_e \in Seq(StepsOf(scenario_e))
  BY <1>1 DEF scenario_e, StepsOf
<1>4. ASSUME NEW k \in 1..12 PROVE Placed("E", scenario_e, k)
  BY <1>2 DEF scenario_e, Placed, SubscribeAt, CreateAt, OwnAt, RingAt,
              ConnectedAt, ReleaseAt, Length, Reached, Expected, Awaited
<1> QED
  BY <1>1, <1>3, <1>4

(* Every script subscribes, has a call come to be, knows which is its own, *)
(* waits for it to ring, and lets go of it, in this order.                 *)
LEMMA Places ==
    ASSUME NEW s \in ScenarioIds
    PROVE  /\ SCENARIOS[s] \in Seq(Steps) /\ Len(SCENARIOS[s]) = Length[s]
           /\ \A k \in 1..Length[s] : Placed(s, SCENARIOS[s], k)
<1>1. \A t \in ScenarioIds : StepsOf(SCENARIOS[t]) \subseteq Steps
  BY DEF Steps
<1>2. SCENARIOS[s] \in Seq(StepsOf(SCENARIOS[s]))
  BY PlacesInA, PlacesInB, PlacesInC, PlacesInD, PlacesInE
     DEF ScenarioIds, SCENARIOS
<1>3. SCENARIOS[s] \in Seq(Steps)
  BY <1>1, <1>2, SeqMonotonic
<1>4. /\ Len(SCENARIOS[s]) = Length[s]
      /\ \A k \in 1..Length[s] : Placed(s, SCENARIOS[s], k)
  <2>1. CASE s = "A"
    BY <2>1, PlacesInA DEF SCENARIOS
  <2>2. CASE s = "B"
    BY <2>2, PlacesInB DEF SCENARIOS
  <2>3. CASE s = "C"
    BY <2>3, PlacesInC DEF SCENARIOS
  <2>4. CASE s = "D"
    BY <2>4, PlacesInD DEF SCENARIOS
  <2>5. CASE s = "E"
    BY <2>5, PlacesInE DEF SCENARIOS
  <2> QED
    BY <2>1, <2>2, <2>3, <2>4, <2>5 DEF ScenarioIds
<1> QED
  BY <1>3, <1>4

(* The places come in this order.                                          *)
LEMMA Order ==
    ASSUME NEW s \in ScenarioIds
    PROVE  /\ SubscribeAt[s] \in Nat /\ 1 < SubscribeAt[s]
           /\ CreateAt[s] \in Nat /\ SubscribeAt[s] < CreateAt[s]
           /\ OwnAt[s] \in Nat /\ CreateAt[s] <= OwnAt[s]
           /\ RingAt[s] \in Nat /\ OwnAt[s] <= RingAt[s]
           /\ ConnectedAt[s] \in Nat
           /\ ReleaseAt[s] \in Nat /\ RingAt[s] < ReleaseAt[s]
           /\ Length[s] \in Nat /\ ReleaseAt[s] <= Length[s]
           /\ s \in {"C", "D"} <=> ConnectedAt[s] = 0
           /\ s \notin {"C", "D"} =>
                  RingAt[s] < ConnectedAt[s] /\ ConnectedAt[s] < ReleaseAt[s]
BY DEF ScenarioIds, SubscribeAt, CreateAt, OwnAt, RingAt, ConnectedAt,
       ReleaseAt, Length

(* What is left of a sequence when k of its elements are taken.            *)
LEMMA RestOfSeq ==
    ASSUME NEW S, NEW s \in Seq(S), NEW k \in 0..Len(s)
    PROVE  LET rest == SubSeq(s, k + 1, Len(s)) IN
           /\ rest \in Seq(S) /\ Len(rest) = Len(s) - k
           /\ \A i \in 1..Len(rest) : rest[i] = s[k + i]
           /\ k < Len(s) => /\ Head(rest) = s[k + 1]
                            /\ Tail(rest) = SubSeq(s, k + 2, Len(s))
<1> DEFINE rest == SubSeq(s, k + 1, Len(s))
<1>1. \A i \in 1..Len(s) : s[i] \in S
  BY ElementOfSeq
<1>2. rest \in Seq(S) /\ Len(rest) = Len(s) - k
  BY <1>1, SubSeqProperties
<1>3. \A i \in 1..Len(rest) : rest[i] = s[k + i]
  BY <1>1, <1>2, SubSeqProperties
<1>4. ASSUME k < Len(s)
      PROVE  /\ Head(rest) = s[k + 1]
             /\ Tail(rest) = SubSeq(s, k + 2, Len(s))
  <2>1. k + 1 \in 1..Len(s) /\ Len(s) \in (k + 1)..Len(s)
    BY <1>4
  <2> QED
    BY <2>1, HeadTailOfSubSeq
<1> QED
  BY <1>2, <1>3, <1>4

-----------------------------------------------------------------------------
(* Type correctness.  A scenario has the end of its script left to do;     *)
(* main() waits for a clean state only between two scenarios; the call the *)
(* scenario is to hang up or reject is its own, and D alone may not know   *)
(* the id of its call.                                                     *)

Taken == Length[Scenario] - Len(todo)

OnScript ==
    at = "steps" =>
        /\ Taken \in 0..Length[Scenario]
        /\ todo = SubSeq(SCENARIOS[Scenario], Taken + 1, Length[Scenario])

Between == at = "clean" => index < Len(selected)

Owning ==
    at = "steps" =>
        /\ Taken < OwnAt[Scenario] => own = 0
        /\ OwnAt[Scenario] <= Taken => own # 0
        /\ OwnAt[Scenario] <= Taken /\ Taken < ReleaseAt[Scenario] =>
              /\ call_id = IF known THEN own ELSE 0
              /\ known \/ Scenario = "D"

CallsBounded == Len(calls) <= MAX_CALLS

TypeInv == TypeOK /\ OnScript /\ Between /\ Owning /\ CallsBounded

(* The scenario that runs is one of the five.                              *)
LEMMA ScenarioIsOne ==
    ASSUME selected \in Selections, index \in 1..Len(selected)
    PROVE  Scenario \in ScenarioIds
<1>1. selected \in Seq(ScenarioIds)
  BY SelectionsAssumption
<1> QED
  BY <1>1, ElementOfSeq DEF Scenario

(* The step a scenario is at.                                              *)
LEMMA NowAt ==
    ASSUME TypeOK, OnScript, NEW step, At(step)
    PROVE  /\ Scenario \in ScenarioIds
           /\ Taken \in Nat /\ Taken + 1 \in 1..Length[Scenario]
           /\ SCENARIOS[Scenario][Taken + 1] = step
           /\ Placed(Scenario, SCENARIOS[Scenario], Taken + 1)
           /\ Tail(todo) = SubSeq(SCENARIOS[Scenario], Taken + 2,
                                  Length[Scenario])
           /\ Tail(todo) \in Seq(Steps) /\ Len(Tail(todo)) = Len(todo) - 1
<1> DEFINE s == Scenario
           sc == SCENARIOS[s]
           k == Taken
<1>1. s \in ScenarioIds
  BY ScenarioIsOne DEF TypeOK
<1>2. /\ sc \in Seq(Steps) /\ Len(sc) = Length[s]
      /\ \A i \in 1..Length[s] : Placed(s, sc, i)
  BY <1>1, Places
<1>3. /\ at = "steps" /\ todo # <<>> /\ Head(todo) = step
      /\ todo \in Seq(Steps)
  BY DEF At, TypeOK
<1>4. k \in 0..Len(sc) /\ todo = SubSeq(sc, k + 1, Len(sc))
  BY <1>2, <1>3 DEF OnScript
<1>5. Len(todo) \in Nat \ {0} /\ Len(todo) = Len(sc) - k
  BY <1>2, <1>3, <1>4, EmptySeq, RestOfSeq
<1> HIDE DEF s, sc, k
<1>6. k < Len(sc) /\ Len(sc) \in Nat /\ k \in Nat
  BY <1>2, <1>4, <1>5, LenProperties
<1>7. Head(todo) = sc[k + 1] /\ Tail(todo) = SubSeq(sc, k + 2, Len(sc))
  BY <1>2, <1>4, <1>6, RestOfSeq
<1>8. Tail(todo) \in Seq(Steps) /\ Len(Tail(todo)) = Len(todo) - 1
  BY <1>3, HeadTailProperties
<1>9. k + 1 \in 1..Length[s]
  BY <1>2, <1>6
<1>10. Placed(s, sc, k + 1)
  BY <1>2, <1>9
<1> QED
  BY <1>1, <1>2, <1>3, <1>6, <1>7, <1>8, <1>9, <1>10 DEF s, sc, k

(* A step that is done is followed by the next one of the script.          *)
LEMMA DoneMoves ==
    ASSUME TypeOK, OnScript, NEW step, At(step), todo' = Tail(todo),
           UNCHANGED <<at, selected, index>>
    PROVE  /\ at' = "steps" /\ todo' \in Seq(Steps)
           /\ Taken' = Taken + 1 /\ Scenario' = Scenario /\ OnScript'
<1>1. at' = "steps" /\ todo' = Tail(todo) /\ Scenario' = Scenario
  BY DEF At, Scenario
<1>2. /\ todo' \in Seq(Steps) /\ Len(todo') = Len(todo) - 1
      /\ todo' = SubSeq(SCENARIOS[Scenario], Taken + 2, Length[Scenario])
      /\ Taken \in Nat /\ Taken + 1 \in 1..Length[Scenario]
      /\ Scenario \in ScenarioIds
  BY <1>1, NowAt
<1>3. Len(todo) \in Nat /\ Length[Scenario] \in Nat
  BY <1>2, Order, LenProperties DEF TypeOK
<1>4. Taken' = Taken + 1
  BY <1>1, <1>2, <1>3 DEF Taken
<1>5. OnScript'
  <2>1. Taken + 1 \in 0..Length[Scenario] /\ Taken + 2 = Taken + 1 + 1
    BY <1>2, <1>3
  <2> QED
    BY <1>1, <1>2, <1>4, <2>1 DEF OnScript
<1> QED
  BY <1>1, <1>2, <1>4, <1>5

Call == [dir : {"in", "out"},
         state : {"new", "ringing", "connected", "ended"}]

(* TypeOK in two parts: the flags, and the rest.                           *)
Flags ==
    /\ no_fail_fast \in BOOLEAN /\ retried \in BOOLEAN /\ outcome \in BOOLEAN
    /\ subscribed \in BOOLEAN /\ up \in BOOLEAN /\ leftover \in BOOLEAN
    /\ known \in BOOLEAN

Types ==
    /\ selected \in Selections /\ index \in 1..Len(selected)
    /\ at \in {"start", "steps", "finally", "result", "retry", "next",
               "clean", "exited"}
    /\ todo \in Seq(Steps)
    /\ call_id \in CallIds \cup {0}
    /\ results \in Seq(BOOLEAN) /\ exit \in {"none", "0", "1"}
    /\ events \in Seq(Reports)
    /\ calls \in Seq(Call)
    /\ said \in Seq(Reports) /\ own \in CallIds \cup {0}
    /\ asked \subseteq CallIds

(* The two parts are all of TypeOK.                                        *)
LEMMA TypeParts == TypeOK <=> Flags /\ Types
BY DEF TypeOK, Flags, Types, Call

(* Every step keeps the flags' types.                                      *)
LEMMA NextFlags ==
    ASSUME Flags, [Next]_vars
    PROVE  Flags'
<1> USE DEF Flags, runner, script, rpc, history, same, Done, Raise
<1>1. CASE World
  <2>1. UNCHANGED <<no_fail_fast, retried, outcome, subscribed, leftover,
                    known>>
    BY <1>1, Zenon DEF World, CallMoves, DaemonDies
  <2>2. up' \in BOOLEAN
    BY <1>1, Zenon DEF World, CallMoves, DaemonDies
  <2> QED
    BY <2>1, <2>2
<1>2. CASE Connect \/ Emulator \/ Audio \/ Dial
  BY <1>2 DEF Connect, Emulator, Audio, Dial
<1>3. CASE Subscribe
  <2>1. leftover' \in BOOLEAN /\ subscribed' \in BOOLEAN
    BY <1>3, Zenon DEF Subscribe
  <2> QED
    BY <1>3, <2>1 DEF Subscribe
<1>4. CASE StartCall \/ StartCallFails \/ AcceptCall \/ LetGo
  BY <1>4 DEF StartCall, StartCallFails, AcceptCall, LetGo
<1>5. ASSUME NEW step, WaitForState(step) \/ WaitTimesOut(step)
      PROVE  Flags'
  BY <1>5 DEF WaitForState, WaitTimesOut, Read, Take
<1>6. CASE StableReads \/ StableEnds
  BY <1>6 DEF StableReads, StableEnds, Read
<1>7. CASE Main
  BY <1>7 DEF Main, Start, Finish, Finally, Result, Retry, NextScenario,
              Clean, Crash, Summary
<1>8. CASE UNCHANGED vars
  BY <1>8 DEF vars
<1> QED
  BY <1>1, <1>2, <1>3, <1>4, <1>5, <1>6, <1>7, <1>8 DEF Next, Step, Exited

-----------------------------------------------------------------------------
(* What each action keeps of TypeInv but the flags.                        *)

RestInv == Types /\ OnScript /\ Between /\ Owning /\ CallsBounded

(* A report appended to reports leaves reports.                            *)
LEMMA AppendReport ==
    ASSUME NEW q \in Seq(Reports), NEW r \in Reports
    PROVE  Append(q, r) \in Seq(Reports)
BY AppendProperties

(* A call that changes state is still a call.                              *)
LEMMA MovedCall ==
    ASSUME calls \in Seq(Call), NEW c \in 1..Len(calls),
           NEW to \in {"ringing", "connected", "ended"}
    PROVE  LET moved == [calls EXCEPT ![c].state = to] IN
           /\ moved \in Seq(Call) /\ Len(moved) = Len(calls)
           /\ \A d \in 1..Len(calls) :
                moved[d].state = IF d = c THEN to ELSE calls[d].state
<1>1. calls[c] \in Call
  BY ElementOfSeq
<1>2. /\ [calls[c] EXCEPT !.state = to] \in Call
      /\ [calls[c] EXCEPT !.state = to].state = to
  BY <1>1 DEF Call
<1>3. [calls EXCEPT ![c].state = to]
        = [calls EXCEPT ![c] = [calls[c] EXCEPT !.state = to]]
  OBVIOUS
<1> QED
  BY <1>2, <1>3, ExceptSeq

(* The daemon and its calls keep the scripts and the types.                *)
LEMMA WorldRestInv ==
    ASSUME TypeInv, World
    PROVE  RestInv'
<1>1. ASSUME NEW c \in 1..Len(calls),
             NEW to \in {"ringing", "connected", "ended"}, CallMoves(c, to)
      PROVE  RestInv'
  <2> USE DEF Types, CallMoves, runner, script, rpc, history
  <2>1. calls' \in Seq(Call) /\ Len(calls') = Len(calls)
    BY <1>1, TypeParts, MovedCall DEF TypeInv
  <2>2. c \in CallIds
    BY <1>1, TypeParts, LenProperties, SelectionsAssumption
       DEF TypeInv, CallsBounded, CallIds
  <2>3. events' \in Seq(Reports) /\ said' \in Seq(Reports)
    <3>1. ASSUME NEW s \in States, NEW q \in Seq(Reports)
          PROVE  Append(q, [call |-> c, state |-> s]) \in Seq(Reports)
      BY <2>2, <3>1, AppendReport DEF Reports
    <3>2. events \in Seq(Reports) /\ said \in Seq(Reports)
      BY TypeParts DEF TypeInv
    <3>3. RingState(c) \in States
      BY DEF RingState, States
    <3>4. {"CONNECTED", "ENDED"} \subseteq States
      BY DEF States
    <3> QED
      BY <1>1, <3>1, <3>2, <3>3, <3>4
  <2>4. Types'
    BY <1>1, <2>1, <2>3, TypeParts DEF TypeInv
  <2> QED
    BY <1>1, <2>1, <2>4 DEF TypeInv, RestInv, OnScript, Between, Owning,
       CallsBounded, Taken, Scenario
<1>2. CASE DaemonDies
  BY <1>2, TypeParts
     DEF TypeInv, DaemonDies, RestInv, Types, OnScript, Between, Owning,
         CallsBounded, Taken, Scenario, runner, script, rpc, history
<1> QED
  BY <1>1, <1>2 DEF World

(* A step that neither learns the call's id nor forgets it.                *)
LEMMA PlainStep ==
    ASSUME TypeInv, NEW step, At(step), step \notin {"start", "incoming"},
           \/ todo' = Tail(todo) /\ UNCHANGED at
           \/ at' \in {"finally", "result"} /\ todo' = <<>>,
           UNCHANGED <<selected, index, results, exit, call_id, own, known>>,
           calls' \in Seq(Call), Len(calls') <= MAX_CALLS,
           events' \in Seq(Reports), said' \in Seq(Reports),
           asked' \subseteq CallIds
    PROVE  RestInv'
<1> USE TypeParts DEF TypeInv
<1>1. CASE todo' = Tail(todo) /\ UNCHANGED at
  <2>1. /\ at' = "steps" /\ todo' \in Seq(Steps) /\ OnScript'
        /\ Taken' = Taken + 1 /\ Scenario' = Scenario
    BY <1>1, DoneMoves
  <2>2. /\ Taken \in Nat /\ Scenario \in ScenarioIds /\ at = "steps"
        /\ Taken + 1 # OwnAt[Scenario]
    BY NowAt DEF Placed, At
  <2>3. OwnAt[Scenario] \in Nat /\ ReleaseAt[Scenario] \in Nat
    BY <2>2, Order
  <2>4. Owning'
    BY <2>1, <2>2, <2>3 DEF Owning
  <2> QED
    BY <2>1, <2>4 DEF RestInv, Types, Between, CallsBounded
<1>2. CASE at' \in {"finally", "result"} /\ todo' = <<>>
  BY <1>2 DEF RestInv, Types, OnScript, Owning, Between, CallsBounded
<1> QED
  BY <1>1, <1>2

(* One that leaves the script where it is.                                 *)
LEMMA IdleStep ==
    ASSUME TypeInv,
           UNCHANGED <<selected, index, results, exit, at, todo, call_id, own,
                       known, calls, asked>>,
           events' \in Seq(Reports), said' \in Seq(Reports)
    PROVE  RestInv'
BY TypeParts DEF TypeInv, RestInv, Types, OnScript, Owning, Between,
   CallsBounded, Taken, Scenario

(* A call that comes to be is the last one.                                *)
LEMMA NewCallType ==
    ASSUME TypeInv, NEW dir \in {"in", "out"}, NewCall(dir)
    PROVE  /\ calls' \in Seq(Call) /\ Len(calls') <= MAX_CALLS
           /\ Len(calls) \in Nat /\ Len(calls') = Len(calls) + 1
           /\ Len(calls') \in CallIds
           /\ calls'[Len(calls')].state = "new"
           /\ \A c \in 1..Len(calls) : calls'[c] = calls[c]
<1>1. [dir |-> dir, state |-> "new"] \in Call
  BY DEF Call
<1>2. calls \in Seq(Call)
  BY TypeParts DEF TypeInv, Types
<1>3. Len(calls) \in Nat /\ MAX_CALLS \in Nat
  BY <1>2, LenProperties, SelectionsAssumption
<1> QED
  BY <1>1, <1>2, <1>3, AppendProperties DEF NewCall, CallIds

(* The next notification, and what is left unread.                         *)
LEMMA ReadType ==
    ASSUME TypeInv, NEW report, Read(report)
    PROVE  /\ report \in Reports /\ events' \in Seq(Reports)
           /\ Len(events) \in Nat \ {0} /\ report = events[1]
           /\ Len(events') = Len(events) - 1
           /\ \A i \in 1..Len(events') : events'[i] = events[i + 1]
<1>1. events \in Seq(Reports) /\ events # <<>>
  BY TypeParts DEF TypeInv, Types, Read
<1> QED
  BY <1>1, HeadTailProperties, EmptySeq DEF Read

(* A call that is to be let go of is the scenario's own.                   *)
LEMMA ReleaseOwn ==
    ASSUME TypeInv, NEW step \in {"hangup", "reject", "timeout"}, At(step)
    PROVE  /\ own # 0 /\ own \in CallIds
           /\ step # "timeout" => call_id = own
<1>1. /\ Scenario \in ScenarioIds /\ Taken \in Nat
      /\ Taken + 1 = ReleaseAt[Scenario] /\ at = "steps"
      /\ step # "timeout" => Scenario # "D"
  BY NowAt DEF TypeInv, Placed, At
<1>2. /\ OwnAt[Scenario] <= Taken /\ Taken < ReleaseAt[Scenario]
  BY <1>1, Order
<1> QED
  BY <1>1, <1>2, TypeParts DEF TypeInv, Types, Owning

(* Steps that ask nothing of a call of the scenario's own.                 *)
LEMMA OtherStepsRestInv ==
    ASSUME TypeInv,
           \/ Connect \/ Emulator \/ Audio \/ Dial \/ Subscribe
           \/ StartCallFails \/ AcceptCall \/ StableReads \/ StableEnds
    PROVE  RestInv'
<1>1. /\ calls \in Seq(Call) /\ Len(calls) <= MAX_CALLS
      /\ events \in Seq(Reports) /\ said \in Seq(Reports)
      /\ asked \subseteq CallIds
  BY TypeParts DEF TypeInv, Types, CallsBounded
<1> USE DEF same, rpc, history, Done, Raise
<1>2. CASE Connect
  BY <1>1, <1>2, PlainStep DEF Connect
<1>3. CASE Emulator
  BY <1>1, <1>3, PlainStep DEF Emulator
<1>4. CASE Audio
  BY <1>1, <1>4, PlainStep DEF Audio
<1>5. CASE Dial
  <2>1. calls' \in Seq(Call) /\ Len(calls') <= MAX_CALLS
    BY <1>1, <1>5, NewCallType DEF Dial
  <2> QED
    BY <1>1, <1>5, <2>1, PlainStep DEF Dial
<1>6. CASE Subscribe
  BY <1>1, <1>6, PlainStep DEF Subscribe
<1>7. CASE StartCallFails
  <2>1. calls' \in Seq(Call) /\ Len(calls') <= MAX_CALLS
    BY <1>1, <1>7, NewCallType DEF StartCallFails
  <2> QED
    BY <1>7, <2>1, TypeParts
       DEF StartCallFails, TypeInv, RestInv, Types, OnScript, Between, Owning,
           CallsBounded
<1>8. CASE AcceptCall
  BY <1>1, <1>8, PlainStep DEF AcceptCall
<1>9. CASE StableEnds
  BY <1>1, <1>9, PlainStep DEF StableEnds
<1>10. CASE StableReads
  <2>1. PICK report \in Reports :
          /\ Read(report)
          /\ Raise \/ UNCHANGED <<at, todo>>
    BY <1>10 DEF StableReads
  <2>2. events' \in Seq(Reports)
    BY <2>1, ReadType
  <2>3. CASE Raise
    BY <1>1, <1>10, <2>1, <2>2, <2>3, PlainStep DEF StableReads, Read
  <2>4. CASE UNCHANGED <<at, todo>>
    BY <1>1, <1>10, <2>1, <2>2, <2>4, IdleStep DEF StableReads, Read
  <2> QED
    BY <2>1, <2>3, <2>4
<1> QED
  BY <1>2, <1>3, <1>4, <1>5, <1>6, <1>7, <1>8, <1>9, <1>10

(* startCall: the call is the scenario's own from now on.                  *)
LEMMA StartCallRestInv ==
    ASSUME TypeInv, StartCall
    PROVE  RestInv'
<1>1. /\ At("start") /\ NewCall("out")
      /\ own' = Len(calls')
      /\ call_id' = IF known' THEN own' ELSE 0
      /\ known' \/ Scenario = "D"
      /\ UNCHANGED <<selected, index, results, exit, at, events, asked>>
  BY DEF StartCall, same, rpc
<1>2. /\ calls' \in Seq(Call) /\ Len(calls') <= MAX_CALLS
      /\ Len(calls') \in CallIds
  BY <1>1, NewCallType
<1>3. /\ Taken \in Nat /\ Scenario \in ScenarioIds /\ at = "steps"
      /\ Taken + 1 = OwnAt[Scenario] /\ Taken + 2 = RingAt[Scenario]
  BY <1>1, NowAt DEF Placed, At, TypeInv
<1>4. /\ OwnAt[Scenario] \in Nat /\ ReleaseAt[Scenario] \in Nat
      /\ RingAt[Scenario] < ReleaseAt[Scenario]
      /\ RingAt[Scenario] \in Nat /\ Length[Scenario] \in Nat
      /\ ReleaseAt[Scenario] <= Length[Scenario]
  BY <1>3, Order
<1>5. said' \in Seq(Reports)
  <2>1. [state |-> "RINGING_OUTGOING", call |-> Len(calls')] \in Reports
    BY <1>2 DEF Reports, States
  <2> QED
    BY <2>1, AppendReport, TypeParts DEF StartCall, TypeInv, Types
<1>6. CASE todo' = Tail(todo)
  <2>1. /\ todo' \in Seq(Steps) /\ Taken' = Taken + 1
        /\ Scenario' = Scenario /\ OnScript'
    BY <1>1, <1>6, DoneMoves DEF TypeInv
  <2>2. Owning'
    BY <1>1, <1>2, <1>3, <1>4, <2>1 DEF Owning, CallIds
  <2> QED
    BY <1>1, <1>2, <1>5, <2>1, <2>2, TypeParts
       DEF TypeInv, RestInv, Types, Between, CallsBounded
<1>7. CASE todo' = Tail(Tail(todo))
  <2> DEFINE sc == SCENARIOS[Scenario]
             k == Taken
  <2>1. /\ sc \in Seq(Steps) /\ Len(sc) = Length[Scenario]
    BY <1>3, Places
  <2>2. /\ Tail(todo) = SubSeq(sc, k + 2, Len(sc))
        /\ Tail(todo) \in Seq(Steps) /\ Len(Tail(todo)) = Len(todo) - 1
        /\ k = Len(sc) - Len(todo)
    BY <1>1, <2>1, NowAt DEF TypeInv, Taken
  <2>3. k \in Nat /\ k + 2 \in 1..Len(sc) /\ k + 1 < Len(sc)
    BY <1>3, <1>4, <2>1
  <2>4. Len(todo) \in Nat /\ Len(sc) \in Nat
    BY <1>4, <2>1, TypeParts, LenProperties DEF TypeInv, Types
  <2> HIDE DEF sc, k
  <2>5. Tail(Tail(todo)) = SubSeq(sc, k + 3, Len(sc))
    <3>1. k + 2 \in 1..Len(sc) /\ Len(sc) \in (k + 2)..Len(sc)
      BY <2>3, <2>4
    <3>2. sc \in Seq(Steps)
      BY <2>1
    <3>3. Tail(SubSeq(sc, k + 2, Len(sc))) = SubSeq(sc, (k + 2) + 1, Len(sc))
      BY <3>1, <3>2, HeadTailOfSubSeq
    <3>4. (k + 2) + 1 = k + 3
      BY <2>3
    <3>5. Tail(todo) = SubSeq(sc, k + 2, Len(sc))
      BY <2>2
    <3> QED
      BY <3>3, <3>4, <3>5, Zenon
  <2>6. todo' \in Seq(Steps) /\ Len(todo') = Len(todo) - 2
    <3>1. Len(Tail(todo)) > 0
      BY <2>2, <2>3, <2>4
    <3>2. Tail(todo) # <<>>
      BY <3>1
    <3> QED
      BY <1>7, <2>2, <2>4, <3>2, HeadTailProperties
  <2>7. Scenario' = Scenario
    BY <1>1 DEF Scenario
  <2>8. Taken' = k + 2 /\ k \in Nat
    BY <1>3, <2>1, <2>2, <2>4, <2>6, <2>7 DEF Taken, k
  <2>9. OnScript'
    <3>1. k + 2 \in 0..Len(sc) /\ k + 2 + 1 = k + 3
      BY <2>3, <2>8
    <3> QED
      BY <1>7, <2>1, <2>5, <2>7, <2>8, <3>1 DEF OnScript, sc
  <2>10. Owning'
    BY <1>1, <1>2, <1>3, <1>4, <2>7, <2>8 DEF Owning, CallIds, k
  <2> QED
    BY <1>1, <1>2, <1>3, <1>5, <2>6, <2>9, <2>10, TypeParts
       DEF TypeInv, RestInv, Types, Between, CallsBounded
<1> QED
  BY <1>6, <1>7 DEF StartCall, Done

(* hangup_call and reject_call.                                            *)
LEMMA LetGoRestInv ==
    ASSUME TypeInv, LetGo
    PROVE  RestInv'
<1>1. PICK step \in {"hangup", "reject"} : At(step)
  BY DEF LetGo
<1>2. call_id \in CallIds
  BY <1>1, ReleaseOwn
<1>3. asked' \subseteq CallIds
  BY <1>2, TypeParts DEF LetGo, Ask, TypeInv, Types
<1>4. /\ calls \in Seq(Call) /\ Len(calls) <= MAX_CALLS
      /\ events \in Seq(Reports) /\ said \in Seq(Reports)
  BY TypeParts DEF TypeInv, Types, CallsBounded
<1>5. CASE UNCHANGED call_id
  BY <1>1, <1>3, <1>4, <1>5, PlainStep
     DEF LetGo, same, rpc, Done, Raise
<1>6. CASE call_id' = 0 /\ Done
  <2>1. /\ at' = "steps" /\ todo' \in Seq(Steps) /\ OnScript'
        /\ Taken' = Taken + 1 /\ Scenario' = Scenario
    BY <1>1, <1>6, DoneMoves DEF TypeInv, LetGo, same, Done
  <2>2. /\ Taken \in Nat /\ Scenario \in ScenarioIds /\ at = "steps"
        /\ Taken + 1 = ReleaseAt[Scenario] /\ own' = own
    BY <1>1, NowAt DEF Placed, At, TypeInv, LetGo
  <2>3. /\ OwnAt[Scenario] \in Nat /\ ReleaseAt[Scenario] \in Nat
        /\ OwnAt[Scenario] < ReleaseAt[Scenario]
    BY <2>2, Order
  <2>4. Owning'
    BY <1>1, <2>1, <2>2, <2>3, ReleaseOwn DEF Owning
  <2> QED
    BY <1>3, <1>4, <1>6, <2>1, <2>4, TypeParts
       DEF LetGo, same, rpc, TypeInv, RestInv, Types, Between, CallsBounded
<1> QED
  BY <1>5, <1>6 DEF LetGo

(* The waits.                                                              *)
LEMMA WaitRestInv ==
    ASSUME TypeInv, NEW step \in DOMAIN Awaited,
           WaitForState(step) \/ WaitTimesOut(step)
    PROVE  RestInv'
<1>1. /\ At(step) /\ step # "start"
      /\ step \in {"ring", "incoming", "connected", "ended", "verdict",
                   "timeout"}
  BY DEF WaitForState, WaitTimesOut, Waiting, Awaited
<1>2. /\ calls \in Seq(Call) /\ Len(calls) <= MAX_CALLS
      /\ events \in Seq(Reports) /\ said \in Seq(Reports)
      /\ asked \subseteq CallIds
  BY TypeParts DEF TypeInv, Types, CallsBounded
<1>3. CASE WaitTimesOut(step)
  <2>1. /\ at' = "finally" /\ todo' = <<>>
        /\ UNCHANGED <<selected, index, results, exit, call_id, own, known,
                       calls, events, said, asked>>
    BY <1>3 DEF WaitTimesOut, Raise, same, rpc, history
  <2> QED
    BY <1>2, <2>1, TypeParts
       DEF TypeInv, RestInv, Types, OnScript, Between, Owning, CallsBounded
<1>4. CASE WaitForState(step)
  <2>1. PICK report \in Reports :
          /\ Read(report)
          /\ \/ Take(step, report)
             \/ UNCHANGED <<at, todo, outcome, call_id, own, known>>
    BY <1>4 DEF WaitForState
  <2>2. /\ events' \in Seq(Reports) /\ report.call \in CallIds
        /\ UNCHANGED <<selected, index, results, exit, calls, said, asked>>
    BY <2>1, ReadType DEF Read, same, Reports
  <2>3. CASE UNCHANGED <<at, todo, outcome, call_id, own, known>>
    BY <1>2, <2>2, <2>3, IdleStep
  <2>4. CASE Take(step, report) /\ Raise
    <3>1. /\ at' = "finally" /\ todo' = <<>> /\ call_id' \in CallIds \cup {0}
          /\ own' \in CallIds \cup {0}
      BY <2>2, <2>4, TypeParts DEF Take, Raise, TypeInv, Types
    <3> QED
      BY <1>2, <2>2, <3>1, TypeParts
         DEF TypeInv, RestInv, Types, OnScript, Between, Owning, CallsBounded
  <2>5. CASE Take(step, report) /\ Done /\ step \notin {"incoming", "timeout"}
    <3>1. UNCHANGED <<call_id, own, known>>
      BY <2>5 DEF Take
    <3> QED
      BY <1>1, <1>2, <2>2, <2>5, <3>1, PlainStep DEF Done
  <2>6. CASE Take(step, report) /\ Done /\ step \in {"incoming", "timeout"}
    <3>1. /\ at' = "steps" /\ todo' \in Seq(Steps) /\ OnScript'
          /\ Taken' = Taken + 1 /\ Scenario' = Scenario
      BY <1>1, <2>2, <2>6, DoneMoves DEF TypeInv, Done
    <3>2. /\ Taken \in Nat /\ Scenario \in ScenarioIds /\ at = "steps"
          /\ step = "incoming" => Taken + 1 = OwnAt[Scenario]
          /\ step = "timeout" => Taken + 1 = ReleaseAt[Scenario]
      BY <1>1, NowAt DEF Placed, At, TypeInv
    <3>3. /\ OwnAt[Scenario] \in Nat /\ ReleaseAt[Scenario] \in Nat
          /\ OwnAt[Scenario] < ReleaseAt[Scenario]
      BY <3>2, Order
    <3>4. /\ step = "incoming" =>
                call_id' = report.call /\ own' = report.call /\ known'
          /\ step = "timeout" => call_id' = 0 /\ own' = own /\ own # 0
          /\ step = "incoming" \/ step = "timeout"
      BY <1>1, <2>6, ReleaseOwn DEF Take
    <3>5. Owning'
      BY <2>2, <3>1, <3>2, <3>3, <3>4 DEF Owning, CallIds
    <3> QED
      BY <1>2, <2>2, <3>1, <3>4, <3>5, TypeParts
         DEF TypeInv, RestInv, Types, Between, CallsBounded
  <2> QED
    BY <2>1, <2>3, <2>4, <2>5, <2>6 DEF Take
<1> QED
  BY <1>3, <1>4

(* main().                                                                 *)
LEMMA MainRestInv ==
    ASSUME TypeInv, Main
    PROVE  RestInv'
<1> USE TypeParts DEF TypeInv, same, rpc, script, history
<1>1. CASE Start
  <2>1. /\ at' = "steps" /\ todo' = SCENARIOS[Scenario] /\ own' = 0
        /\ Scenario' = Scenario
        /\ UNCHANGED <<selected, index, results, exit, call_id, calls, events,
                       asked>>
        /\ said' = <<>>
    BY <1>1 DEF Start, Scenario
  <2>2. Scenario \in ScenarioIds
    BY ScenarioIsOne DEF Types
  <2>3. todo' \in Seq(Steps) /\ Len(todo') = Length[Scenario]
    BY <2>1, <2>2, Places
  <2>4. Length[Scenario] \in Nat /\ OwnAt[Scenario] \in Nat \ {0}
    BY <2>2, Order
  <2>5. Taken' = 0
    BY <2>1, <2>3, <2>4 DEF Taken
  <2>6. OnScript'
    BY <2>1, <2>3, <2>4, <2>5, SubSeqFull DEF OnScript
  <2>7. Owning'
    BY <2>1, <2>4, <2>5 DEF Owning
  <2>8. said' \in Seq(Reports)
    BY <2>1, EmptySeq
  <2> QED
    BY <2>1, <2>3, <2>6, <2>7, <2>8
       DEF RestInv, Types, Between, CallsBounded
<1>2. CASE Finish
  BY <1>2 DEF Finish, RestInv, Types, OnScript, Between, Owning, CallsBounded
<1>3. CASE Finally
  <2>1. asked' \subseteq CallIds
    BY <1>3 DEF Finally, Ask, Types
  <2>2. events' \in Seq(Reports)
    BY <1>3, EmptySeq DEF Finally
  <2> QED
    BY <1>3, <2>1, <2>2
       DEF Finally, RestInv, Types, OnScript, Between, Owning, CallsBounded
<1>4. CASE Result
  <2>1. results' \in Seq(BOOLEAN)
    <3>1. outcome \in BOOLEAN /\ results \in Seq(BOOLEAN)
      BY Zenon DEF Flags, Types
    <3>2. ASSUME NEW b \in BOOLEAN PROVE Append(results, b) \in Seq(BOOLEAN)
      BY <3>1, AppendProperties
    <3>3. results' = results \/ results' = Append(results, outcome)
      BY <1>4 DEF Result
    <3> QED
      BY <3>1, <3>2, <3>3, Zenon
  <2> QED
    BY <1>4, <2>1
       DEF Result, RestInv, Types, OnScript, Between, Owning, CallsBounded
<1>5. CASE Retry
  <2>1. results' \in Seq(BOOLEAN)
    BY <1>5, AppendProperties DEF Retry, Types
  <2> QED
    BY <1>5, <2>1 DEF Retry, Crash, RestInv, Types, OnScript, Between, Owning,
                      CallsBounded
<1>6. CASE NextScenario
  <2>1. exit' \in {"none", "0", "1"}
    BY <1>6 DEF NextScenario, Summary, ExitCode, Types
  <2>2. index' \in 1..Len(selected) /\ (at' = "clean" => index < Len(selected))
    <3>1. Len(selected) \in Nat
      BY LenProperties, SelectionsAssumption DEF Types
    <3> QED
      BY <1>6, <3>1 DEF NextScenario, Summary, Types
  <2>3. at' \in {"exited", "start", "clean"}
    BY <1>6 DEF NextScenario, Summary
  <2>4. UNCHANGED <<selected, results, todo, call_id, events, calls, said, own,
                    asked>>
    BY <1>6 DEF NextScenario
  <2>5. at' = "clean" => index' = index
    BY <1>6 DEF NextScenario, Summary
  <2> QED
    BY <2>1, <2>2, <2>3, <2>4, <2>5
       DEF RestInv, Types, OnScript, Between, Owning, CallsBounded
<1>7. CASE Clean
  <2>1. index' \in 1..Len(selected)
    <3>1. Len(selected) \in Nat
      BY LenProperties, SelectionsAssumption DEF Types
    <3> QED
      BY <1>7, <3>1 DEF Clean, Between, Types
  <2> QED
    BY <1>7, <2>1 DEF Clean, Crash, RestInv, Types, OnScript, Between, Owning,
                      CallsBounded
<1> QED
  BY <1>1, <1>2, <1>3, <1>4, <1>5, <1>6, <1>7 DEF Main

-----------------------------------------------------------------------------
(* Nothing has run.                                                        *)
LEMMA InitTypeInv == Init => TypeInv
<1> SUFFICES ASSUME Init PROVE TypeInv
  OBVIOUS
<1>1. Flags
  BY DEF Init, Flags
<1>2. selected \in Seq(ScenarioIds) /\ selected # <<>>
  BY SelectionsAssumption DEF Init
<1>3. 1 \in 1..Len(selected)
  BY <1>2, EmptySeq
<1>4. Types
  BY <1>3 DEF Init, Types
<1>5. CallsBounded
  BY SelectionsAssumption DEF Init, CallsBounded
<1> QED
  BY <1>1, <1>4, <1>5, TypeParts
     DEF Init, TypeInv, OnScript, Between, Owning

(* TypeInv is inductive.                                                   *)
LEMMA NextTypeInv == TypeInv /\ [Next]_vars => TypeInv'
<1> SUFFICES ASSUME TypeInv, [Next]_vars PROVE TypeInv'
  OBVIOUS
<1>1. Flags'
  BY NextFlags, TypeParts DEF TypeInv
<1>2. RestInv'
  <2>1. CASE UNCHANGED vars
    BY <2>1, TypeParts
       DEF vars, TypeInv, RestInv, Types, OnScript, Between, Owning,
           CallsBounded, Taken, Scenario, runner, script, rpc, history
  <2> QED
    BY <2>1, WorldRestInv, OtherStepsRestInv, StartCallRestInv, LetGoRestInv,
       WaitRestInv, MainRestInv
       DEF Next, Step, Exited
<1>3. TypeOK'
  BY <1>1, <1>2 DEF RestInv, TypeOK, Flags, Types, Call
<1> QED
  BY <1>2, <1>3 DEF RestInv, TypeInv

(* Every variable keeps its type, and every step that is done is the next  *)
(* one of the running scenario's script (e2e_test.py).                     *)
THEOREM TypeInvariant == Spec => []TypeInv
BY InitTypeInv, NextTypeInv, PTL DEF Spec

(* The runner's variables keep their types (e2e_test.py).                  *)
THEOREM TypeCorrect == Spec => []TypeOK
BY TypeInvariant, PTL DEF TypeInv

-----------------------------------------------------------------------------
(* The exit code.  Every scenario that has been left has its result among  *)
(* `results`, the last one what its last attempt came to.                  *)

Counted ==
    /\ at \in {"start", "steps", "finally", "result", "retry"} =>
          Len(results) = index - 1
    /\ at \in {"next", "clean"} => Len(results) = index
    /\ at = "retry" => ~outcome
    /\ at = "next" => results[index] = outcome

ExitInv == Counted /\ ExitZeroMeansPassed

(* No step of a scenario, of the daemon or of a call touches the results.  *)
LEMMA ResultsKept ==
    ASSUME World \/ Step
    PROVE  /\ UNCHANGED <<selected, index, results, exit>>
           /\ at' = at \/ (at = "steps" /\ at' \in {"finally", "result"})
           /\ outcome' = outcome \/ at = "steps"
<1> USE DEF runner, script, rpc, history, same
<1>1. CASE World
  BY <1>1 DEF World, CallMoves, DaemonDies
<1>2. CASE Connect \/ Emulator \/ Audio \/ Dial \/ Subscribe \/ StartCall
             \/ StartCallFails \/ AcceptCall \/ LetGo
  BY <1>2 DEF Connect, Emulator, Audio, Dial, Subscribe, StartCall,
              StartCallFails, AcceptCall, LetGo, Done, Raise, At
<1>3. ASSUME NEW step, WaitForState(step) \/ WaitTimesOut(step)
      PROVE  /\ UNCHANGED <<selected, index, results, exit>>
             /\ at' = at \/ (at = "steps" /\ at' \in {"finally", "result"})
             /\ outcome' = outcome \/ at = "steps"
  BY <1>3 DEF WaitForState, WaitTimesOut, Waiting, Take, Read, Done, Raise, At
<1>4. CASE StableReads \/ StableEnds
  BY <1>4 DEF StableReads, StableEnds, Read, Done, Raise, At
<1> QED
  BY <1>1, <1>2, <1>3, <1>4 DEF Step

(* ExitInv is kept by every step.                                          *)
LEMMA NextExitInv ==
    ASSUME TypeInv, ExitInv, [Next]_vars
    PROVE  ExitInv'
<1> USE DEF ExitInv, Counted, ExitZeroMeansPassed, script, rpc, history, same
<1>1. /\ results \in Seq(BOOLEAN) /\ index \in 1..Len(selected)
      /\ Len(selected) \in Nat /\ Len(results) \in Nat
      /\ outcome \in BOOLEAN
  BY TypeParts, LenProperties, SelectionsAssumption
     DEF TypeInv, Types, Flags
<1>2. CASE World \/ Step
  BY <1>2, ResultsKept
<1>3. CASE Start \/ Finish \/ Finally \/ Clean
  BY <1>1, <1>3 DEF Start, Finish, Finally, Clean, Crash
<1>4. ASSUME NEW b \in BOOLEAN
      PROVE  /\ Len(Append(results, b)) = Len(results) + 1
             /\ Append(results, b)[Len(results) + 1] = b
  BY <1>1, AppendProperties
<1>5. CASE Result
  BY <1>1, <1>4, <1>5 DEF Result
<1>6. CASE Retry
  <2>1. ~outcome /\ ~outcome' /\ index' = index /\ selected' = selected
        /\ Len(results) = index - 1
    BY <1>6 DEF Retry
  <2>2. CASE results' = Append(results, FALSE) /\ at' = "next"
             /\ exit' = exit
    <3>1. Len(results') = index /\ results'[index] = FALSE
      BY <1>1, <1>4, <2>1, <2>2
    <3>2. outcome' = FALSE
      BY <1>6, <1>1, <2>1 DEF Retry
    <3>3. exit # "0"
      BY <1>1, <2>1
    <3> QED
      BY <2>1, <2>2, <3>1, <3>2, <3>3
  <2>3. CASE UNCHANGED results /\ at' \in {"start", "exited"}
             /\ exit' \in {exit, "1"}
    BY <2>1, <2>3
  <2> QED
    BY <1>6, <2>2, <2>3 DEF Retry, Crash
<1>7. CASE NextScenario
  BY <1>1, <1>7 DEF NextScenario, Summary, ExitCode
<1>8. CASE UNCHANGED vars
  BY <1>8 DEF vars, runner
<1> QED
  BY <1>2, <1>3, <1>5, <1>6, <1>7, <1>8 DEF Next, Main, Exited

(* Exit code 0 means that every selected scenario has run and passed, in   *)
(* its last attempt, through retries, fail-fast and clean-ups that give up *)
(* (e2e_test.py, main).                                                    *)
THEOREM ExitZeroIsAllPassed == Spec => []ExitZeroMeansPassed
<1>1. Init => ExitInv
  BY EmptySeq DEF Init, ExitInv, Counted, ExitZeroMeansPassed
<1>2. TypeInv /\ ExitInv /\ [Next]_vars => ExitInv'
  BY NextExitInv
<1> QED
  BY <1>1, <1>2, TypeInvariant, PTL DEF Spec, ExitInv

-----------------------------------------------------------------------------
(* Whose events a scenario reads.  If nothing of an earlier call was left  *)
(* when it subscribed, the last call is its own, everything reported is of *)
(* this call, and what is unread is the end of what was reported.          *)

Told ==
    /\ own <= Len(calls)
    /\ \A i \in 1..Len(events) :
          /\ events[i].call <= Len(calls)
          /\ events[i].state = "ENDED" =>
                calls[events[i].call].state = "ended"

Silent == ~subscribed /\ events = <<>>

Listening ==
    /\ at \notin {"steps", "finally"} => Silent
    /\ at = "steps" /\ Taken < SubscribeAt[Scenario] => Silent /\ said = <<>>

AllEnded(n) == \A c \in 1..n : calls[c].state = "ended"

Scope ==
    /\ AllEnded(Len(calls) - 1)
    /\ \A i \in 1..Len(said) : said[i].call = Len(calls)
    /\ Len(events) <= Len(said)
    /\ \A i \in 1..Len(events) :
          events[i] = said[Len(said) - Len(events) + i]
    /\ own # 0 => own = Len(calls)
    /\ Taken < CreateAt[Scenario] =>
          said = <<>> /\ events = <<>> /\ AllEnded(Len(calls))

Scoped ==
    at = "steps" /\ SubscribeAt[Scenario] <= Taken /\ ~leftover => Scope

Released ==
    known =>
        /\ own # 0
        /\ \/ own \in asked \/ calls[own].state = "ended" \/ ~up \/ leftover
           \/ at \in {"steps", "finally"} /\ call_id = own

CallsInv == Told /\ Listening /\ Scoped /\ Released

(* The types these parts rely on.                                          *)
LEMMA CallTypes ==
    ASSUME TypeInv
    PROVE  /\ calls \in Seq(Call) /\ Len(calls) \in Nat
           /\ events \in Seq(Reports) /\ Len(events) \in Nat
           /\ said \in Seq(Reports) /\ Len(said) \in Nat
           /\ own \in Nat /\ Scenario \in ScenarioIds
           /\ \A i \in 1..Len(events) :
                 events[i] \in Reports /\ events[i].call \in Nat \ {0}
<1>1. /\ calls \in Seq(Call) /\ events \in Seq(Reports)
      /\ said \in Seq(Reports) /\ own \in CallIds \cup {0}
  BY TypeParts DEF TypeInv, Types
<1>2. own \in Nat
  BY <1>1 DEF CallIds
<1>3. \A i \in 1..Len(events) : events[i] \in Reports
  BY <1>1, ElementOfSeq
<1>4. \A r \in Reports : r.call \in Nat \ {0}
  BY DEF Reports, CallIds
<1>5. Scenario \in ScenarioIds
  BY ScenarioIsOne, TypeParts DEF TypeInv, Types
<1> QED
  BY <1>1, <1>2, <1>3, <1>4, <1>5, LenProperties

(* What a subscriber is told of a call that moves comes last.              *)
LEMMA MovedReport ==
    ASSUME TypeInv, NEW c \in 1..Len(calls),
           NEW to \in {"ringing", "connected", "ended"}, CallMoves(c, to)
    PROVE  \E r \in Reports :
             /\ r.call = c /\ (r.state = "ENDED" => to = "ended")
             /\ \/ UNCHANGED <<events, said>>
                \/ /\ subscribed
                   /\ Len(events') = Len(events) + 1
                   /\ Len(said') = Len(said) + 1
                   /\ \A i \in 1..Len(events) : events'[i] = events[i]
                   /\ \A i \in 1..Len(said) : said'[i] = said[i]
                   /\ events'[Len(events) + 1] = r
                   /\ said'[Len(said) + 1] = r
<1>1. PICK r :
        /\ r = [call  |-> c,
                state |-> CASE to = "ringing"   -> RingState(c)
                            [] to = "connected" -> "CONNECTED"
                            [] to = "ended"     -> "ENDED"]
        /\ \/ UNCHANGED <<events, said>>
           \/ /\ subscribed
              /\ events' = Append(events, r) /\ said' = Append(said, r)
  BY DEF CallMoves
<1>2. r.call = c /\ (r.state = "ENDED" => to = "ended") /\ r \in Reports
  <2>1. c \in CallIds
    BY CallTypes, SelectionsAssumption DEF TypeInv, CallsBounded, CallIds
  <2>2. RingState(c) \in {"RINGING_INCOMING", "RINGING_OUTGOING"}
    BY DEF RingState
  <2> QED
    BY <1>1, <2>1, <2>2 DEF Reports, States
<1> QED
  BY <1>1, <1>2, CallTypes, AppendProperties

(* A call moves: only one that has not ended, and its report comes last.   *)
LEMMA CallMovesCallsInv ==
    ASSUME TypeInv, CallsInv, NEW c \in 1..Len(calls),
           NEW to \in {"ringing", "connected", "ended"}, CallMoves(c, to)
    PROVE  CallsInv'
<1> USE DEF runner, script, rpc, history
<1>1. /\ calls \in Seq(Call) /\ Len(calls) \in Nat
      /\ events \in Seq(Reports) /\ Len(events) \in Nat
      /\ said \in Seq(Reports) /\ Len(said) \in Nat
      /\ own \in Nat /\ Scenario \in ScenarioIds
      /\ \A i \in 1..Len(events) : events[i].call \in Nat \ {0}
  BY CallTypes
<1>2. /\ Len(calls') = Len(calls) /\ calls[c].state # "ended"
      /\ \A d \in 1..Len(calls) :
            calls'[d].state = IF d = c THEN to ELSE calls[d].state
      /\ UNCHANGED <<at, todo, own, known, asked, up, leftover, call_id,
                     selected, index, subscribed>>
  BY <1>1, MovedCall DEF CallMoves
<1>3. \A d \in 1..Len(calls) :
        calls[d].state = "ended" => calls'[d].state = "ended"
  BY <1>2
<1>4. PICK r \in Reports :
        /\ r.call = c /\ (r.state = "ENDED" => to = "ended")
        /\ \/ UNCHANGED <<events, said>>
           \/ /\ subscribed
              /\ Len(events') = Len(events) + 1 /\ Len(said') = Len(said) + 1
              /\ \A i \in 1..Len(events) : events'[i] = events[i]
              /\ \A i \in 1..Len(said) : said'[i] = said[i]
              /\ events'[Len(events) + 1] = r /\ said'[Len(said) + 1] = r
  BY MovedReport
<1>5. r.call = c /\ (r.state = "ENDED" => to = "ended")
  BY <1>4
<1>6. \/ UNCHANGED <<events, said>>
      \/ /\ subscribed
         /\ Len(events') = Len(events) + 1 /\ Len(said') = Len(said) + 1
         /\ \A i \in 1..Len(events) : events'[i] = events[i]
         /\ \A i \in 1..Len(said) : said'[i] = said[i]
         /\ events'[Len(events) + 1] = r /\ said'[Len(said) + 1] = r
  BY <1>4
<1>7. Told'
  <2>1. \A i \in 1..Len(events) :
          events[i].call \in 1..Len(calls)
    BY <1>1 DEF CallsInv, Told
  <2>2. CASE UNCHANGED <<events, said>>
    BY <1>2, <1>3, <2>1, <2>2 DEF CallsInv, Told
  <2>3. CASE /\ Len(events') = Len(events) + 1
             /\ \A i \in 1..Len(events) : events'[i] = events[i]
             /\ events'[Len(events) + 1] = r
    <3>1. ASSUME NEW i \in 1..Len(events')
          PROVE  /\ events'[i].call <= Len(calls')
                 /\ events'[i].state = "ENDED" =>
                      calls'[events'[i].call].state = "ended"
      <4>1. CASE i = Len(events) + 1
        BY <1>1, <1>2, <1>5, <2>3, <4>1
      <4>2. CASE i \in 1..Len(events)
        BY <1>2, <1>3, <2>1, <2>3, <4>2 DEF CallsInv, Told
      <4> QED
        BY <1>1, <2>3, <4>1, <4>2
    <3> QED
      BY <1>2, <3>1 DEF CallsInv, Told
  <2> QED
    BY <1>6, <2>2, <2>3
<1>8. Taken' = Taken /\ Scenario' = Scenario
  BY <1>2 DEF Taken, Scenario
<1>9. Listening'
  BY <1>2, <1>6, <1>8 DEF CallsInv, Listening, Silent
<1>10. Scoped'
  <2> SUFFICES ASSUME at' = "steps", SubscribeAt[Scenario] <= Taken,
                      ~leftover'
               PROVE  Scope'
    BY <1>8 DEF Scoped
  <2>1. Scope
    BY <1>2 DEF CallsInv, Scoped
  <2>2. c = Len(calls) /\ ~(Taken < CreateAt[Scenario])
    BY <1>1, <1>2, <2>1 DEF Scope, AllEnded
  <2>3. AllEnded(Len(calls) - 1)'
    BY <1>1, <1>2, <1>3, <2>1 DEF Scope, AllEnded
  <2>4. \A i \in 1..Len(said') : said'[i].call = Len(calls')
    BY <1>1, <1>2, <1>5, <1>6, <2>1, <2>2 DEF Scope
  <2>5. /\ Len(events') <= Len(said')
        /\ \A i \in 1..Len(events') :
              events'[i] = said'[Len(said') - Len(events') + i]
    <3>1. /\ Len(events) <= Len(said)
          /\ \A i \in 1..Len(events) :
                events[i] = said[Len(said) - Len(events) + i]
      BY <2>1 DEF Scope
    <3>2. CASE UNCHANGED <<events, said>>
      BY <3>1, <3>2
    <3>3. CASE Len(events') = Len(events) + 1 /\ Len(said') = Len(said) + 1
      <4>1. ASSUME NEW i \in 1..Len(events')
            PROVE  events'[i] = said'[Len(said') - Len(events') + i]
        <5>1. Len(said') - Len(events') + i = Len(said) - Len(events) + i
          BY <1>1, <3>3, <4>1
        <5>2. CASE i = Len(events) + 1
          <6>1. Len(said) - Len(events) + i = Len(said) + 1
            BY <1>1, <5>2
          <6> QED
            BY <1>1, <1>6, <3>3, <5>1, <5>2, <6>1
        <5>3. CASE i \in 1..Len(events)
          <6>1. Len(said) - Len(events) + i \in 1..Len(said)
            BY <1>1, <3>1, <5>3
          <6> QED
            BY <1>1, <1>6, <3>1, <3>3, <5>1, <5>3, <6>1
        <5> QED
          BY <1>1, <3>3, <4>1, <5>2, <5>3
      <4> QED
        BY <1>1, <3>1, <3>3, <4>1
    <3> QED
      BY <1>6, <3>2, <3>3
  <2> QED
    BY <1>2, <1>8, <2>1, <2>2, <2>3, <2>4, <2>5 DEF Scope
<1>11. Released'
  <2>1. own # 0 => own \in 1..Len(calls)
    BY <1>1 DEF CallsInv, Told
  <2> QED
    BY <1>2, <1>3, <2>1 DEF CallsInv, Released
<1> QED
  BY <1>7, <1>9, <1>10, <1>11 DEF CallsInv

(* A step that neither subscribes nor makes a call leaves the scenario on  *)
(* its side of both.                                                       *)
LEMMA Phases ==
    ASSUME TypeInv, NEW step, At(step),
           step \notin {"subscribe", "start", "dial"},
           \/ UNCHANGED <<at, todo>>
           \/ todo' = Tail(todo) /\ UNCHANGED at,
           UNCHANGED <<selected, index>>
    PROVE  /\ at = "steps" /\ at' = "steps" /\ Scenario' = Scenario
           /\ Taken' < SubscribeAt[Scenario] => Taken < SubscribeAt[Scenario]
           /\ SubscribeAt[Scenario] <= Taken' => SubscribeAt[Scenario] <= Taken
           /\ Taken' < CreateAt[Scenario] => Taken < CreateAt[Scenario]
<1>1. at = "steps" /\ at' = "steps" /\ Scenario' = Scenario
  BY DEF At, Scenario
<1>2. /\ Scenario \in ScenarioIds /\ Taken \in Nat
      /\ Taken + 1 # SubscribeAt[Scenario] /\ Taken + 1 # CreateAt[Scenario]
  BY NowAt DEF TypeInv, Placed
<1>3. SubscribeAt[Scenario] \in Nat /\ CreateAt[Scenario] \in Nat
  BY <1>2, Order
<1>4. Taken' = Taken \/ Taken' = Taken + 1
  <2>1. CASE UNCHANGED <<at, todo>>
    BY <1>1, <2>1 DEF Taken
  <2>2. CASE todo' = Tail(todo) /\ UNCHANGED at
    BY <2>2, DoneMoves DEF TypeInv
  <2> QED
    BY <2>1, <2>2
<1> QED
  BY <1>1, <1>2, <1>3, <1>4

(* A step that changes nothing about the calls and their events.           *)
LEMMA QuietStep ==
    ASSUME TypeInv, CallsInv, NEW step, At(step),
           step \notin {"subscribe", "start", "dial"},
           \/ UNCHANGED <<at, todo>>
           \/ todo' = Tail(todo) /\ UNCHANGED at
           \/ at' = "finally"
           \/ at' = "result" /\ step = "connect",
           UNCHANGED <<selected, index, events, said, calls, own, subscribed,
                       leftover>>
    PROVE  Told' /\ Listening' /\ Scoped'
<1>1. Told'
  BY DEF CallsInv, Told
<1>2. CASE at' = "finally"
  BY <1>1, <1>2 DEF Listening, Scoped
<1>3. CASE at' = "result" /\ step = "connect"
  <2>1. /\ Scenario \in ScenarioIds /\ Taken \in Nat /\ at = "steps"
        /\ Taken + 1 < SubscribeAt[Scenario]
    BY <1>3, NowAt DEF TypeInv, Placed, At
  <2>2. Silent
    BY <2>1, Order DEF CallsInv, Listening
  <2> QED
    BY <1>1, <1>3, <2>2 DEF Listening, Scoped, Silent
<1>4. CASE \/ UNCHANGED <<at, todo>>
           \/ todo' = Tail(todo) /\ UNCHANGED at
  <2>1. /\ at = "steps" /\ at' = "steps" /\ Scenario' = Scenario
        /\ Taken' < SubscribeAt[Scenario] => Taken < SubscribeAt[Scenario]
        /\ SubscribeAt[Scenario] <= Taken' => SubscribeAt[Scenario] <= Taken
        /\ Taken' < CreateAt[Scenario] => Taken < CreateAt[Scenario]
    BY <1>4, Phases
  <2>2. Listening'
    BY <2>1 DEF CallsInv, Listening, Silent
  <2>3. Scoped'
    BY <2>1 DEF CallsInv, Scoped, Scope, AllEnded
  <2> QED
    BY <1>1, <2>2, <2>3
<1> QED
  BY <1>2, <1>3, <1>4

(* A step that reads one event, and may learn the call's id from it.       *)
LEMMA ReadStep ==
    ASSUME TypeInv, CallsInv, NEW step, At(step),
           step \notin {"subscribe", "start", "dial"},
           \/ UNCHANGED <<at, todo>>
           \/ todo' = Tail(todo) /\ UNCHANGED at
           \/ at' = "finally",
           NEW report, Read(report), own' \in {own, report.call}
    PROVE  Told' /\ Listening' /\ Scoped'
<1> USE DEF same
<1>1. /\ calls \in Seq(Call) /\ Len(calls) \in Nat
      /\ Len(events) \in Nat /\ Len(said) \in Nat /\ own \in Nat
      /\ \A i \in 1..Len(events) : events[i].call \in Nat \ {0}
  BY CallTypes
<1>2. /\ Len(events) \in Nat \ {0} /\ report = events[1]
      /\ Len(events') = Len(events) - 1
      /\ \A i \in 1..Len(events') : events'[i] = events[i + 1]
  BY ReadType
<1>3. UNCHANGED <<selected, index, said, calls, subscribed, leftover>>
  BY DEF Read
<1>4. report.call <= Len(calls) /\ report.call \in Nat \ {0}
  BY <1>1, <1>2 DEF CallsInv, Told
<1>5. Told'
  <2>1. ASSUME NEW i \in 1..Len(events')
        PROVE  i + 1 \in 1..Len(events) /\ events'[i] = events[i + 1]
    BY <1>2, <2>1
  <2> QED
    BY <1>2, <1>3, <1>4, <2>1 DEF CallsInv, Told
<1>6. CASE at' = "finally"
  BY <1>5, <1>6 DEF Listening, Scoped
<1>7. CASE \/ UNCHANGED <<at, todo>>
           \/ todo' = Tail(todo) /\ UNCHANGED at
  <2>1. /\ at = "steps" /\ at' = "steps" /\ Scenario' = Scenario
        /\ Taken' < SubscribeAt[Scenario] => Taken < SubscribeAt[Scenario]
        /\ SubscribeAt[Scenario] <= Taken' => SubscribeAt[Scenario] <= Taken
        /\ Taken' < CreateAt[Scenario] => Taken < CreateAt[Scenario]
    BY <1>3, <1>7, Phases
  <2>2. Listening'
    <3>1. events # <<>>
      BY DEF Read
    <3> QED
      BY <2>1, <3>1 DEF CallsInv, Listening, Silent
  <2>3. ASSUME SubscribeAt[Scenario] <= Taken', ~leftover'
        PROVE  Scope'
    <3>1. Scope
      BY <1>3, <2>1, <2>3 DEF CallsInv, Scoped
    <3>2. events # <<>> /\ ~(Taken' < CreateAt[Scenario])
      BY <2>1, <3>1 DEF Read, Scope
    <3>3. report.call = Len(calls)
      <4>1. /\ 1 \in 1..Len(events) /\ Len(events) <= Len(said)
            /\ events[1] = said[Len(said) - Len(events) + 1]
        BY <1>1, <1>2, <3>1 DEF Scope
      <4>2. Len(said) - Len(events) + 1 \in 1..Len(said)
        BY <1>1, <1>2, <4>1
      <4> QED
        BY <1>2, <3>1, <4>1, <4>2 DEF Scope
    <3>4. /\ Len(events') <= Len(said')
          /\ \A i \in 1..Len(events') :
                events'[i] = said'[Len(said') - Len(events') + i]
      <4>1. ASSUME NEW i \in 1..Len(events')
            PROVE  events'[i] = said'[Len(said') - Len(events') + i]
        <5>1. i + 1 \in 1..Len(events) /\ events'[i] = events[i + 1]
          BY <1>2, <4>1
        <5>2. Len(said) - Len(events) + (i + 1) = Len(said) - Len(events') + i
          BY <1>1, <1>2, <4>1
        <5> QED
          BY <1>3, <3>1, <5>1, <5>2 DEF Scope
      <4> QED
        BY <1>1, <1>2, <1>3, <3>1, <4>1 DEF Scope
    <3> QED
      BY <1>3, <2>1, <3>1, <3>2, <3>3, <3>4 DEF Scope, AllEnded
  <2> QED
    BY <1>5, <2>1, <2>2, <2>3 DEF Scoped
<1> QED
  BY <1>6, <1>7

(* Nothing of an earlier call is left when the scenario subscribes, or it  *)
(* is on record.                                                           *)
LEMMA SubscribeStep ==
    ASSUME TypeInv, CallsInv, Subscribe
    PROVE  Told' /\ Listening' /\ Scoped'
<1>1. /\ At("subscribe") /\ (Done \/ Raise)
      /\ leftover' = (leftover \/ \E c \in 1..Len(calls) :
                                     calls[c].state # "ended")
      /\ UNCHANGED <<selected, index, events, calls, said, own>>
  BY DEF Subscribe, same
<1>2. /\ Scenario \in ScenarioIds /\ Taken \in Nat /\ at = "steps"
      /\ Taken + 1 = SubscribeAt[Scenario]
  BY <1>1, NowAt DEF TypeInv, Placed, At
<1>3. /\ SubscribeAt[Scenario] \in Nat /\ CreateAt[Scenario] \in Nat
      /\ OwnAt[Scenario] \in Nat /\ CreateAt[Scenario] <= OwnAt[Scenario]
      /\ SubscribeAt[Scenario] < CreateAt[Scenario]
  BY <1>2, Order
<1>4. events = <<>> /\ said = <<>> /\ own = 0
  BY <1>2, <1>3 DEF CallsInv, Listening, Silent, TypeInv, Owning
<1>5. Told'
  BY <1>1 DEF CallsInv, Told
<1>6. CASE Raise
  BY <1>5, <1>6 DEF Raise, Listening, Scoped
<1>7. CASE Done
  <2>1. /\ at' = "steps" /\ Taken' = Taken + 1 /\ Scenario' = Scenario
    BY <1>1, <1>7, DoneMoves DEF TypeInv, Done
  <2>2. Listening'
    BY <1>2, <1>3, <2>1 DEF Listening
  <2>3. ASSUME ~leftover' PROVE Scope'
    <3>1. AllEnded(Len(calls)) /\ Len(calls) \in Nat
      BY <1>1, <2>3, CallTypes DEF AllEnded
    <3>2. Len(events') = 0 /\ Len(said') = 0
      BY <1>1, <1>4, EmptySeq
    <3> QED
      BY <1>1, <1>4, <3>1, <3>2 DEF Scope, AllEnded
  <2> QED
    BY <1>5, <2>1, <2>2, <2>3 DEF Scoped
<1> QED
  BY <1>1, <1>6, <1>7

(* The scenario's call, from the daemon or from the emulator, is the last. *)
LEMMA CreateStep ==
    ASSUME TypeInv, CallsInv, StartCall \/ Dial \/ StartCallFails
    PROVE  Told' /\ Listening' /\ Scoped'
<1> USE DEF same, rpc, history
<1>1. /\ calls \in Seq(Call) /\ Len(calls) \in Nat /\ own \in Nat
      /\ \A i \in 1..Len(events) : events[i].call \in Nat \ {0}
  BY CallTypes
<1>2. /\ UNCHANGED <<selected, index, events, subscribed, leftover>>
      /\ \/ UNCHANGED calls
         \/ NewCall("in") \/ NewCall("out")
      /\ At("start") \/ At("dial")
  BY DEF StartCall, Dial, StartCallFails
<1>3. /\ Len(calls') \in Nat /\ Len(calls) <= Len(calls')
      /\ Len(calls') <= Len(calls) + 1
      /\ \A c \in 1..Len(calls) : calls'[c] = calls[c]
  BY <1>1, <1>2, NewCallType
<1>4. own' <= Len(calls')
  <2>1. CASE StartCall
    BY <1>3, <2>1 DEF StartCall
  <2>2. CASE Dial \/ StartCallFails
    BY <1>1, <1>3, <2>2 DEF Dial, StartCallFails, CallsInv, Told
  <2> QED
    BY <2>1, <2>2
<1>5. Told'
  <2>1. ASSUME NEW i \in 1..Len(events)
        PROVE  events[i].call \in 1..Len(calls)
    BY <1>1 DEF CallsInv, Told
  <2> QED
    BY <1>1, <1>2, <1>3, <1>4, <2>1 DEF CallsInv, Told
<1>6. PICK step \in {"start", "dial"} : At(step)
  BY <1>2
<1>7. /\ Scenario \in ScenarioIds /\ Taken \in Nat /\ at = "steps"
      /\ Taken + 1 = CreateAt[Scenario]
      /\ step = "start" => Taken + 1 = OwnAt[Scenario]
  BY <1>6, NowAt DEF TypeInv, Placed, At
<1>8. /\ SubscribeAt[Scenario] \in Nat /\ CreateAt[Scenario] \in Nat
      /\ OwnAt[Scenario] \in Nat /\ CreateAt[Scenario] <= OwnAt[Scenario]
      /\ SubscribeAt[Scenario] < CreateAt[Scenario]
  BY <1>7, Order
<1>9. SubscribeAt[Scenario] <= Taken /\ own = 0
  BY <1>7, <1>8 DEF TypeInv, Owning
<1>10. CASE StartCall
  <2>1. /\ at' = "steps" /\ Scenario' = Scenario
        /\ todo' = Tail(todo) \/ todo' = Tail(Tail(todo))
    BY <1>7, <1>10 DEF StartCall, Done, Scenario
  <2>2. Taken' \in {Taken + 1, Taken + 2}
    <3>1. /\ Tail(todo) \in Seq(Steps) /\ Len(Tail(todo)) = Len(todo) - 1
          /\ Len(todo) \in Nat /\ Length[Scenario] \in Nat
      BY <1>6, <1>7, NowAt, Order, TypeParts, LenProperties
         DEF TypeInv, Types
    <3>2. At("start") /\ Taken + 2 = RingAt[Scenario]
      <4>1. At("start")
        BY <1>10 DEF StartCall
      <4> QED
        BY <4>1, <1>7, NowAt DEF TypeInv, Placed
    <3>3. Len(todo) = Length[Scenario] - Taken
      BY <1>7, <3>1 DEF Taken
    <3>4. Len(todo) >= 2
      BY <1>7, <1>8, <3>1, <3>2, <3>3, Order
    <3>5. Len(Tail(todo)) > 0
      BY <3>1, <3>4
    <3>6. Tail(todo) # <<>>
      BY <3>5
    <3>7. Len(Tail(Tail(todo))) = Len(todo) - 2
      BY <3>1, <3>6, HeadTailProperties
    <3>8. Len(todo') \in {Len(todo) - 1, Len(todo) - 2}
      BY <2>1, <3>1, <3>7
    <3>9. Taken' = Length[Scenario] - Len(todo')
      BY <2>1 DEF Taken
    <3> QED
      BY <1>7, <3>1, <3>3, <3>8, <3>9
  <2>3. Listening'
    BY <1>7, <1>8, <2>1, <2>2 DEF Listening
  <2>4. ASSUME ~leftover PROVE Scope'
    <3>1. /\ said = <<>> /\ events = <<>> /\ AllEnded(Len(calls))
      BY <1>7, <1>8, <1>9, <2>4 DEF CallsInv, Scoped, Scope
    <3>2. /\ Len(calls') = Len(calls) + 1 /\ own' = Len(calls')
      BY <1>10, NewCallType DEF StartCall
    <3>3. AllEnded(Len(calls) - 1)'
      BY <1>1, <1>3, <3>1, <3>2 DEF AllEnded
    <3>4. \A i \in 1..Len(said') : said'[i].call = Len(calls')
      <4>1. said' = <<>> \/
            said' = <<[state |-> "RINGING_OUTGOING", call |-> Len(calls')]>>
        BY <1>10, <3>1 DEF StartCall
      <4> QED
        BY <4>1
    <3>5. Len(said') \in Nat /\ Len(events') = 0
      <4>1. said' \in Seq(Reports)
        BY <1>10, StartCallRestInv DEF RestInv, Types
      <4> QED
        BY <1>2, <3>1, <4>1, LenProperties, EmptySeq
    <3>6. ~(Taken' < CreateAt[Scenario'])
      BY <1>7, <1>8, <2>1, <2>2
    <3> QED
      BY <3>2, <3>3, <3>4, <3>5, <3>6 DEF Scope
  <2> QED
    BY <1>2, <1>5, <2>1, <2>3, <2>4 DEF Scoped
<1>11. CASE Dial \/ StartCallFails
  <2>1. UNCHANGED <<said, own>>
    BY <1>11 DEF Dial, StartCallFails
  <2>2. CASE at' = "finally"
    BY <1>5, <2>2 DEF Listening, Scoped
  <2>3. CASE Done
    <3>1. /\ at' = "steps" /\ Taken' = Taken + 1 /\ Scenario' = Scenario
      BY <1>2, <1>6, <2>3, DoneMoves DEF TypeInv, Done
    <3>2. Listening'
      BY <1>7, <1>8, <3>1 DEF Listening
    <3>3. ASSUME ~leftover PROVE Scope'
      <4>1. /\ said = <<>> /\ events = <<>> /\ AllEnded(Len(calls))
        BY <1>7, <1>8, <1>9, <3>3 DEF CallsInv, Scoped, Scope
      <4>2. AllEnded(Len(calls) - 1)'
        BY <1>1, <1>3, <4>1 DEF AllEnded
      <4>3. Len(said') = 0 /\ Len(events') = 0
        BY <1>2, <2>1, <4>1, EmptySeq
      <4>4. ~(Taken' < CreateAt[Scenario'])
        BY <1>7, <1>8, <3>1
      <4> QED
        BY <1>9, <2>1, <4>2, <4>3, <4>4 DEF Scope
    <3> QED
      BY <1>2, <1>5, <3>1, <3>2, <3>3 DEF Scoped
  <2> QED
    BY <1>11, <2>2, <2>3 DEF Dial, StartCallFails, Raise
<1> QED
  BY <1>10, <1>11

(* Every step of a script keeps whose events are read.                     *)
LEMMA StepCallsInv ==
    ASSUME TypeInv, CallsInv, Step
    PROVE  Told' /\ Listening' /\ Scoped'
<1> USE DEF same, rpc, history, Done, Raise
<1>1. CASE Connect
  BY <1>1, QuietStep DEF Connect
<1>2. CASE Emulator
  BY <1>2, QuietStep DEF Emulator
<1>3. CASE Audio
  BY <1>3, QuietStep DEF Audio
<1>4. CASE Subscribe
  BY <1>4, SubscribeStep
<1>5. CASE StartCall \/ Dial \/ StartCallFails
  BY <1>5, CreateStep
<1>6. CASE AcceptCall
  BY <1>6, QuietStep DEF AcceptCall
<1>7. CASE LetGo
  BY <1>7, QuietStep DEF LetGo
<1>8. CASE StableEnds
  BY <1>8, QuietStep DEF StableEnds
<1>9. CASE StableReads
  BY <1>9, ReadStep DEF StableReads
<1>10. ASSUME NEW step \in DOMAIN Awaited,
              WaitForState(step) \/ WaitTimesOut(step)
       PROVE  Told' /\ Listening' /\ Scoped'
  <2>1. At(step) /\ step \notin {"subscribe", "start", "dial"}
    BY <1>10 DEF WaitForState, WaitTimesOut, Waiting, Awaited
  <2>2. CASE WaitTimesOut(step)
    BY <2>1, <2>2, QuietStep DEF WaitTimesOut
  <2>3. CASE WaitForState(step)
    <3>1. PICK report \in Reports :
            /\ Read(report)
            /\ \/ Take(step, report)
               \/ UNCHANGED <<at, todo, own>>
      BY <2>3 DEF WaitForState
    <3>2. /\ own' \in {own, report.call}
          /\ \/ UNCHANGED <<at, todo>>
             \/ todo' = Tail(todo) /\ UNCHANGED at
             \/ at' = "finally"
      BY <3>1 DEF Take
    <3> QED
      BY <2>1, <3>1, <3>2, ReadStep
  <2> QED
    BY <1>10, <2>2, <2>3
<1> QED
  BY <1>1, <1>2, <1>3, <1>4, <1>5, <1>6, <1>7, <1>8, <1>9, <1>10 DEF Step

(* So does main().                                                         *)
LEMMA MainCallsInv ==
    ASSUME TypeInv, CallsInv, Main
    PROVE  Told' /\ Listening' /\ Scoped'
<1> USE DEF same, script, rpc, history, Silent
<1>1. CASE Start
  <2>1. /\ Silent /\ at' = "steps" /\ said' = <<>> /\ own' = 0
        /\ Scenario' = Scenario /\ todo' = SCENARIOS[Scenario]
        /\ UNCHANGED <<calls, events, subscribed, leftover>>
    BY <1>1 DEF Start, CallsInv, Listening, Scenario
  <2>2. /\ Scenario \in ScenarioIds /\ Len(todo') = Length[Scenario]
        /\ Length[Scenario] \in Nat /\ SubscribeAt[Scenario] \in Nat \ {0}
        /\ Len(calls) \in Nat
    BY <2>1, Places, Order, CallTypes
  <2>3. Taken' = 0
    BY <2>1, <2>2 DEF Taken
  <2> QED
    BY <2>1, <2>2, <2>3, EmptySeq DEF CallsInv, Told, Listening, Scoped
<1>2. CASE Finish
  BY <1>2 DEF Finish, CallsInv, Told, Listening, Scoped
<1>3. CASE Finally
  BY <1>3, EmptySeq DEF Finally, CallsInv, Told, Listening, Scoped
<1>4. CASE Result \/ Retry \/ NextScenario \/ Clean
  <2>1. /\ at \notin {"steps", "finally"} /\ at' \notin {"steps", "finally"}
        /\ UNCHANGED <<calls, events, said, own, subscribed, leftover>>
    BY <1>4 DEF Result, Retry, NextScenario, Clean, Crash, Summary
  <2> QED
    BY <2>1 DEF CallsInv, Told, Listening, Scoped
<1> QED
  BY <1>1, <1>2, <1>3, <1>4 DEF Main

(* A call the scenario knows is let go of, or remembered until `finally`.  *)
LEMMA NextReleased ==
    ASSUME TypeInv, CallsInv, Step \/ Main
    PROVE  Released'
<1> USE DEF same, script, rpc, history, Released, CallsInv
<1>1. /\ calls \in Seq(Call) /\ Len(calls) \in Nat /\ own \in Nat
      /\ own # 0 => own \in 1..Len(calls)
  BY CallTypes DEF Told
<1>2. CASE Connect
  <2>1. /\ Scenario \in ScenarioIds /\ Taken \in Nat /\ at = "steps"
        /\ Taken + 1 < SubscribeAt[Scenario]
    BY <1>2, NowAt DEF Connect, TypeInv, Placed, At
  <2>2. own = 0 /\ ~known
    BY <2>1, Order DEF TypeInv, Owning
  <2> QED
    BY <1>2, <2>2 DEF Connect
<1>3. CASE Emulator \/ Audio \/ Subscribe \/ AcceptCall \/ StableReads
             \/ StableEnds
  <2>1. /\ at = "steps" /\ at' \in {"steps", "finally"}
        /\ UNCHANGED <<own, known, asked, calls, up, call_id>>
    BY <1>3 DEF Emulator, Audio, Subscribe, AcceptCall, StableReads,
                StableEnds, Read, Done, Raise, At
  <2>2. CASE Subscribe
    <3>1. leftover => leftover'
      BY <2>2, Zenon DEF Subscribe
    <3> QED
      BY <2>1, <3>1
  <2>3. CASE ~Subscribe
    <3>1. leftover' = leftover
      BY <1>3, <2>3 DEF Emulator, Audio, AcceptCall, StableReads, StableEnds,
                        Read
    <3> QED
      BY <2>1, <3>1
  <2> QED
    BY <2>2, <2>3
<1>4. CASE Dial \/ StartCallFails
  <2>1. /\ at = "steps" /\ at' \in {"steps", "finally"}
        /\ UNCHANGED <<own, known, asked, up, call_id, leftover>>
        /\ UNCHANGED calls \/ NewCall("in") \/ NewCall("out")
    BY <1>4 DEF Dial, StartCallFails, Done, Raise, At
  <2>2. own # 0 => calls'[own] = calls[own]
    BY <1>1, <2>1, NewCallType
  <2> QED
    BY <2>1, <2>2
<1>5. CASE StartCall
  <2>1. own' # 0
    BY <1>5, NewCallType DEF StartCall
  <2> QED
    BY <1>5, <2>1 DEF StartCall, At
<1>6. CASE LetGo
  <2>1. PICK step \in {"hangup", "reject"} : At(step)
    BY <1>6 DEF LetGo
  <2>2. call_id = own
    BY <2>1, ReleaseOwn
  <2> QED
    BY <1>6, <2>2 DEF LetGo, Ask
<1>7. ASSUME NEW step \in DOMAIN Awaited,
             WaitForState(step) \/ WaitTimesOut(step)
      PROVE  Released'
  <2>1. At(step) /\ at = "steps"
    BY <1>7 DEF WaitForState, WaitTimesOut, Waiting, At
  <2>2. CASE WaitTimesOut(step)
    BY <2>1, <2>2 DEF WaitTimesOut, Raise
  <2>3. CASE WaitForState(step)
    <3>1. PICK report \in Reports :
            /\ Read(report)
            /\ IF report.state = Awaited[step]
               THEN Take(step, report)
               ELSE UNCHANGED <<at, todo, outcome, call_id, own, known>>
      BY <2>3 DEF WaitForState
    <3>2. UNCHANGED <<calls, asked, up, leftover>>
      BY <3>1 DEF Read
    <3>3. CASE UNCHANGED <<at, todo, outcome, call_id, own, known>>
      BY <2>1, <3>2, <3>3
    <3>4. CASE Take(step, report) /\ step # "timeout"
      <4>1. at' \in {"steps", "finally"}
        BY <2>1, <3>4 DEF Take, Done, Raise
      <4>2. \/ UNCHANGED <<call_id, own, known>>
            \/ call_id' = own' /\ own' # 0
        <5>1. report.call # 0
          BY <3>1, SelectionsAssumption DEF Reports, CallIds
        <5> QED
          BY <3>4, <5>1 DEF Take
      <4> QED
        BY <2>1, <3>2, <4>1, <4>2
    <3>5. CASE /\ Take(step, report) /\ step = "timeout"
               /\ report.state = Awaited[step]
      <4>1. /\ own' = own /\ own # 0 /\ known' = known
            /\ report.state = "ENDED"
        BY <2>1, <3>5, ReleaseOwn DEF Take, Awaited
      <4>2. /\ Len(events) \in Nat \ {0} /\ report = events[1]
        BY <3>1, ReadType
      <4>3. calls[report.call].state = "ended"
        BY <4>1, <4>2 DEF Told
      <4>4. ASSUME ~leftover PROVE report.call = own
        <5>1. /\ Scenario \in ScenarioIds /\ Taken \in Nat
              /\ Taken + 1 = ReleaseAt[Scenario]
          BY <2>1, <3>5, NowAt DEF TypeInv, Placed
        <5>2. Scope
          BY <2>1, <4>4, <5>1, Order DEF Scoped
        <5>3. /\ Len(said) \in Nat /\ Len(events) <= Len(said)
              /\ events[1] = said[Len(said) - Len(events) + 1]
          BY <4>2, <5>2, CallTypes DEF Scope
        <5>4. Len(said) - Len(events) + 1 \in 1..Len(said)
          BY <4>2, <5>3
        <5> QED
          BY <4>1, <4>2, <5>2, <5>3, <5>4 DEF Scope
      <4> QED
        BY <3>2, <4>1, <4>3, <4>4
    <3> QED
      BY <3>1, <3>3, <3>4, <3>5
  <2> QED
    BY <1>7, <2>2, <2>3
<1>8. CASE Main
  <2>1. CASE Start
    BY <2>1 DEF Start
  <2>2. CASE Finish
    BY <2>2 DEF Finish
  <2>3. CASE Finally
    BY <2>3 DEF Finally, Ask
  <2>4. CASE Result \/ Retry \/ NextScenario \/ Clean
    <3>1. at \notin {"steps", "finally"}
      BY <2>4 DEF Result, Retry, NextScenario, Clean
    <3>2. UNCHANGED <<own, known, asked, calls, up, leftover>>
      BY <2>4 DEF Result, Retry, NextScenario, Clean
    <3> QED
      BY <3>1, <3>2
  <2> QED
    BY <1>8, <2>1, <2>2, <2>3, <2>4 DEF Main
<1> QED
  BY <1>2, <1>3, <1>4, <1>5, <1>6, <1>7, <1>8 DEF Step

(* CallsInv holds at first.                                                *)
LEMMA InitCallsInv == Init => CallsInv
BY EmptySeq
   DEF Init, CallsInv, Told, Listening, Silent, Scoped, Released

(* CallsInv is inductive, given TypeInv.                                   *)
LEMMA NextCallsInv ==
    ASSUME TypeInv, CallsInv, [Next]_vars
    PROVE  CallsInv'
<1>1. CASE World
  <2>1. CASE DaemonDies
    BY <2>1 DEF DaemonDies, CallsInv, Told, Listening, Silent, Scoped, Scope,
                AllEnded, Released, Taken, Scenario, runner, script, rpc,
                history
  <2> QED
    BY <1>1, <2>1, CallMovesCallsInv DEF World
<1>2. CASE Step
  BY <1>2, StepCallsInv, NextReleased DEF CallsInv
<1>3. CASE Main
  BY <1>3, MainCallsInv, NextReleased DEF CallsInv
<1>4. CASE UNCHANGED vars
  BY <1>4 DEF vars, CallsInv, Told, Listening, Silent, Scoped, Scope,
              AllEnded, Released, Taken, Scenario, runner, script, rpc,
              history
<1> QED
  BY <1>1, <1>2, <1>3, <1>4 DEF Next, Exited

(* Whatever goes wrong in a scenario, a call whose id it learned has ended *)
(* or the daemon was asked to end it by the time its connection is closed: *)
(* unless the daemon is gone, or an earlier call was still up when it      *)
(* subscribed (the finally blocks of e2e_test.py).                         *)
THEOREM CallsAreLetGo == Spec => []CallsLetGo
<1>1. CallsInv => CallsLetGo
  BY DEF CallsInv, Released, CallsLetGo
<1>2. TypeInv /\ CallsInv /\ [Next]_vars => CallsInv'
  BY NextCallsInv
<1> QED
  BY InitCallsInv, <1>1, <1>2, TypeInvariant, PTL DEF Spec

-----------------------------------------------------------------------------
(* What a pass means.  The first m of a flow's states were reported of     *)
(* call c, in their order, among the first n reports.                      *)

Achieved(states, c, reports, m, n) ==
    \E f \in [1..m -> 1..n] :
        /\ \A i \in 1..m : reports[f[i]] = [state |-> states[i], call |-> c]
        /\ \A i, j \in 1..m : i < j => f[i] < f[j]

Unread == Len(said) - Len(events)

PassInv ==
    outcome /\ ~leftover =>
        /\ at = "steps" =>
              Achieved(Expected[Scenario], own, said,
                       Reached(Scenario, Taken), Unread)
        /\ at \in {"finally", "result"} =>
              Reported(Expected[Scenario], own)

(* Nothing is needed for none of the states.                               *)
LEMMA AchievedNone ==
    ASSUME NEW states, NEW c, NEW reports, NEW n \in Int
    PROVE  Achieved(states, c, reports, 0, n)
<1>1. 1..0 = {}
  OBVIOUS
<1> DEFINE f == [i \in 1..0 |-> 1]
<1>2. f \in [1..0 -> 1..n]
  BY <1>1
<1> QED
  BY <1>1, <1>2 DEF Achieved

(* More reports leave what was achieved.                                   *)
LEMMA AchievedMore ==
    ASSUME NEW states, NEW c, NEW reports, NEW reports2,
           NEW m \in Nat, NEW n \in Int, NEW n2 \in Int, n <= n2,
           \A i \in 1..n : reports2[i] = reports[i],
           Achieved(states, c, reports, m, n)
    PROVE  Achieved(states, c, reports2, m, n2)
<1>1. PICK f \in [1..m -> 1..n] :
        /\ \A i \in 1..m : reports[f[i]] = [state |-> states[i], call |-> c]
        /\ \A i, j \in 1..m : i < j => f[i] < f[j]
  BY DEF Achieved
<1>2. \A i \in 1..m : f[i] \in 1..n
  BY <1>1
<1>3. f \in [1..m -> 1..n2]
  BY <1>1
<1>4. \A i \in 1..m : reports2[f[i]] = [state |-> states[i], call |-> c]
  BY <1>1, <1>2
<1> QED
  BY <1>1, <1>3, <1>4 DEF Achieved

(* The next state, in a later report.                                      *)
LEMMA AchievedNext ==
    ASSUME NEW states, NEW c, NEW reports, NEW m \in Nat,
           NEW n \in Int, NEW n2 \in Int, NEW p \in 1..n2, n < p,
           Achieved(states, c, reports, m, n),
           reports[p] = [state |-> states[m + 1], call |-> c]
    PROVE  Achieved(states, c, reports, m + 1, n2)
<1>1. PICK f \in [1..m -> 1..n] :
        /\ \A i \in 1..m : reports[f[i]] = [state |-> states[i], call |-> c]
        /\ \A i, j \in 1..m : i < j => f[i] < f[j]
  BY DEF Achieved
<1> DEFINE g == [i \in 1..(m + 1) |-> IF i <= m THEN f[i] ELSE p]
<1>2. \A i \in 1..m : f[i] \in 1..n
  BY <1>1
<1>3. g \in [1..(m + 1) -> 1..n2]
  BY <1>2
<1>4. /\ \A i \in 1..m : g[i] = f[i]
      /\ g[m + 1] = p
      /\ \A i \in 1..(m + 1) : i \in 1..m \/ i = m + 1
  OBVIOUS
<1> HIDE DEF g
<1>5. \A i \in 1..(m + 1) :
        reports[g[i]] = [state |-> states[i], call |-> c]
  BY <1>1, <1>4
<1>6. ASSUME NEW i \in 1..(m + 1), NEW j \in 1..(m + 1), i < j
      PROVE  g[i] < g[j]
  <2>1. i \in 1..m
    BY <1>6
  <2>2. CASE j \in 1..m
    BY <1>1, <1>4, <1>6, <2>1, <2>2
  <2>3. CASE j = m + 1
    BY <1>2, <1>4, <2>1, <2>3
  <2> QED
    BY <1>4, <2>2, <2>3
<1> QED
  BY <1>3, <1>5, <1>6 DEF Achieved

(* How far a flow is at its start, when it rings and at its end.           *)
LEMMA ReachedRange ==
    ASSUME NEW s \in ScenarioIds
    PROVE  /\ \A k \in Nat : Reached(s, k) \in Nat
           /\ \A k \in Nat : k < RingAt[s] => Reached(s, k) = 0
           /\ Reached(s, Length[s]) = Len(Expected[s])
           /\ Reached(s, RingAt[s]) = 1
<1>1. Reached(s, Length[s]) = Len(Expected[s])
  <2>1. CASE s = "A"
    BY <2>1 DEF Reached, RingAt, ConnectedAt, Length, Expected
  <2>2. CASE s = "B"
    BY <2>2 DEF Reached, RingAt, ConnectedAt, Length, Expected
  <2>3. CASE s = "C"
    BY <2>3 DEF Reached, RingAt, ConnectedAt, Length, Expected
  <2>4. CASE s = "D"
    BY <2>4 DEF Reached, RingAt, ConnectedAt, Length, Expected
  <2>5. CASE s = "E"
    BY <2>5 DEF Reached, RingAt, ConnectedAt, Length, Expected
  <2> QED
    BY <2>1, <2>2, <2>3, <2>4, <2>5 DEF ScenarioIds
<1>2. /\ RingAt[s] \in Nat /\ ConnectedAt[s] \in Nat /\ Length[s] \in Nat
      /\ RingAt[s] < Length[s]
      /\ s \notin {"C", "D"} => RingAt[s] < ConnectedAt[s]
  BY Order
<1> QED
  BY <1>1, <1>2 DEF Reached

(* The types PassInv relies on.                                            *)
LEMMA PassTypes ==
    ASSUME TypeInv
    PROVE  /\ Len(said) \in Nat /\ Len(events) \in Nat /\ Unread \in Int
           /\ Unread <= Len(said)
           /\ Scenario \in ScenarioIds
           /\ at = "steps" =>
                 /\ Taken \in Nat /\ Reached(Scenario, Taken) \in Nat
                 /\ Taken < RingAt[Scenario] => Reached(Scenario, Taken) = 0
<1>1. /\ Len(said) \in Nat /\ Len(events) \in Nat
      /\ Scenario \in ScenarioIds
  BY CallTypes
<1>2. Unread \in Int /\ Unread <= Len(said)
  BY <1>1 DEF Unread
<1>3. at = "steps" => Taken \in Nat
  <2>1. Length[Scenario] \in Nat
    BY <1>1, Order
  <2> QED
    BY <2>1 DEF TypeInv, OnScript
<1> QED
  BY <1>1, <1>2, <1>3, ReachedRange

(* What is said and read later leaves what was achieved.                   *)
LEMMA WorldPassInv ==
    ASSUME TypeInv, PassInv, World
    PROVE  PassInv'
<1> USE DEF runner, script, rpc, history
<1>1. /\ Len(said) \in Nat /\ Len(events) \in Nat /\ Unread \in Int
      /\ Unread <= Len(said) /\ Scenario \in ScenarioIds
      /\ at = "steps" => Reached(Scenario, Taken) \in Nat
  BY PassTypes
<1>2. /\ UNCHANGED <<outcome, leftover, at, own, todo, selected, index>>
      /\ Scenario' = Scenario /\ Taken' = Taken
  BY DEF World, CallMoves, DaemonDies, Scenario, Taken
<1>3. /\ Len(said') \in Nat /\ Len(said) <= Len(said')
      /\ Unread' = Unread /\ \A i \in 1..Len(said) : said'[i] = said[i]
  <2>1. \/ UNCHANGED <<said, events>>
        \/ /\ Len(said') = Len(said) + 1 /\ Len(events') = Len(events) + 1
           /\ \A i \in 1..Len(said) : said'[i] = said[i]
    BY MovedReport DEF World, DaemonDies
  <2> QED
    BY <1>1, <2>1 DEF Unread
<1> SUFFICES ASSUME outcome, ~leftover
             PROVE  /\ at = "steps" =>
                          Achieved(Expected[Scenario], own, said',
                                   Reached(Scenario, Taken), Unread)
                    /\ at \in {"finally", "result"} =>
                          Achieved(Expected[Scenario], own, said',
                                   Len(Expected[Scenario]), Len(said'))
  BY <1>2, <1>3 DEF PassInv, Reported, Achieved
<1>4. Len(Expected[Scenario]) \in Nat
  BY <1>1, Order, ReachedRange
<1>5. CASE at = "steps"
  <2>1. \A i \in 1..Unread : said'[i] = said[i]
    BY <1>1, <1>3
  <2>2. Achieved(Expected[Scenario], own, said, Reached(Scenario, Taken),
                 Unread)
    BY <1>5 DEF PassInv
  <2> QED
    BY <1>1, <1>5, <2>1, <2>2, AchievedMore
<1>6. CASE at \in {"finally", "result"}
  <2>1. Achieved(Expected[Scenario], own, said, Len(Expected[Scenario]),
                 Len(said))
    BY <1>6 DEF PassInv, Reported, Achieved
  <2> QED
    BY <1>1, <1>3, <1>4, <1>6, <2>1, AchievedMore
<1> QED
  BY <1>5, <1>6

(* Nor does a step that is done without an event, or an event dropped.     *)
LEMMA PassesOn ==
    ASSUME TypeInv, PassInv, NEW step, At(step),
           \/ UNCHANGED <<at, todo>>
           \/ /\ todo' = Tail(todo) /\ UNCHANGED at
              /\ step \notin DOMAIN Awaited,
           UNCHANGED <<selected, index, said, own>>,
           Len(events') \in Nat, Len(events') <= Len(events),
           outcome' => outcome, leftover => leftover'
    PROVE  PassInv'
<1>1. /\ Len(said) \in Nat /\ Len(events) \in Nat /\ Unread \in Int
      /\ Scenario \in ScenarioIds
      /\ Taken \in Nat /\ Reached(Scenario, Taken) \in Nat
      /\ at = "steps" /\ at' = "steps"
  BY PassTypes DEF At
<1>2. Scenario' = Scenario /\ said' = said /\ own' = own
  BY DEF Scenario
<1>3. Reached(Scenario, Taken') = Reached(Scenario, Taken)
  <2>1. CASE UNCHANGED <<at, todo>>
    BY <1>2, <2>1 DEF Taken
  <2>2. CASE /\ todo' = Tail(todo) /\ UNCHANGED at
             /\ step \notin DOMAIN Awaited
    <3>1. Taken' = Taken + 1
      BY <2>2, DoneMoves DEF TypeInv
    <3>2. /\ Placed(Scenario, SCENARIOS[Scenario], Taken + 1)
          /\ SCENARIOS[Scenario][Taken + 1] = step
      BY NowAt DEF TypeInv
    <3>3. Taken + 1 - 1 = Taken
      BY <1>1
    <3>4. Reached(Scenario, Taken + 1) = Reached(Scenario, Taken)
      BY <1>1, <2>2, <3>2, <3>3 DEF Placed
    <3> QED
      BY <3>1, <3>4
  <2> QED
    BY <2>1, <2>2
<1>4. Unread' \in Int /\ Unread <= Unread'
  BY <1>1, <1>2 DEF Unread
<1> SUFFICES ASSUME outcome', ~leftover'
             PROVE  Achieved(Expected[Scenario], own, said,
                             Reached(Scenario, Taken), Unread')
  BY <1>1, <1>2, <1>3 DEF PassInv
<1>5. Achieved(Expected[Scenario], own, said, Reached(Scenario, Taken),
               Unread)
  BY <1>1 DEF PassInv
<1> QED
  BY <1>1, <1>4, <1>5, AchievedMore

(* A call that is started has had nothing reported that counts, but that   *)
(* it rings if the answer came with it.                                    *)
LEMMA StartCallPassInv ==
    ASSUME TypeInv, CallsInv, StartCall
    PROVE  PassInv'
<1> USE DEF same, rpc
<1>1. /\ At("start") /\ at = "steps" /\ at' = "steps"
      /\ own' = Len(calls')
      /\ UNCHANGED <<outcome, leftover, selected, index, events>>
      /\ Scenario' = Scenario
  BY DEF StartCall, At, Scenario
<1>2. /\ Scenario \in ScenarioIds /\ Taken \in Nat
      /\ Taken + 1 = CreateAt[Scenario] /\ Taken + 1 = OwnAt[Scenario]
      /\ Taken + 2 = RingAt[Scenario]
      /\ Expected[Scenario][1] = "RINGING_OUTGOING"
      /\ Tail(todo) \in Seq(Steps) /\ Len(Tail(todo)) = Len(todo) - 1
      /\ Taken + 1 \in 1..Length[Scenario]
  BY <1>1, NowAt DEF TypeInv, Placed
<1>3. /\ SubscribeAt[Scenario] \in Nat /\ CreateAt[Scenario] \in Nat
      /\ RingAt[Scenario] \in Nat /\ Length[Scenario] \in Nat
      /\ SubscribeAt[Scenario] <= Taken /\ RingAt[Scenario] < Length[Scenario]
  BY <1>2, Order
<1>4. /\ Len(said) \in Nat /\ Len(events) \in Nat /\ Unread \in Int
      /\ said \in Seq(Reports)
  BY PassTypes, CallTypes
<1> SUFFICES ASSUME ~leftover
             PROVE  Achieved(Expected[Scenario], own', said',
                             Reached(Scenario, Taken'), Unread')
  BY <1>1 DEF PassInv
<1>5. CASE Done /\ UNCHANGED said
  <2>1. Taken' = Taken + 1
    BY <1>1, <1>5, DoneMoves DEF TypeInv, Done
  <2>2. Reached(Scenario, Taken') = 0
    <3>1. Taken + 1 \in Nat /\ Taken + 1 < RingAt[Scenario]
      BY <1>2, <1>3
    <3>2. Reached(Scenario, Taken + 1) = 0
      BY <1>2, <3>1, ReachedRange
    <3> QED
      BY <2>1, <3>2
  <2>3. Unread' \in Int
    BY <1>1, <1>4, <1>5 DEF Unread
  <2> QED
    BY <2>2, <2>3, AchievedNone
<1>6. CASE /\ todo' = Tail(Tail(todo))
           /\ said' = Append(said, [state |-> "RINGING_OUTGOING",
                                    call  |-> Len(calls')])
  <2>1. said = <<>> /\ events = <<>>
    <3>1. Scope
      BY <1>1, <1>3 DEF CallsInv, Scoped
    <3>2. Taken < CreateAt[Scenario]
      BY <1>2, <1>3
    <3> QED
      BY <3>1, <3>2 DEF Scope
  <2>2. Len(todo) \in Nat /\ Len(todo) = Length[Scenario] - Taken
    <3>1. Len(todo) \in Nat
      BY TypeParts, LenProperties DEF TypeInv, Types
    <3> QED
      BY <1>3, <3>1 DEF Taken
  <2>3. Len(Tail(todo)) > 0
    BY <1>2, <1>3, <2>2
  <2>4. Len(todo') = Len(todo) - 2
    <3> DEFINE u == Tail(todo)
    <3>1. u \in Seq(Steps) /\ Len(u) > 0 /\ Len(u) = Len(todo) - 1
      BY <1>2, <2>3
    <3> HIDE DEF u
    <3>2. u # <<>>
      BY <3>1, EmptySeq
    <3>3. Len(Tail(u)) = Len(u) - 1
      BY <3>1, <3>2, HeadTailProperties
    <3> QED
      BY <1>6, <2>2, <3>1, <3>3 DEF u
  <2>5. Taken' = RingAt[Scenario]
    BY <1>1, <1>2, <1>3, <2>2, <2>4 DEF Taken
  <2>6. Reached(Scenario, Taken') = 1
    BY <1>2, <2>5, ReachedRange
  <2>7. /\ Len(said') = 1
        /\ said'[1] = [state |-> "RINGING_OUTGOING", call |-> own']
    <3>1. Len(said) = 0
      BY <2>1, EmptySeq
    <3>2. Len(calls') \in CallIds
      BY NewCallType DEF StartCall
    <3> DEFINE r == [state |-> "RINGING_OUTGOING", call |-> Len(calls')]
    <3>3. r \in Reports
      BY <3>2 DEF Reports, States
    <3>4. said' = Append(said, r)
      BY <1>6
    <3>5. Len(said') = 1 /\ said'[1] = r
      <4> HIDE DEF r
      <4> QED
        BY <1>4, <3>1, <3>3, <3>4, AppendProperties
    <3> QED
      BY <1>1, <3>5
  <2>8. Unread' = 1
    BY <1>1, <2>1, <2>7, EmptySeq DEF Unread
  <2>9. Achieved(Expected[Scenario], own', said', 0, 0)
    BY AchievedNone
  <2>10. Achieved(Expected[Scenario], own', said', 0 + 1, 1)
    <3>1. said'[1] = [state |-> Expected[Scenario][0 + 1], call |-> own']
      BY <1>2, <2>7
    <3>2. 0 \in Nat /\ 0 \in Int /\ 1 \in Int /\ 1 \in 1..1 /\ 0 < 1
      OBVIOUS
    <3> QED
      BY <2>9, <3>1, <3>2, AchievedNext
  <2> QED
    BY <2>6, <2>8, <2>10
<1> QED
  BY <1>5, <1>6 DEF StartCall

(* The event waited for is the next state of the flow, of the own call.    *)
LEMMA TakePassInv ==
    ASSUME TypeInv, CallsInv, PassInv, NEW step \in DOMAIN Awaited, At(step),
           NEW report, Read(report), report.state = Awaited[step],
           Take(step, report)
    PROVE  PassInv'
<1> USE DEF same
<1>1. CASE Raise
  BY <1>1 DEF Raise, PassInv
<1>2. CASE Done
  <2>1. /\ at = "steps" /\ at' = "steps" /\ Scenario' = Scenario
        /\ UNCHANGED <<outcome, leftover, said>>
        /\ Taken' = Taken + 1
    <3>1. /\ at = "steps" /\ todo' = Tail(todo)
          /\ UNCHANGED <<at, outcome, leftover, said, selected, index>>
      BY <1>2 DEF Done, Read, At
    <3> QED
      BY <3>1, DoneMoves DEF TypeInv
  <2>2. /\ Scenario \in ScenarioIds /\ Taken \in Nat
        /\ Placed(Scenario, SCENARIOS[Scenario], Taken + 1)
        /\ SCENARIOS[Scenario][Taken + 1] = step
    BY NowAt DEF TypeInv
  <2>3. /\ Reached(Scenario, Taken + 1) = Reached(Scenario, Taken) + 1
        /\ Expected[Scenario][Reached(Scenario, Taken) + 1] = Awaited[step]
        /\ OwnAt[Scenario] <= Taken + 1
        /\ step = "incoming" \/ Taken + 1 # OwnAt[Scenario]
    <3>1. Taken + 1 - 1 = Taken
      BY <2>2
    <3>2. step # "start"
      BY DEF Awaited
    <3> QED
      BY <2>2, <3>1, <3>2 DEF Placed
  <2>4. /\ SubscribeAt[Scenario] \in Nat /\ OwnAt[Scenario] \in Nat
        /\ SubscribeAt[Scenario] <= Taken
    <3>1. /\ SubscribeAt[Scenario] \in Nat /\ OwnAt[Scenario] \in Nat
          /\ SubscribeAt[Scenario] < OwnAt[Scenario]
      BY <2>2, Order
    <3> QED
      BY <2>2, <2>3, <3>1
  <2>5. /\ Len(said) \in Nat /\ Len(events) \in Nat \ {0} /\ Unread \in Int
        /\ report = events[1] /\ report \in Reports
        /\ Len(events') = Len(events) - 1
        /\ Reached(Scenario, Taken) \in Nat
    BY <2>1, ReadType, PassTypes
  <2> SUFFICES ASSUME outcome, ~leftover
               PROVE  Achieved(Expected[Scenario], own', said,
                               Reached(Scenario, Taken) + 1, Unread + 1)
    <3>1. Unread' = Unread + 1
      BY <2>1, <2>5 DEF Unread
    <3> QED
      BY <2>1, <2>3, <3>1 DEF PassInv
  <2>6. Scope
    BY <2>1, <2>4 DEF CallsInv, Scoped
  <2>7. /\ report = said[Unread + 1] /\ Unread + 1 \in 1..Len(said)
        /\ report.call = Len(calls)
    <3>1. Len(events) <= Len(said) /\ 1 \in 1..Len(events)
      BY <2>5, <2>6 DEF Scope
    <3>2. Unread + 1 \in 1..Len(said)
      BY <2>5, <3>1 DEF Unread
    <3>3. report = said[Unread + 1]
      BY <2>5, <2>6, <3>1 DEF Scope, Unread
    <3> QED
      BY <2>6, <3>2, <3>3 DEF Scope
  <2>8. own' = report.call /\ (own = 0 \/ own' = own)
    <3>1. own # 0 => own = Len(calls)
      BY <2>6 DEF Scope
    <3>2. CASE step = "incoming"
      BY <2>7, <3>1, <3>2 DEF Take
    <3>3. CASE step # "incoming"
      <4>1. own' = own /\ own # 0
        BY <2>1, <2>2, <2>3, <2>4, <3>3 DEF Take, TypeInv, Owning
      <4> QED
        BY <2>7, <3>1, <4>1
    <3> QED
      BY <3>2, <3>3
  <2>9. report = [state |-> Expected[Scenario][Reached(Scenario, Taken) + 1],
                  call |-> own']
    <3>1. report = [state |-> report.state, call |-> report.call]
      BY <2>5 DEF Reports
    <3> QED
      BY <2>3, <2>8, <3>1
  <2>10. Achieved(Expected[Scenario], own', said, Reached(Scenario, Taken),
                  Unread)
    <3>1. Achieved(Expected[Scenario], own, said, Reached(Scenario, Taken),
                   Unread)
      BY <2>1 DEF PassInv
    <3>2. CASE own' = own
      BY <3>1, <3>2
    <3>3. CASE own = 0
      <4>1. Taken < OwnAt[Scenario]
        BY <2>1, <2>2, <2>4, <3>3 DEF TypeInv, Owning
      <4>2. Reached(Scenario, Taken) = 0
        <5>1. OwnAt[Scenario] <= RingAt[Scenario] /\ RingAt[Scenario] \in Nat
          BY <2>2, Order
        <5>2. Taken < RingAt[Scenario]
          BY <2>2, <2>4, <4>1, <5>1
        <5> QED
          BY <2>1, <5>2, PassTypes
      <4> QED
        BY <2>5, <4>2, AchievedNone
    <3> QED
      BY <2>8, <3>2, <3>3
  <2>11. /\ Unread + 1 \in 1..(Unread + 1) /\ Unread < Unread + 1
         /\ Unread + 1 \in Int
    BY <2>5, <2>7
  <2>12. said[Unread + 1]
           = [state |-> Expected[Scenario][Reached(Scenario, Taken) + 1],
              call |-> own']
    BY <2>7, <2>9
  <2> QED
    BY <2>5, <2>10, <2>11, <2>12, AchievedNext
<1> QED
  BY <1>1, <1>2 DEF Take

(* A step that reads nothing is done, or the scenario has failed.          *)
LEMMA PlainPassInv ==
    ASSUME TypeInv, PassInv, NEW step, At(step), step \notin DOMAIN Awaited,
           Done \/ outcome' = FALSE,
           UNCHANGED <<selected, index, said, own, events>>,
           leftover => leftover'
    PROVE  PassInv'
<1>1. CASE Done
  <2>1. Len(events') \in Nat /\ Len(events') <= Len(events)
    BY PassTypes
  <2>2. /\ todo' = Tail(todo) /\ UNCHANGED at
        /\ UNCHANGED <<selected, index, said, own>>
        /\ outcome' = outcome
    BY <1>1 DEF Done
  <2> QED
    BY <2>1, <2>2, PassesOn
<1>2. CASE outcome' = FALSE
  BY <1>2 DEF PassInv
<1> QED
  BY <1>1, <1>2

(* Every step of a script keeps PassInv.                                   *)
LEMMA StepPassInv ==
    ASSUME TypeInv, CallsInv, PassInv, Step
    PROVE  PassInv'
<1> USE DEF same, rpc, history, Done, Raise
<1>1. Len(events) \in Nat
  BY PassTypes
<1>2. DOMAIN Awaited = {"ring", "incoming", "connected", "ended", "verdict",
                        "timeout"}
  BY DEF Awaited
<1>3. CASE Connect
  BY <1>2, <1>3, PlainPassInv DEF Connect
<1>4. CASE Emulator
  BY <1>2, <1>4, PlainPassInv DEF Emulator
<1>5. CASE Audio
  BY <1>2, <1>5, PlainPassInv DEF Audio
<1>6. CASE Dial
  BY <1>2, <1>6, PlainPassInv DEF Dial
<1>7. CASE Subscribe
  <2>1. leftover => leftover'
    BY <1>7, Zenon DEF Subscribe
  <2>2. /\ At("subscribe") /\ (Done \/ Raise)
        /\ UNCHANGED <<selected, index, events, said, own>>
    BY <1>7 DEF Subscribe
  <2> QED
    BY <1>2, <2>1, <2>2, PlainPassInv
<1>8. CASE StartCall
  BY <1>8, StartCallPassInv
<1>9. CASE StartCallFails
  BY <1>9 DEF StartCallFails, PassInv
<1>10. CASE AcceptCall
  BY <1>2, <1>10, PlainPassInv DEF AcceptCall
<1>11. CASE LetGo
  BY <1>2, <1>11, PlainPassInv DEF LetGo
<1>12. CASE StableEnds
  BY <1>2, <1>12, PlainPassInv DEF StableEnds
<1>13. CASE StableReads
  <2>1. PICK report \in Reports :
          /\ Read(report)
          /\ IF report.state = "ENDED"
             THEN Raise ELSE UNCHANGED <<at, todo, outcome>>
    BY <1>13 DEF StableReads
  <2>2. /\ Len(events') \in Nat /\ Len(events') <= Len(events)
        /\ UNCHANGED <<selected, index, said, leftover>>
    BY <1>1, <2>1, ReadType DEF Read
  <2>3. At("stable") /\ UNCHANGED own
    BY <1>13 DEF StableReads
  <2> QED
    BY <2>1, <2>2, <2>3, PassesOn DEF PassInv
<1>14. ASSUME NEW step \in DOMAIN Awaited,
              WaitForState(step) \/ WaitTimesOut(step)
       PROVE  PassInv'
  <2>1. At(step)
    BY <1>14 DEF WaitForState, WaitTimesOut, Waiting
  <2>2. CASE WaitTimesOut(step)
    BY <2>2 DEF WaitTimesOut, PassInv
  <2>3. CASE WaitForState(step)
    <3>1. PICK report \in Reports :
            /\ Read(report)
            /\ IF report.state = Awaited[step]
               THEN Take(step, report)
               ELSE UNCHANGED <<at, todo, outcome, call_id, own, known>>
      BY <2>3 DEF WaitForState
    <3>2. CASE report.state = Awaited[step]
      BY <2>1, <3>1, <3>2, TakePassInv
    <3>3. CASE report.state # Awaited[step]
      <4>1. /\ Len(events') \in Nat /\ Len(events') <= Len(events)
            /\ UNCHANGED <<selected, index, said, leftover>>
        BY <1>1, <3>1, ReadType DEF Read
      <4> QED
        BY <2>1, <3>1, <3>3, <4>1, PassesOn
    <3> QED
      BY <3>2, <3>3
  <2> QED
    BY <1>14, <2>2, <2>3
<1> QED
  BY <1>3, <1>4, <1>5, <1>6, <1>7, <1>8, <1>9, <1>10, <1>11, <1>12, <1>13,
     <1>14 DEF Step

(* A scenario begins with nothing reached and passes with all of it.       *)
LEMMA MainPassInv ==
    ASSUME TypeInv, PassInv, Main
    PROVE  PassInv'
<1> USE DEF same, script, rpc, history
<1>1. /\ Len(said) \in Nat /\ Len(events) \in Nat /\ Unread \in Int
      /\ Unread <= Len(said) /\ Scenario \in ScenarioIds
  BY PassTypes
<1>2. CASE Start
  <2>1. /\ at' = "steps" /\ Scenario' = Scenario /\ events' = events
        /\ said' = <<>> /\ todo' = SCENARIOS[Scenario]
    BY <1>2 DEF Start, Scenario
  <2>2. Taken' = 0
    <3>1. Len(todo') = Length[Scenario] /\ Length[Scenario] \in Nat
      BY <1>1, <2>1, Places, Order
    <3> QED
      BY <2>1, <3>1 DEF Taken
  <2>3. Reached(Scenario, Taken') = 0
    <3>1. RingAt[Scenario] \in Nat /\ 0 < RingAt[Scenario]
      BY <1>1, Order
    <3>2. Reached(Scenario, 0) = 0
      BY <1>1, <3>1, ReachedRange
    <3> QED
      BY <2>2, <3>2
  <2>4. Unread' \in Int
    BY <1>1, <2>1, EmptySeq DEF Unread
  <2>5. Achieved(Expected[Scenario], own', said', 0, Unread')
    BY <2>4, AchievedNone
  <2> QED
    BY <2>1, <2>3, <2>5 DEF PassInv
<1>3. CASE Finish
  <2>1. /\ at = "steps" /\ at' = "finally" /\ todo = <<>>
        /\ UNCHANGED <<outcome, leftover, said, own, selected, index>>
        /\ Scenario' = Scenario
    BY <1>3 DEF Finish, Scenario
  <2>2. Taken = Length[Scenario]
    <3>1. Len(todo) = 0 /\ Length[Scenario] \in Nat
      BY <1>1, <2>1, EmptySeq, Order
    <3> QED
      BY <3>1 DEF Taken
  <2>3. Reached(Scenario, Taken) = Len(Expected[Scenario])
    BY <1>1, <2>2, ReachedRange
  <2> SUFFICES ASSUME outcome, ~leftover
               PROVE  Achieved(Expected[Scenario], own, said,
                               Len(Expected[Scenario]), Len(said))
    BY <2>1 DEF PassInv, Reported, Achieved
  <2>4. Achieved(Expected[Scenario], own, said, Len(Expected[Scenario]),
                 Unread)
    BY <2>1, <2>3 DEF PassInv
  <2>5. Len(Expected[Scenario]) \in Nat
    BY <2>1, <2>3, PassTypes
  <2> QED
    BY <1>1, <2>4, <2>5, AchievedMore
<1>4. CASE Finally
  <2>1. /\ at = "finally" /\ at' = "result"
        /\ UNCHANGED <<leftover, said, own, selected, index>>
        /\ outcome' => outcome
        /\ Scenario' = Scenario
    BY <1>4 DEF Finally, Scenario
  <2> QED
    BY <2>1 DEF PassInv, Reported
<1>5. CASE Result \/ Retry \/ NextScenario \/ Clean
  BY <1>5 DEF Result, Retry, NextScenario, Clean, Crash, Summary, PassInv
<1> QED
  BY <1>2, <1>3, <1>4, <1>5 DEF Main

(* PassInv is inductive, given TypeInv and CallsInv.                       *)
LEMMA NextPassInv ==
    ASSUME TypeInv, CallsInv, PassInv, [Next]_vars
    PROVE  PassInv'
<1>1. CASE UNCHANGED vars
  BY <1>1 DEF vars, PassInv, Reported, Scenario, Taken, Unread, runner,
              script, rpc, history
<1> QED
  BY <1>1, WorldPassInv, StepPassInv, MainPassInv DEF Next, Exited

(* A scenario passes only if the daemon reported the states of its flow in *)
(* their order and of the scenario's own call, although its waits compare  *)
(* states only, drop what they do not look for, and skip the ringing one   *)
(* when the answer to startCall had it (e2e_test.py, scenario_a to _e).    *)
THEOREM PassIsReached == Spec => []PassMeansReached
<1>1. Init => PassInv
  BY DEF Init, PassInv
<1>2. TypeInv /\ CallsInv /\ PassInv /\ [Next]_vars => PassInv'
  BY NextPassInv
<1>3. TypeInv /\ CallsInv /\ [Next]_vars => CallsInv'
  BY NextCallsInv
<1>4. PassInv => PassMeansReached
  BY DEF PassInv, PassMeansReached, Passed
<1> QED
  BY InitCallsInv, <1>1, <1>2, <1>3, <1>4, TypeInvariant, PTL DEF Spec
=============================================================================
