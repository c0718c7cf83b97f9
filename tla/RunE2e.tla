------------------------------- MODULE RunE2e -------------------------------
(***************************************************************************)
(* The driver of the end-to-end tests, run_e2e.sh: what it cleans up from  *)
(* a run that was killed, the build, the processes it starts in the        *)
(* background, the wait for the test runner, and the trap that cleans up.  *)
(*                                                                         *)
(* bash runs a trap between two commands, and in the middle of `wait`.     *)
(* The daemon, its tunnels, the logcat collector and the test runner are   *)
(* external; the build of the tunnel is PatchBuild's.                      *)
(***************************************************************************)
EXTENDS PatchBuild

CONSTANTS
    MAX_TRIES,      \* turns of the loop that waits for the socket (30)
    MAX_SIGNALS,    \* bound on the INT and TERM the script is sent
    MayMatchItself  \* TRUE when the script's own command line may contain
                    \* "signal-call-tunnel", from the path of the checkout

ASSUME TriesAssumption == MAX_TRIES \in Nat \ {0} /\ MAX_SIGNALS \in Nat
ASSUME MatchAssumption == MayMatchItself \in BOOLEAN

VARIABLES
    pc,             \* the script's next command
    resume,         \* where it goes on after the trap, "gone" for EXIT
    CLEANUP_DONE,
    TEST_PID,       \* TRUE: set
    exitCode,       \* "none", "zero", "fail"
    tries,
    pending,        \* a signal whose trap has not run yet
    signals,        \* signals sent
    early,          \* a signal's trap cleaned up before the script waited
                    \* for the test runner
    daemon,         \* this run's: "none", "starting", "listening",
                    \* "dying", "dead"
    old,            \* one of a run that was killed: "none", "starting",
                    \* "listening"
    sockfile,       \* SIGNAL_CLI_SOCKET: "none", "old", "mine" (who bound it)
    oldLate,        \* the old daemon bound it after the pre-run cleanup
    logcats,        \* logcat collectors, of {"old", "mine"}
    tunnels,        \* a signal-call-tunnel process runs
    runner,         \* e2e_test.py: "none", "running", "zero", "fail"
    reached         \* the daemon it connected to: "none", "old", "mine"

scriptVars == <<pc, resume, CLEANUP_DONE, TEST_PID, exitCode, tries>>
sigVars    == <<pending, signals, early>>
daemonVars == <<daemon, old, sockfile, oldLate>>
otherVars  == <<logcats, tunnels, runner, reached>>
vars == <<buildVars, scriptVars, sigVars, daemonVars, otherVars>>

Commands ==
    {"staleSocket", "staleProcesses", "cli", "tunnel", "building", "prepare",
     "logcat", "daemon", "await", "tests", "testsPid", "wait", "interrupted"}
CleanupSteps ==
    {"killRunner", "killLogcat", "killDaemon", "waitDaemon", "removeSocket",
     "killTunnels"}
DaemonStates == {"none", "starting", "listening", "dying", "dead"}

TypeOK ==
    /\ BuildTypeOK
    /\ pc \in Commands \cup CleanupSteps \cup {"start", "gone"}
    /\ resume \in Commands \cup {"gone"}
    /\ exitCode \in {"none", "zero", "fail"} /\ tries \in 0..MAX_TRIES
    /\ {CLEANUP_DONE, TEST_PID, pending, early, oldLate, tunnels}
          \subseteq BOOLEAN
    /\ signals \in Nat
    /\ daemon \in DaemonStates
    /\ old \in {"none", "starting", "listening"}
    /\ sockfile \in {"none", "old", "mine"}
    /\ logcats \subseteq {"old", "mine"}
    /\ runner \in {"none", "running", "zero", "fail"}
    /\ reached \in {"none", "old", "mine"}

(* What a run that was killed with SIGKILL leaves behind.                  *)
Init ==
    /\ BuildInit
    /\ pc = "start" /\ resume = "gone" /\ CLEANUP_DONE = FALSE
    /\ TEST_PID = FALSE /\ exitCode = "none" /\ tries = 0
    /\ pending = FALSE /\ signals = 0 /\ early = FALSE
    /\ daemon = "none" /\ old \in {"none", "starting", "listening"}
    /\ sockfile \in IF old = "listening" THEN {"old"} ELSE {"none"}
    /\ oldLate = FALSE
    /\ logcats \in {{}, {"old"}} /\ tunnels \in BOOLEAN
    /\ runner = "none" /\ reached = "none"

-----------------------------------------------------------------------------
(* How the script moves.                                                   *)

(* Mutant: the trap is for INT and TERM only.                              *)
ExitUntrapped(code) ==
    /\ exitCode' = code /\ pc' = "gone"
    /\ UNCHANGED <<CLEANUP_DONE, resume>>

(* exit, or a command that fails under set -e: the EXIT trap cleans up,    *)
(* unless a signal's did.                                                  *)
Exit(code) ==
    /\ exitCode' = code /\ CLEANUP_DONE' = TRUE /\ resume' = "gone"
    /\ pc' = IF CLEANUP_DONE THEN "gone" ELSE "killRunner"

(* The next command is c, and no trap is to run first.                     *)
At(c) == pc = c /\ ~pending

GoOn(c) == pc' = c /\ UNCHANGED <<resume, CLEANUP_DONE, exitCode>>

(* The trap of a signal; where `wait` was interrupted it fails.  A trap    *)
(* inside cleanup() returns at once and ends a `wait` there.               *)
TrapRuns ==
    /\ pending /\ pc \notin {"start", "gone"}
    /\ pending' = FALSE
    /\ LET back == IF pc = "wait" THEN "interrupted" ELSE pc IN
       CASE CLEANUP_DONE ->
                /\ pc' = IF pc = "waitDaemon" THEN "removeSocket" ELSE back
                /\ UNCHANGED <<resume, CLEANUP_DONE, early>>
         [] OTHER ->
                /\ pc' = "killRunner" /\ resume' = back
                /\ CLEANUP_DONE' = TRUE
                /\ early' = (pc # "wait")
    /\ UNCHANGED <<buildVars, TEST_PID, exitCode, tries, signals, daemonVars,
                   otherVars>>

(* INT reaches the whole foreground process group, TERM the script only.   *)
Signal ==
    /\ pc \notin {"start", "gone"} /\ signals < MAX_SIGNALS
    /\ signals' = signals + 1 /\ pending' = TRUE
    /\ IF builder # "idle" THEN KillBuild \/ UNCHANGED buildVars
                           ELSE UNCHANGED buildVars
    /\ UNCHANGED <<scriptVars, early, daemonVars, otherVars>>

(* pkill -f signal-call-tunnel finds the script too, when its command line *)
(* says so.                                                                *)
KillTunnels ==
    /\ tunnels' = FALSE
    /\ pending' \in {FALSE, MayMatchItself}
    /\ UNCHANGED <<signals, early>>
-----------------------------------------------------------------------------
(* The commands, in order.                                                 *)

(* Earlier builds, by whatever command, are over when the script starts.   *)
Begin ==
    /\ pc = "start" /\ builder = "idle"
    /\ GoOn("staleSocket")
    /\ UNCHANGED <<buildVars, TEST_PID, tries, sigVars, daemonVars, otherVars>>

(* The daemon that holds a socket left over is killed, the socket removed. *)
StaleSocket ==
    /\ At("staleSocket") /\ GoOn("staleProcesses")
    /\ sockfile' = "none"
    /\ old' = IF sockfile = "old" THEN "none" ELSE old
    /\ UNCHANGED <<buildVars, TEST_PID, tries, sigVars, daemon, oldLate,
                   otherVars>>

StaleProcesses ==
    /\ At("staleProcesses") /\ GoOn("cli")
    /\ IF tunnels THEN KillTunnels ELSE UNCHANGED <<tunnels, sigVars>>
    /\ logcats' = {}
    /\ UNCHANGED <<buildVars, TEST_PID, tries, daemonVars, runner, reached>>

BuildCli ==
    /\ At("cli") /\ (GoOn("tunnel") \/ Exit("fail"))
    /\ UNCHANGED <<buildVars, TEST_PID, tries, sigVars, daemonVars, otherVars>>

BuildTunnel ==
    \/ /\ At("tunnel") /\ GoOn("building") /\ StartCargo
       /\ UNCHANGED <<TEST_PID, tries, sigVars, daemonVars, otherVars>>
    \/ /\ At("building") /\ builder = "idle"
       /\ IF result = "ok" THEN GoOn("prepare") ELSE Exit("fail")
       /\ UNCHANGED <<buildVars, TEST_PID, tries, sigVars, daemonVars,
                      otherVars>>

(* Drivers, python, emulator, app, dependencies, stubs, volumes.           *)
Prepare ==
    /\ At("prepare") /\ (GoOn("logcat") \/ Exit("fail"))
    /\ UNCHANGED <<buildVars, TEST_PID, tries, sigVars, daemonVars, otherVars>>

StartLogcat ==
    /\ At("logcat") /\ GoOn("daemon")
    /\ logcats' = logcats \cup {"mine"}
    /\ UNCHANGED <<buildVars, TEST_PID, tries, sigVars, daemonVars, tunnels,
                   runner, reached>>

StartDaemon ==
    /\ At("daemon") /\ GoOn("await")
    /\ daemon' = "starting"
    /\ UNCHANGED <<buildVars, TEST_PID, tries, sigVars, old, sockfile, oldLate,
                   otherVars>>

(* Mutant: the loop has no last turn.                                      *)
AwaitSocketForever ==
    /\ At("await")
    /\ \/ sockfile # "none" /\ GoOn("tests") /\ UNCHANGED tries
       \/ /\ sockfile = "none" /\ daemon \in {"none", "dead"}
          /\ Exit("fail") /\ UNCHANGED tries
       \/ /\ sockfile = "none" /\ daemon \notin {"none", "dead"}
          /\ GoOn("await") /\ UNCHANGED tries
    /\ UNCHANGED <<buildVars, TEST_PID, sigVars, daemonVars, otherVars>>

(* Mutant: one turn more than the loop has.                                *)
AwaitSocketOnceMore ==
    /\ At("await")
    /\ \/ sockfile # "none" /\ GoOn("tests") /\ UNCHANGED tries
       \/ /\ sockfile = "none"
          /\ daemon \in {"none", "dead"} \/ tries > MAX_TRIES
          /\ Exit("fail") /\ UNCHANGED tries
       \/ /\ sockfile = "none"
          /\ daemon \notin {"none", "dead"} /\ tries <= MAX_TRIES
          /\ GoOn("await") /\ tries' = tries + 1
    /\ UNCHANGED <<buildVars, TEST_PID, sigVars, daemonVars, otherVars>>

(* Any socket at the path will do; without one the daemon must be alive,   *)
(* and only so many seconds are waited.                                    *)
AwaitSocket ==
    /\ At("await")
    /\ \/ sockfile # "none" /\ GoOn("tests") /\ UNCHANGED tries
       \/ /\ sockfile = "none"
          /\ daemon \in {"none", "dead"} \/ tries = MAX_TRIES
          /\ Exit("fail") /\ UNCHANGED tries
       \/ /\ sockfile = "none"
          /\ daemon \notin {"none", "dead"} /\ tries < MAX_TRIES
          /\ GoOn("await") /\ tries' = tries + 1
    /\ UNCHANGED <<buildVars, TEST_PID, sigVars, daemonVars, otherVars>>

StartTests ==
    \/ /\ At("tests") /\ GoOn("testsPid")
       /\ runner' = "running" /\ UNCHANGED TEST_PID
       /\ UNCHANGED <<buildVars, tries, sigVars, daemonVars, logcats, tunnels,
                      reached>>
    \/ /\ At("testsPid") /\ GoOn("wait") /\ TEST_PID' = TRUE
       /\ UNCHANGED <<buildVars, tries, sigVars, daemonVars, otherVars>>

(* Mutant: TEST_PID is cleared before the exit status is taken.            *)
WaitForTestsSwapped ==
    /\ TEST_PID' = FALSE
    /\ \/ At("wait") /\ runner \in {"zero", "fail"}
       \/ At("interrupted")
    /\ Exit("zero")
    /\ UNCHANGED <<buildVars, tries, sigVars, daemonVars, otherVars>>

(* wait, with set +e: its status is the script's.                          *)
WaitForTests ==
    /\ TEST_PID' = FALSE
    /\ \/ At("wait") /\ runner \in {"zero", "fail"} /\ Exit(runner)
       \/ At("interrupted") /\ Exit("fail")
    /\ UNCHANGED <<buildVars, tries, sigVars, daemonVars, otherVars>>

-----------------------------------------------------------------------------
(* cleanup(), after CLEANUP_DONE was set.                                  *)

CleanupStep(from, to) ==
    At(from) /\ pc' = to
        /\ UNCHANGED <<buildVars, resume, CLEANUP_DONE, TEST_PID, exitCode,
                       tries>>

KillRunner ==
    /\ CleanupStep("killRunner", "killLogcat")
    /\ runner' = IF TEST_PID /\ runner = "running" THEN "fail" ELSE runner
    /\ UNCHANGED <<sigVars, daemonVars, logcats, tunnels, reached>>

KillLogcat ==
    /\ CleanupStep("killLogcat", "killDaemon")
    /\ logcats' = logcats \ {"mine"}
    /\ UNCHANGED <<sigVars, daemonVars, tunnels, runner, reached>>

Up(d) == d \in {"starting", "listening"}

KillDaemon ==
    /\ CleanupStep("killDaemon",
                   IF Up(daemon) THEN "waitDaemon" ELSE "removeSocket")
    /\ daemon' = IF Up(daemon) THEN "dying" ELSE daemon
    /\ UNCHANGED <<sigVars, old, sockfile, oldLate, otherVars>>

WaitDaemon ==
    /\ CleanupStep("waitDaemon", "removeSocket") /\ daemon = "dead"
    /\ UNCHANGED <<sigVars, daemonVars, otherVars>>

RemoveSocket ==
    /\ CleanupStep("removeSocket", "killTunnels")
    /\ sockfile' = "none"
    /\ UNCHANGED <<sigVars, daemon, old, oldLate, otherVars>>

CleanupDone ==
    /\ CleanupStep("killTunnels", resume)
    /\ KillTunnels
    /\ UNCHANGED <<daemonVars, logcats, runner, reached>>

Script ==
    \/ TrapRuns
    \/ StaleSocket \/ StaleProcesses \/ BuildCli \/ BuildTunnel
    \/ StartLogcat \/ StartDaemon \/ AwaitSocket \/ StartTests \/ WaitForTests
    \/ KillRunner \/ KillLogcat \/ KillDaemon \/ WaitDaemon \/ RemoveSocket
    \/ CleanupDone
-----------------------------------------------------------------------------
(* The other processes (external).                                         *)

DaemonStep == UNCHANGED <<buildVars, scriptVars, sigVars, otherVars>>

(* An old daemon that was still starting finds the path free, or fails.    *)
OldBinds ==
    /\ old = "starting" /\ DaemonStep
    /\ IF sockfile = "none"
       THEN /\ old' = "listening" /\ sockfile' = "old"
            /\ oldLate' = (pc \notin {"start", "staleSocket"})
       ELSE old' = "none" /\ UNCHANGED <<sockfile, oldLate>>
    /\ UNCHANGED daemon

(* A path in use makes the new daemon fail, or is taken over.              *)
DaemonBinds ==
    /\ daemon = "starting" /\ DaemonStep
    /\ \/ daemon' = "listening" /\ sockfile' = "mine"
       \/ daemon' = "dead" /\ sockfile # "none" /\ UNCHANGED sockfile
    /\ UNCHANGED <<old, oldLate>>

(* A daemon crashes; a daemon that was killed ends, and may remove the     *)
(* socket it made.                                                         *)
DaemonCrashes ==
    /\ Up(daemon) /\ DaemonStep
    /\ daemon' = "dead" /\ UNCHANGED <<old, sockfile, oldLate>>

DaemonDies ==
    /\ daemon = "dying" /\ DaemonStep
    /\ daemon' = "dead" /\ sockfile' \in {sockfile, "none"}
    /\ UNCHANGED <<old, oldLate>>

(* The owner of the socket, when there is one to connect to.               *)
Serving ==
    CASE sockfile = "old"  /\ old = "listening"    -> "old"
      [] sockfile = "mine" /\ daemon = "listening" -> "mine"
      [] OTHER                                     -> "none"

RunnerConnects ==
    /\ runner = "running" /\ reached = "none" /\ Serving # "none"
    /\ reached' = Serving
    /\ UNCHANGED <<buildVars, scriptVars, sigVars, daemonVars, logcats,
                   tunnels, runner>>

(* It passes only on a daemon that answers to the end.                     *)
RunnerEnds ==
    /\ runner = "running"
    /\ \/ runner' = "fail"
       \/ /\ runner' = "zero"
          /\ \/ reached = "old" /\ old = "listening"
             \/ reached = "mine" /\ daemon = "listening"
    /\ UNCHANGED <<buildVars, scriptVars, sigVars, daemonVars, logcats,
                   tunnels, reached>>

(* The daemon starts a tunnel for a call of the tests; tunnels end.        *)
TunnelComesAndGoes ==
    /\ \/ /\ ~tunnels /\ tunnels' = TRUE
          /\ runner = "running" /\ reached = "mine" /\ daemon = "listening"
       \/ tunnels /\ tunnels' = FALSE
    /\ UNCHANGED <<buildVars, scriptVars, sigVars, daemonVars, logcats, runner,
                   reached>>

Others ==
    OldBinds \/ DaemonBinds \/ DaemonCrashes \/ RunnerConnects
        \/ TunnelComesAndGoes

(* Builds by hand are over before the script starts.                       *)
ByHand ==
    /\ pc = "start" /\ BuildNext
    /\ UNCHANGED <<scriptVars, sigVars, daemonVars, otherVars>>

CargoRuns ==
    /\ pc # "start" /\ Build
    /\ UNCHANGED <<scriptVars, sigVars, daemonVars, otherVars>>

Gone == pc = "gone" /\ UNCHANGED vars

Next ==
    \/ ByHand \/ Begin \/ Signal \/ Script \/ Prepare \/ CargoRuns
    \/ Others \/ DaemonDies \/ RunnerEnds \/ Gone

Spec == Init /\ [][Next]_vars

(* The script and the builds go on, a daemon that is told to ends, and so  *)
(* does the test runner (RunnerEnds of E2eTest).  Prepare has no fairness: *)
(* adb waits for an emulator without a limit.                              *)
FairSpec ==
    /\ Spec
    /\ WF_vars(Script) /\ WF_vars(CargoRuns)
    /\ WF_vars(DaemonDies) /\ WF_vars(RunnerEnds)

-----------------------------------------------------------------------------
Clean ==
    /\ ~Up(daemon) /\ "mine" \notin logcats /\ ~tunnels
    /\ runner # "running" /\ sockfile # "mine"

(* However the script ends - a command that fails, a daemon that never     *)
(* listens, a signal in the wait or in the cleanup itself - it leaves no   *)
(* daemon, collector, tunnel or test runner behind.  A signal before that  *)
(* wait is another matter, see CleanOnAnyExit.                             *)
NothingLeft == pc = "gone" /\ ~early => Clean

(* The script succeeds only when the test runner did, against the daemon   *)
(* this run started and a tunnel built from the sources as they are; an    *)
(* old daemon that binds the path after the cleanup is taken for its own.  *)
ExitZeroMeansTested ==
    pc = "gone" /\ exitCode = "zero" =>
        /\ runner = "zero"
        /\ reached = "mine" \/ oldLate
        /\ result = "ok" /\ binary = tree

(* Once begun the script ends, whatever fails and however often it is      *)
(* signalled, unless the emulator keeps it waiting (adb wait-for-device).  *)
ScriptEnds == []<>(pc # "prepare") => (pc = "staleSocket" ~> pc = "gone")

(* "`trap cleanup EXIT INT TERM` ensures daemon, logcat, and orphaned      *)
(* tunnel processes are killed on any exit path" (TEST_HARNESS.md:55).     *)
CleanOnAnyExit == pc = "gone" => Clean
=============================================================================
