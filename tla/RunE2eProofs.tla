---------------------------- MODULE RunE2eProofs ----------------------------
(***************************************************************************)
(* What the builds and the driver of the tests promise, for every number   *)
(* of turns, of signals and of earlier builds.                             *)
(***************************************************************************)
EXTENDS RunE2e, TLAPS

-----------------------------------------------------------------------------
(* The builds.                                                             *)

(* What cargo and the patching rely on between two steps: what is up to    *)
(* date was compiled from the tree, a build that has its rlib and applied  *)
(* nothing is about to link that tree, and build.sh leaves no patch behind *)
(* it.                                                                     *)
UpToDate == fresh /\ rlib # NoBuild => rlib = tree
LinksTree == builder = "cargo" /\ compiled /\ ~newly_applied => rlib = tree
ShellApplied ==
    /\ builder = "sh" => \A i \in 1..(patch - 1) : PATCHES[i] \in tree
    /\ builder = "cargo" /\ via = "sh" => tree = Patches

(* BuildTypeOK in two parts: the flags, and the rest.                      *)
BuildFlags ==
    /\ fresh \in BOOLEAN /\ scriptFresh \in BOOLEAN
    /\ compiled \in BOOLEAN /\ newly_applied \in BOOLEAN
BuildTypes ==
    /\ tree \subseteq Patches /\ damage \in {"none", "lib", "bin"}
    /\ rlib \in (SUBSET Patches) \cup {NoBuild}
    /\ binary \in (SUBSET Patches) \cup {NoBuild}
    /\ builder \in {"idle", "sh", "cargo"} /\ via \in {"none", "sh", "cargo"}
    /\ patch \in 1..3
    /\ result \in {"none", "ok", "failed"}

BuildLinks == UpToDate /\ LinksTree /\ LinkedFromTree
BuildShell == ShellApplied /\ ShellMeansBoth

BuildInv == BuildFlags /\ BuildTypes /\ BuildLinks /\ BuildShell

(* The two patches, and their number.                                      *)
LEMMA TwoPatches ==
    /\ Len(PATCHES) = 2
    /\ PATCHES[1] = "vpio" /\ PATCHES[2] = "custom"
    /\ Patches = {"vpio", "custom"}
    /\ \A i \in 1..Len(PATCHES) : PATCHES[i] \in Patches
<1>1. /\ Len(PATCHES) = 2
      /\ PATCHES[1] = "vpio" /\ PATCHES[2] = "custom"
  BY DEF PATCHES
<1>2. 1..Len(PATCHES) = {1, 2}
  BY <1>1
<1>3. Patches = {"vpio", "custom"}
  BY <1>1, <1>2 DEF Patches
<1> QED
  BY <1>1, <1>2, <1>3

(* Nothing is built, and nothing is marked.                                *)
LEMMA InitialBuild == BuildInit => BuildInv
<1> SUFFICES ASSUME BuildInit PROVE BuildInv
  OBVIOUS
<1>1. BuildFlags
  BY DEF BuildInit, BuildFlags
<1>2. BuildTypes
  BY TwoPatches DEF BuildInit, BuildTypes
<1>3. BuildLinks
  BY DEF BuildInit, BuildLinks, UpToDate, LinksTree, LinkedFromTree
<1>4. BuildShell
  BY DEF BuildInit, BuildShell, ShellApplied, ShellMeansBoth
<1> QED
  BY <1>1, <1>2, <1>3, <1>4 DEF BuildInv

(* Every step of a build keeps the four parts of BuildInv.                 *)
LEMMA StepFlags == BuildInv /\ [BuildNext]_buildVars => BuildFlags'
<1> SUFFICES ASSUME BuildInv, [BuildNext]_buildVars
             PROVE  BuildFlags'
  OBVIOUS
<1> USE TwoPatches DEF BuildInv, BuildFlags
<1>1. CASE ResetSubmodule
  BY <1>1 DEF ResetSubmodule
<1>2. CASE StartShell
  BY <1>2 DEF StartShell
<1>3. CASE StartCargo
  BY <1>3 DEF StartCargo, EnterCargo
<1>4. ASSUME NEW who \in {"sh", "cargo"}, AlreadyApplied(who)
      PROVE  BuildFlags'
  BY <1>4 DEF AlreadyApplied, Looking, Marked
<1>5. ASSUME NEW who \in {"sh", "cargo"}, GitApply(who)
      PROVE  BuildFlags'
  BY <1>5 DEF GitApply, Looking, Marked
<1>6. CASE BuildRsWarns
  BY <1>6 DEF BuildRsWarns, Looking, Marked
<1>7. CASE ShellStops
  BY <1>7 DEF ShellStops, Looking, Marked, Ends
<1>8. CASE ShellExecs
  BY <1>8 DEF ShellExecs, EnterCargo
<1>9. CASE CompileRingrtc
  BY <1>9 DEF CompileRingrtc, Ends
<1>10. CASE Finish
  BY <1>10 DEF Finish, Ends
<1>11. CASE KillBuild
  BY <1>11 DEF KillBuild, Ends, Marked
<1>12. CASE UNCHANGED buildVars
  BY <1>12 DEF buildVars
<1> QED
  BY <1>1, <1>2, <1>3, <1>4, <1>5, <1>6, <1>7, <1>8, <1>9, <1>10, <1>11, <1>12
  DEF BuildNext, Build

(* A step of a build keeps the types,                                      *)
LEMMA StepTypes == BuildInv /\ [BuildNext]_buildVars => BuildTypes'
<1> SUFFICES ASSUME BuildInv, [BuildNext]_buildVars
             PROVE  BuildTypes'
  OBVIOUS
<1> USE TwoPatches DEF BuildInv, BuildTypes
<1>1. CASE ResetSubmodule
  BY <1>1 DEF ResetSubmodule
<1>2. CASE StartShell
  BY <1>2 DEF StartShell
<1>3. CASE StartCargo
  BY <1>3 DEF StartCargo, EnterCargo
<1>4. ASSUME NEW who \in {"sh", "cargo"}, AlreadyApplied(who)
      PROVE  BuildTypes'
  BY <1>4 DEF AlreadyApplied, Looking, Marked
<1>5. ASSUME NEW who \in {"sh", "cargo"}, GitApply(who)
      PROVE  BuildTypes'
  <2>1. patch \in 1..2 /\ patch' = patch + 1
    BY <1>5 DEF GitApply, Looking
  <2>2. tree' = tree \cup {PATCHES[patch]} /\ PATCHES[patch] \in Patches
    BY <1>5, <2>1 DEF GitApply
  <2>3. UNCHANGED <<damage, rlib, binary, builder, via, result>>
    BY <1>5 DEF GitApply
  <2>4. tree' \subseteq Patches
    BY <2>2
  <2>5. patch' \in 1..3
    BY <2>1
  <2> QED
    BY <2>3, <2>4, <2>5
<1>6. CASE BuildRsWarns
  BY <1>6 DEF BuildRsWarns, Looking, Marked
<1>7. CASE ShellStops
  BY <1>7 DEF ShellStops, Looking, Marked, Ends
<1>8. CASE ShellExecs
  BY <1>8 DEF ShellExecs, EnterCargo
<1>9. CASE CompileRingrtc
  <2>1. rlib' \in {rlib, tree} /\ patch' \in {1, patch}
    BY <1>9 DEF CompileRingrtc, Ends
  <2>2. builder' \in {builder, "idle"} /\ result' \in {result, "failed"}
    BY <1>9 DEF CompileRingrtc, Ends
  <2>3. UNCHANGED <<tree, damage, binary, via>>
    BY <1>9 DEF CompileRingrtc
  <2> QED
    BY <2>1, <2>2, <2>3
<1>10. CASE Finish
  <2>1. binary' \in {binary, rlib} /\ patch' = 1
    BY <1>10 DEF Finish, Ends
  <2>2. builder' = "idle" /\ result' \in {"ok", "failed"}
    BY <1>10 DEF Finish, Ends
  <2>3. UNCHANGED <<tree, damage, rlib, via>>
    BY <1>10 DEF Finish
  <2> QED
    BY <2>1, <2>2, <2>3
<1>11. CASE KillBuild
  <2>1. tree' = tree \/ (/\ patch <= Len(PATCHES)
                         /\ tree' \in {{}, tree, tree \cup {PATCHES[patch]}})
    BY <1>11, Zenon DEF KillBuild
  <2>2. tree' \subseteq Patches
    <3>1. CASE tree' = tree
      BY <3>1
    <3>2. CASE /\ patch <= Len(PATCHES)
               /\ tree' \in {{}, tree, tree \cup {PATCHES[patch]}}
      <4>1. PATCHES[patch] \in Patches
        BY <3>2
      <4> QED
        BY <3>2, <4>1
    <3> QED
      BY <2>1, <3>1, <3>2
  <2>3. damage' \in {damage, "lib", "bin"}
    BY <1>11 DEF KillBuild
  <2>4. patch' = 1 /\ builder' = "idle" /\ result' = "failed"
    BY <1>11 DEF KillBuild, Ends
  <2>5. UNCHANGED <<rlib, binary, via>>
    BY <1>11 DEF KillBuild
  <2> QED
    BY <2>2, <2>3, <2>4, <2>5
<1>12. CASE UNCHANGED buildVars
  BY <1>12 DEF buildVars
<1> QED
  BY <1>1, <1>2, <1>3, <1>4, <1>5, <1>6, <1>7, <1>8, <1>9, <1>10, <1>11, <1>12
  DEF BuildNext, Build

(* what is compiled and linked from the tree,                              *)
LEMMA StepLinks == BuildInv /\ [BuildNext]_buildVars => BuildLinks'
<1> SUFFICES ASSUME BuildInv, [BuildNext]_buildVars
             PROVE  BuildLinks'
  OBVIOUS
<1> USE TwoPatches DEF BuildInv, BuildTypes, BuildFlags, BuildLinks,
                       UpToDate, LinksTree, LinkedFromTree
<1>1. CASE ResetSubmodule
  BY <1>1 DEF ResetSubmodule
<1>2. CASE StartShell
  BY <1>2 DEF StartShell
<1>3. CASE StartCargo
  BY <1>3 DEF StartCargo, EnterCargo
<1>4. ASSUME NEW who \in {"sh", "cargo"}, AlreadyApplied(who)
      PROVE  BuildLinks'
  BY <1>4 DEF AlreadyApplied, Looking, Marked
<1>5. ASSUME NEW who \in {"sh", "cargo"}, GitApply(who)
      PROVE  BuildLinks'
  BY <1>5 DEF GitApply, Looking, Marked
<1>6. CASE BuildRsWarns
  BY <1>6 DEF BuildRsWarns, Looking, Marked
<1>7. CASE ShellStops
  BY <1>7 DEF ShellStops, Looking, Marked, Ends
<1>8. CASE ShellExecs
  BY <1>8 DEF ShellExecs, EnterCargo
<1>9. CASE CompileRingrtc
  BY <1>9 DEF CompileRingrtc, Ends
<1>10. CASE Finish
  BY <1>10 DEF Finish, Ends
<1>11. CASE KillBuild
  BY <1>11 DEF KillBuild, Ends, Marked
<1>12. CASE UNCHANGED buildVars
  BY <1>12 DEF buildVars
<1> QED
  BY <1>1, <1>2, <1>3, <1>4, <1>5, <1>6, <1>7, <1>8, <1>9, <1>10, <1>11, <1>12
  DEF BuildNext, Build

(* and what build.sh has seen of it.                                       *)
LEMMA StepShell == BuildInv /\ [BuildNext]_buildVars => BuildShell'
<1> SUFFICES ASSUME BuildInv, [BuildNext]_buildVars
             PROVE  BuildShell'
  OBVIOUS
<1> USE TwoPatches DEF BuildInv, BuildTypes, BuildLinks, BuildShell,
                       LinksTree, ShellApplied, ShellMeansBoth
<1>1. CASE ResetSubmodule
  BY <1>1 DEF ResetSubmodule
<1>2. CASE StartShell
  BY <1>2 DEF StartShell
<1>3. CASE StartCargo
  BY <1>3 DEF StartCargo, EnterCargo
<1>4. ASSUME NEW who \in {"sh", "cargo"}, AlreadyApplied(who)
      PROVE  BuildShell'
  BY <1>4 DEF AlreadyApplied, Looking, Marked
<1>5. ASSUME NEW who \in {"sh", "cargo"}, GitApply(who)
      PROVE  BuildShell'
  BY <1>5 DEF GitApply, Looking, Marked
<1>6. CASE BuildRsWarns
  BY <1>6 DEF BuildRsWarns, Looking, Marked
<1>7. CASE ShellStops
  BY <1>7 DEF ShellStops, Looking, Marked, Ends
<1>8. CASE ShellExecs
  <2>1. patch = 3
    BY <1>8 DEF ShellExecs
  <2>2. \A i \in 1..2 : PATCHES[i] \in tree
    BY <1>8, <2>1 DEF ShellExecs
  <2>3. "vpio" \in tree /\ "custom" \in tree
    BY <2>2
  <2>4. tree = Patches
    BY <2>3
  <2> QED
    BY <1>8, <2>4 DEF ShellExecs, EnterCargo
<1>9. CASE CompileRingrtc
  BY <1>9 DEF CompileRingrtc, Ends
<1>10. CASE Finish
  BY <1>10 DEF Finish, Ends
<1>11. CASE KillBuild
  BY <1>11 DEF KillBuild, Ends, Marked
<1>12. CASE UNCHANGED buildVars
  BY <1>12 DEF buildVars
<1> QED
  BY <1>1, <1>2, <1>3, <1>4, <1>5, <1>6, <1>7, <1>8, <1>9, <1>10, <1>11, <1>12
  DEF BuildNext, Build

(* The four parts together.                                                *)
LEMMA StepBuild == BuildInv /\ [BuildNext]_buildVars => BuildInv'
BY StepFlags, StepTypes, StepLinks, StepShell DEF BuildInv

(* Whatever was applied, killed or reset before and however cargo orders   *)
(* its parts, a build that succeeds linked RingRTC as it is in the tree,   *)
(* and build.sh's has both patches (build.rs:55-68, build.sh:48-77).       *)
THEOREM BuildsAsPatched == BuildSpec => [](LinkedFromTree /\ ShellMeansBoth)
<1>1. BuildInv => LinkedFromTree /\ ShellMeansBoth
  BY DEF BuildInv, BuildLinks, BuildShell
<1> QED
  BY InitialBuild, StepBuild, <1>1, PTL DEF BuildSpec

-----------------------------------------------------------------------------
(* The script builds by the same steps.                                    *)
LEMMA ScriptStepBuilds == [Next]_vars => [BuildNext]_buildVars
<1> SUFFICES ASSUME [Next]_vars
             PROVE  BuildNext \/ UNCHANGED buildVars
  OBVIOUS
<1>1. CASE ByHand
  BY <1>1 DEF ByHand
<1>2. CASE CargoRuns
  BY <1>2 DEF CargoRuns, BuildNext
<1>3. CASE BuildTunnel
  BY <1>3 DEF BuildTunnel, BuildNext
<1>4. CASE Signal
  BY <1>4 DEF Signal, BuildNext
<1>5. CASE Begin \/ Prepare \/ (Script /\ ~BuildTunnel)
  BY <1>5 DEF Begin, Prepare, Script, TrapRuns, StaleSocket, StaleProcesses,
              BuildCli, StartLogcat, StartDaemon, AwaitSocket, StartTests,
              WaitForTests, CleanupStep, KillRunner, KillLogcat, KillDaemon,
              WaitDaemon, RemoveSocket, CleanupDone
<1>6. CASE Others \/ DaemonDies \/ RunnerEnds
  BY <1>6 DEF Others, OldBinds, DaemonBinds, DaemonCrashes, DaemonStep,
              RunnerConnects, TunnelComesAndGoes, DaemonDies, RunnerEnds
<1>7. CASE Gone \/ UNCHANGED vars
  BY <1>7 DEF Gone, vars
<1> QED
  BY <1>1, <1>2, <1>3, <1>4, <1>5, <1>6, <1>7 DEF Next

(* BuildInv holds all through the script.                                  *)
LEMMA BuildInvariant == Spec => []BuildInv
<1>1. Init => BuildInv
  BY InitialBuild DEF Init
<1> QED
  BY <1>1, ScriptStepBuilds, StepBuild, PTL DEF Spec

(* The script and whatever is built before it build as PatchBuild says, so *)
(* that its promises hold of the tunnel the script tests.                  *)
THEOREM ScriptBuilds == Spec => BuildSpec
<1>1. Init => BuildInit
  BY DEF Init
<1> QED
  BY <1>1, ScriptStepBuilds, PTL DEF Spec, BuildSpec

(* What the script tests was linked from the tree (run_e2e.sh:195).        *)
THEOREM LinkedForTests == Spec => []LinkedFromTree
<1>1. BuildInv => LinkedFromTree
  BY DEF BuildInv, BuildLinks
<1> QED
  BY <1>1, BuildInvariant, PTL

(* One build.sh means both patches, in every history of builds and runs of *)
(* the script (build.sh:48-77).                                            *)
THEOREM ShellBuildComplete == Spec => []ShellMeansBoth
<1>1. BuildInv => ShellMeansBoth
  BY DEF BuildInv, BuildShell
<1> QED
  BY <1>1, BuildInvariant, PTL

-----------------------------------------------------------------------------
(* What exit code 0 means.                                                 *)

(* Where the script is, or goes on once cleanup() is through.              *)
Position == IF pc \in CleanupSteps THEN resume ELSE pc

TestCommands == {"testsPid", "wait", "interrupted"}
BuiltCommands == {"prepare", "logcat", "daemon", "await", "tests"}
                     \cup TestCommands

Located ==
    /\ pc \in Commands \cup CleanupSteps \cup {"start", "gone"}
    /\ resume \in Commands \cup {"gone"}
    /\ pc \in CleanupSteps => CLEANUP_DONE

(* A build that succeeded stands from then on, for the code 0 too.         *)
BuildStands ==
    Position \in BuiltCommands \/ exitCode = "zero" =>
        result = "ok" /\ builder = "idle"

(* The runner is started once, late, and 0 is its own.                     *)
RunnersCode ==
    /\ runner # "none" => Position \in TestCommands \cup {"gone"}
    /\ exitCode = "zero" => Position = "gone" /\ runner = "zero"

(* An old daemon is reached only when it bound the path after the cleanup. *)
ReachedDaemon ==
    /\ reached \in {"none", "old", "mine"}
    /\ sockfile = "old" /\ Position \notin {"start", "staleSocket"} => oldLate
    /\ reached = "old" => oldLate
    /\ reached # "none" => runner # "none"
    /\ runner = "zero" => reached # "none"

ScriptInv == Located /\ BuildStands /\ RunnersCode /\ ReachedDaemon

(* Nothing runs for this script, and only an old daemon may hold the path. *)
LEMMA InitialScript == Init => ScriptInv
BY DEF Init, ScriptInv, Located, BuildStands, RunnersCode, ReachedDaemon,
       Position, CleanupSteps, Commands, TestCommands, BuiltCommands

(* A trap moves the script aside and back; only commands move it on.       *)
LEMMA StepScript == ScriptInv /\ [Next]_vars => ScriptInv'
<1> SUFFICES ASSUME ScriptInv, [Next]_vars
             PROVE  ScriptInv'
  OBVIOUS
<1> USE DEF ScriptInv, Located, BuildStands, RunnersCode, ReachedDaemon,
       Position, CleanupSteps, Commands, TestCommands, BuiltCommands,
       buildVars, scriptVars, sigVars, daemonVars, otherVars, At, GoOn, Exit,
       CleanupStep, DaemonStep
<1>1. CASE Begin
  BY <1>1 DEF Begin
<1>2. CASE StaleSocket
  BY <1>2 DEF StaleSocket
<1>3. CASE StaleProcesses
  BY <1>3 DEF StaleProcesses, KillTunnels
<1>4. CASE BuildCli
  BY <1>4 DEF BuildCli
<1>5. CASE BuildTunnel
  BY <1>5 DEF BuildTunnel, StartCargo, EnterCargo
<1>6. CASE Prepare
  BY <1>6 DEF Prepare
<1>7. CASE StartLogcat
  BY <1>7 DEF StartLogcat
<1>8. CASE StartDaemon
  BY <1>8 DEF StartDaemon
<1>9. CASE AwaitSocket
  BY <1>9 DEF AwaitSocket
<1>10. CASE StartTests
  BY <1>10 DEF StartTests
<1>11. CASE WaitForTests
  BY <1>11 DEF WaitForTests
<1>12. CASE TrapRuns
  BY <1>12 DEF TrapRuns
<1>13. CASE KillRunner
  BY <1>13 DEF KillRunner
<1>14. CASE KillLogcat
  BY <1>14 DEF KillLogcat
<1>15. CASE KillDaemon
  BY <1>15 DEF KillDaemon
<1>16. CASE WaitDaemon
  BY <1>16 DEF WaitDaemon
<1>17. CASE RemoveSocket
  BY <1>17 DEF RemoveSocket
<1>18. CASE CleanupDone
  BY <1>18 DEF CleanupDone, KillTunnels
<1>19. CASE Signal
  BY <1>19 DEF Signal, KillBuild
<1>20. CASE ByHand
  BY <1>20 DEF ByHand
<1>21. CASE CargoRuns
  BY <1>21 DEF CargoRuns, Build, AlreadyApplied, GitApply, BuildRsWarns,
               ShellStops, ShellExecs, CompileRingrtc, Finish, Looking
<1>22. CASE OldBinds
  <2>1. UNCHANGED <<builder, result, scriptVars, runner, reached>>
    BY <1>22 DEF OldBinds
  <2>2. Located' /\ BuildStands' /\ RunnersCode'
    BY <2>1
  <2>3. CASE sockfile = "none"
    <3>1. oldLate' <=> pc \notin {"start", "staleSocket"}
      BY <1>22, <2>3 DEF OldBinds
    <3>2. reached = "old" => oldLate'
      BY <3>1
    <3>3. Position' \notin {"start", "staleSocket"} => oldLate'
      BY <2>1, <3>1
    <3> QED
      BY <2>1, <2>2, <3>2, <3>3
  <2>4. CASE sockfile # "none"
    BY <1>22, <2>1, <2>2, <2>4 DEF OldBinds
  <2> QED
    BY <2>3, <2>4
<1>23. CASE DaemonBinds
  BY <1>23 DEF DaemonBinds
<1>24. CASE DaemonCrashes
  BY <1>24 DEF DaemonCrashes
<1>25. CASE DaemonDies
  BY <1>25 DEF DaemonDies
<1>26. CASE RunnerConnects
  BY <1>26 DEF RunnerConnects, Serving
<1>27. CASE RunnerEnds
  BY <1>27 DEF RunnerEnds
<1>28. CASE TunnelComesAndGoes
  BY <1>28 DEF TunnelComesAndGoes
<1>29. CASE Gone \/ UNCHANGED vars
  BY <1>29 DEF Gone, vars
<1> QED
  BY <1>1, <1>2, <1>3, <1>4, <1>5, <1>6, <1>7, <1>8, <1>9, <1>10, <1>11,
     <1>12, <1>13, <1>14, <1>15, <1>16, <1>17, <1>18, <1>19, <1>20, <1>21,
     <1>22, <1>23, <1>24, <1>25, <1>26, <1>27, <1>28, <1>29
  DEF Next, Script, Others

(* The script succeeds only on the test runner's word, given against this  *)
(* run's daemon or one that took its path late, and with a tunnel linked   *)
(* from the tree (run_e2e.sh:385-404).                                     *)
THEOREM ZeroMeansTested == Spec => []ExitZeroMeansTested
<1>1. ScriptInv /\ BuildInv => ExitZeroMeansTested
  BY DEF ScriptInv, BuildStands, RunnersCode, ReachedDaemon, BuildInv,
         BuildLinks, LinkedFromTree, ExitZeroMeansTested
<1> QED
  BY <1>1, InitialScript, StepScript, BuildInvariant, PTL DEF Spec

-----------------------------------------------------------------------------
(* What cleanup() leaves, unless a signal came before the wait.            *)

(* cleanup() runs once, and then the script is about to end.               *)
CleanedOnce ==
    /\ pc \in {"gone", "interrupted"} => CLEANUP_DONE
    /\ early => CLEANUP_DONE
    /\ ~early /\ CLEANUP_DONE => Position \in {"gone", "interrupted"}
    /\ Position \in {"wait", "interrupted"} => TEST_PID

(* What still runs is what cleanup() has yet to come to.                   *)
RunnerYetToKill ==
    ~early /\ runner = "running" =>
        \/ Position \in {"testsPid", "wait"}
        \/ pc = "killRunner" /\ resume = "interrupted"

YetToClean ==
    ~early /\ CLEANUP_DONE =>
        /\ "mine" \in logcats => pc \in {"killRunner", "killLogcat"}
        /\ Up(daemon) => pc \in {"killRunner", "killLogcat", "killDaemon"}
        /\ sockfile = "mine" => pc \in CleanupSteps \ {"killTunnels"}
        /\ tunnels => pc \in CleanupSteps

CleanupInv == CleanedOnce /\ RunnerYetToKill /\ YetToClean

(* Nothing was cleaned up yet.                                             *)
LEMMA InitialCleanup == Init => CleanupInv
BY DEF Init, CleanupInv, CleanedOnce, RunnerYetToKill, YetToClean,
       Position, CleanupSteps, Up

(* Each step of cleanup() ends what YetToClean had left for it, and        *)
(* nothing is started behind it.                                           *)
LEMMA StepCleanup == ScriptInv /\ CleanupInv /\ [Next]_vars => CleanupInv'
<1> SUFFICES ASSUME ScriptInv, CleanupInv, [Next]_vars
             PROVE  CleanupInv'
  OBVIOUS
<1> USE DEF ScriptInv, Located, RunnersCode, CleanupInv, CleanedOnce,
            RunnerYetToKill, YetToClean, Position, CleanupSteps, Commands,
            TestCommands, Up, scriptVars, sigVars, daemonVars, otherVars,
            At, GoOn, Exit, CleanupStep, DaemonStep
<1>1. CASE Begin
  BY <1>1 DEF Begin
<1>2. CASE StaleSocket
  BY <1>2 DEF StaleSocket
<1>3. CASE StaleProcesses
  BY <1>3 DEF StaleProcesses, KillTunnels
<1>4. CASE BuildCli
  BY <1>4 DEF BuildCli
<1>5. CASE BuildTunnel
  BY <1>5 DEF BuildTunnel
<1>6. CASE Prepare
  BY <1>6 DEF Prepare
<1>7. CASE StartLogcat
  BY <1>7 DEF StartLogcat
<1>8. CASE StartDaemon
  BY <1>8 DEF StartDaemon
<1>9. CASE AwaitSocket
  BY <1>9 DEF AwaitSocket
<1>10. CASE StartTests
  BY <1>10 DEF StartTests
<1>11. CASE WaitForTests
  BY <1>11 DEF WaitForTests
<1>12. CASE TrapRuns
  BY <1>12 DEF TrapRuns
<1>13. CASE KillRunner
  BY <1>13 DEF KillRunner
<1>14. CASE KillLogcat
  BY <1>14 DEF KillLogcat
<1>15. CASE KillDaemon
  BY <1>15 DEF KillDaemon
<1>16. CASE WaitDaemon
  BY <1>16 DEF WaitDaemon
<1>17. CASE RemoveSocket
  BY <1>17 DEF RemoveSocket
<1>18. CASE CleanupDone
  BY <1>18 DEF CleanupDone, KillTunnels
<1>19. CASE Signal
  BY <1>19 DEF Signal
<1>20. CASE ByHand
  BY <1>20 DEF ByHand
<1>21. CASE CargoRuns
  BY <1>21 DEF CargoRuns
<1>22. CASE OldBinds
  BY <1>22 DEF OldBinds
<1>23. CASE DaemonBinds
  BY <1>23 DEF DaemonBinds
<1>24. CASE DaemonCrashes
  BY <1>24 DEF DaemonCrashes
<1>25. CASE DaemonDies
  BY <1>25 DEF DaemonDies
<1>26. CASE RunnerConnects
  BY <1>26 DEF RunnerConnects
<1>27. CASE RunnerEnds
  BY <1>27 DEF RunnerEnds
<1>28. CASE TunnelComesAndGoes
  BY <1>28 DEF TunnelComesAndGoes
<1>29. CASE Gone \/ UNCHANGED vars
  BY <1>29 DEF Gone, vars
<1> QED
  BY <1>1, <1>2, <1>3, <1>4, <1>5, <1>6, <1>7, <1>8, <1>9, <1>10, <1>11,
     <1>12, <1>13, <1>14, <1>15, <1>16, <1>17, <1>18, <1>19, <1>20, <1>21,
     <1>22, <1>23, <1>24, <1>25, <1>26, <1>27, <1>28, <1>29
  DEF Next, Script, Others

(* Every way the script ends that is not preceded by a signal before the   *)
(* wait for the test runner leaves nothing running and no socket of its    *)
(* own (run_e2e.sh:103-143).                                               *)
THEOREM CleanedUp == Spec => []NothingLeft
<1>1. ScriptInv /\ CleanupInv => NothingLeft
  BY DEF ScriptInv, Located, CleanupInv, CleanedOnce, RunnerYetToKill,
         YetToClean, NothingLeft, Clean, Position, CleanupSteps, Up
<1> QED
  BY <1>1, InitialScript, StepScript, InitialCleanup, StepCleanup, PTL DEF Spec

-----------------------------------------------------------------------------
(* The types of the script's own variables.                                *)

ScriptFlags ==
    /\ CLEANUP_DONE \in BOOLEAN /\ TEST_PID \in BOOLEAN
    /\ pending \in BOOLEAN /\ early \in BOOLEAN
    /\ oldLate \in BOOLEAN /\ tunnels \in BOOLEAN
ScriptRanges ==
    /\ exitCode \in {"none", "zero", "fail"} /\ tries \in 0..MAX_TRIES
    /\ signals \in Nat
    /\ daemon \in DaemonStates
    /\ old \in {"none", "starting", "listening"}
    /\ sockfile \in {"none", "old", "mine"}
    /\ logcats \subseteq {"old", "mine"}
    /\ runner \in {"none", "running", "zero", "fail"}
ScriptTypes == ScriptFlags /\ ScriptRanges

(* Nothing has been started, signalled or waited for.                      *)
LEMMA InitialTypes == Init => ScriptTypes
<1> SUFFICES ASSUME Init PROVE ScriptTypes
  OBVIOUS
<1>1. ScriptFlags
  BY DEF Init, ScriptFlags
<1>2. ScriptRanges
  BY TriesAssumption DEF Init, ScriptRanges, DaemonStates
<1> QED
  BY <1>1, <1>2 DEF ScriptTypes

(* Commands and traps leave the flags Booleans.                            *)
LEMMA StepScriptFlags ==
    ScriptInv /\ ScriptTypes /\ [Next]_vars => ScriptFlags'
<1> SUFFICES ASSUME ScriptInv, ScriptTypes, [Next]_vars
             PROVE  ScriptFlags'
  OBVIOUS
<1> USE MatchAssumption
    DEF ScriptTypes, ScriptFlags, scriptVars, sigVars, daemonVars,
        otherVars, At, GoOn, Exit, CleanupStep, DaemonStep
<1>1. CASE Begin
  BY <1>1 DEF Begin
<1>2. CASE StaleSocket
  BY <1>2 DEF StaleSocket
<1>3. CASE StaleProcesses
  BY <1>3 DEF StaleProcesses, KillTunnels
<1>4. CASE BuildCli
  BY <1>4 DEF BuildCli
<1>5. CASE BuildTunnel
  BY <1>5 DEF BuildTunnel
<1>6. CASE Prepare
  BY <1>6 DEF Prepare
<1>7. CASE StartLogcat
  BY <1>7 DEF StartLogcat
<1>8. CASE StartDaemon
  BY <1>8 DEF StartDaemon
<1>9. CASE AwaitSocket
  BY <1>9 DEF AwaitSocket
<1>10. CASE StartTests
  BY <1>10 DEF StartTests
<1>11. CASE WaitForTests
  BY <1>11 DEF WaitForTests
<1>12. CASE TrapRuns
  BY <1>12 DEF TrapRuns
<1>13. CASE KillRunner
  BY <1>13 DEF KillRunner
<1>14. CASE KillLogcat
  BY <1>14 DEF KillLogcat
<1>15. CASE KillDaemon
  BY <1>15 DEF KillDaemon
<1>16. CASE WaitDaemon
  BY <1>16 DEF WaitDaemon
<1>17. CASE RemoveSocket
  BY <1>17 DEF RemoveSocket
<1>18. CASE CleanupDone
  BY <1>18 DEF CleanupDone, KillTunnels
<1>19. CASE Signal
  BY <1>19 DEF Signal
<1>20. CASE ByHand
  BY <1>20 DEF ByHand
<1>21. CASE CargoRuns
  BY <1>21 DEF CargoRuns
<1>22. CASE OldBinds
  BY <1>22 DEF OldBinds
<1>23. CASE DaemonBinds
  BY <1>23 DEF DaemonBinds
<1>24. CASE DaemonCrashes
  BY <1>24 DEF DaemonCrashes
<1>25. CASE DaemonDies
  BY <1>25 DEF DaemonDies
<1>26. CASE RunnerConnects
  BY <1>26 DEF RunnerConnects, Serving
<1>27. CASE RunnerEnds
  BY <1>27 DEF RunnerEnds
<1>28. CASE TunnelComesAndGoes
  BY <1>28 DEF TunnelComesAndGoes
<1>29. CASE Gone \/ UNCHANGED vars
  BY <1>29 DEF Gone, vars
<1> QED
  BY <1>1, <1>2, <1>3, <1>4, <1>5, <1>6, <1>7, <1>8, <1>9, <1>10, <1>11,
     <1>12, <1>13, <1>14, <1>15, <1>16, <1>17, <1>18, <1>19, <1>20, <1>21,
     <1>22, <1>23, <1>24, <1>25, <1>26, <1>27, <1>28, <1>29
  DEF Next, Script, Others

(* What is counted stays a number, and every process in its states.        *)
LEMMA StepScriptRanges ==
    ScriptInv /\ ScriptTypes /\ [Next]_vars => ScriptRanges'
<1> SUFFICES ASSUME ScriptInv, ScriptTypes, [Next]_vars
             PROVE  ScriptRanges'
  OBVIOUS
<1> USE TriesAssumption
    DEF ScriptTypes, ScriptRanges, DaemonStates, Up, scriptVars, sigVars,
        daemonVars, otherVars, At, GoOn, Exit, CleanupStep, DaemonStep
<1>1. CASE Begin
  BY <1>1 DEF Begin
<1>2. CASE StaleSocket
  BY <1>2 DEF StaleSocket
<1>3. CASE StaleProcesses
  BY <1>3 DEF StaleProcesses, KillTunnels
<1>4. CASE BuildCli
  BY <1>4 DEF BuildCli
<1>5. CASE BuildTunnel
  BY <1>5 DEF BuildTunnel
<1>6. CASE Prepare
  BY <1>6 DEF Prepare
<1>7. CASE StartLogcat
  BY <1>7 DEF StartLogcat
<1>8. CASE StartDaemon
  BY <1>8 DEF StartDaemon
<1>9. CASE AwaitSocket
  BY <1>9 DEF AwaitSocket
<1>10. CASE StartTests
  BY <1>10 DEF StartTests
<1>11. CASE WaitForTests
  BY <1>11 DEF WaitForTests
<1>12. CASE TrapRuns
  BY <1>12 DEF TrapRuns
<1>13. CASE KillRunner
  BY <1>13 DEF KillRunner
<1>14. CASE KillLogcat
  BY <1>14 DEF KillLogcat
<1>15. CASE KillDaemon
  BY <1>15 DEF KillDaemon
<1>16. CASE WaitDaemon
  BY <1>16 DEF WaitDaemon
<1>17. CASE RemoveSocket
  BY <1>17 DEF RemoveSocket
<1>18. CASE CleanupDone
  BY <1>18 DEF CleanupDone, KillTunnels
<1>19. CASE Signal
  BY <1>19 DEF Signal
<1>20. CASE ByHand
  BY <1>20 DEF ByHand
<1>21. CASE CargoRuns
  BY <1>21 DEF CargoRuns
<1>22. CASE OldBinds
  BY <1>22 DEF OldBinds
<1>23. CASE DaemonBinds
  BY <1>23 DEF DaemonBinds
<1>24. CASE DaemonCrashes
  BY <1>24 DEF DaemonCrashes
<1>25. CASE DaemonDies
  BY <1>25 DEF DaemonDies
<1>26. CASE RunnerConnects
  BY <1>26 DEF RunnerConnects, Serving
<1>27. CASE RunnerEnds
  BY <1>27 DEF RunnerEnds
<1>28. CASE TunnelComesAndGoes
  BY <1>28 DEF TunnelComesAndGoes
<1>29. CASE Gone \/ UNCHANGED vars
  BY <1>29 DEF Gone, vars
<1> QED
  BY <1>1, <1>2, <1>3, <1>4, <1>5, <1>6, <1>7, <1>8, <1>9, <1>10, <1>11,
     <1>12, <1>13, <1>14, <1>15, <1>16, <1>17, <1>18, <1>19, <1>20, <1>21,
     <1>22, <1>23, <1>24, <1>25, <1>26, <1>27, <1>28, <1>29
  DEF Next, Script, Others

(* Every variable of the script, of the builds and of the processes keeps  *)
(* its type (run_e2e.sh).                                                  *)
THEOREM TypeCorrect == Spec => []TypeOK
<1>1. BuildInv => BuildTypeOK
  BY TwoPatches DEF BuildInv, BuildFlags, BuildTypes, BuildTypeOK
<1>2. ScriptTypes => {CLEANUP_DONE, TEST_PID, pending, early, oldLate,
                      tunnels} \subseteq BOOLEAN
  BY DEF ScriptTypes, ScriptFlags
<1>3. BuildInv /\ ScriptInv /\ ScriptTypes => TypeOK
  BY <1>1, <1>2 DEF ScriptInv, Located, ReachedDaemon, ScriptTypes,
                    ScriptRanges, TypeOK
<1>4. ScriptInv /\ ScriptTypes /\ [Next]_vars => ScriptTypes'
  BY StepScriptFlags, StepScriptRanges DEF ScriptTypes
<1> QED
  BY <1>3, <1>4, InitialTypes, InitialScript, StepScript, BuildInvariant, PTL
  DEF Spec
=============================================================================
