----------------------------- MODULE PatchBuild -----------------------------
(***************************************************************************)
(* Building the tunnel against a patched RingRTC: build.sh applies the     *)
(* patches and runs cargo; a plain `cargo build` leaves it to build.rs.    *)
(* Both go by a marker in the working tree of the submodule.               *)
(*                                                                         *)
(* cargo (external) decides what to redo when it starts, from what changed *)
(* since it was last built, and runs build.rs and the compilation of       *)
(* RingRTC in either order; build.rs:55 counts on RingRTC coming first.    *)
(***************************************************************************)
EXTENDS Naturals, Sequences

CONSTANT NoBuild          \* nothing was built yet

(* In this order: the second was generated on top of the first.            *)
PATCHES == <<"vpio", "custom">>
Patches == {PATCHES[i] : i \in 1..Len(PATCHES)}

VARIABLES
    tree,          \* the patches whose marker is in the working tree
    damage,        \* "none", or what a killed git apply left unwritten: a
                   \* source of the library ("lib"), only others ("bin")
    rlib,          \* the patches in the compiled RingRTC, or NoBuild
    fresh,         \* RingRTC was not touched since rlib was compiled
    scriptFresh,   \* nor since build.rs last succeeded
    binary,        \* the patches in the tunnel's binary, or NoBuild
    builder,       \* "idle", "sh" (build.sh), "cargo"
    via,           \* the command of the last build: "none", "sh", "cargo"
    patch,         \* the patch build.sh or build.rs looks at next
    compiled,      \* cargo has an rlib for this build
    newly_applied, \* build.rs applied a patch in this build
    result         \* of the last build: "none", "ok", "failed"

buildVars == <<tree, damage, rlib, fresh, scriptFresh, binary, builder, via,
               patch, compiled, newly_applied, result>>

BuildTypeOK ==
    /\ tree \subseteq Patches /\ damage \in {"none", "lib", "bin"}
    /\ rlib \in (SUBSET Patches) \cup {NoBuild}
    /\ binary \in (SUBSET Patches) \cup {NoBuild}
    /\ builder \in {"idle", "sh", "cargo"} /\ via \in {"none", "sh", "cargo"}
    /\ patch \in 1..(Len(PATCHES) + 1)
    /\ fresh \in BOOLEAN /\ scriptFresh \in BOOLEAN
    /\ compiled \in BOOLEAN /\ newly_applied \in BOOLEAN
    /\ result \in {"none", "ok", "failed"}

(* A checkout whose submodule is pristine.                                 *)
BuildInit ==
    /\ tree = {} /\ damage = "none"
    /\ rlib = NoBuild /\ fresh = FALSE /\ scriptFresh = FALSE
    /\ binary = NoBuild
    /\ builder = "idle" /\ via = "none" /\ patch = 1
    /\ compiled = FALSE /\ newly_applied = FALSE /\ result = "none"

(* The build is over, and what only its process knew is gone.              *)
Ends(with) ==
    /\ builder' = "idle" /\ result' = with
    /\ patch' = 1 /\ compiled' = FALSE /\ newly_applied' = FALSE

(* The developer resets the submodule (external).                          *)
ResetSubmodule ==
    /\ builder = "idle" /\ (tree # {} \/ damage # "none")
    /\ tree' = {} /\ damage' = "none"
    /\ fresh' = FALSE /\ scriptFresh' = FALSE /\ result' = "none"
    /\ UNCHANGED <<rlib, binary, builder, via, patch, compiled, newly_applied>>

-----------------------------------------------------------------------------
(* One patch, in build.sh and in build.rs.                                 *)

Looking(who) == builder = who /\ patch <= Len(PATCHES)
Marked == PATCHES[patch] \in tree

AlreadyApplied(who) ==
    /\ Looking(who) /\ Marked
    /\ patch' = patch + 1
    /\ UNCHANGED <<tree, damage, rlib, fresh, scriptFresh, binary, builder,
                   via, compiled, newly_applied, result>>

(* git apply writes the files: cargo will find them newer than its output. *)
GitApply(who) ==
    /\ Looking(who) /\ ~Marked /\ damage = "none"
    /\ tree' = tree \cup {PATCHES[patch]}
    /\ fresh' = FALSE /\ scriptFresh' = FALSE
    /\ newly_applied' = TRUE
    /\ patch' = patch + 1
    /\ UNCHANGED <<damage, rlib, binary, builder, via, compiled, result>>

(* git apply fails, on a damaged tree or for reasons of its own, and       *)
(* leaves the tree alone: build.rs warns and goes on.                      *)
BuildRsWarns ==
    /\ Looking("cargo") /\ ~Marked
    /\ patch' = patch + 1
    /\ UNCHANGED <<tree, damage, rlib, fresh, scriptFresh, binary, builder,
                   via, compiled, newly_applied, result>>

(* Mutant: build.sh goes on like build.rs.                                 *)
ShellWarns ==
    /\ Looking("sh") /\ ~Marked
    /\ patch' = patch + 1
    /\ UNCHANGED <<tree, damage, rlib, fresh, scriptFresh, binary, builder,
                   via, compiled, newly_applied, result>>

ShellStops ==
    /\ Looking("sh") /\ ~Marked
    /\ Ends("failed")
    /\ UNCHANGED <<tree, damage, rlib, fresh, scriptFresh, binary, via>>

-----------------------------------------------------------------------------
(* build.sh and cargo.                                                     *)

StartShell ==
    /\ builder = "idle"
    /\ builder' = "sh" /\ via' = "sh" /\ patch' = 1 /\ result' = "none"
    /\ UNCHANGED <<tree, damage, rlib, fresh, scriptFresh, binary, compiled,
                   newly_applied>>

(* cargo settles what it has to redo: build.rs when a patch file or the    *)
(* marker's file changed, RingRTC when one of its sources did.             *)
EnterCargo ==
    /\ builder' = "cargo" /\ result' = "none" /\ newly_applied' = FALSE
    /\ compiled' = (rlib # NoBuild /\ fresh)
    /\ patch' = IF scriptFresh THEN Len(PATCHES) + 1 ELSE 1
    /\ UNCHANGED <<tree, damage, rlib, fresh, scriptFresh, binary>>

StartCargo == builder = "idle" /\ via' = "cargo" /\ EnterCargo

ShellExecs ==
    builder = "sh" /\ patch > Len(PATCHES) /\ EnterCargo /\ UNCHANGED via

(* RingRTC as it is in the tree at this moment.                            *)
CompileRingrtc ==
    /\ builder = "cargo" /\ ~compiled
    /\ IF damage = "lib"
       THEN Ends("failed") /\ UNCHANGED <<rlib, fresh>>
       ELSE /\ rlib' = tree /\ fresh' = TRUE /\ compiled' = TRUE
            /\ UNCHANGED <<builder, result, patch, newly_applied>>
    /\ UNCHANGED <<tree, damage, scriptFresh, binary, via>>

(* Mutant: a patch that was applied does not stop the build.               *)
FinishNoPanic ==
    /\ builder = "cargo" /\ patch > Len(PATCHES) /\ compiled
    /\ scriptFresh' = TRUE
    /\ IF "custom" \in rlib
       THEN binary' = rlib /\ Ends("ok")
       ELSE UNCHANGED binary /\ Ends("failed")
    /\ UNCHANGED <<tree, damage, rlib, fresh, via>>

(* build.rs panics when it applied a patch; else the tunnel, which names   *)
(* the custom backend's types, is compiled and linked with rlib.           *)
Finish ==
    /\ builder = "cargo" /\ patch > Len(PATCHES)
    /\ newly_applied \/ compiled
    /\ scriptFresh' = ~newly_applied
    /\ IF ~newly_applied /\ "custom" \in rlib
       THEN binary' = rlib /\ Ends("ok")
       ELSE UNCHANGED binary /\ Ends("failed")
    /\ UNCHANGED <<tree, damage, rlib, fresh, via>>

(* The build is killed.  In git apply that leaves files unwritten, which   *)
(* git apply refuses to work on from then on.                              *)
KillBuild ==
    /\ builder # "idle" /\ Ends("failed")
    /\ \/ UNCHANGED <<tree, damage, fresh, scriptFresh>>
       \/ /\ patch <= Len(PATCHES) /\ ~Marked /\ damage = "none"
          /\ \/ damage' = "lib" /\ tree' \in {{}, tree, tree \cup {PATCHES[patch]}}
             \/ damage' = "bin" /\ PATCHES[patch] = "custom" /\ UNCHANGED tree
          /\ fresh' = FALSE /\ scriptFresh' = FALSE
    /\ UNCHANGED <<rlib, binary, via>>

Build ==
    \/ \E who \in {"sh", "cargo"} : AlreadyApplied(who) \/ GitApply(who)
    \/ BuildRsWarns \/ ShellStops \/ ShellExecs
    \/ CompileRingrtc \/ Finish

BuildNext == StartShell \/ StartCargo \/ Build \/ KillBuild \/ ResetSubmodule

BuildSpec == BuildInit /\ [][BuildNext]_buildVars

-----------------------------------------------------------------------------
(* A build that succeeds linked RingRTC as it is in the working tree, in   *)
(* whatever order cargo ran its parts, whatever was applied before or      *)
(* while it ran and whatever earlier builds were stopped by ("the current  *)
(* build is still linking against the unpatched rlib", build.rs:57).       *)
LinkedFromTree == builder = "idle" /\ result = "ok" => binary = tree

(* One build.sh is enough, and what it builds has both patches, even after *)
(* builds in which one was only warned about ("so a single build           *)
(* succeeds", build.sh:23).                                                *)
ShellMeansBoth ==
    builder = "idle" /\ result = "ok" /\ via = "sh" => binary = Patches
=============================================================================
