---------------------------- MODULE AudioBinding ----------------------------
(***************************************************************************)
(* The host resources of a tunnel's audio: which backend it drives         *)
(* (config.rs), the socket file of the pipe backend (PipeAudioDevice::new  *)
(* and its Drop in pipe_audio.rs) and the pair of virtual devices of the   *)
(* other (AudioBinding in main.rs).                                        *)
(*                                                                         *)
(* The socket's path depends on the call id and the environment only: an   *)
(* earlier tunnel for the same call has the same path, and may be alive    *)
(* or gone when this one starts, with or without its file.                 *)
(***************************************************************************)

CONSTANTS
    ConfigModes,     \* values of the config's audio_mode field in this
                     \* instance, and of the environment variable: each a
    EnvModes,        \* string, or Unset
    Unset,
    Predecessors     \* what an earlier tunnel left: "none", "dead" (its
                     \* file), "alive" (the file and the tunnel itself)

ASSUME PredecessorsAssumption == Predecessors \subseteq {"none", "dead", "alive"}

VARIABLES
    mode,            \* "unset" until resolved, then "Pipe" or "Device"
    sockfile,        \* at the path: "none", "dead", "other" (its tunnel
                     \* listens), "mine"
    predecessor,     \* an earlier tunnel of this path is alive
    overtook,        \* this tunnel bound the path while it was
    devices          \* the virtual devices: "none", "held", "released"

bindingVars == <<mode, sockfile, predecessor, overtook, devices>>

BindingTypeOK ==
    /\ mode \in {"unset", "Pipe", "Device"}
    /\ sockfile \in {"none", "dead", "other", "mine"}
    /\ predecessor \in BOOLEAN /\ overtook \in BOOLEAN
    /\ devices \in {"none", "held", "released"}

BindingInit ==
    /\ \E p \in Predecessors :
        /\ predecessor = (p = "alive")
        /\ sockfile = IF p = "alive" THEN "other" ELSE p
    /\ mode = "unset" /\ overtook = FALSE /\ devices = "none"

(* The field decides when there is one, the environment otherwise;         *)
(* whatever is not "pipe" in some case of letters means Device.            *)
resolve_audio_mode(field, env) ==
    LET chosen == IF field # Unset THEN field ELSE env
    IN  IF chosen # Unset /\ chosen \in {"pipe", "Pipe", "PIPE"}
        THEN "Pipe" ELSE "Device"

Resolved == {resolve_audio_mode(f, e) : f \in ConfigModes, e \in EnvModes}

(* Mutant: the stale file is removed after the new one was bound.          *)
BindPipeRemovesLast ==
    /\ "Pipe" \in Resolved /\ mode' = "Pipe"
    /\ sockfile' = "none"
    /\ overtook' = predecessor
    /\ UNCHANGED <<predecessor, devices>>

(* PipeAudioDevice::new replaces whatever file is there.                   *)
BindPipe ==
    /\ "Pipe" \in Resolved /\ mode' = "Pipe"
    /\ sockfile' = "mine"
    /\ overtook' = predecessor
    /\ UNCHANGED <<predecessor, devices>>

CreateDevices ==
    /\ "Device" \in Resolved /\ mode' = "Device"
    /\ devices' = "held"
    /\ UNCHANGED <<sockfile, predecessor, overtook>>

Bind == BindPipe \/ CreateDevices

(* A bind that fails has removed the old file already; when only           *)
(* set_nonblocking fails, nobody removes the new one.                      *)
BindFails ==
    /\ mode' \in Resolved
    /\ IF mode' = "Pipe" THEN sockfile' \in {"none", "dead"}
                         ELSE UNCHANGED sockfile
    /\ UNCHANGED <<predecessor, overtook, devices>>

(* The process ends by returning from main: Drop deletes the virtual       *)
(* devices.  The pipe device is shared with the audio device module: its   *)
(* Drop removes the file at the path, whoever bound it, when the module    *)
(* let go of it, and not at all otherwise.                                 *)
DropBinding ==
    /\ devices' = IF devices = "held" THEN "released" ELSE devices
    /\ sockfile' \in IF mode = "Pipe" THEN {sockfile, "none"} ELSE {sockfile}
    /\ UNCHANGED <<mode, predecessor, overtook>>

(* The earlier tunnel ends, by Drop or killed.                             *)
PredecessorEnds ==
    /\ predecessor
    /\ predecessor' = FALSE
    /\ sockfile' \in
          {"none", IF sockfile = "other" THEN "dead" ELSE sockfile}
    /\ UNCHANGED <<mode, overtook, devices>>
=============================================================================
