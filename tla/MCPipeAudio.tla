---------------------------- MODULE MCPipeAudio ----------------------------
(* Small instances of PipeAudio: which events the engine sends in each.    *)
EXTENDS PipeAudio, FiniteSets, TLC

CaptureEvents  == {"StartRecording", "StopRecording"}
PlayoutEvents  == {"SetCallback", "StartPlayout", "StopPlayout"}
ShutdownEvents ==
    {"Terminate", "SetCallback", "ClearCallback", "PlayoutDelay"}
WarmupEvents     == {"StartRecording", "WarmupRecording"}

(* Peers differ in name only; used in runs without temporal properties.    *)
PeerSymmetry == Permutations(Peers)
=============================================================================
