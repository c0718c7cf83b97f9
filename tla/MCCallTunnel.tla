---------------------------- MODULE MCCallTunnel ----------------------------
(* Small instances of CallTunnel: the lines the parent may write.          *)
EXTENDS CallTunnel

Raw(type, peer, call, valid) ==
    [type |-> type, peer |-> peer, call |-> call, valid |-> valid]
Plain(type) == Raw(type, Absent, Absent, TRUE)

(* Every command, a blank or refused line, a torn one; ids present and not.*)
AllLines ==
    {Plain("config"),
     Raw("createOutgoingCall", "ann", 7, TRUE), Plain("createOutgoingCall"),
     Raw("receivedOffer", "ann", 7, TRUE), Plain("receivedOffer"),
     Raw("receivedAnswer", Absent, Absent, FALSE), Plain("receivedAnswer"),
     Plain("receivedIce"), Plain("proceed"), Plain("accept"),
     Plain("hangup"), Plain("junk"), Plain("torn")}

(* The lines and the callbacks of the run about the end of the tunnel.     *)
EventRunLines ==
    {Plain("config"), Raw("createOutgoingCall", "ann", 7, TRUE),
     Plain("hangup"), Plain("torn")}
EventRunCallbacks == {"Offer", "Hangup"}

(* What the config field and the environment variable may say.             *)
SomeModes == {"PIPE", "device", Unset}
NoModes == {Unset}
=============================================================================
