------------------------------ MODULE MCBridge ------------------------------
(* Bridge on a small instance: a composite device with two input endpoints,  *)
(* and pad, an interface without one.  Sizes keep the proportions that       *)
(* matter: a report does not fit a part-filled ring, and a blocking write    *)
(* can overrun the ring into the wire.                                       *)
EXTENDS Bridge

CONSTANTS kbd, mouse, pad

KbdMouse == {kbd, mouse}
KbdMousePad == {kbd, mouse, pad}

SmallFrames == [connected |-> 2, disconnected |-> 1, sof |-> 1]
SmallReports == [i \in Interfaces |-> 2]
Composite == [i \in Interfaces |-> IF i = pad THEN pad ELSE kbd]
=============================================================================
