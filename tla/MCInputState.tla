---------------------------- MODULE MCInputState ----------------------------
(* InputState on a receiver with two interfaces, a mouse whose hub gives it *)
(* the same port number, and a mouse without a hub.                        *)
EXTENDS InputState

CONSTANTS boot, nkro, wheel, direct, receiver, mouse, plain, r1, r2, keyA, keyB

OnDevices == [i \in Interfaces |->
  CASE i = wheel -> mouse [] i = direct -> plain [] OTHER -> receiver]
SamePort == [d \in Devices |-> IF d = plain THEN HUB_PORT_NONE ELSE 1]

\* keyA in a bitmap of two devices, keyB in arrays of two interfaces
ExactKeys == [i \in Interfaces |-> [r \in ReportIds |->
  IF i \in {nkro, wheel} /\ r = r1 THEN {keyA} ELSE {}]]
RangedKeys == [i \in Interfaces |-> [r \in ReportIds |->
  IF <<i, r>> \in {<<boot, r1>>, <<nkro, r2>>} THEN {keyB} ELSE {}]]

Everything == Slots
PortsOnly == (Usages \cup {Axis}) \X Ports
MotionConfigs == {Everything, PortsOnly}
LeftAndRight == {-1, 1}
=============================================================================
