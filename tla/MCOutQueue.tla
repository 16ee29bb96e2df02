----------------------------- MODULE MCOutQueue -----------------------------
(* OutQueue on a small descriptor: a keyboard report with an array of keys,  *)
(* a mouse report with a button and a relative axis, on an interface each    *)
(* (WBT2_BOOT_INTERFACES) or sharing one.                                    *)
EXTENDS OutQueue

CONSTANTS keyA, button, keyboard, mouse

KeyboardThenMouse == <<keyboard, mouse>>
OneKey == <<keyA, button>>
ReportOfUsage == [u \in Usages |-> IF u = button THEN mouse ELSE keyboard]
Keys == Usages \ {button}
Separate == [id \in Ids |-> IF id = mouse THEN 1 ELSE 0]
Shared == [id \in Ids |-> 0]
=============================================================================
