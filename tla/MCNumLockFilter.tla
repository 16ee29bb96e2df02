-------------------------- MODULE MCNumLockFilter --------------------------
(* NumLockFilter for one keyboard interface with two reports: the boot       *)
(* report, with NumLock and the keypad, and an extended one with NumLock.    *)
EXTENDS NumLockFilter

CONSTANTS keyboard, receiver, boot, extended

OneDevice == [i \in Interfaces |-> receiver]
=============================================================================
