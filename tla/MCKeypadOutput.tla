--------------------------- MODULE MCKeypadOutput ---------------------------
(* KeypadOutput for one keyboard interface with two reports: the boot        *)
(* report, with NumLock, the keypad and other keys, and an extended one with *)
(* NumLock.                                                                  *)
EXTENDS KeypadOutput

CONSTANTS keyboard, receiver, boot, extended

OneDevice == [i \in Interfaces |-> receiver]

\* Nothing, a keypad key, with one of the number row, with another keypad key too, and with the
\* rest of the chord.
SomeKeys == {{}, {Keypad(1)}, {Keypad(1), Top(2)}, {Keypad(1), Keypad(6), Top(2)},
             {Alt, Keypad(1), Keypad(6)}}

\* Number row, keypad, other keys.
Order == <<Top(1), Top(2), Top(6), Keypad(1), Keypad(2), Keypad(6), Minus, Alt>>

\* NATIVE_KEYPAD_DEDUP with a configuration that maps one keypad key to its twin
\* and passes the others through, and without it one that maps all.
TwoBuilds == {[normalises |-> {1}, dedup |-> TRUE, restores |-> TRUE],
              [normalises |-> Digits, dedup |-> FALSE, restores |-> TRUE]}
=============================================================================
