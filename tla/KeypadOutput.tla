---------------------------- MODULE KeypadOutput ----------------------------
(***************************************************************************)
(* What controller A makes of keypad digits towards the PC (remapper.cc,   *)
(* built with ALT_NUMPAD_EQUALS), on top of the NumLock filter: at the end *)
(* of a frame the keyboard report gets the keypad usages back while        *)
(* NumLock is inferred to be off, and RealForce's Alt+6+1 becomes Shift+'-'.*)
(*                                                                         *)
(* A report of a keyboard says whether NumLock is down and which other     *)
(* keys are.  The array of the keyboard report is the set of its occupied  *)
(* places, each with its usage.  NumLock itself, which takes a place as    *)
(* any key, is left to the filter's input_state, and the usages of macros  *)
(* to the module Mapping.                                                  *)
(***************************************************************************)
EXTENDS NumLockFilter, FiniteSets, Functions

CONSTANTS
  Digits,      \* keypad keys that have a twin in the top row; the key 0 is the 10th
  One, Six,    \* the digits of the chord
  Held,        \* bound: the keys other than NumLock a report may say are down
  Builds,      \* with their configuration: the digits mapped to the top row,
               \* NATIVE_KEYPAD_DEDUP, and no WBT2_NUMERIC_KEYPAD_PRIORITY
  ReportOrder, \* the usages a key may be mapped to, in the order of reverse_mapping
  Places,      \* of the keyboard report's array
  MaxUncleared \* bound: occupied places of a report that a full queue keeps

VARIABLES
  build,       \* the build that runs
  keys,        \* the input state of keyboard usages, by interface
  alt_numpad_equals_active,
  uncleared,   \* the keyboard report as the last frame left it
  pc,          \* "output" from the filters' part of a frame to the report's
  first        \* history: how the press of a keypad key was first shown

kstate == <<build, keys, alt_numpad_equals_active, uncleared, first>>
kvars == <<vars, pc, kstate>>

Keypad(d) == <<"keypad", d>>
Top(d) == <<"top", d>>
Alt == <<"alt", 0>>
Minus == <<"minus", 0>>
Shift == <<"shift", 0>>
KeypadKeys == {Keypad(d) : d \in Digits}
TopKeys == {Top(d) : d \in Digits}
Modifiers == {Alt, Shift}
Usages == KeypadKeys \cup TopKeys \cup {Alt, Minus}

LastDigit == 10

ASSUME KeypadAssumption ==
  /\ Digits \subseteq 1 .. LastDigit /\ {One, Six} \subseteq Digits /\ One # Six
  /\ Held \subseteq SUBSET Usages
  /\ Builds \subseteq [normalises : SUBSET Digits, dedup : BOOLEAN, restores : BOOLEAN]
  /\ ReportOrder \in Seq(Usages) /\ IsInjective(ReportOrder) /\ Range(ReportOrder) = Usages
  /\ Places \in Nat \ {0} /\ MaxUncleared \in Nat

ChordKeys == {Alt, Keypad(One), Keypad(Six), Top(One), Top(Six)}

pressed == UNION {keys[i] : i \in Interfaces}

-----------------------------------------------------------------------------
(* The keyboard report.                                                    *)

Cleared == [array |-> {}, modifiers |-> {}]

Free(report) == {n \in 1 .. Places : \A place \in report.array : place[1] # n}

set_output_usage(report, usage) ==
  IF usage \in Modifiers THEN [report EXCEPT !.modifiers = @ \cup {usage}]
  ELSE IF Free(report) = {} THEN report
  ELSE LET n == CHOOSE m \in Free(report) : \A k \in Free(report) : m <= k
       IN  [report EXCEPT !.array = @ \cup {<<n, usage>>}]

clear_output_usages(report, usages) ==
  [array |-> {place \in report.array : place[2] \notin usages},
   modifiers |-> report.modifiers \ usages]

output_usage_active(report, usage) ==
  usage \in report.modifiers \/ \E place \in report.array : place[2] = usage

Target(key) ==
  IF key \in KeypadKeys /\ key[2] \in build.normalises THEN Top(key[2]) ELSE key

targets == {Target(key) : key \in pressed}

\* Each target of a pressed key takes one place, as long as there is one, whether or not
\* a report that was not cleared shows it already.
Mapped ==
  LET report[n \in 0 .. Len(ReportOrder)] ==
        IF n = 0 THEN uncleared
        ELSE IF ReportOrder[n] \in targets THEN set_output_usage(report[n - 1], ReportOrder[n])
        ELSE report[n - 1]
  IN  report[Len(ReportOrder)]

Restore(report, d) ==
  LET rest == clear_output_usages(report, {Top(d)}) IN
  IF Keypad(d) \notin pressed THEN report
  ELSE IF build.dedup /\ output_usage_active(rest, Keypad(d)) THEN rest
  ELSE set_output_usage(rest, Keypad(d))

\* Mutated: what the filter lets out to the PC is taken for the state.
FilteredState == {input_state # {}}

\* Of the interfaces' inferred states the newest counts; the choice among several
\* is left open here.  As long as there is none NumLock is taken to be on.
Known == {i \in Filtered : filters[i].inferred_num_lock # "unknown"}
host_num_lock_active ==
  IF Known = {} THEN {TRUE}
  ELSE {filters[i].inferred_num_lock = "on" : i \in Known}

physical_keypad_is_active == \E i \in Filtered : AnyKeypad(filters[i])

apply_num_lock_aware_keypad_output(report, on) ==
  LET restored[d \in 0 .. LastDigit] ==
        IF d = 0 THEN report
        ELSE IF d \in Digits THEN Restore(restored[d - 1], d)
        ELSE restored[d - 1]
  IN  IF ~build.restores \/ on \/ ~physical_keypad_is_active THEN report
      ELSE restored[LastDigit]

Chord == {Alt, Keypad(One), Keypad(Six)} \subseteq pressed

apply_alt_numpad_equals_chord(report) ==
  IF ~Chord /\ ~alt_numpad_equals_active THEN report
  ELSE LET rest == clear_output_usages(report, ChordKeys) IN
       IF Chord THEN set_output_usage(set_output_usage(rest, Minus), Shift) ELSE rest

\* Mutated: the chord is replaced before the keypad usages are restored.
ChordFirst ==
  {apply_num_lock_aware_keypad_output(apply_alt_numpad_equals_chord(Mapped), on)
     : on \in host_num_lock_active}

\* The keyboard reports the frame may end with.
KeyboardReports ==
  {apply_alt_numpad_equals_chord(apply_num_lock_aware_keypad_output(Mapped, on))
     : on \in host_num_lock_active}

-----------------------------------------------------------------------------
(* The operations.                                                         *)

\* The report has places for all keys, beside those it was left with.
Fits == Cardinality(uncleared.array) + Cardinality(pressed \ Modifiers) <= Places

\* How a press is shown first, if it is to stay so ("late" otherwise): not in a chord or
\* without a place; not if it came during the tap that ends a wrapper, which says that
\* NumLock is on, or while the report still shows the key from the press before.
Fresh(i, key) ==
  IF \/ filters'[i].stage = "TRAILING_DOWN"
     \/ output_usage_active(uncleared, key)
  THEN "late" ELSE "new"

ReadReport(i, r, num_lock, held) ==
  /\ pc = "input"
  /\ r \notin DefinesKeypad => held = keys[i]
  /\ filter_num_lock_sync_report(i, r, num_lock, held \cap KeypadKeys # {})
  /\ keys' = [keys EXCEPT ![i] = held]
  /\ first' = [key \in KeypadKeys |->
                 IF key \in held \ pressed THEN Fresh(i, key)
                 ELSE IF key \in pressed' THEN first[key] ELSE "up"]
  /\ UNCHANGED <<pc, build, alt_numpad_equals_active, uncleared>>

\* A report of RollOver, too many keys, is read by the filter only: the input state keeps the
\* keys that the filter no longer sees and will infer NumLock from when they come again.
RolloverReport(i, r, num_lock, keypad) ==
  /\ pc = "input"
  /\ filter_num_lock_sync_report(i, r, num_lock, keypad)
  /\ first' = [key \in KeypadKeys |->
                 IF key \in keys[i] /\ r \in DefinesKeypad /\ ~keypad THEN "late" ELSE first[key]]
  /\ UNCHANGED <<pc, build, keys, alt_numpad_equals_active, uncleared>>

\* A frame begins with the filters and ends with the report.
BeginFrame ==
  /\ pc = "input"
  /\ apply_filtered_num_lock_states
  /\ pc' = "output"
  /\ UNCHANGED kstate

FirstShown(key, report) ==
  IF first[key] # "new" THEN first[key]
  ELSE IF ~Fits THEN "late"
  ELSE IF output_usage_active(report, key) THEN "keypad"
  ELSE IF output_usage_active(report, Top(key[2])) THEN "top"
  ELSE "new"

\* The loop over report_ids may have ended, at a full queue, before it cleared this report.
\* Silent devices fill no queue; a queue still full when they fall silent is left out.
EndFrame ==
  /\ pc = "output"
  /\ pc' = "input"
  /\ alt_numpad_equals_active' = Chord
  /\ \E report \in KeyboardReports, ended \in BOOLEAN :
       /\ ended => ~silent /\ Cardinality(report.array) <= MaxUncleared
       /\ uncleared' = IF ended THEN report ELSE Cleared
       /\ first' = [key \in KeypadKeys |->
                      IF Chord /\ key \in ChordKeys THEN "late" ELSE FirstShown(key, report)]
  /\ UNCHANGED <<vars, build, keys>>

\* The keys of a device that goes stay in the input state, without its filter.
device_disconnected_callback(dev_addr) ==
  /\ pc = "input"
  /\ remove_num_lock_sync_filters(dev_addr)
  /\ first' = [key \in KeypadKeys |-> IF first[key] = "up" THEN "up" ELSE "late"]
  /\ UNCHANGED <<pc, build, keys, alt_numpad_equals_active, uncleared>>

NewConfig ==
  /\ pc = "input"
  /\ set_mapping_from_config
  /\ keys' = [i \in Interfaces |-> {}]
  /\ first' = [key \in KeypadKeys |-> "up"]
  /\ UNCHANGED <<pc, build, alt_numpad_equals_active, uncleared>>

LetTimePass == TimePasses /\ UNCHANGED <<pc, kstate>>

DevicesFallSilent ==
  /\ pc = "input" /\ uncleared = Cleared
  /\ FallSilent
  /\ UNCHANGED <<pc, kstate>>

KeypadInit ==
  /\ Init
  /\ pc = "input"
  /\ build \in Builds
  /\ keys = [i \in Interfaces |-> {}]
  /\ alt_numpad_equals_active = FALSE
  /\ uncleared = Cleared
  /\ first = [key \in KeypadKeys |-> "up"]

KeypadNext ==
  \/ \E i \in Interfaces, r \in ReportIds, num_lock \in BOOLEAN, held \in Held :
       ReadReport(i, r, num_lock, held)
  \/ \E i \in Interfaces, r \in ReportIds, num_lock, keypad \in BOOLEAN :
       RolloverReport(i, r, num_lock, keypad)
  \/ BeginFrame
  \/ EndFrame
  \/ \E i \in Interfaces : device_disconnected_callback(DeviceOf[i])
  \/ NewConfig
  \/ LetTimePass
  \/ DevicesFallSilent

KeypadSpec == KeypadInit /\ [][KeypadNext]_kvars

\* As in NumLockFilter: frames, whose parts alone move pc, keep coming and time does not stop.
FrameMoves == pc' \in {"input", "output"} \ {pc}
KeypadFairness == WF_pc(FrameMoves) /\ WF_kvars(LetTimePass)
FairKeypadSpec == KeypadSpec /\ KeypadFairness

-----------------------------------------------------------------------------
(* Properties.                                                             *)

\* With NATIVE_KEYPAD_DEDUP no frame puts a digit into the array twice, which a receiver
\* takes for two keystrokes, whatever passes a key through, restores or replaces it.  (A
\* report that a full queue left uncleared gets the digit once more than it had.)
DigitsNotDoubled ==
  pc = "output" /\ build.dedup =>
    \A report \in KeyboardReports : \A p, q \in report.array \ uncleared.array :
      p[2] = q[2] /\ p[2] \in KeypadKeys \cup TopKeys => p = q

\* The PC sees a key of the one keyboard's keypad as one thing from its press to its
\* release, through full queues: it does not turn from a digit into a cursor key, or back,
\* because NumLock is inferred anew in the meantime.  Presses during the tap that ends a
\* wrapper, in a chord, without a place in the array, or on a device that has gone are left
\* out, and those that a report of RollOver hides from the filter (Fresh, FirstShown).
KeepsItsUsage ==
  pc = "output" =>
    \A report \in KeyboardReports, d \in Digits :
      Keypad(d) \in pressed /\ ~(Chord /\ d \in {One, Six}) =>
        /\ first[Keypad(d)] = "keypad" => output_usage_active(report, Keypad(d))
        /\ first[Keypad(d)] = "top" => /\ output_usage_active(report, Top(d))
                                       /\ ~output_usage_active(report, Keypad(d))

\* The number row is shown while NumLock is off, also in a report with what a full queue
\* left in it, as long as there are places: only a key whose twin on the keypad is pressed
\* too, or that belongs to a chord being replaced, is taken out.
NumberRowIsKept ==
  pc = "output" /\ Fits =>
    \A report \in KeyboardReports, d \in Digits :
      /\ Top(d) \in pressed /\ Keypad(d) \notin pressed
      /\ Top(d) \in ChordKeys => ~Chord /\ ~alt_numpad_equals_active
      => output_usage_active(report, Top(d))

\* Nothing of the chord reaches the PC beside what replaces it, nor in the frame
\* after it, be NumLock on or off.  Shift goes with the chord or with the report that a
\* full queue kept of it.
ChordIsReplaced ==
  pc = "output" /\ (Chord \/ alt_numpad_equals_active) =>
    \A report \in KeyboardReports :
      /\ \A key \in ChordKeys : ~output_usage_active(report, key)
      /\ Shift \in report.modifiers <=> Chord \/ Shift \in uncleared.modifiers

\* The keyboard report a frame ends with got no digit twice, has no digit of the number row
\* missing, and nothing of a chord, however the functions that rewrite it are combined.
KeyboardReportInv == DigitsNotDoubled /\ NumberRowIsKept /\ ChordIsReplaced
=============================================================================
