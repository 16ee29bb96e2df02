------------------------------ MODULE MCConfig ------------------------------
(* A configuration of every version in flash, macros and expressions that  *)
(* take several packets, a sector that some edits overfill, and macros and *)
(* entries that some edits make longer than a length can say.              *)
EXTENDS Config

CONSTANT q1

A == [op |-> "ADD", val |-> 0]
P(v) == [op |-> "PUSH", val |-> v]

MCMacroPackets == {<<1>>, <<0, 1>>}
MCExprPackets == {<<P(1), A>>}
MCNewMappings == {[target |-> "m", layer_mask |-> 5, hub_ports |-> 1]}
MCNewSettings == {[f \in Fields |-> IF f = "our_descriptor_number" THEN NOUR_DESCRIPTORS ELSE 2]}
MCNewQuirks == {q1}

\* The configurations an older firmware has saved: macros that end at, before and after the
\* end of a packet, empty entries, and an emulated device this firmware may not know.
Old(descriptor, macro, elems) ==
  [settings |-> [f \in Fields |-> IF f = "our_descriptor_number" THEN descriptor ELSE 1],
   mappings |-> <<[target |-> "old", layer_mask |-> 1, hub_ports |-> 1]>>,
   macros |-> [i \in Macros |-> IF i = 0 THEN macro ELSE << <<>>, <<1>> >>],
   expressions |-> [i \in Expressions |-> elems],
   quirks |-> <<q1>>]

\* The versions from which on a part is in the sector.
Since == [unmapped |-> 3, partial_scroll_timeout |-> 3, interval_override |-> 3, tap_hold_threshold |-> 5,
          gpio_debounce_time |-> 7, ignore_auth_dev_inputs |-> 9, our_descriptor_number |-> 9,
          gpio_output_mode |-> 10, macro_entry_duration |-> 10, normalize_gamepad_inputs |-> 18]
MacrosOf(v) == IF v < 4 THEN 0 ELSE IF v < 7 THEN NMACROS_8 ELSE NMACROS

\* What version v wrote.
Written(v, c) ==
  LET image == Image(c)
      macros == FlattenSeq([i \in 1 .. MacrosOf(v) |-> <<Len(c.macros[i - 1])>> \o MacroBody(c.macros[i - 1])])
      exprs == FlattenSeq([i \in 1 .. NEXPRESSIONS |-> <<Len(c.expressions[i - 1])>> \o c.expressions[i - 1]])
  IN  [image EXCEPT !.version = v, !.body = IF v < 6 THEN macros ELSE macros \o exprs,
                    !.quirks = IF v < 12 THEN <<>> ELSE @]

\* What that means now: what version v had is as it was, the layer of a mapping of version 3
\* as a mask, and what it had not is the default, but inputs are not normalized.
Means(v, c) ==
  [settings |-> [f \in Fields |->
     IF f = "normalize_gamepad_inputs" /\ v < 18 THEN 0
     ELSE IF v < Since[f] THEN DefaultSettings[f]
     ELSE IF f = "our_descriptor_number" /\ c.settings[f] >= NOUR_DESCRIPTORS THEN 0
     ELSE c.settings[f]],
   mappings |-> [i \in DOMAIN c.mappings |->
     [c.mappings[i] EXCEPT !.hub_ports = IF v < 11 THEN 0 ELSE @,
                           !.layer_mask = IF v = 3 THEN 2 ELSE @]],
   macros |-> [i \in Macros |-> IF i < MacrosOf(v) THEN c.macros[i] ELSE <<>>],
   expressions |-> IF v < 6 THEN Defaults.expressions ELSE c.expressions,
   quirks |-> IF v < 12 THEN <<>> ELSE c.quirks]

OldImage(v, c, n) == [sector |-> Written(v, c), means |-> Means(v, c), edits |-> n]

\* The client edits the empty configuration, and less so one of version 18.
MCImages ==
  {[sector |-> Blank, means |-> Defaults, edits |-> 0],
   [sector |-> [Written(18, Defaults) EXCEPT !.version = 2], means |-> Defaults, edits |-> MaxEdits],
   OldImage(18, Old(NOUR_DESCRIPTORS, << <<1>>, <<>> >>, <<P(1), A, A, P(2), P(3)>>), 1),
   OldImage(18, Old(1, << <<1>>, <<>>, <<1, 1, 1>> >>, <<A>>), 1)}
  \cup {OldImage(v, Old(1, << <<1, 1>>, <<1>> >>, <<P(1), P(2), A, A>>), MaxEdits) : v \in 3 .. 18}
  \cup {OldImage(18, Old(1, macro, <<A, A, P(1)>>), MaxEdits) :
          macro \in {<< <<1, 1, 1>>, <<>>, <<1>> >>, << <<1, 1>> >>}}

\* Nothing, and usages taken for lengths and elements.
MCReadings ==
  {[macros |-> Defaults.macros, expressions |-> Defaults.expressions, quirks |-> <<>>],
   [macros |-> [i \in Macros |-> << <<1>>, <<>> >>], expressions |-> [i \in Expressions |-> <<A, P(1)>>],
    quirks |-> <<q1>>]}
=============================================================================
