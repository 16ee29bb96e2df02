------------------------------- MODULE Layers -------------------------------
(***************************************************************************)
(* Layers, sticky keys and tap-hold of the mapping engine (remapper.cc):   *)
(* the first half of process_mapping, on what set_mapping_from_config      *)
(* makes of the configured mappings.                                       *)
(*                                                                         *)
(* A frame samples input_state, compares it with the frame before          *)
(* (PREV_STATE_OFFSET), and steps the tap-hold states, the sticky states   *)
(* and the set of active layers, in this order and each from the one       *)
(* before.  Keys change between frames, as often as they like.  The        *)
(* mappings are compiled again when devices come and go; a user's changes  *)
(* arrive between SUSPEND and RESUME.                                      *)
(***************************************************************************)
EXTENDS Naturals, Sequences, Functions

CONSTANTS
  Keys,               \* sources of mappings: a usage at a port
  NLAYERS,
  OtherTargets,       \* what is mapped to that is no layer: usages and macros
  Configs,            \* sequences of mappings, as reverse_mapping_layers has them
  tap_hold_threshold  \* in units of time

Layer == 0 .. NLAYERS - 1
Mappings ==
  [key : Keys, target : Layer \cup OtherTargets, layers : SUBSET Layer,
   sticky : BOOLEAN, tap : BOOLEAN, hold : BOOLEAN]

ASSUME LayersAssumption ==
  /\ NLAYERS \in Nat \ {0}
  /\ OtherTargets \cap Layer = {}
  /\ Configs \subseteq Seq(Mappings)
  /\ tap_hold_threshold \in Nat \ {0}

VARIABLES
  mappings,          \* the compiled configuration
  input_state,       \* what is pressed
  prev_state,        \* input_state + PREV_STATE_OFFSET
  age,               \* now - pressed_at, up to the threshold
  tap_hold_state,
  sticky_state,      \* the layers on which a key is sticky
  layer_state_mask,
  suspended,         \* no frames: the configuration is being changed
  \* history
  settled,           \* a frame has been processed with this configuration
  fired,             \* taps and beginnings of holds since the press
  odd                \* sticky mappings triggered an odd number of times

vars == <<mappings, input_state, prev_state, age, tap_hold_state, sticky_state,
          layer_state_mask, suspended, settled, fired, odd>>

Released == [tap |-> FALSE, hold |-> FALSE, prev_hold |-> FALSE]
None == [k \in Keys |-> FALSE]

-----------------------------------------------------------------------------
(* Compiling a configuration.                                              *)

\* Mutated: a layer's own key is where the user put it.
LayersConfigured(m) == m.layers

\* A key that holds a layer also works on it; one that toggles it does not.
LayersOf(m) ==
  IF m.target \notin Layer THEN m.layers
  ELSE IF m.sticky THEN m.layers \ {m.target}
  ELSE m.layers \cup {m.target}

Compiled(config) ==
  [n \in DOMAIN config |-> [config[n] EXCEPT !.layers = LayersOf(config[n])]]

LayerMappings == {m \in Range(mappings) : m.target \in Layer}
Plain(m) == ~m.tap /\ ~m.hold

\* tap_hold_usages
TapHoldKeys == {m.key : m \in {n \in Range(mappings) : n.tap \/ n.hold}}

\* The masks of sticky_usages, tap_sticky_usages and hold_sticky_usages.
StickyOn(k) == UNION {m.layers : m \in {n \in Range(mappings) : n.key = k /\ n.sticky /\ Plain(n)}}
TapStickyOn(k) == UNION {m.layers : m \in {n \in Range(mappings) : n.key = k /\ n.sticky /\ n.tap}}
HoldStickyOn(k) == UNION {m.layers : m \in {n \in Range(mappings) : n.key = k /\ n.sticky /\ n.hold}}

-----------------------------------------------------------------------------
(* One frame.                                                              *)

Pressed(k) == input_state[k] /\ ~prev_state[k]
Age(k) == IF k \in TapHoldKeys /\ Pressed(k) THEN 0 ELSE age[k]

\* Mutated: a release is a tap however long the key was down.
TapsAlways(k) == ~input_state[k] /\ prev_state[k]
Taps(k) == ~input_state[k] /\ prev_state[k] /\ Age(k) < tap_hold_threshold
Holds(k) == input_state[k] /\ Age(k) >= tap_hold_threshold

StepTapHold(k) ==
  IF k \in TapHoldKeys
  THEN [tap |-> Taps(k), hold |-> Holds(k), prev_hold |-> tap_hold_state[k].hold]
  ELSE tap_hold_state[k]

HoldBegins(k) == StepTapHold(k).hold /\ ~StepTapHold(k).prev_hold

Xor(a, b) == (a \ b) \cup (b \ a)

\* Mutated: a sticky key is toggled as long as it is down.
StickyWhileDown(k) ==
  Xor(sticky_state[k], IF input_state[k] THEN layer_state_mask \cap StickyOn(k) ELSE {})

\* The three loops over sticky usages, for one key.
Toggled(k) ==
  LET plain == IF Pressed(k) THEN layer_state_mask \cap StickyOn(k) ELSE {}
      tapped == IF StepTapHold(k).tap THEN layer_state_mask \cap TapStickyOn(k) ELSE {}
      held == IF HoldBegins(k) THEN layer_state_mask \cap HoldStickyOn(k) ELSE {}
  IN  Xor(Xor(Xor(sticky_state[k], plain), tapped), held)

\* What toggles a sticky mapping.
Triggered(m) ==
  \/ Plain(m) /\ Pressed(m.key)
  \/ m.tap /\ StepTapHold(m.key).tap
  \/ m.hold /\ HoldBegins(m.key)

\* What keeps the layer of a mapping that is not sticky.
Down(m) == IF m.hold THEN StepTapHold(m.key).hold ELSE input_state[m.key]

\* The second press on a sticky mapping: it leaves the layer that is on.
NeverLeaves(m) == FALSE
Leaves(m) == m.target \in Layer /\ m.sticky /\ Triggered(m) /\ m.target \in layer_state_mask

\* The sticky state of a key in the loop over layer mappings, after the n-th of them;
\* to clear it where it is clear already changes nothing.
Sticky(k, n) ==
  Toggled(k) \ UNION {mappings[j].layers : j \in {i \in DOMAIN mappings :
                        i <= n /\ mappings[i].key = k /\ Leaves(mappings[i])}}

Activates(n) ==
  LET m == mappings[n]
  IN  /\ m.target \in Layer
      /\ IF m.sticky THEN Sticky(m.key, n) \cap m.layers # {}
         ELSE m.layers \cap layer_state_mask # {} /\ Down(m)

\* Mutated: without layers there is none.
NoLayerZero(layers) == layers
OrLayerZero(layers) == IF layers = {} THEN {0} ELSE layers

process_mapping ==
  /\ ~suspended
  /\ age' = [k \in Keys |-> Age(k)]
  /\ tap_hold_state' = [k \in Keys |-> StepTapHold(k)]
  /\ sticky_state' = [k \in Keys |-> Sticky(k, Len(mappings))]
  /\ layer_state_mask' = OrLayerZero({mappings[n].target : n \in {i \in DOMAIN mappings : Activates(i)}})
  /\ prev_state' = input_state
  /\ settled' = TRUE
  /\ fired' = [k \in Keys |-> (IF Pressed(k) THEN 0 ELSE fired[k])
                               + (IF StepTapHold(k).tap \/ HoldBegins(k) THEN 1 ELSE 0)]
  /\ odd' = Xor(odd, {m \in Range(mappings) : /\ m.sticky /\ Triggered(m)
                                              /\ settled \/ m.target \notin layer_state_mask})
  /\ UNCHANGED <<mappings, input_state, suspended>>

-----------------------------------------------------------------------------
(* Around the frame.                                                       *)

\* A report arrives.
read_input(k) ==
  /\ input_state' = [input_state EXCEPT ![k] = ~@]
  /\ UNCHANGED <<mappings, prev_state, age, tap_hold_state, sticky_state,
                 layer_state_mask, suspended, settled, fired, odd>>

TimePasses ==
  /\ \E k \in Keys : age[k] < tap_hold_threshold
  /\ age' = [k \in Keys |-> IF age[k] < tap_hold_threshold THEN age[k] + 1 ELSE age[k]]
  /\ UNCHANGED <<mappings, input_state, prev_state, tap_hold_state, sticky_state,
                 layer_state_mask, suspended, settled, fired, odd>>

\* Everything but the active layers starts anew.
StateCleared ==
  /\ input_state' = None
  /\ prev_state' = None
  /\ age' = [k \in Keys |-> tap_hold_threshold]
  /\ tap_hold_state' = [k \in Keys |-> Released]
  /\ sticky_state' = [k \in Keys |-> {}]
  /\ settled' = FALSE
  /\ fired' = [k \in Keys |-> 0]
  /\ odd' = {}

\* The usages of the devices changed: the same mappings, compiled again.
set_mapping_from_config ==
  /\ StateCleared
  /\ UNCHANGED <<mappings, layer_state_mask, suspended>>

SUSPEND ==
  /\ suspended' = TRUE
  /\ UNCHANGED <<mappings, input_state, prev_state, age, tap_hold_state, sticky_state,
                 layer_state_mask, settled, fired, odd>>

\* reset_state, and in the same round of the main loop the new mappings.
RESUME(config) ==
  /\ mappings' = Compiled(config)
  /\ StateCleared
  /\ layer_state_mask' = {0}
  /\ suspended' = FALSE

Init ==
  /\ \E config \in Configs : mappings = Compiled(config)
  /\ input_state = None
  /\ prev_state = None
  /\ age = [k \in Keys |-> tap_hold_threshold]
  /\ tap_hold_state = [k \in Keys |-> Released]
  /\ sticky_state = [k \in Keys |-> {}]
  /\ layer_state_mask = {0}
  /\ suspended = FALSE
  /\ settled = FALSE
  /\ fired = [k \in Keys |-> 0]
  /\ odd = {}

Next ==
  \/ \E k \in Keys : read_input(k)
  \/ TimePasses
  \/ process_mapping
  \/ set_mapping_from_config
  \/ SUSPEND
  \/ \E config \in Configs : RESUME(config)

Spec == Init /\ [][Next]_vars

-----------------------------------------------------------------------------
(* Properties.                                                             *)

TypeOK ==
  /\ mappings \in Seq(Mappings)
  /\ input_state \in [Keys -> BOOLEAN]
  /\ prev_state \in [Keys -> BOOLEAN]
  /\ age \in [Keys -> 0 .. tap_hold_threshold]
  /\ tap_hold_state \in [Keys -> [tap : BOOLEAN, hold : BOOLEAN, prev_hold : BOOLEAN]]
  /\ sticky_state \in [Keys -> SUBSET Layer]
  /\ layer_state_mask \in (SUBSET Layer) \ {{}}
  /\ suspended \in BOOLEAN
  /\ settled \in BOOLEAN
  /\ fired \in [Keys -> Nat]
  /\ odd \subseteq Mappings

\* A press is a tap, or begins one hold, or neither (released within a frame of the
\* threshold), however frames, time and reports interleave; so a macro or a sticky
\* mapping on it is triggered at most once.
TapHoldOnce == \A k \in Keys : fired[k] <= 1

\* A layer that a held key turned on stays on while the key is held, whatever other
\* layers are turned on and off meanwhile and wherever the mapping was put.
HeldLayerStays ==
  [][process_mapping =>
       \A m \in LayerMappings :
         /\ ~m.sticky
         /\ m.target \in layer_state_mask
         /\ IF m.hold THEN tap_hold_state'[m.key].hold ELSE input_state[m.key]
         => m.target \in layer_state_mask']_vars

\* A sticky key of a layer is never left on without its layer being active.
StickyIsActive ==
  settled => \A m \in LayerMappings :
               m.sticky /\ sticky_state[m.key] \cap m.layers # {} => m.target \in layer_state_mask

\* A mapping by which one key, and nothing else, toggles a layer from everywhere.
Toggles(m) ==
  /\ m \in LayerMappings /\ m.sticky
  /\ m.layers = Layer \ {m.target}
  /\ m.target # 0
  /\ ~(m.tap /\ m.hold)
  /\ \A n \in Range(mappings) \ {m} : n.target # m.target /\ ~(n.key = m.key /\ n.sticky)

\* Such a layer is on exactly after an odd number of presses (taps, holds), through
\* any use of the other layers in between.
StickyToggles ==
  settled => \A m \in Range(mappings) :
               Toggles(m) => (m.target \in layer_state_mask <=> m \in odd)
=============================================================================
