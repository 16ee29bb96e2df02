---------------------------- MODULE LayersProofs ----------------------------
(***************************************************************************)
(* Proofs about Layers and Mapping, for any keys, layers, mappings, macros *)
(* and thresholds: the type invariant, the state invariants and the action *)
(* property of Layers; that Mapping is Layers with an output (MappingSpec  *)
(* => Spec); that layer keys are silent, every macro entry is shown, and   *)
(* the PC's NumLock is as it was after macros that tap it in pairs.        *)
(***************************************************************************)
EXTENDS Mapping, SequenceTheorems, WellFoundedInduction, TLAPS

\* A mapping that holds a layer works on this layer too.
WorksOnTarget == \A m \in Range(mappings) : m.target \in Layer /\ ~m.sticky => m.target \in m.layers

\* What the tap-hold states know of a press that was a tap or a hold already.
TapHoldOf(k) ==
  /\ fired[k] <= 1
  /\ k \notin TapHoldKeys => tap_hold_state[k] = Released
  /\ tap_hold_state[k].hold => prev_state[k] /\ age[k] >= tap_hold_threshold
  /\ fired[k] = 1 /\ prev_state[k] => tap_hold_state[k].hold
TapHoldInv == \A k \in Keys : TapHoldOf(k)

\* No sticky key and no odd press before the first frame.
Fresh == ~settled => odd = {} /\ \A k \in Keys : sticky_state[k] = {}

\* The sticky key of a layer is on exactly when the layer is.
StickyToggledOf(m) ==
  /\ m.target \in layer_state_mask <=> m \in odd
  /\ m.target \in layer_state_mask <=> sticky_state[m.key] \cap m.layers # {}
StickyToggled == settled => \A m \in Range(mappings) : Toggles(m) => StickyToggledOf(m)

StickyInv == TypeOK /\ Fresh /\ StickyIsActive /\ StickyToggled

-----------------------------------------------------------------------------
(* Compiling.                                                              *)

\* A compiled mapping is a mapping, and held layers' keys work on their layers.
LEMMA LayersOfType ==
  ASSUME NEW m \in Mappings
  PROVE  /\ LayersOf(m) \in SUBSET Layer
         /\ m.target \in Layer /\ ~m.sticky => m.target \in LayersOf(m)
BY LayersAssumption DEF LayersOf, Mappings

LEMMA CompiledType ==
  ASSUME NEW config \in Configs
  PROVE  /\ Compiled(config) \in Seq(Mappings)
         /\ \A m \in Range(Compiled(config)) : m.target \in Layer /\ ~m.sticky => m.target \in m.layers
<1> DEFINE new(n) == [config[n] EXCEPT !.layers = LayersOf(config[n])]
<1>1. config \in Seq(Mappings)
  BY LayersAssumption
<1>2. DOMAIN config = 1 .. Len(config) /\ Len(config) \in Nat
  BY <1>1
<1>3. ASSUME NEW n \in DOMAIN config
      PROVE  /\ new(n) \in Mappings
             /\ new(n).target \in Layer /\ ~new(n).sticky => new(n).target \in new(n).layers
  <2>1. config[n] \in Mappings
    BY <1>1
  <2> QED
    BY <2>1, LayersOfType DEF Mappings
<1>4. Compiled(config) = [n \in 1 .. Len(config) |-> new(n)]
  BY <1>2 DEF Compiled
<1> HIDE DEF new
<1>5. Compiled(config) \in Seq(Mappings)
  BY <1>2, <1>3, <1>4
<1>6. \A m \in Range(Compiled(config)) : \E n \in DOMAIN config : m = new(n)
  BY <1>2, <1>4 DEF Range
<1> QED
  BY <1>3, <1>5, <1>6

-----------------------------------------------------------------------------
(* Tap and hold.                                                           *)

\* The age of a press is a time up to the threshold.
LEMMA AgeType ==
  ASSUME TypeOK, NEW k \in Keys
  PROVE  Age(k) \in 0 .. tap_hold_threshold
BY LayersAssumption DEF TypeOK, Age

LEMMA StepTapHoldType ==
  ASSUME TypeOK, NEW k \in Keys
  PROVE  StepTapHold(k) \in [tap : BOOLEAN, hold : BOOLEAN, prev_hold : BOOLEAN]
<1>1. tap_hold_state[k] \in [tap : BOOLEAN, hold : BOOLEAN, prev_hold : BOOLEAN]
  BY DEF TypeOK
<1>2. input_state[k] \in BOOLEAN /\ prev_state[k] \in BOOLEAN
  BY DEF TypeOK
<1>3. Taps(k) \in BOOLEAN /\ Holds(k) \in BOOLEAN
  BY <1>2 DEF Taps, Holds
<1> QED
  BY <1>1, <1>3 DEF StepTapHold

\* Taps, holds and presses, with types that the provers know.
LEMMA StepTapHoldOf ==
  ASSUME TypeOK, NEW k \in TapHoldKeys
  PROVE  /\ StepTapHold(k).tap = Taps(k)
         /\ StepTapHold(k).hold = Holds(k)
         /\ StepTapHold(k).prev_hold = tap_hold_state[k].hold
BY DEF StepTapHold

-----------------------------------------------------------------------------
(* Sticky states.                                                          *)

LEMMA ToggledType ==
  ASSUME TypeOK, NEW k \in Keys
  PROVE  Toggled(k) \in SUBSET Layer
<1>1. sticky_state[k] \in SUBSET Layer /\ layer_state_mask \in SUBSET Layer
  BY DEF TypeOK
<1> QED
  BY <1>1 DEF Toggled, Xor

\* Every turn of the loop can only clear sticky states.
LEMMA StickyShrinks ==
  ASSUME TypeOK, NEW k, NEW n \in DOMAIN mappings
  PROVE  Sticky(k, Len(mappings)) \subseteq Sticky(k, n)
<1>1. n <= Len(mappings) /\ n \in Nat /\ Len(mappings) \in Nat /\ DOMAIN mappings = 1 .. Len(mappings)
  BY DEF TypeOK
<1>2. \A i \in DOMAIN mappings : i <= n => i <= Len(mappings)
  BY <1>1
<1> QED
  BY <1>2 DEF Sticky

\* What is sticky after a frame has turned its layer on.
LEMMA StickyActivates ==
  ASSUME TypeOK, process_mapping, NEW m \in LayerMappings, m.sticky,
         Sticky(m.key, Len(mappings)) \cap m.layers # {}
  PROVE  m.target \in layer_state_mask'
<1>1. PICK n \in DOMAIN mappings : m = mappings[n]
  BY DEF LayerMappings, Range
<1>2. Sticky(m.key, n) \cap m.layers # {}
  BY <1>1, StickyShrinks
<1>3. Activates(n)
  BY <1>1, <1>2 DEF Activates, LayerMappings
<1> QED
  BY <1>1, <1>3 DEF process_mapping, OrLayerZero

-----------------------------------------------------------------------------
(* Types.                                                                  *)

LEMMA InitType == Init => TypeOK /\ WorksOnTarget
<1> SUFFICES ASSUME Init PROVE TypeOK /\ WorksOnTarget
  OBVIOUS
<1>1. PICK config \in Configs : mappings = Compiled(config)
  BY DEF Init
<1>2. mappings \in Seq(Mappings) /\ WorksOnTarget
  BY <1>1, CompiledType DEF WorksOnTarget
<1>3. age \in [Keys -> 0 .. tap_hold_threshold] /\ layer_state_mask \in (SUBSET Layer) \ {{}}
  BY LayersAssumption DEF Init, Layer
<1>4. tap_hold_state \in [Keys -> [tap : BOOLEAN, hold : BOOLEAN, prev_hold : BOOLEAN]]
  BY DEF Init, Released
<1>5. sticky_state \in [Keys -> SUBSET Layer] /\ odd \subseteq Mappings /\ fired \in [Keys -> Nat]
  BY DEF Init
<1>6. /\ input_state \in [Keys -> BOOLEAN] /\ prev_state \in [Keys -> BOOLEAN]
      /\ settled \in BOOLEAN /\ suspended \in BOOLEAN
  BY DEF Init, None
<1> QED
  BY <1>2, <1>3, <1>4, <1>5, <1>6 DEF TypeOK

LEMMA ClearedType ==
  ASSUME TypeOK, StateCleared, mappings' \in Seq(Mappings),
         layer_state_mask' \in (SUBSET Layer) \ {{}}, suspended' \in BOOLEAN
  PROVE  TypeOK'
<1>1. age' \in [Keys -> 0 .. tap_hold_threshold]
  BY LayersAssumption DEF StateCleared
<1>2. tap_hold_state' \in [Keys -> [tap : BOOLEAN, hold : BOOLEAN, prev_hold : BOOLEAN]]
  BY DEF StateCleared, Released
<1>3. sticky_state' \in [Keys -> SUBSET Layer] /\ odd' \subseteq Mappings /\ fired' \in [Keys -> Nat]
  BY DEF StateCleared
<1>4. input_state' \in [Keys -> BOOLEAN] /\ prev_state' \in [Keys -> BOOLEAN] /\ settled' \in BOOLEAN
  BY DEF StateCleared, None
<1> QED
  BY <1>1, <1>2, <1>3, <1>4 DEF TypeOK

\* The active layers after a frame are layers, and there are some.
LEMMA FrameLayers ==
  ASSUME TypeOK, process_mapping
  PROVE  layer_state_mask' \in (SUBSET Layer) \ {{}}
<1> DEFINE active == {mappings[n].target : n \in {i \in DOMAIN mappings : Activates(i)}}
<1>1. ASSUME NEW n \in DOMAIN mappings, Activates(n)
      PROVE  mappings[n].target \in Layer
  <2>1. mappings[n] \in Mappings
    BY DEF TypeOK
  <2> QED
    BY <1>1, <2>1 DEF Activates, Mappings
<1>2. active \subseteq Layer
  BY <1>1
<1>3. 0 \in Layer
  BY LayersAssumption DEF Layer
<1>4. layer_state_mask' = OrLayerZero(active)
  BY DEF process_mapping
<1> HIDE DEF active
<1> QED
  BY <1>2, <1>3, <1>4 DEF OrLayerZero

LEMMA FrameType ==
  ASSUME TypeOK, process_mapping
  PROVE  TypeOK'
<1>1. age' \in [Keys -> 0 .. tap_hold_threshold]
  BY AgeType DEF process_mapping
<1>2. tap_hold_state' \in [Keys -> [tap : BOOLEAN, hold : BOOLEAN, prev_hold : BOOLEAN]]
  BY StepTapHoldType DEF process_mapping
<1>3. sticky_state' \in [Keys -> SUBSET Layer]
  <2>1. \A k \in Keys : Sticky(k, Len(mappings)) \in SUBSET Layer
    BY ToggledType DEF Sticky
  <2> QED
    BY <2>1 DEF process_mapping
<1>4. layer_state_mask' \in (SUBSET Layer) \ {{}}
  BY FrameLayers
<1>5. fired' \in [Keys -> Nat]
  <2>1. \A k \in Keys : fired[k] \in Nat
    BY DEF TypeOK
  <2> QED
    BY <2>1 DEF process_mapping
<1>6. odd' \subseteq Mappings
  <2>1. Range(mappings) \subseteq Mappings
    BY DEF TypeOK, Range
  <2> QED
    BY <2>1 DEF process_mapping, TypeOK, Xor
<1> QED
  BY <1>1, <1>2, <1>3, <1>4, <1>5, <1>6 DEF process_mapping, TypeOK

LEMMA TypeStep ==
  ASSUME TypeOK, WorksOnTarget, [Next]_vars
  PROVE  TypeOK' /\ WorksOnTarget'
<1>1. ASSUME NEW k \in Keys, read_input(k)
      PROVE  TypeOK' /\ WorksOnTarget'
  BY <1>1 DEF read_input, TypeOK, WorksOnTarget
<1>2. CASE TimePasses
  <2>1. \A k \in Keys : age[k] \in 0 .. tap_hold_threshold
    BY DEF TypeOK
  <2>2. age' \in [Keys -> 0 .. tap_hold_threshold]
    BY <1>2, <2>1, LayersAssumption DEF TimePasses
  <2> QED
    BY <1>2, <2>2 DEF TimePasses, TypeOK, WorksOnTarget
<1>3. CASE process_mapping
  BY <1>3, FrameType DEF process_mapping, WorksOnTarget
<1>4. CASE set_mapping_from_config
  <2>1. TypeOK'
    BY <1>4, ClearedType DEF set_mapping_from_config, TypeOK
  <2> QED
    BY <1>4, <2>1 DEF set_mapping_from_config, WorksOnTarget
<1>5. CASE SUSPEND
  BY <1>5 DEF SUSPEND, TypeOK, WorksOnTarget
<1>6. ASSUME NEW config \in Configs, RESUME(config)
      PROVE  TypeOK' /\ WorksOnTarget'
  <2>1. mappings' \in Seq(Mappings) /\ WorksOnTarget'
    BY <1>6, CompiledType DEF RESUME, WorksOnTarget
  <2>2. {0} \in (SUBSET Layer) \ {{}}
    BY LayersAssumption DEF Layer
  <2> QED
    BY <1>6, <2>1, <2>2, ClearedType DEF RESUME
<1>7. CASE UNCHANGED vars
  BY <1>7 DEF vars, TypeOK, WorksOnTarget
<1> QED
  BY <1>1, <1>2, <1>3, <1>4, <1>5, <1>6, <1>7 DEF Next

\* Type correctness; above all, a layer is active after every frame.
THEOREM TypeCorrect == Spec => []TypeOK
<1>1. Spec => [](TypeOK /\ WorksOnTarget)
  BY InitType, TypeStep, PTL DEF Spec
<1> QED
  BY <1>1, PTL

-----------------------------------------------------------------------------
(* A press is a tap or a hold once.                                        *)

\* The heart of it: a hold that began goes on until the release, which then comes
\* too late for a tap; what is pressed anew is younger than the threshold.
LEMMA TapHoldFrame ==
  ASSUME TypeOK, process_mapping, NEW k \in Keys, TapHoldOf(k)
  PROVE  TapHoldOf(k)'
<1>1. fired[k] \in Nat /\ age[k] \in Nat /\ tap_hold_threshold \in Nat \ {0}
  BY LayersAssumption DEF TypeOK
<1>2. /\ fired'[k] = (IF Pressed(k) THEN 0 ELSE fired[k])
                      + (IF StepTapHold(k).tap \/ HoldBegins(k) THEN 1 ELSE 0)
      /\ tap_hold_state'[k] = StepTapHold(k)
      /\ age'[k] = Age(k)
      /\ prev_state'[k] = input_state[k]
  BY DEF process_mapping
<1>3. TapHoldKeys' = TapHoldKeys
  BY DEF process_mapping, TapHoldKeys
<1>4. CASE k \notin TapHoldKeys
  <2>1. StepTapHold(k) = Released
    BY <1>4 DEF StepTapHold, TapHoldOf
  <2>2. ~StepTapHold(k).tap /\ ~StepTapHold(k).hold /\ ~HoldBegins(k)
    BY <2>1 DEF Released, HoldBegins
  <2> QED
    BY <1>1, <1>2, <1>3, <1>4, <2>1, <2>2 DEF TapHoldOf, Pressed, Released
<1>5. CASE k \in TapHoldKeys
  <2>1. /\ StepTapHold(k).tap <=> Taps(k)
        /\ StepTapHold(k).hold <=> Holds(k)
        /\ HoldBegins(k) <=> Holds(k) /\ ~tap_hold_state[k].hold
    BY <1>5, StepTapHoldOf DEF HoldBegins
  <2>2. CASE Pressed(k)
    <3>1. ~Taps(k) /\ ~Holds(k)
      BY <1>1, <1>5, <2>2 DEF Pressed, Taps, Holds, Age
    <3> QED
      BY <1>1, <1>2, <1>3, <1>5, <2>1, <2>2, <3>1 DEF TapHoldOf, Pressed
  <2>3. CASE ~Pressed(k)
    <3>1. Age(k) = age[k]
      BY <2>3 DEF Age
    <3>2. fired'[k] = fired[k] + (IF Taps(k) \/ (Holds(k) /\ ~tap_hold_state[k].hold) THEN 1 ELSE 0)
      BY <1>2, <2>1, <2>3
    <3>3. tap_hold_state'[k].hold <=> Holds(k)
      BY <1>2, <2>1
    <3>4. fired[k] = 1 => ~Taps(k) /\ (Holds(k) => tap_hold_state[k].hold)
      BY <1>1, <2>3, <3>1 DEF TapHoldOf, Pressed, Taps, Holds
    <3>5. fired[k] = 1 /\ input_state[k] => Holds(k)
      BY <1>1, <2>3, <3>1 DEF TapHoldOf, Pressed, Holds
    <3>6. fired'[k] <= 1
      BY <1>1, <3>2, <3>4 DEF TapHoldOf
    <3>7. fired'[k] = 1 /\ input_state[k] => Holds(k)
      BY <1>1, <3>2, <3>5 DEF Taps, TapHoldOf
    <3> QED
      BY <1>2, <1>3, <1>5, <3>1, <3>3, <3>6, <3>7 DEF TapHoldOf, Holds
  <2> QED
    BY <2>2, <2>3
<1> QED
  BY <1>4, <1>5

LEMMA TapHoldStep ==
  ASSUME TypeOK, TapHoldInv, [Next]_vars
  PROVE  TapHoldInv'
<1>1. ASSUME NEW k \in Keys, read_input(k)
      PROVE  TapHoldInv'
  BY <1>1 DEF read_input, TapHoldInv, TapHoldOf, TapHoldKeys
<1>2. CASE TimePasses
  <2>1. \A k \in Keys : age[k] \in Nat /\ tap_hold_threshold \in Nat
    BY LayersAssumption DEF TypeOK
  <2>2. \A k \in Keys : age[k] >= tap_hold_threshold => age'[k] >= tap_hold_threshold
    BY <1>2, <2>1 DEF TimePasses
  <2> QED
    BY <1>2, <2>2 DEF TimePasses, TapHoldInv, TapHoldOf, TapHoldKeys
<1>3. CASE process_mapping
  BY <1>3, TapHoldFrame DEF TapHoldInv
<1>4. ASSUME StateCleared
      PROVE  TapHoldInv'
  BY <1>4 DEF StateCleared, TapHoldInv, TapHoldOf, Released
<1>5. CASE SUSPEND
  BY <1>5 DEF SUSPEND, TapHoldInv, TapHoldOf, TapHoldKeys
<1>6. CASE UNCHANGED vars
  BY <1>6 DEF vars, TapHoldInv, TapHoldOf, TapHoldKeys
<1> QED
  BY <1>1, <1>2, <1>3, <1>4, <1>5, <1>6 DEF Next, set_mapping_from_config, RESUME

\* A press is a tap once, or the beginning of a hold once, or neither.
THEOREM OneTapOrHold == Spec => []TapHoldOnce
<1>1. Init => TapHoldInv
  BY DEF Init, TapHoldInv, TapHoldOf, Released
<1>2. Spec => []TapHoldInv
  <2>1. TypeOK /\ TapHoldInv /\ [Next]_vars => TapHoldInv'
    BY TapHoldStep
  <2> QED
    BY <1>1, <2>1, TypeCorrect, PTL DEF Spec
<1>3. TapHoldInv => TapHoldOnce
  BY DEF TapHoldInv, TapHoldOf, TapHoldOnce
<1> QED
  BY <1>2, <1>3, PTL

-----------------------------------------------------------------------------
(* Held layers.                                                            *)

\* The mapping of a held layer's key is on the layer, so the next frame finds it.
THEOREM HeldLayers == Spec => HeldLayerStays
<1> DEFINE Stays == process_mapping =>
                      \A m \in LayerMappings :
                        /\ ~m.sticky
                        /\ m.target \in layer_state_mask
                        /\ IF m.hold THEN tap_hold_state'[m.key].hold ELSE input_state[m.key]
                        => m.target \in layer_state_mask'
<1>1. ASSUME TypeOK, WorksOnTarget, process_mapping, NEW m \in LayerMappings,
             ~m.sticky, m.target \in layer_state_mask,
             IF m.hold THEN tap_hold_state'[m.key].hold ELSE input_state[m.key]
      PROVE  m.target \in layer_state_mask'
  <2>1. PICK n \in DOMAIN mappings : m = mappings[n]
    BY DEF LayerMappings, Range
  <2>2. m \in Range(mappings) /\ m.target \in Layer
    BY DEF LayerMappings
  <2>3. m.key \in Keys
    <3>1. m \in Mappings
      BY <1>1, <2>1 DEF TypeOK
    <3> QED
      BY <3>1 DEF Mappings
  <2>4. Down(m)
    BY <1>1, <2>3 DEF Down, process_mapping
  <2>5. m.target \in m.layers
    BY <1>1, <2>2 DEF WorksOnTarget
  <2>6. Activates(n)
    BY <1>1, <2>1, <2>2, <2>4, <2>5 DEF Activates
  <2> QED
    BY <1>1, <2>1, <2>6 DEF process_mapping, OrLayerZero
<1>2. TypeOK /\ WorksOnTarget /\ [Next]_vars => [Stays]_vars
  BY <1>1
<1>3. Spec => [](TypeOK /\ WorksOnTarget)
  BY InitType, TypeStep, PTL DEF Spec
<1> QED
  BY <1>2, <1>3, PTL DEF Spec, HeldLayerStays

-----------------------------------------------------------------------------
(* Sticky layers.                                                          *)

\* Of a toggling mapping's key, the loops over sticky usages see this mapping alone.
LEMMA TogglesAlone ==
  ASSUME NEW m \in Range(mappings), Toggles(m)
  PROVE  Toggled(m.key) = IF Triggered(m) THEN Xor(sticky_state[m.key], layer_state_mask \cap m.layers)
                                          ELSE sticky_state[m.key]
<1> DEFINE k == m.key
<1>1. \A n \in Range(mappings) : n.key = k /\ n.sticky => n = m
  BY DEF Toggles
<1>2. m.sticky /\ ~(m.tap /\ m.hold)
  BY DEF Toggles
<1>3. /\ StickyOn(k) = IF Plain(m) THEN m.layers ELSE {}
      /\ TapStickyOn(k) = IF m.tap THEN m.layers ELSE {}
      /\ HoldStickyOn(k) = IF m.hold THEN m.layers ELSE {}
  BY <1>1, <1>2 DEF StickyOn, TapStickyOn, HoldStickyOn
<1>4. CASE Plain(m)
  BY <1>3, <1>4 DEF Toggled, Triggered, Plain, Xor
<1>5. CASE m.tap
  BY <1>2, <1>3, <1>5 DEF Toggled, Triggered, Plain, Xor
<1>6. CASE m.hold
  BY <1>2, <1>3, <1>6 DEF Toggled, Triggered, Plain, Xor
<1> QED
  BY <1>4, <1>5, <1>6 DEF Plain

\* So does the loop over layer mappings, from its turn on.
LEMMA LeavesAlone ==
  ASSUME TypeOK, NEW m \in Range(mappings), Toggles(m),
         NEW n \in Nat, \E i \in DOMAIN mappings : i <= n /\ mappings[i] = m
  PROVE  Sticky(m.key, n) = IF Leaves(m) THEN Toggled(m.key) \ m.layers ELSE Toggled(m.key)
<1> DEFINE cleared == {i \in DOMAIN mappings : i <= n /\ mappings[i].key = m.key /\ Leaves(mappings[i])}
<1>1. \A i \in cleared : mappings[i] = m
  BY DEF Toggles, Leaves, Range
<1>2. CASE Leaves(m)
  <2>1. UNION {mappings[j].layers : j \in cleared} = m.layers
    BY <1>1, <1>2
  <2> QED
    BY <1>2, <2>1 DEF Sticky
<1>3. CASE ~Leaves(m)
  <2>1. cleared = {}
    BY <1>1, <1>3
  <2> QED
    BY <1>3, <2>1 DEF Sticky
<1> QED
  BY <1>2, <1>3

\* Its layer is active after the frame exactly when its key stayed sticky.
LEMMA ActiveIffSticky ==
  ASSUME TypeOK, process_mapping, NEW m \in Range(mappings), Toggles(m)
  PROVE  /\ m.target \in layer_state_mask' <=> sticky_state'[m.key] \cap m.layers # {}
         /\ sticky_state'[m.key] = IF Leaves(m) THEN Toggled(m.key) \ m.layers ELSE Toggled(m.key)
<1>1. PICK p \in DOMAIN mappings : mappings[p] = m
  BY DEF Range
<1>2. /\ DOMAIN mappings = 1 .. Len(mappings) /\ Len(mappings) \in Nat
      /\ m \in Mappings
  BY <1>1 DEF TypeOK
<1>3. m.key \in Keys
  BY <1>2 DEF Mappings
<1>4. sticky_state'[m.key] = Sticky(m.key, Len(mappings))
  BY <1>3 DEF process_mapping
<1> DEFINE left == IF Leaves(m) THEN Toggled(m.key) \ m.layers ELSE Toggled(m.key)
<1>5. ASSUME NEW n \in Nat, \E i \in DOMAIN mappings : i <= n /\ mappings[i] = m
      PROVE  Sticky(m.key, n) = left
  BY <1>5, LeavesAlone
<1>6. p <= Len(mappings)
  BY <1>2
<1> HIDE DEF left
<1>7. sticky_state'[m.key] = left
  BY <1>1, <1>2, <1>4, <1>5, <1>6
<1>8. ASSUME sticky_state'[m.key] \cap m.layers # {}
      PROVE  m.target \in layer_state_mask'
  BY <1>4, <1>8, StickyActivates DEF Toggles
<1>9. ASSUME m.target \in layer_state_mask'
      PROVE  sticky_state'[m.key] \cap m.layers # {}
  <2>1. PICK n \in DOMAIN mappings : Activates(n) /\ mappings[n].target = m.target
    BY <1>9 DEF process_mapping, OrLayerZero, Toggles
  <2>2. mappings[n] = m
    BY <2>1 DEF Toggles, Range
  <2>3. Sticky(m.key, n) \cap m.layers # {}
    BY <2>1, <2>2 DEF Activates, Toggles
  <2>4. Sticky(m.key, n) = sticky_state'[m.key]
    <3>1. n \in Nat /\ n <= n
      BY <1>2
    <3> QED
      BY <1>7, <1>5, <2>2, <3>1
  <2> QED
    BY <2>3, <2>4
<1> QED
  BY <1>7, <1>8, <1>9 DEF left

\* A frame with a trigger turns the layer on or off, one without leaves it.
LEMMA ToggleFrame ==
  ASSUME StickyInv, process_mapping, NEW m \in Range(mappings), Toggles(m)
  PROVE  StickyToggledOf(m)'
<1> USE DEF StickyInv
<1>1. /\ m.target \in layer_state_mask' <=> sticky_state'[m.key] \cap m.layers # {}
      /\ sticky_state'[m.key] = IF Leaves(m) THEN Toggled(m.key) \ m.layers ELSE Toggled(m.key)
  BY ActiveIffSticky
<1>2. m \in odd' <=> ((m \in odd) # (Triggered(m) /\ (settled \/ m.target \notin layer_state_mask)))
  BY DEF process_mapping, Toggles, Xor
<1>3. /\ m.key \in Keys
      /\ m.layers = Layer \ {m.target}
      /\ layer_state_mask # {} /\ layer_state_mask \subseteq Layer
  <2>1. m \in Mappings
    BY DEF TypeOK, Range
  <2>2. m.key \in Keys
    BY <2>1 DEF Mappings
  <2> QED
    BY <2>2 DEF TypeOK, Toggles
<1>4. Leaves(m) <=> Triggered(m) /\ m.target \in layer_state_mask
  BY DEF Leaves, Toggles, LayerMappings
<1>5. IF settled THEN StickyToggledOf(m)
                 ELSE m \notin odd /\ sticky_state[m.key] = {}
  BY <1>3 DEF StickyToggled, Fresh
<1>6. CASE ~Triggered(m)
  <2>1. sticky_state'[m.key] = sticky_state[m.key]
    BY <1>1, <1>4, <1>6, TogglesAlone
  <2>2. m \in odd' <=> m \in odd
    BY <1>2, <1>6
  <2> QED
    BY <1>1, <1>5, <2>1, <2>2 DEF StickyToggledOf
<1>7. CASE Triggered(m) /\ m.target \in layer_state_mask
  <2>1. sticky_state'[m.key] \cap m.layers = {}
    BY <1>1, <1>4, <1>7
  <2>2. m \notin odd'
    BY <1>2, <1>5, <1>7 DEF StickyToggledOf
  <2> QED
    BY <1>1, <2>1, <2>2 DEF StickyToggledOf
<1>8. CASE Triggered(m) /\ m.target \notin layer_state_mask
  <2>1. sticky_state[m.key] \cap m.layers = {} /\ m \notin odd
    BY <1>5, <1>8 DEF StickyToggledOf
  <2>2. layer_state_mask \subseteq m.layers
    BY <1>3, <1>8
  <2>3. sticky_state'[m.key] = Xor(sticky_state[m.key], layer_state_mask \cap m.layers)
    BY <1>1, <1>4, <1>8, TogglesAlone
  <2>4. sticky_state'[m.key] \cap m.layers # {}
    BY <1>3, <2>1, <2>2, <2>3 DEF Xor
  <2>5. m \in odd'
    BY <1>2, <1>8, <2>1
  <2> QED
    BY <1>1, <2>4, <2>5 DEF StickyToggledOf
<1> QED
  BY <1>6, <1>7, <1>8

LEMMA StickyFrame ==
  ASSUME StickyInv, process_mapping
  PROVE  Fresh' /\ StickyIsActive' /\ StickyToggled'
<1> USE DEF StickyInv
<1>1. mappings' = mappings /\ settled'
  BY DEF process_mapping
<1>2. Fresh'
  BY <1>1 DEF Fresh
<1>3. StickyIsActive'
  <2>1. ASSUME NEW m \in LayerMappings, m.sticky, sticky_state'[m.key] \cap m.layers # {}
        PROVE  m.target \in layer_state_mask'
    <3>1. m \in Mappings
      BY DEF TypeOK, LayerMappings, Range
    <3>2. m.key \in Keys
      BY <3>1 DEF Mappings
    <3>3. sticky_state'[m.key] = Sticky(m.key, Len(mappings))
      BY <3>2 DEF process_mapping
    <3> QED
      BY <2>1, <3>3, StickyActivates
  <2> QED
    BY <1>1, <2>1 DEF StickyIsActive, LayerMappings
<1>4. StickyToggled'
  <2>1. \A m \in Range(mappings) : Toggles(m)' <=> Toggles(m)
    BY <1>1 DEF Toggles, LayerMappings
  <2> QED
    BY <1>1, <2>1, ToggleFrame DEF StickyToggled
<1> QED
  BY <1>2, <1>3, <1>4

LEMMA StickyStep ==
  ASSUME StickyInv, WorksOnTarget, [Next]_vars
  PROVE  StickyInv'
<1>1. TypeOK'
  BY TypeStep DEF StickyInv
<1>2. CASE process_mapping
  BY <1>1, <1>2, StickyFrame DEF StickyInv
<1>3. ASSUME StateCleared
      PROVE  StickyInv'
  BY <1>1, <1>3 DEF StickyInv, StateCleared, Fresh, StickyIsActive, StickyToggled
<1>4. ASSUME UNCHANGED <<mappings, sticky_state, layer_state_mask, settled, odd>>
      PROVE  StickyInv'
  <2>1. \A m \in Range(mappings) : /\ Toggles(m)' <=> Toggles(m)
                                   /\ StickyToggledOf(m)' <=> StickyToggledOf(m)
    BY <1>4 DEF Toggles, LayerMappings, StickyToggledOf
  <2> QED
    BY <1>1, <1>4, <2>1 DEF StickyInv, Fresh, StickyIsActive, StickyToggled, LayerMappings
<1> QED
  BY <1>2, <1>3, <1>4
  DEF Next, vars, read_input, TimePasses, SUSPEND, set_mapping_from_config, RESUME

LEMMA StickyAlways == Spec => []StickyInv
<1>1. Init => StickyInv
  BY InitType DEF Init, StickyInv, Fresh, StickyIsActive, StickyToggled
<1>2. Spec => [](TypeOK /\ WorksOnTarget)
  BY InitType, TypeStep, PTL DEF Spec
<1>3. StickyInv /\ WorksOnTarget /\ [Next]_vars => StickyInv'
  BY StickyStep
<1> QED
  BY <1>1, <1>2, <1>3, PTL DEF Spec

\* No sticky key of a layer is left on without the layer.
THEOREM StickyLayers == Spec => []StickyIsActive
<1>1. StickyInv => StickyIsActive
  BY DEF StickyInv
<1> QED
  BY <1>1, StickyAlways, PTL

\* A layer that one mapping toggles is active after an odd number of triggers.
THEOREM OddPresses == Spec => []StickyToggles
<1>1. StickyInv => StickyToggles
  BY DEF StickyInv, StickyToggled, StickyToggledOf, StickyToggles
<1> QED
  BY <1>1, StickyAlways, PTL

-----------------------------------------------------------------------------
(* Mapping is Layers with an output.                                       *)

\* A build has configurations, and what is passed through is so on layers.
BuildInv == build \in Builds /\ passthrough \subseteq Layer

LEMMA InitIsLayers == MappingInit => Init /\ BuildInv
<1> SUFFICES ASSUME MappingInit PROVE Init /\ BuildInv
  OBVIOUS
<1>1. Init /\ build \in Builds
  BY DEF MappingInit
<1>2. PICK config \in build.configs : passthrough = PassthroughOf[config]
  BY DEF MappingInit
<1>3. config \in Configs
  BY <1>1, <1>2, MappingAssumption
<1>4. PassthroughOf[config] \in SUBSET Layer
  BY <1>3, MappingAssumption
<1> QED
  BY <1>1, <1>2, <1>4 DEF BuildInv

LEMMA StepIsLayers ==
  ASSUME BuildInv, [MappingNext]_<<vars, output>>
  PROVE  BuildInv' /\ [Next]_vars
<1>1. build.keys \subseteq Keys /\ build.configs \subseteq Configs
  BY MappingAssumption DEF BuildInv
<1>2. ASSUME NEW k \in build.keys, ReadInput(k) PROVE BuildInv' /\ Next
  BY <1>1, <1>2 DEF ReadInput, Next, BuildInv, output
<1>3. CASE LetTimePass
  BY <1>3 DEF LetTimePass, Next, BuildInv
<1>4. CASE MapFrame
  BY <1>4 DEF MapFrame, Next, BuildInv
<1>5. CASE send_report
  BY <1>5 DEF send_report, BuildInv
<1>6. CASE CompileAgain
  BY <1>6 DEF CompileAgain, Next, BuildInv, output
<1>7. CASE Suspend
  BY <1>7 DEF Suspend, Next, BuildInv, output
<1>8. ASSUME NEW config \in Configs, Resume(config) PROVE BuildInv' /\ Next
  <2>1. PassthroughOf[config] \in SUBSET Layer
    BY MappingAssumption
  <2> QED
    BY <1>8, <2>1 DEF Resume, Next, BuildInv
<1>9. CASE KeypadOrHostChanges
  BY <1>9 DEF KeypadOrHostChanges, BuildInv
<1>10. CASE UNCHANGED <<vars, output>>
  BY <1>10 DEF BuildInv, output
<1> QED
  BY <1>2, <1>3, <1>4, <1>5, <1>6, <1>7, <1>8, <1>9, <1>10 DEF MappingNext

LEMMA BuildAlways == MappingSpec => []BuildInv
<1>1. MappingInit => BuildInv
  BY InitIsLayers
<1>2. BuildInv /\ [MappingNext]_<<vars, output>> => BuildInv'
  BY StepIsLayers
<1> QED
  BY <1>1, <1>2, PTL DEF MappingSpec

\* Whatever becomes of the layers' output, they are those of Layers: a frame with macros,
\* startup taps and reports is a frame of Layers, and all else is a step or nothing to it.
THEOREM MappingIsLayers == MappingSpec => Spec
<1>1. MappingInit => Init
  BY InitIsLayers
<1>2. BuildInv /\ [MappingNext]_<<vars, output>> => [Next]_vars
  BY StepIsLayers
<1> QED
  BY <1>1, <1>2, BuildAlways, PTL DEF MappingSpec, Spec

\* What holds of the layers holds beside macros, startup taps and a PC that is slow: a press is
\* a tap or a hold once, toggled and held layers are on exactly when they should be.
THEOREM LayersInMapping ==
  MappingSpec => [](TypeOK /\ TapHoldOnce /\ StickyToggles) /\ HeldLayerStays
  BY MappingIsLayers, TypeCorrect, OneTapOrHold, OddPresses, HeldLayers, PTL

-----------------------------------------------------------------------------
(* Layer keys.                                                             *)

\* Nothing is left to pass through of a key that is mapped on every layer; a key that holds a
\* layer is on that layer, one that toggles it is taken to be (mapped_on_layers).
LEMMA LayerKeyStep ==
  ASSUME WorksOnTarget, BuildInv', process_mapping, NEW k \in Keys, LayerKey(k),
         \A m \in Range(mappings) : m.target # k
  PROVE  ~OutputActive(k)'
<1>1. mappings' = mappings /\ passthrough' \subseteq Layer
  BY DEF process_mapping, BuildInv
<1>2. ASSUME NEW layer \in Layer PROVE layer \in mapped_on_layers(k)'
  <2>1. PICK m \in Range(mappings) : m.target \in Layer /\ m.key = k /\ (layer \in m.layers \/ m.target = layer)
    BY <1>2 DEF LayerKey, LayerMappings
  <2>2. layer \in m.layers \cup (IF m.sticky THEN {m.target} \cap Layer ELSE {})
    BY <2>1 DEF WorksOnTarget
  <2> QED
    BY <1>1, <2>1, <2>2 DEF mapped_on_layers
<1>3. unmapped_layers(k)' = {}
  BY <1>1, <1>2 DEF unmapped_layers
<1> QED
  BY <1>1, <1>3 DEF OutputActive, On

\* A key that is a layer key on every layer is never typed, on the layer it leaves or on the
\* one it turns on, whatever is passed through.
THEOREM LayerKeysAreSilent == MappingSpec => LayerKeyIsSilent
<1> DEFINE Silent == process_mapping =>
                       \A k \in Keys \cap Usages :
                         /\ LayerKey(k)
                         /\ \A m \in Range(mappings) : m.target # k
                         => ~OutputActive(k)'
<1>1. WorksOnTarget /\ BuildInv' => Silent
  BY LayerKeyStep
<1>2. Spec => []WorksOnTarget
  BY InitType, TypeStep, PTL DEF Spec
<1>3. [][Silent]_<<vars, output>> => LayerKeyIsSilent
  BY DEF LayerKeyIsSilent
<1> HIDE DEF Silent
<1> QED
  BY <1>1, <1>2, <1>3, MappingIsLayers, BuildAlways, PTL DEF MappingSpec

-----------------------------------------------------------------------------
(* Induction up to a length, and functions defined step by step.           *)

LEMMA LeastElement ==
  ASSUME NEW T \in SUBSET Nat, T # {}
  PROVE  \E x \in T : \A y \in T : x <= y
<1>1. PICK x \in T : \A y \in T : <<y, x>> \notin OpToRel(<, Nat)
  BY NatLessThanWellFounded, WFMin
<1>2. \A y \in T : ~(y < x)
  BY <1>1 DEF OpToRel
<1>3. QED
  BY <1>2

LEMMA UpTo ==
  ASSUME NEW N \in Nat, NEW T, 0 \in T, \A n \in 0 .. N - 1 : n \in T => n + 1 \in T
  PROVE  \A n \in 0 .. N : n \in T
<1> SUFFICES ASSUME NEW m \in 0 .. N, m \notin T PROVE FALSE
  OBVIOUS
<1> DEFINE U == {n \in 0 .. N : n \notin T}
<1>1. PICK x \in U : \A y \in U : x <= y
  <2>1. U \in SUBSET Nat /\ U # {}
    OBVIOUS
  <2> HIDE DEF U
  <2> QED
    BY <2>1, LeastElement
<1>2. x \in 0 .. N /\ x \notin T /\ x # 0 /\ x - 1 \in 0 .. N - 1
  BY <1>1
<1>3. x - 1 \notin U
  <2>1. ~(x <= x - 1)
    BY <1>2
  <2> QED
    BY <1>1, <2>1
<1>4. x - 1 \in T
  BY <1>2, <1>3
<1>5. x - 1 + 1 = x
  BY <1>2
<1> QED
  BY <1>2, <1>4, <1>5

\* f starts from base and goes on step by step.
Follows(f, Acc, base, N, step) ==
  /\ f \in [0 .. N -> Acc]
  /\ f[0] = base
  /\ \A n \in 0 .. N - 1 : f[n + 1] = step[n + 1][f[n]]

LEMMA FollowsExists ==
  ASSUME NEW Acc, NEW base \in Acc, NEW N \in Nat, NEW step \in [1 .. N -> [Acc -> Acc]]
  PROVE  \E f : Follows(f, Acc, base, N, step)
<1> DEFINE T == {n \in 0 .. N : \E f : Follows(f, Acc, base, n, step)}
<1>1. 0 \in T
  <2> DEFINE f == [n \in 0 .. 0 |-> base]
  <2>1. Follows(f, Acc, base, 0, step)
    BY DEF Follows
  <2> HIDE DEF f
  <2> QED
    BY <2>1
<1>2. ASSUME NEW n \in 0 .. N - 1, n \in T PROVE n + 1 \in T
  <2>1. PICK f : Follows(f, Acc, base, n, step)
    BY <1>2
  <2> DEFINE g == [m \in 0 .. n + 1 |-> IF m = n + 1 THEN step[n + 1][f[n]] ELSE f[m]]
  <2>2. f \in [0 .. n -> Acc] /\ n \in 0 .. n /\ f[n] \in Acc /\ n + 1 \in 1 .. N
    BY <2>1 DEF Follows
  <2>3. step[n + 1][f[n]] \in Acc
    BY <2>2
  <2>4. g \in [0 .. n + 1 -> Acc]
    BY <2>2, <2>3
  <2>5. g[0] = base
    BY <2>1 DEF Follows
  <2>6. ASSUME NEW m \in 0 .. (n + 1) - 1 PROVE g[m + 1] = step[m + 1][g[m]]
    <3>1. CASE m = n
      BY <3>1
    <3>2. CASE m # n
      <4>1. m \in 0 .. n - 1 /\ m + 1 \in 0 .. n + 1 /\ m + 1 # n + 1 /\ m # n + 1 /\ m \in 0 .. n + 1
        BY <3>2
      <4>2. f[m + 1] = step[m + 1][f[m]]
        BY <2>1, <4>1 DEF Follows
      <4> QED
        BY <4>1, <4>2
    <3> QED
      BY <3>1, <3>2
  <2>7. Follows(g, Acc, base, n + 1, step) /\ n + 1 \in 0 .. N
    <3> HIDE DEF g
    <3> QED
      BY <2>4, <2>5, <2>6 DEF Follows
  <2> HIDE DEF g
  <2> QED
    BY <2>7
<1>3. \A n \in 0 .. N : n \in T
  <2> HIDE DEF T
  <2> QED
    BY <1>1, <1>2, UpTo
<1> QED
  BY <1>3

-----------------------------------------------------------------------------
(* The usages that are on, the macros that are triggered, and the report.  *)

LEMMA InOrderIs == ASSUME NEW active \in SUBSET Usages PROVE InOrder(active) \in Seq(active)
<1> DEFINE N == Len(MappingOrder)
           next(s, n) == IF MappingOrder[n] \in active THEN Append(s, MappingOrder[n]) ELSE s
           Acc == Seq(active)
           step == [n \in 1 .. N |-> [s \in Acc |-> next(s, n)]]
<1>1. N \in Nat /\ << >> \in Acc
  BY MappingAssumption, LenProperties, EmptySeq
<1>2. ASSUME NEW s \in Acc, NEW n PROVE next(s, n) \in Acc
  BY <1>2, AppendProperties
<1> HIDE DEF next, Acc
<1>3. step \in [1 .. N -> [Acc -> Acc]]
  BY <1>2
<1>4. PICK f : Follows(f, Acc, << >>, N, step)
  <2> HIDE DEF step, N
  <2> QED
    BY <1>1, <1>3, FollowsExists
<1>5. f \in [0 .. N -> Acc] /\ f[0] = << >>
  BY <1>4 DEF Follows
<1>6. ASSUME NEW n \in 0 .. N - 1 PROVE f[n + 1] = next(f[n], n + 1)
  <2>1. n + 1 \in 1 .. N /\ n \in 0 .. N /\ f[n] \in Acc
    BY <1>1, <1>5
  <2>2. f[n + 1] = step[n + 1][f[n]]
    BY <1>4 DEF Follows
  <2> QED
    BY <2>1, <2>2
<1> HIDE DEF step
<1> DEFINE Is(g) == g = [n \in 0 .. N |-> IF n = 0 THEN << >> ELSE next(g[n - 1], n)]
           own == [n \in 0 .. N |-> f[n]]
           on == CHOOSE g : Is(g)
<1>7. Is(own)
  <2> SUFFICES ASSUME NEW n \in 0 .. N PROVE f[n] = IF n = 0 THEN << >> ELSE next(own[n - 1], n)
    OBVIOUS
  <2>1. CASE n = 0
    BY <2>1, <1>5
  <2>2. CASE n # 0
    <3>1. n - 1 \in 0 .. N - 1 /\ n - 1 \in 0 .. N /\ n - 1 + 1 = n
      BY <2>2, <1>1
    <3>2. f[n] = next(f[n - 1], n)
      BY <3>1, <1>6
    <3> QED
      BY <3>1, <3>2, <2>2
  <2> QED
    BY <2>1, <2>2
<1> HIDE DEF own
<1>8. Is(on)
  <2> HIDE DEF Is
  <2> QED
    BY <1>7
<1>9. InOrder(active) = on[N]
  BY DEF InOrder, next
<1> HIDE DEF on
<1>10. \A n \in 0 .. N : on[n] \in Acc
  <2> DEFINE T == {n \in 0 .. N : on[n] \in Acc}
  <2>1. 0 \in T
    BY <1>1, <1>8
  <2>2. ASSUME NEW n \in 0 .. N - 1, n \in T PROVE n + 1 \in T
    <3>1. n + 1 \in 0 .. N /\ n + 1 # 0 /\ n + 1 - 1 = n
      BY <1>1
    <3>2. on[n + 1] = next(on[n], n + 1)
      BY <3>1, <1>8
    <3> QED
      BY <3>1, <3>2, <2>2, <1>2
  <2> HIDE DEF T
  <2>3. \A n \in 0 .. N : n \in T
    BY <1>1, <2>1, <2>2, UpTo
  <2> QED
    BY <2>3 DEF T
<1> QED
  BY <1>1, <1>9, <1>10 DEF Acc

\* What each macro that is played keeps of the queue, a frame keeps that triggers them.
LEMMA TriggeredIs ==
  ASSUME mappings \in Seq(Mappings), NEW layers, NEW Acc, macro_queue \in Acc,
         \A q \in Acc : \A m \in Range(mappings) : Plays(m, layers) => q \o Queued(m.target) \in Acc
  PROVE  TriggeredEntries(layers) \in Acc
<1> DEFINE N == Len(mappings)
           next(q, n) == IF Plays(mappings[n], layers) THEN q \o Queued(mappings[n].target) ELSE q
           step == [n \in 1 .. N |-> [q \in Acc |-> next(q, n)]]
<1>1. N \in Nat /\ macro_queue \in Acc
  BY LenProperties
<1>2. ASSUME NEW q \in Acc, NEW n \in 1 .. N PROVE next(q, n) \in Acc
  <2>1. mappings[n] \in Range(mappings)
    BY <1>1 DEF Range
  <2> QED
    BY <2>1
<1> HIDE DEF next
<1>3. step \in [1 .. N -> [Acc -> Acc]]
  BY <1>2
<1>4. PICK f : Follows(f, Acc, macro_queue, N, step)
  <2> HIDE DEF step, N
  <2> QED
    BY <1>1, <1>3, FollowsExists
<1>5. f \in [0 .. N -> Acc] /\ f[0] = macro_queue
  BY <1>4 DEF Follows
<1>6. ASSUME NEW n \in 0 .. N - 1 PROVE f[n + 1] = next(f[n], n + 1)
  <2>1. n + 1 \in 1 .. N /\ n \in 0 .. N /\ f[n] \in Acc
    BY <1>1, <1>5
  <2>2. f[n + 1] = step[n + 1][f[n]]
    BY <1>4 DEF Follows
  <2> QED
    BY <2>1, <2>2
<1> HIDE DEF step
<1> DEFINE Is(g) == g = [n \in 0 .. N |-> IF n = 0 THEN macro_queue ELSE next(g[n - 1], n)]
           own == [n \in 0 .. N |-> f[n]]
           queue == CHOOSE g : Is(g)
<1>7. Is(own)
  <2> SUFFICES ASSUME NEW n \in 0 .. N PROVE f[n] = IF n = 0 THEN macro_queue ELSE next(own[n - 1], n)
    OBVIOUS
  <2>1. CASE n = 0
    BY <2>1, <1>5
  <2>2. CASE n # 0
    <3>1. n - 1 \in 0 .. N - 1 /\ n - 1 \in 0 .. N /\ n - 1 + 1 = n
      BY <2>2, <1>1
    <3>2. f[n] = next(f[n - 1], n)
      BY <3>1, <1>6
    <3> QED
      BY <3>1, <3>2, <2>2
  <2> QED
    BY <2>1, <2>2
<1> HIDE DEF own
<1>8. Is(queue)
  <2> HIDE DEF Is
  <2> QED
    BY <1>7
<1>9. TriggeredEntries(layers) = queue[N]
  BY DEF TriggeredEntries, next
<1> HIDE DEF queue
<1>10. \A n \in 0 .. N : queue[n] \in Acc
  <2> DEFINE T == {n \in 0 .. N : queue[n] \in Acc}
  <2>1. 0 \in T
    BY <1>1, <1>8
  <2>2. ASSUME NEW n \in 0 .. N - 1, n \in T PROVE n + 1 \in T
    <3>1. n + 1 \in 0 .. N /\ n + 1 \in 1 .. N /\ n + 1 # 0 /\ n + 1 - 1 = n
      BY <1>1
    <3>2. queue[n + 1] = next(queue[n], n + 1)
      BY <3>1, <1>8
    <3> QED
      BY <3>1, <3>2, <2>2, <1>2
  <2> HIDE DEF T
  <2>3. \A n \in 0 .. N : n \in T
    BY <1>1, <2>1, <2>2, UpTo
  <2> QED
    BY <2>3 DEF T
<1> QED
  BY <1>1, <1>9, <1>10

\* put_bits: the array stays an array with what was in it, and takes all of the usages or is full.
LEMMA PutIs ==
  ASSUME NEW array \in Seq(Usages), Len(array) <= ArrayCount, NEW usages \in Seq(Usages)
  PROVE  /\ Put(array, usages) \in Seq(Usages)
         /\ Len(Put(array, usages)) <= ArrayCount
         /\ Range(usages) \subseteq Range(Put(array, usages)) \/ Len(Put(array, usages)) = ArrayCount
         /\ Range(array) \subseteq Range(Put(array, usages))
         /\ Range(Put(array, usages)) \subseteq Range(array) \cup Range(usages)
<1> DEFINE all == array \o usages
<1>1. /\ all \in Seq(Usages)
      /\ Len(all) = Len(array) + Len(usages)
      /\ \A i \in 1 .. Len(all) : all[i] = IF i <= Len(array) THEN array[i] ELSE usages[i - Len(array)]
  BY ConcatProperties
<1>2. Len(array) \in Nat /\ Len(usages) \in Nat /\ ArrayCount \in Nat /\ ArrayCount # 0
  BY MappingAssumption, LenProperties
<1>3. /\ DOMAIN array = 1 .. Len(array) /\ DOMAIN usages = 1 .. Len(usages)
      /\ DOMAIN all = 1 .. Len(all)
  BY <1>1, LenProperties
<1>4. Range(array) = {array[i] : i \in 1 .. Len(array)} /\ Range(usages) = {usages[i] : i \in 1 .. Len(usages)}
  BY <1>3 DEF Range
<1> HIDE DEF all
<1>5. CASE Len(all) <= ArrayCount
  <2>1. Put(array, usages) = all
    BY <1>5 DEF Put, all
  <2>2. Range(all) = {all[i] : i \in 1 .. Len(all)}
    BY <1>3 DEF Range
  <2>3. ASSUME NEW u \in Range(usages) PROVE u \in Range(all)
    <3>1. PICK i \in 1 .. Len(usages) : u = usages[i]
      BY <1>4
    <3>2. Len(array) + i \in 1 .. Len(all) /\ ~(Len(array) + i <= Len(array)) /\ Len(array) + i - Len(array) = i
      BY <1>1, <1>2
    <3>3. all[Len(array) + i] = usages[i]
      BY <1>1, <3>2
    <3> QED
      BY <2>2, <3>1, <3>2, <3>3
  <2>4. ASSUME NEW u \in Range(array) PROVE u \in Range(all)
    <3>1. PICK i \in 1 .. Len(array) : u = array[i]
      BY <1>4
    <3>2. i \in 1 .. Len(all) /\ i <= Len(array)
      BY <1>1, <1>2
    <3> QED
      BY <1>1, <2>2, <3>1, <3>2
  <2>5. ASSUME NEW u \in Range(all) PROVE u \in Range(array) \cup Range(usages)
    <3>1. PICK i \in 1 .. Len(all) : u = all[i]
      BY <2>2
    <3>2. CASE i <= Len(array)
      BY <1>1, <1>2, <1>4, <3>1, <3>2
    <3>3. CASE ~(i <= Len(array))
      <4>1. i - Len(array) \in 1 .. Len(usages)
        BY <1>1, <1>2, <3>3
      <4>2. u = usages[i - Len(array)]
        BY <1>1, <3>1, <3>3
      <4> QED
        BY <1>4, <4>1, <4>2
    <3> QED
      BY <3>2, <3>3
  <2> QED
    BY <1>1, <1>5, <2>1, <2>3, <2>4, <2>5
<1>6. CASE ~(Len(all) <= ArrayCount)
  <2> DEFINE cut == SubSeq(all, 1, ArrayCount)
  <2>1. Put(array, usages) = cut
    BY <1>6 DEF Put, all
  <2>2. 1 \in 1 .. Len(all) + 1 /\ ArrayCount \in 0 .. Len(all)
    BY <1>1, <1>2, <1>6
  <2>3. /\ cut \in Seq(Usages) /\ Len(cut) = ArrayCount
        /\ \A i \in 1 .. ArrayCount : cut[i] = all[i]
    <3>1. cut \in Seq(Usages)
      BY <1>1, <2>2, SubSeqProperties
    <3>2. Len(cut) = ArrayCount - 1 + 1
      BY <1>1, <1>2, <2>2, SubSeqProperties
    <3>3. \A i \in 1 .. ArrayCount : cut[i] = all[i]
      BY <1>1, <1>2, <1>6
    <3> QED
      BY <1>2, <3>1, <3>2, <3>3
  <2> HIDE DEF cut
  <2>4. Range(cut) = {cut[i] : i \in 1 .. ArrayCount}
    BY <2>3, LenProperties DEF Range
  <2>5. ASSUME NEW u \in Range(array) PROVE u \in Range(cut)
    <3>1. PICK i \in 1 .. Len(array) : u = array[i]
      BY <1>4
    <3>2. i \in 1 .. Len(all) /\ i <= Len(array) /\ i \in 1 .. ArrayCount
      BY <1>1, <1>2
    <3> QED
      BY <1>1, <2>3, <2>4, <3>1, <3>2
  <2>6. ASSUME NEW u \in Range(cut) PROVE u \in Range(array) \cup Range(usages)
    <3>1. PICK i \in 1 .. ArrayCount : u = cut[i]
      BY <2>4
    <3>2. i \in 1 .. Len(all) /\ u = all[i]
      BY <1>1, <1>2, <1>6, <2>3, <3>1
    <3>3. CASE i <= Len(array)
      BY <1>1, <1>2, <1>4, <3>2, <3>3
    <3>4. CASE ~(i <= Len(array))
      <4>1. i - Len(array) \in 1 .. Len(usages)
        BY <1>1, <1>2, <3>2, <3>4
      <4>2. u = usages[i - Len(array)]
        BY <1>1, <3>2, <3>4
      <4> QED
        BY <1>4, <4>1, <4>2
    <3> QED
      BY <3>3, <3>4
  <2> QED
    BY <1>2, <2>1, <2>3, <2>5, <2>6
<1> QED
  BY <1>5, <1>6

Reports == [id : {"keyboard", "mouse"}, keys : Seq(Usages)]
Flags == [started : BOOLEAN, ready_observed : BOOLEAN, idle_observed : BOOLEAN,
          ready : 0 .. ReadyDelay, idle : 0 .. IdleDelay]

LEMMA QueuedType == ASSUME NEW macro \in DOMAIN Macros PROVE Queued(macro) \in Seq(Entries)
<1>1. Macros[macro] \in Seq(Seq(Usages)) /\ macro_entry_duration \in Nat
  BY MappingAssumption
<1>2. /\ DOMAIN Macros[macro] = 1 .. Len(Macros[macro]) /\ Len(Macros[macro]) \in Nat
      /\ \A n \in 1 .. Len(Macros[macro]) : Macros[macro][n] \in Seq(Usages)
  BY <1>1, LenProperties, ElementOfSeq
<1>3. \A n \in 1 .. Len(Macros[macro]) :
        [items |-> Macros[macro][n], duration_left |-> macro_entry_duration] \in Entries
  BY <1>1, <1>2 DEF Entries
<1> QED
  BY <1>2, <1>3, IsASeq DEF Queued

LEMMA TriggeredType ==
  ASSUME mappings \in Seq(Mappings), macro_queue \in Seq(Entries), NEW layers
  PROVE  TriggeredEntries(layers) \in Seq(Entries)
<1>1. ASSUME NEW q \in Seq(Entries), NEW m \in Range(mappings), Plays(m, layers)
      PROVE  q \o Queued(m.target) \in Seq(Entries)
  BY <1>1, QueuedType, ConcatProperties DEF Plays
<1> QED
  BY <1>1, TriggeredIs

LEMMA TwoTapsType == TwoTaps \in Seq(Entries) /\ Len(TwoTaps) = 4
<1>1. NUM_LOCK_USAGE \in Usages /\ StartupDuration \in Nat
  BY MappingAssumption
<1>2. <<NUM_LOCK_USAGE>> \in Seq(Usages) /\ << >> \in Seq(Usages)
  BY <1>1, EmptySeq
<1>3. \A n \in 1 .. 4 : [items |-> IF n \in {1, 3} THEN <<NUM_LOCK_USAGE>> ELSE << >>,
                         duration_left |-> StartupDuration] \in Entries
  BY <1>1, <1>2 DEF Entries
<1>4. TwoTaps \in Seq(Entries)
  BY <1>3, IsASeq DEF TwoTaps
<1> QED
  BY <1>4, LenProperties DEF TwoTaps

LEMMA FrameQueueType ==
  ASSUME mappings \in Seq(Mappings), macro_queue \in Seq(Entries)
  PROVE  FrameQueue \in Seq(Entries)
<1>1. TriggeredEntries(layer_state_mask') \in Seq(Entries) /\ << >> \in Seq(Entries)
  BY TriggeredType, EmptySeq
<1> QED
  BY <1>1, TwoTapsType, ConcatProperties DEF FrameQueue

\* An entry that is over leaves, one that is not keeps its items.
LEMMA ExecutedIs ==
  ASSUME NEW queue \in Seq(Entries)
  PROVE  /\ Executed(queue) \in Seq(Entries)
         /\ Len(Executed(queue)) <= Len(queue)
         /\ \/ queue = << >> /\ Executed(queue) = << >>
            \/ /\ queue # << >> /\ Executed(queue) = Tail(queue) /\ outgoing_reports = << >>
            \/ /\ queue # << >> /\ Len(Executed(queue)) = Len(queue)
               /\ \A n \in 1 .. Len(queue) : Executed(queue)[n].items = queue[n].items
<1>1. CASE queue = << >>
  BY <1>1, EmptySeq DEF Executed
<1>2. CASE queue # << >> /\ Head(queue).duration_left > 0
  <2> DEFINE less == [queue EXCEPT ![1].duration_left = @ - 1]
  <2>1. Executed(queue) = less
    BY <1>2 DEF Executed
  <2>2. Len(queue) \in Nat /\ Len(queue) # 0 /\ DOMAIN queue = 1 .. Len(queue) /\ 1 \in DOMAIN queue
    BY <1>2, EmptySeq, LenProperties
  <2>3. \A n \in 1 .. Len(queue) : queue[n] \in Entries
    BY ElementOfSeq
  <2>4. queue[1] \in Entries /\ Head(queue) = queue[1]
    BY <1>2, <2>2, <2>3, HeadTailProperties
  <2>5. queue[1].duration_left - 1 \in Nat
    BY <1>2, <2>4 DEF Entries
  <2>6. [queue[1] EXCEPT !.duration_left = @ - 1] \in Entries
    BY <2>4, <2>5 DEF Entries
  <2>7. \A n \in 1 .. Len(queue) : less[n] \in Entries /\ less[n].items = queue[n].items
    BY <2>2, <2>3, <2>4, <2>6 DEF Entries
  <2>8. less = [n \in 1 .. Len(queue) |-> less[n]]
    BY <2>2
  <2> HIDE DEF less
  <2>9. less \in Seq(Entries) /\ Len(less) = Len(queue)
    BY <2>2, <2>7, <2>8, IsASeq
  <2> QED
    BY <1>2, <2>1, <2>2, <2>7, <2>9
<1>3. CASE queue # << >> /\ ~(Head(queue).duration_left > 0)
  <2>1. Tail(queue) \in Seq(Entries) /\ Len(Tail(queue)) = Len(queue) - 1 /\ Len(queue) \in Nat
    BY <1>3, HeadTailProperties, LenProperties
  <2>2. Executed(queue) = IF outgoing_reports = << >> THEN Tail(queue) ELSE queue
    BY <1>3 DEF Executed
  <2>3. CASE outgoing_reports = << >>
    <3>1. Executed(queue) = Tail(queue)
      BY <2>2, <2>3
    <3>2. Len(Tail(queue)) <= Len(queue)
      BY <2>1
    <3> QED
      BY <1>3, <2>1, <2>3, <3>1, <3>2
  <2>4. CASE outgoing_reports # << >>
    <3>1. Executed(queue) = queue
      BY <2>2, <2>4
    <3>2. Len(queue) <= Len(queue)
      BY <2>1
    <3> QED
      BY <1>3, <3>1, <3>2
  <2> QED
    BY <2>3, <2>4
<1> QED
  BY <1>1, <1>2, <1>3

-----------------------------------------------------------------------------
(* A frame.                                                                *)

Active == {u \in Usages : OutputActive(u)'}

\* What a frame makes of the keys, the macro queue and the reports.
Frame(mapped, queue, items, full, first) ==
  /\ mapped = Put(keys, InOrder(Active))
  /\ queue = FrameQueue
  /\ items = IF queue = << >> THEN << >> ELSE Head(queue).items
  /\ full = Put(mapped, items)
  /\ macro_queue' = Executed(queue)
  /\ crowded' = (crowded \/ ~(Range(items) \subseteq Range(full)))
  /\ first = outgoing_reports \/ first = Enqueue(outgoing_reports, MouseReport)
  /\ \/ keys' = << >> /\ prev_keys' = full /\ (full = prev_keys \/ Len(first) # OR_BUFSIZE)
     \/ keys' = full /\ prev_keys' = prev_keys /\ Len(first) = OR_BUFSIZE
  /\ LET second == IF full = prev_keys THEN first ELSE Enqueue(first, KeyboardReport(full))
     IN  outgoing_reports' = second \/ outgoing_reports' = Enqueue(second, MouseReport)

LEMMA FrameIs == MapFrame => \E mapped, queue, items, full, first : Frame(mapped, queue, items, full, first)
<1> SUFFICES ASSUME MapFrame
             PROVE  \E mapped, queue, items, full, first : Frame(mapped, queue, items, full, first)
  OBVIOUS
<1>1. PICK mapped \in {Put(keys, InOrder(Active))}, queue \in {FrameQueue},
           mouse \in {"none", "before", "after"} :
        LET items == IF queue = << >> THEN << >> ELSE Head(queue).items
            full == Put(mapped, items)
        IN  /\ macro_queue' = Executed(queue)
            /\ QueueReports(full, mouse)
            /\ crowded' = (crowded \/ ~(Range(items) \subseteq Range(full)))
  BY DEF MapFrame, Active
<1> DEFINE items == IF queue = << >> THEN << >> ELSE Head(queue).items
           full == Put(mapped, items)
           first == IF mouse = "before" THEN Enqueue(outgoing_reports, MouseReport) ELSE outgoing_reports
<1>2. QueueReports(full, mouse)
  BY <1>1
<1>3. macro_queue' = Executed(queue) /\ crowded' = (crowded \/ ~(Range(items) \subseteq Range(full)))
  BY <1>1
<1>4. mapped = Put(keys, InOrder(Active)) /\ queue = FrameQueue
  BY <1>1
<1>5. /\ QueueKeyboard(first, full, mouse)
      /\ LET second == IF full = prev_keys THEN first ELSE Enqueue(first, KeyboardReport(full))
         IN  outgoing_reports' = second \/ outgoing_reports' = Enqueue(second, MouseReport)
  <2> HIDE DEF full
  <2> QED
    BY <1>2, Zenon DEF QueueReports
<1>6. first = outgoing_reports \/ first = Enqueue(outgoing_reports, MouseReport)
  OBVIOUS
<1>7. mouse = "before" /\ Len(outgoing_reports) = OR_BUFSIZE => first = outgoing_reports
  <2>1. OR_BUFSIZE \in Nat
    BY MappingAssumption
  <2> QED
    BY <2>1 DEF Enqueue
<1>8. \/ keys' = << >> /\ prev_keys' = full /\ (full = prev_keys \/ Len(first) # OR_BUFSIZE)
      \/ keys' = full /\ prev_keys' = prev_keys /\ Len(first) = OR_BUFSIZE
  <2> HIDE DEF full, first
  <2> QED
    BY <1>5, <1>7 DEF QueueKeyboard
<1>9. Frame(mapped, queue, items, full, first)
  <2>1. items = IF queue = << >> THEN << >> ELSE Head(queue).items
    OBVIOUS
  <2>2. full = Put(mapped, items)
    OBVIOUS
  <2> HIDE DEF items, full, first
  <2> QED
    BY <1>3, <1>4, <1>5, <1>6, <1>8, <2>1, <2>2, Zenon DEF Frame
<1> HIDE DEF items, full, first
<1> QED
  BY <1>9

LEMMA SubsetOfSeq == ASSUME NEW S, NEW T, S \subseteq T, NEW s \in Seq(S) PROVE s \in Seq(T)
<1>1. Len(s) \in Nat /\ s = [i \in 1 .. Len(s) |-> s[i]] /\ \A i \in 1 .. Len(s) : s[i] \in T
  BY LenProperties, ElementOfSeq
<1> QED
  BY <1>1, IsASeq

\* What of the output's type a frame starts from.
OutputType ==
  /\ macro_queue \in Seq(Entries)
  /\ keys \in Seq(Usages) /\ Len(keys) <= ArrayCount
  /\ prev_keys \in Seq(Usages) /\ Len(prev_keys) <= ArrayCount
  /\ outgoing_reports \in Seq(Reports)
  /\ Len(outgoing_reports) <= OR_BUFSIZE

LEMMA EnqueueIs ==
  ASSUME NEW queue \in Seq(Reports), Len(queue) <= OR_BUFSIZE, NEW report \in Reports
  PROVE  /\ Enqueue(queue, report) \in Seq(Reports)
         /\ Len(Enqueue(queue, report)) <= OR_BUFSIZE
         /\ Len(Enqueue(queue, report)) <= Len(queue) + 1
<1>1. Len(queue) \in Nat /\ OR_BUFSIZE \in Nat
  BY MappingAssumption, LenProperties
<1>2. Append(queue, report) \in Seq(Reports) /\ Len(Append(queue, report)) = Len(queue) + 1
  BY AppendProperties
<1> QED
  BY <1>1, <1>2 DEF Enqueue

LEMMA FrameTypes ==
  ASSUME mappings \in Seq(Mappings), OutputType,
         NEW mapped, NEW queue, NEW items, NEW full, NEW first, Frame(mapped, queue, items, full, first)
  PROVE  /\ mapped \in Seq(Usages) /\ Len(mapped) <= ArrayCount
         /\ Range(mapped) \subseteq Range(keys) \cup Active
         /\ queue \in Seq(Entries)
         /\ items \in Seq(Usages)
         /\ full \in Seq(Usages) /\ Len(full) <= ArrayCount
         /\ Range(items) \subseteq Range(full) \/ Len(full) = ArrayCount
         /\ Range(mapped) \subseteq Range(full) /\ Range(full) \subseteq Range(mapped) \cup Range(items)
         /\ first \in Seq(Reports) /\ Len(first) <= OR_BUFSIZE
         /\ Len(first) <= Len(outgoing_reports) + 1
         /\ MouseReport \in Reports /\ KeyboardReport(full) \in Reports
<1>1. InOrder(Active) \in Seq(Active) /\ Active \subseteq Usages
  BY InOrderIs DEF Active
<1>2. InOrder(Active) \in Seq(Usages) /\ Range(InOrder(Active)) \subseteq Active
  <2>1. InOrder(Active) \in Seq(Usages)
    BY <1>1, SubsetOfSeq
  <2>2. Range(InOrder(Active)) \subseteq Active
    BY <1>1, LenProperties, ElementOfSeq DEF Range
  <2> QED
    BY <2>1, <2>2
<1>3. mapped = Put(keys, InOrder(Active)) /\ keys \in Seq(Usages) /\ Len(keys) <= ArrayCount
  BY DEF Frame, OutputType
<1>4. /\ mapped \in Seq(Usages) /\ Len(mapped) <= ArrayCount
      /\ Range(mapped) \subseteq Range(keys) \cup Active
  <2> DEFINE on == InOrder(Active)
  <2>1. on \in Seq(Usages) /\ Range(on) \subseteq Active /\ mapped = Put(keys, on)
    BY <1>2, <1>3
  <2> HIDE DEF on
  <2>2. /\ mapped \in Seq(Usages) /\ Len(mapped) <= ArrayCount
        /\ Range(mapped) \subseteq Range(keys) \cup Range(on)
    BY <1>3, <2>1, PutIs
  <2> QED
    BY <2>1, <2>2
<1>5. queue \in Seq(Entries)
  BY FrameQueueType DEF Frame, OutputType
<1>6. items \in Seq(Usages)
  <2>1. CASE queue = << >>
    BY <2>1, EmptySeq DEF Frame
  <2>2. CASE queue # << >>
    <3>1. Head(queue) \in Entries
      BY <1>5, <2>2, HeadTailProperties
    <3> QED
      BY <2>2, <3>1 DEF Frame, Entries
  <2> QED
    BY <2>1, <2>2
<1>7. full = Put(mapped, items)
  BY DEF Frame
<1>8. /\ full \in Seq(Usages) /\ Len(full) <= ArrayCount
      /\ Range(items) \subseteq Range(full) \/ Len(full) = ArrayCount
      /\ Range(mapped) \subseteq Range(full) /\ Range(full) \subseteq Range(mapped) \cup Range(items)
  BY <1>4, <1>6, <1>7, PutIs
<1>9. MouseReport \in Reports /\ KeyboardReport(full) \in Reports
  BY <1>8, EmptySeq DEF MouseReport, KeyboardReport, Reports
<1>10. /\ first \in Seq(Reports) /\ Len(first) <= OR_BUFSIZE
       /\ Len(first) <= Len(outgoing_reports) + 1
  <2>1. /\ outgoing_reports \in Seq(Reports)
        /\ Len(outgoing_reports) <= OR_BUFSIZE /\ Len(outgoing_reports) \in Nat
    BY LenProperties DEF OutputType
  <2>2. first = outgoing_reports \/ first = Enqueue(outgoing_reports, MouseReport)
    BY DEF Frame
  <2>3. CASE first = outgoing_reports
    <3>1. Len(outgoing_reports) <= Len(outgoing_reports) + 1
      BY <2>1
    <3> QED
      BY <2>1, <2>3, <3>1
  <2>4. CASE first = Enqueue(outgoing_reports, MouseReport)
    BY <1>9, <2>1, <2>4, EnqueueIs
  <2> QED
    BY <2>2, <2>3, <2>4
<1> QED
  BY <1>4, <1>5, <1>6, <1>8, <1>9, <1>10

LEMMA FrameOutput ==
  ASSUME mappings \in Seq(Mappings), OutputType, MapFrame
  PROVE  OutputType' /\ (crowded \in BOOLEAN => crowded' \in BOOLEAN)
<1>1. PICK mapped, queue, items, full, first : Frame(mapped, queue, items, full, first)
  BY FrameIs
<1>2. /\ queue \in Seq(Entries) /\ full \in Seq(Usages) /\ Len(full) <= ArrayCount
      /\ first \in Seq(Reports) /\ Len(first) <= OR_BUFSIZE
      /\ MouseReport \in Reports /\ KeyboardReport(full) \in Reports
  BY <1>1, FrameTypes
<1>3. macro_queue' \in Seq(Entries)
  BY <1>1, <1>2, ExecutedIs DEF Frame
<1>4. /\ keys' \in Seq(Usages) /\ Len(keys') <= ArrayCount
      /\ prev_keys' \in Seq(Usages) /\ Len(prev_keys') <= ArrayCount
  <2>1. \/ keys' = << >> /\ prev_keys' = full
        \/ keys' = full /\ prev_keys' = prev_keys
    BY <1>1 DEF Frame
  <2>2. << >> \in Seq(Usages) /\ Len(<< >>) <= ArrayCount
    <3>1. << >> \in Seq(Usages) /\ Len(<< >>) = 0 /\ ArrayCount \in Nat
      BY MappingAssumption, EmptySeq
    <3> QED
      BY <3>1
  <2>3. prev_keys \in Seq(Usages) /\ Len(prev_keys) <= ArrayCount
    BY DEF OutputType
  <2>4. CASE keys' = << >> /\ prev_keys' = full
    BY <1>2, <2>2, <2>4
  <2>5. CASE keys' = full /\ prev_keys' = prev_keys
    BY <1>2, <2>3, <2>5
  <2> QED
    BY <2>1, <2>4, <2>5
<1>5. outgoing_reports' \in Seq(Reports) /\ Len(outgoing_reports') <= OR_BUFSIZE
  <2> DEFINE second == IF full = prev_keys THEN first ELSE Enqueue(first, KeyboardReport(full))
  <2>1. second \in Seq(Reports) /\ Len(second) <= OR_BUFSIZE
    BY <1>2, EnqueueIs
  <2>2. outgoing_reports' = second \/ outgoing_reports' = Enqueue(second, MouseReport)
    BY <1>1 DEF Frame
  <2> HIDE DEF second
  <2> QED
    BY <1>2, <2>1, <2>2, EnqueueIs
<1>6. crowded \in BOOLEAN => crowded' \in BOOLEAN
  BY <1>1 DEF Frame
<1> QED
  BY <1>3, <1>4, <1>5, <1>6 DEF OutputType

-----------------------------------------------------------------------------
(* The types of the output.                                                *)

LEMMA ShouldStartType ==
  ASSUME NEW s \in Flags, NEW keyboard_idle, NEW queues_idle
  PROVE  should_start(s, keyboard_idle, queues_idle) \in Flags
<1> DEFINE seen == IF s.ready_observed THEN s ELSE [s EXCEPT !.ready_observed = TRUE, !.ready = 0]
           idle == IF seen.idle_observed THEN seen ELSE [seen EXCEPT !.idle_observed = TRUE, !.idle = 0]
<1>1. 0 \in 0 .. ReadyDelay /\ 0 \in 0 .. IdleDelay
  BY MappingAssumption
<1>2. seen \in Flags
  BY <1>1 DEF Flags
<1>3. NotStarted \in Flags
  BY <1>1 DEF Flags, NotStarted
<1>4. Started \in Flags
  BY <1>3 DEF Flags, Started
<1>5. idle \in Flags /\ [seen EXCEPT !.idle_observed = FALSE, !.idle = 0] \in Flags
  <2> HIDE DEF seen
  <2> QED
    BY <1>1, <1>2 DEF Flags
<1>6. should_start(s, keyboard_idle, queues_idle) \in
        {s, NotStarted, [seen EXCEPT !.idle_observed = FALSE, !.idle = 0], Started, idle}
  BY DEF should_start
<1> HIDE DEF idle, seen
<1> QED
  BY <1>3, <1>4, <1>5, <1>6

LEMMA PassedType == ASSUME NEW s \in Flags PROVE Passed(s) \in Flags
<1>1. ASSUME NEW limit \in Nat \ {0}, NEW t \in 0 .. limit, t < limit PROVE t + 1 \in 0 .. limit
  BY <1>1
<1>2. /\ (IF s.ready_observed /\ s.ready < ReadyDelay THEN s.ready + 1 ELSE s.ready) \in 0 .. ReadyDelay
      /\ (IF s.idle_observed /\ s.idle < IdleDelay THEN s.idle + 1 ELSE s.idle) \in 0 .. IdleDelay
  <2>1. /\ ReadyDelay \in Nat \ {0} /\ IdleDelay \in Nat \ {0}
        /\ s.ready \in 0 .. ReadyDelay /\ s.idle \in 0 .. IdleDelay
    BY MappingAssumption DEF Flags
  <2> QED
    BY <2>1
<1> DEFINE ready == IF s.ready_observed /\ s.ready < ReadyDelay THEN s.ready + 1 ELSE s.ready
           idle == IF s.idle_observed /\ s.idle < IdleDelay THEN s.idle + 1 ELSE s.idle
<1>3. Passed(s) = IF s.started THEN s ELSE [s EXCEPT !.ready = ready, !.idle = idle]
  BY DEF Passed
<1>4. ready \in 0 .. ReadyDelay /\ idle \in 0 .. IdleDelay
  BY <1>2
<1> HIDE DEF ready, idle
<1> QED
  BY <1>3, <1>4 DEF Flags

LEMMA MappingInitType == MappingInit => MappingTypeOK
<1> SUFFICES ASSUME MappingInit PROVE MappingTypeOK
  OBVIOUS
<1>1. build \in Builds /\ passthrough \subseteq Layer
  BY InitIsLayers DEF BuildInv
<1>2. NotStarted \in Flags
  BY MappingAssumption DEF Flags, NotStarted
<1>3. /\ << >> \in Seq(Entries) /\ << >> \in Seq(Usages) /\ << >> \in Seq(Reports)
      /\ Len(<< >>) <= ArrayCount /\ Len(<< >>) <= OR_BUFSIZE
  <2>1. Len(<< >>) = 0 /\ ArrayCount \in Nat /\ OR_BUFSIZE \in Nat
    BY MappingAssumption, EmptySeq
  <2> QED
    BY <2>1, EmptySeq
<1> QED
  BY <1>1, <1>2, <1>3 DEF MappingInit, MappingTypeOK, Reports, Flags

LEMMA MappingTypeStep ==
  ASSUME mappings \in Seq(Mappings), MappingTypeOK, [MappingNext]_<<vars, output>>
  PROVE  MappingTypeOK'
<1>1. BuildInv'
  BY StepIsLayers DEF MappingTypeOK, BuildInv
<1>2. OutputType /\ startup_numlock_sync \in Flags
  BY DEF MappingTypeOK, OutputType, Reports, Flags
<1> DEFINE HostType == /\ {present, num_lock_down, crowded} \subseteq BOOLEAN
                       /\ num_lock \in {0, 1}
<1>3. HostType
  BY DEF MappingTypeOK
<1>4. CASE UNCHANGED <<macro_queue, keys, prev_keys, outgoing_reports, startup_numlock_sync,
                       present, num_lock_down, num_lock, crowded>>
  BY <1>4, <1>1 DEF MappingTypeOK, BuildInv
<1>5. CASE LetTimePass
  <2>1. startup_numlock_sync' \in Flags
    BY <1>2, <1>5, PassedType DEF LetTimePass
  <2> QED
    BY <1>1, <1>5, <2>1 DEF LetTimePass, MappingTypeOK, BuildInv, Flags
<1>6. CASE MapFrame
  <2>1. OutputType'
    BY <1>2, <1>6, FrameOutput
  <2>2. crowded' \in BOOLEAN
    BY <1>2, <1>3, <1>6, FrameOutput
  <2>3. startup_numlock_sync' \in Flags
    <3>1. PICK mapped \in {Put(keys, InOrder(Active))}, endpoint_ready \in BOOLEAN :
            startup_numlock_sync' =
              IF build.startup
              THEN should_start(startup_numlock_sync, mapped = << >>,
                     /\ TriggeredEntries(layer_state_mask') = << >>
                     /\ outgoing_reports = << >> /\ endpoint_ready)
              ELSE startup_numlock_sync
      BY <1>6 DEF MapFrame, Active
    <3> QED
      BY <1>2, <3>1, ShouldStartType
  <2>4. UNCHANGED <<present, num_lock_down, num_lock>>
    BY <1>6 DEF MapFrame
  <2> QED
    BY <1>1, <1>3, <2>1, <2>2, <2>3, <2>4 DEF MappingTypeOK, BuildInv, OutputType, Reports, Flags
<1>7. CASE send_report
  <2>1. outgoing_reports' \in Seq(Reports) /\ Len(outgoing_reports') <= OR_BUFSIZE
    <3>1. outgoing_reports # << >> /\ outgoing_reports' = Tail(outgoing_reports)
      BY <1>7 DEF send_report
    <3>2. /\ outgoing_reports \in Seq(Reports)
          /\ Len(outgoing_reports) <= OR_BUFSIZE /\ Len(outgoing_reports) \in Nat
      BY <1>2, LenProperties DEF OutputType
    <3> QED
      BY <3>1, <3>2, HeadTailProperties, MappingAssumption
  <2>2. num_lock_down' \in BOOLEAN /\ num_lock' \in {0, 1}
    <3>1. num_lock_down \in BOOLEAN /\ num_lock \in {0, 1}
      BY <1>3
    <3>2. CASE Head(outgoing_reports).id = "keyboard"
      <4> DEFINE down == NUM_LOCK_USAGE \in Range(Head(outgoing_reports).keys)
      <4>1. num_lock_down' = down /\ num_lock' = IF down /\ ~num_lock_down THEN 1 - num_lock ELSE num_lock
        BY <1>7, <3>2 DEF send_report
      <4> QED
        BY <3>1, <4>1
    <3>3. CASE Head(outgoing_reports).id # "keyboard"
      BY <1>7, <3>1, <3>3 DEF send_report
    <3> QED
      BY <3>2, <3>3
  <2>3. UNCHANGED <<macro_queue, keys, prev_keys, startup_numlock_sync, present, crowded>>
    BY <1>7 DEF send_report
  <2> QED
    BY <1>1, <1>2, <1>3, <2>1, <2>2, <2>3 DEF MappingTypeOK, BuildInv, OutputType, Reports, Flags
<1>8. CASE KeypadOrHostChanges
  BY <1>1, <1>3, <1>8 DEF KeypadOrHostChanges, MappingTypeOK, BuildInv
<1>9. ASSUME NEW k \in build.keys, ReadInput(k) PROVE MappingTypeOK'
  BY <1>4, <1>9 DEF ReadInput, output
<1>10. CASE CompileAgain
  BY <1>4, <1>10 DEF CompileAgain, output
<1>11. CASE Suspend
  BY <1>4, <1>11 DEF Suspend, output
<1>12. ASSUME NEW config \in Configs, Resume(config) PROVE MappingTypeOK'
  BY <1>4, <1>12 DEF Resume
<1>13. CASE UNCHANGED <<vars, output>>
  BY <1>4, <1>13 DEF output
<1> QED
  BY <1>5, <1>6, <1>7, <1>8, <1>9, <1>10, <1>11, <1>12, <1>13 DEF MappingNext

\* The report being built and the last one queued are never longer than the array, no more
\* reports wait than OR_BUFSIZE, and all queues hold what they should.
THEOREM MappingTypes == MappingSpec => []MappingTypeOK
<1>1. Spec => [](mappings \in Seq(Mappings))
  <2>1. TypeOK => mappings \in Seq(Mappings)
    BY DEF TypeOK
  <2> QED
    BY <2>1, TypeCorrect, PTL
<1>2. mappings \in Seq(Mappings) /\ MappingTypeOK /\ [MappingNext]_<<vars, output>> => MappingTypeOK'
  BY MappingTypeStep
<1> QED
  BY <1>1, <1>2, MappingIsLayers, MappingInitType, PTL DEF MappingSpec

-----------------------------------------------------------------------------
(* Every entry is shown.                                                   *)

\* An entry leaves only with the reports before it all out, so that its own report has room,
\* also after a mouse's.
LEMMA ShownFrame ==
  ASSUME mappings \in Seq(Mappings), OutputType, MapFrame, Len(macro_queue') < Len(FrameQueue)
  PROVE  \/ Range(Head(FrameQueue).items) \subseteq Range(prev_keys')
         \/ Len(prev_keys') = ArrayCount
<1>1. PICK mapped, queue, items, full, first : Frame(mapped, queue, items, full, first)
  BY FrameIs
<1>2. /\ queue \in Seq(Entries)
      /\ Range(items) \subseteq Range(full) \/ Len(full) = ArrayCount
      /\ Len(first) <= Len(outgoing_reports) + 1
  BY <1>1, FrameTypes
<1>3. queue = FrameQueue /\ macro_queue' = Executed(queue)
  BY <1>1 DEF Frame
<1>4. queue # << >> /\ outgoing_reports = << >>
  <2>1. Len(queue) \in Nat /\ ~(Len(Executed(queue)) = Len(queue))
    BY <1>2, <1>3, ExecutedIs, LenProperties
  <2> QED
    BY <1>2, <2>1, ExecutedIs
<1>5. Len(first) < OR_BUFSIZE
  <2>1. first \in Seq(Reports) /\ Len(outgoing_reports) = 0
    BY <1>1, <1>4, FrameTypes, EmptySeq
  <2>2. Len(first) \in Nat /\ OR_BUFSIZE \in Nat \ {0, 1} /\ Len(first) <= 0 + 1
    BY <1>2, <2>1, LenProperties, MappingAssumption
  <2> QED
    BY <2>2
<1>6. prev_keys' = full
  <2>1. Len(first) # OR_BUFSIZE
    <3>1. Len(first) \in Nat /\ OR_BUFSIZE \in Nat
      BY <1>1, FrameTypes, LenProperties, MappingAssumption
    <3> QED
      BY <1>5, <3>1
  <2> QED
    BY <1>1, <2>1 DEF Frame
<1>7. items = Head(FrameQueue).items
  BY <1>1, <1>3, <1>4 DEF Frame
<1> QED
  BY <1>2, <1>6, <1>7

\* Where nothing changes, nothing was triggered.
LEMMA NothingTriggered ==
  ASSUME TypeOK, process_mapping, UNCHANGED vars, NEW m \in Range(mappings)
  PROVE  ~Triggered(m)
<1>1. m \in Mappings /\ m.key \in Keys
  <2>1. m \in Mappings
    BY LenProperties, ElementOfSeq DEF TypeOK, Range
  <2> QED
    BY <2>1 DEF Mappings
<1>2. input_state' = input_state /\ prev_state' = prev_state /\ tap_hold_state' = tap_hold_state
  BY DEF vars
<1>3. prev_state[m.key] = input_state[m.key] /\ StepTapHold(m.key) = tap_hold_state[m.key]
  BY <1>1, <1>2 DEF process_mapping
<1>4. ~Pressed(m.key) /\ ~Taps(m.key)
  BY <1>3 DEF Pressed, Taps
<1>5. CASE m.key \in TapHoldKeys
  <2>1. StepTapHold(m.key) =
          [tap |-> Taps(m.key), hold |-> Holds(m.key), prev_hold |-> tap_hold_state[m.key].hold]
    BY <1>5 DEF StepTapHold
  <2>2. ~StepTapHold(m.key).tap /\ StepTapHold(m.key).prev_hold = StepTapHold(m.key).hold
    <3>1. StepTapHold(m.key).prev_hold = tap_hold_state[m.key].hold
      BY <2>1
    <3>2. StepTapHold(m.key).tap = Taps(m.key)
      BY <2>1
    <3> QED
      BY <1>3, <1>4, <3>1, <3>2
  <2>3. ~HoldBegins(m.key)
    BY <2>2 DEF HoldBegins
  <2> QED
    BY <1>4, <2>2, <2>3 DEF Triggered
<1>6. CASE m.key \notin TapHoldKeys
  <2>1. ~m.tap /\ ~m.hold
    BY <1>6 DEF TapHoldKeys
  <2> QED
    BY <1>4, <2>1 DEF Triggered
<1> QED
  BY <1>5, <1>6

\* What is a frame of Layers is a frame, or nothing changes.
LEMMA OnlyFrames ==
  ASSUME TypeOK, BuildInv, process_mapping, [MappingNext]_<<vars, output>>
  PROVE  \/ MapFrame
         \/ UNCHANGED vars /\ macro_queue' = macro_queue
            /\ startup_numlock_sync'.started = startup_numlock_sync.started
<1>1. input_state' = input_state /\ settled' = TRUE /\ suspended' = FALSE /\ age' = [k \in Keys |-> Age(k)]
  BY DEF process_mapping, TypeOK
<1>2. CASE LetTimePass
  <2>1. ~TimePasses
    <3> SUFFICES ASSUME TimePasses PROVE FALSE
      OBVIOUS
    <3>1. PICK k \in Keys : age[k] < tap_hold_threshold
      BY DEF TimePasses
    <3>2. age'[k] = age[k] + 1 /\ age[k] \in Nat
      BY <3>1, LayersAssumption DEF TimePasses, TypeOK
    <3>3. age'[k] = 0 \/ age'[k] = age[k]
      BY <1>1 DEF Age
    <3> QED
      BY <3>2, <3>3
  <2>2. UNCHANGED vars /\ startup_numlock_sync' = Passed(startup_numlock_sync) /\ macro_queue' = macro_queue
    BY <1>2, <2>1 DEF LetTimePass
  <2> QED
    BY <2>2 DEF Passed
<1>3. CASE send_report
  BY <1>3 DEF send_report
<1>4. ~CompileAgain
  BY <1>1 DEF CompileAgain, set_mapping_from_config, StateCleared
<1>5. ~Suspend
  BY <1>1 DEF Suspend, SUSPEND
<1>6. ASSUME NEW config \in Configs, Resume(config) PROVE FALSE
  BY <1>1, <1>6 DEF Resume, RESUME, StateCleared
<1>7. ASSUME NEW k \in build.keys, ReadInput(k) PROVE FALSE
  <2>1. k \in Keys /\ input_state \in [Keys -> BOOLEAN]
    BY MappingAssumption DEF BuildInv, TypeOK
  <2>2. input_state' = [input_state EXCEPT ![k] = ~input_state[k]]
    BY <1>7 DEF ReadInput, read_input
  <2>3. input_state'[k] = ~input_state[k]
    BY <2>1, <2>2
  <2> QED
    BY <1>1, <2>1, <2>3
<1>8. CASE KeypadOrHostChanges
  BY <1>8 DEF KeypadOrHostChanges
<1>9. CASE UNCHANGED <<vars, output>>
  BY <1>9 DEF output
<1> QED
  BY <1>2, <1>3, <1>4, <1>5, <1>6, <1>7, <1>8, <1>9 DEF MappingNext

LEMMA ShownStep ==
  ASSUME TypeOK, MappingTypeOK, [MappingNext]_<<vars, output>>,
         process_mapping, Len(macro_queue') < Len(FrameQueue)
  PROVE  \/ Range(Head(FrameQueue).items) \subseteq Range(prev_keys')
         \/ Len(prev_keys') = ArrayCount
<1>1. OutputType /\ BuildInv /\ mappings \in Seq(Mappings)
  BY DEF MappingTypeOK, OutputType, Reports, BuildInv, TypeOK
<1>2. CASE MapFrame
  BY <1>1, <1>2, ShownFrame
<1>3. CASE /\ UNCHANGED vars /\ macro_queue' = macro_queue
           /\ startup_numlock_sync'.started = startup_numlock_sync.started
  <2> DEFINE layers == layer_state_mask'
             Acc == {macro_queue}
  <2>1. \A q \in Acc : \A m \in Range(mappings) : Plays(m, layers) => q \o Queued(m.target) \in Acc
    BY <1>3, NothingTriggered DEF Plays
  <2>2. TriggeredEntries(layers) \in Acc
    <3> HIDE DEF layers
    <3>1. macro_queue \in Acc
      OBVIOUS
    <3> HIDE DEF Acc
    <3> QED
      BY <1>1, <2>1, <3>1, TriggeredIs
  <2>3. TriggeredEntries(layer_state_mask') = macro_queue
    BY <2>2
  <2>4. FrameQueue = macro_queue \o << >>
    BY <1>3, <2>3 DEF FrameQueue
  <2>5. FrameQueue = macro_queue /\ Len(macro_queue) \in Nat
    BY <1>1, <2>4, ConcatEmptySeq, LenProperties DEF OutputType
  <2> QED
    BY <1>3, <2>5
<1> QED
  BY <1>1, <1>2, <1>3, OnlyFrames

\* Every entry of a macro reaches the PC, however slow it is and whatever else is typed or
\* moved: it leaves the queue only in a frame whose report, with all of the entry, is queued,
\* unless the array was full.
THEOREM EntriesAreShown == MappingSpec => EntryIsShown
<1> DEFINE Shown == process_mapping /\ Len(macro_queue') < Len(FrameQueue) =>
                      \/ Range(Head(FrameQueue).items) \subseteq Range(prev_keys')
                      \/ Len(prev_keys') = ArrayCount
<1>1. TypeOK /\ MappingTypeOK /\ [MappingNext]_<<vars, output>> => Shown
  BY ShownStep
<1>2. [][Shown]_<<vars, output>> => EntryIsShown
  BY DEF EntryIsShown
<1> HIDE DEF Shown
<1> QED
  BY <1>1, <1>2, MappingTypes, MappingIsLayers, TypeCorrect, PTL DEF MappingSpec

-----------------------------------------------------------------------------
(* What the PC makes of reports and entries.                               *)

\* NumLock at the PC: down or not, and how often it went down, modulo 2.
PCs == [down : BOOLEAN, num_lock : {0, 1}]
Off == [down |-> FALSE, num_lock |-> 0]
Seen(pc, down) ==
  [down |-> down, num_lock |-> IF down /\ ~pc.down THEN 1 - pc.num_lock ELSE pc.num_lock]

NumLockIn(usages) == NUM_LOCK_USAGE \in Range(usages)
SeenReport ==
  [r \in Reports |-> [pc \in PCs |-> IF r.id = "keyboard" THEN Seen(pc, NumLockIn(r.keys)) ELSE pc]]
SeenEntry == [e \in Entries |-> [pc \in PCs |-> Seen(pc, NumLockIn(e.items))]]

\* Through all of s, one after the other, the PC comes from start to end.
Leads(see, s, start, end) ==
  \E f \in [0 .. Len(s) -> PCs] :
    /\ f[0] = start
    /\ f[Len(s)] = end
    /\ \A n \in 1 .. Len(s) : f[n] = see[s[n]][f[n - 1]]

LEMMA SeenType == ASSUME NEW pc \in PCs, NEW down \in BOOLEAN PROVE Seen(pc, down) \in PCs
<1>1. pc.num_lock \in {0, 1} /\ 1 - 0 = 1 /\ 1 - 1 = 0
  BY DEF PCs
<1>2. 1 - pc.num_lock \in {0, 1}
  BY <1>1
<1> QED
  BY <1>1, <1>2 DEF Seen, PCs

LEMMA SeenTwice ==
  ASSUME NEW pc \in PCs, NEW down \in BOOLEAN
  PROVE  /\ Seen(Seen(pc, down), down) = Seen(pc, down)
         /\ pc.down = down => Seen(pc, down) = pc
<1>1. Seen(Seen(pc, down), down) = Seen(pc, down)
  BY DEF Seen
<1>2. ASSUME pc.down = down PROVE Seen(pc, down) = pc
  <2>1. Seen(pc, down) = [down |-> pc.down, num_lock |-> pc.num_lock]
    BY <1>2 DEF Seen
  <2>2. pc = [down |-> pc.down, num_lock |-> pc.num_lock]
    BY DEF PCs
  <2> QED
    BY <2>1, <2>2
<1> QED
  BY <1>1, <1>2

LEMMA SeeTypes ==
  /\ SeenReport \in [Reports -> [PCs -> PCs]]
  /\ SeenEntry \in [Entries -> [PCs -> PCs]]
<1>1. ASSUME NEW pc \in PCs, NEW usages PROVE Seen(pc, NumLockIn(usages)) \in PCs
  <2>1. NumLockIn(usages) \in BOOLEAN
    BY DEF NumLockIn
  <2> QED
    BY <2>1, SeenType
<1>2. ASSUME NEW r \in Reports PROVE SeenReport[r] \in [PCs -> PCs]
  BY <1>1 DEF SeenReport
<1>3. ASSUME NEW e \in Entries PROVE SeenEntry[e] \in [PCs -> PCs]
  BY <1>1 DEF SeenEntry
<1> QED
  BY <1>2, <1>3 DEF SeenReport, SeenEntry

LEMMA LeadsNone ==
  ASSUME NEW see, NEW start \in PCs, NEW end \in PCs
  PROVE  Leads(see, << >>, start, end) <=> start = end
<1>1. Len(<< >>) = 0
  BY EmptySeq
<1>2. ASSUME start = end PROVE Leads(see, << >>, start, end)
  <2> DEFINE f == [n \in 0 .. 0 |-> start]
  <2>1. f \in [0 .. 0 -> PCs] /\ f[0] = start /\ f[0] = end /\ \A n \in 1 .. 0 : f[n] = see[<< >>[n]][f[n - 1]]
    BY <1>2
  <2> HIDE DEF f
  <2> QED
    BY <1>1, <2>1 DEF Leads
<1>3. ASSUME Leads(see, << >>, start, end) PROVE start = end
  BY <1>1, <1>3 DEF Leads
<1> QED
  BY <1>2, <1>3

LEMMA LeadsRest ==
  ASSUME NEW S, NEW see \in [S -> [PCs -> PCs]], NEW s \in Seq(S), s # << >>,
         NEW start \in PCs, NEW end, Leads(see, s, start, end)
  PROVE  Leads(see, Tail(s), see[Head(s)][start], end)
<1>1. PICK f \in [0 .. Len(s) -> PCs] :
        f[0] = start /\ f[Len(s)] = end /\ \A n \in 1 .. Len(s) : f[n] = see[s[n]][f[n - 1]]
  BY DEF Leads
<1>2. /\ Len(s) \in Nat /\ Len(s) # 0 /\ Len(Tail(s)) = Len(s) - 1 /\ Head(s) = s[1]
      /\ \A n \in 1 .. Len(s) - 1 : Tail(s)[n] = s[n + 1]
  BY HeadTailProperties, LenProperties, EmptySeq
<1> DEFINE g == [n \in 0 .. Len(s) - 1 |-> f[n + 1]]
<1>3. g \in [0 .. Len(s) - 1 -> PCs]
  BY <1>2
<1>4. g[0] = see[Head(s)][start]
  <2>1. 1 \in 1 .. Len(s) /\ 0 \in 0 .. Len(s) - 1
    BY <1>2
  <2>2. f[1] = see[s[1]][f[1 - 1]]
    BY <1>1, <2>1
  <2> QED
    BY <1>1, <1>2, <2>1, <2>2
<1>5. g[Len(s) - 1] = end
  <2>1. Len(s) - 1 \in 0 .. Len(s) - 1 /\ Len(s) - 1 + 1 = Len(s)
    BY <1>2
  <2> QED
    BY <1>1, <2>1
<1>6. ASSUME NEW n \in 1 .. Len(s) - 1 PROVE g[n] = see[Tail(s)[n]][g[n - 1]]
  <2>1. /\ n \in 0 .. Len(s) - 1 /\ n - 1 \in 0 .. Len(s) - 1 /\ n + 1 \in 1 .. Len(s)
        /\ n - 1 + 1 = n /\ n + 1 - 1 = n
    BY <1>2
  <2>2. f[n + 1] = see[s[n + 1]][f[n + 1 - 1]]
    BY <1>1, <2>1
  <2> QED
    BY <1>2, <2>1, <2>2
<1> HIDE DEF g
<1> QED
  BY <1>2, <1>3, <1>4, <1>5, <1>6 DEF Leads

LEMMA LeadsConcat ==
  ASSUME NEW S, NEW see, NEW s \in Seq(S), NEW t \in Seq(S),
         NEW start, NEW mid, NEW end, Leads(see, s, start, mid), Leads(see, t, mid, end)
  PROVE  Leads(see, s \o t, start, end)
<1>1. PICK f \in [0 .. Len(s) -> PCs] :
        f[0] = start /\ f[Len(s)] = mid /\ \A n \in 1 .. Len(s) : f[n] = see[s[n]][f[n - 1]]
  BY DEF Leads
<1>2. PICK g \in [0 .. Len(t) -> PCs] :
        g[0] = mid /\ g[Len(t)] = end /\ \A n \in 1 .. Len(t) : g[n] = see[t[n]][g[n - 1]]
  BY DEF Leads
<1> DEFINE all == s \o t
           M == Len(s)
           N == Len(t)
           L == Len(all)
<1>3. /\ M \in Nat /\ N \in Nat /\ L = M + N
      /\ \A n \in 1 .. L : all[n] = IF n <= M THEN s[n] ELSE t[n - M]
  BY ConcatProperties, LenProperties
<1> DEFINE h == [n \in 0 .. L |-> IF n <= M THEN f[n] ELSE g[n - M]]
<1>4. f \in [0 .. M -> PCs] /\ f[0] = start /\ f[M] = mid /\ \A n \in 1 .. M : f[n] = see[s[n]][f[n - 1]]
  BY <1>1
<1>5. g \in [0 .. N -> PCs] /\ g[0] = mid /\ g[N] = end /\ \A n \in 1 .. N : g[n] = see[t[n]][g[n - 1]]
  BY <1>2
<1> HIDE DEF all, M, N, L
<1>6. h \in [0 .. L -> PCs]
  BY <1>3, <1>4, <1>5
<1>7. h[0] = start
  BY <1>3, <1>4
<1>8. h[L] = end
  <2>1. L \in 0 .. L /\ L - M = N
    BY <1>3
  <2>2. h[L] = IF L <= M THEN f[L] ELSE g[L - M]
    BY <2>1
  <2>3. CASE L <= M
    <3>1. L = M /\ N = 0
      BY <1>3, <2>3
    <3> QED
      BY <1>4, <1>5, <2>2, <2>3, <3>1
  <2>4. CASE ~(L <= M)
    BY <1>5, <2>1, <2>2, <2>4
  <2> QED
    BY <2>3, <2>4
<1>9. ASSUME NEW n \in 1 .. L PROVE h[n] = see[all[n]][h[n - 1]]
  <2>1. n \in 0 .. L /\ n - 1 \in 0 .. L
    BY <1>3
  <2>2. CASE n <= M
    <3>1. n \in 1 .. M /\ n - 1 <= M
      BY <1>3, <2>2
    <3>2. h[n] = f[n] /\ h[n - 1] = f[n - 1] /\ all[n] = s[n]
      BY <1>3, <2>1, <2>2, <3>1
    <3> QED
      BY <1>4, <3>1, <3>2
  <2>3. CASE ~(n <= M)
    <3>1. n - M \in 1 .. N /\ n - 1 - M = n - M - 1
      BY <1>3, <2>3
    <3>2. h[n] = g[n - M] /\ all[n] = t[n - M]
      BY <1>3, <2>1, <2>3
    <3>3. h[n - 1] = g[n - M - 1]
      <4>1. PICK m \in 0 .. L : m = n - 1
        BY <2>1
      <4>2. h[m] = IF m <= M THEN f[m] ELSE g[m - M]
        OBVIOUS
      <4>3. CASE m <= M
        <5>1. m = M /\ n - M - 1 = 0
          BY <1>3, <2>3, <4>1, <4>3
        <5> HIDE DEF h
        <5> QED
          BY <1>4, <1>5, <4>1, <4>2, <5>1
      <4>4. CASE ~(m <= M)
        <5>1. h[m] = g[m - M] /\ m - M = n - M - 1
          BY <3>1, <4>1, <4>2, <4>4
        <5> HIDE DEF h
        <5> QED
          BY <4>1, <5>1
      <4> QED
        BY <4>3, <4>4
    <3>4. g[n - M] = see[t[n - M]][g[n - M - 1]]
      BY <1>5, <3>1
    <3> QED
      BY <3>2, <3>3, <3>4
  <2> QED
    BY <2>2, <2>3
<1> HIDE DEF h
<1>10. Leads(see, all, start, end)
  BY <1>3, <1>6, <1>7, <1>8, <1>9 DEF Leads, L
<1> QED
  BY <1>10 DEF all

LEMMA LeadsOne ==
  ASSUME NEW S, NEW see \in [S -> [PCs -> PCs]], NEW e \in S, NEW start \in PCs
  PROVE  Leads(see, << e >>, start, see[e][start])
<1> DEFINE s == << e >>
           f == [n \in 0 .. 1 |-> IF n = 0 THEN start ELSE see[e][start]]
<1>1. Len(s) = 1 /\ s[1] = e
  OBVIOUS
<1>2. see[e][start] \in PCs
  OBVIOUS
<1>3. f \in [0 .. 1 -> PCs] /\ f[0] = start /\ f[1] = see[e][start]
  BY <1>2
<1> HIDE DEF s, f
<1>4. ASSUME NEW n \in 1 .. 1 PROVE f[n] = see[s[n]][f[n - 1]]
  <2>1. n = 1 /\ n - 1 = 0
    OBVIOUS
  <2> QED
    BY <1>1, <1>3, <2>1
<1>5. Leads(see, s, start, see[e][start])
  BY <1>1, <1>3, <1>4 DEF Leads
<1> QED
  BY <1>5 DEF s

LEMMA LeadsAppend ==
  ASSUME NEW S, NEW see \in [S -> [PCs -> PCs]], NEW s \in Seq(S), NEW e \in S,
         NEW start, NEW mid \in PCs, Leads(see, s, start, mid)
  PROVE  Leads(see, Append(s, e), start, see[e][mid])
<1>1. Append(s, e) = s \o << e >> /\ << e >> \in Seq(S)
  BY AppendIsConcat
<1>2. Leads(see, << e >>, mid, see[e][mid])
  BY LeadsOne
<1>3. Leads(see, s \o << e >>, start, see[e][mid])
  <2> DEFINE one == << e >>
  <2>1. one \in Seq(S) /\ Leads(see, one, mid, see[e][mid])
    BY <1>1, <1>2
  <2> HIDE DEF one
  <2>2. Leads(see, s \o one, start, see[e][mid])
    BY <2>1, LeadsConcat
  <2> QED
    BY <2>2 DEF one
<1> QED
  BY <1>1, <1>3

LEMMA LeadsFirst ==
  ASSUME NEW S, NEW see \in [S -> [PCs -> PCs]], NEW s \in Seq(S), s # << >>,
         NEW start \in PCs, NEW end, Leads(see, Tail(s), see[Head(s)][start], end)
  PROVE  Leads(see, s, start, end)
<1> DEFINE one == << Head(s) >>
<1>1. Head(s) \in S /\ Tail(s) \in Seq(S) /\ s = one \o Tail(s) /\ one \in Seq(S)
  BY HeadTailProperties, ConcatProperties, LenProperties
<1>2. Leads(see, one, start, see[Head(s)][start])
  BY <1>1, LeadsOne
<1> HIDE DEF one
<1>3. Leads(see, one \o Tail(s), start, end)
  BY <1>1, <1>2, LeadsConcat
<1> QED
  BY <1>1, <1>3

\* Only an entry's items count.
LEMMA LeadsSame ==
  ASSUME NEW s \in Seq(Entries), NEW t \in Seq(Entries), Len(s) = Len(t),
         \A n \in 1 .. Len(s) : t[n].items = s[n].items,
         NEW start \in PCs, NEW end, Leads(SeenEntry, s, start, end)
  PROVE  Leads(SeenEntry, t, start, end)
<1>1. PICK f \in [0 .. Len(s) -> PCs] :
        f[0] = start /\ f[Len(s)] = end /\ \A n \in 1 .. Len(s) : f[n] = SeenEntry[s[n]][f[n - 1]]
  BY DEF Leads
<1>2. ASSUME NEW n \in 1 .. Len(s) PROVE f[n] = SeenEntry[t[n]][f[n - 1]]
  <2>1. s[n] \in Entries /\ t[n] \in Entries /\ t[n].items = s[n].items
    BY ElementOfSeq
  <2>2. f[n - 1] \in PCs
    <3>1. n - 1 \in 0 .. Len(s)
      BY LenProperties
    <3> QED
      BY <3>1
  <2>3. SeenEntry[t[n]][f[n - 1]] = SeenEntry[s[n]][f[n - 1]]
    BY <2>1, <2>2 DEF SeenEntry
  <2> QED
    BY <1>1, <2>3
<1> QED
  BY <1>1, <1>2 DEF Leads

LEMMA SeesEntry ==
  ASSUME NEW e \in Entries, NEW pc \in PCs
  PROVE  SeenEntry[e][pc] = Seen(pc, NumLockIn(e.items))
  BY DEF SeenEntry

\* A mouse report changes nothing.
LEMMA LeadsMouse ==
  ASSUME NEW queue \in Seq(Reports), MouseReport \in Reports,
         NEW start, NEW pc \in PCs, Leads(SeenReport, queue, start, pc)
  PROVE  Leads(SeenReport, Enqueue(queue, MouseReport), start, pc)
<1>1. SeenReport[MouseReport][pc] = pc
  BY DEF SeenReport, MouseReport
<1>2. Leads(SeenReport, Append(queue, MouseReport), start, SeenReport[MouseReport][pc])
  BY SeeTypes, LeadsAppend
<1> QED
  BY <1>1, <1>2 DEF Enqueue

LEMMA TapsLead == Leads(SeenEntry, TwoTaps, Off, Off)
<1> DEFINE on == [down |-> TRUE, num_lock |-> 1]
           off == [down |-> FALSE, num_lock |-> 1]
           again == [down |-> TRUE, num_lock |-> 0]
           f == [n \in 0 .. 4 |-> IF n = 1 THEN on ELSE IF n = 2 THEN off ELSE IF n = 3 THEN again ELSE Off]
<1>1. on \in PCs /\ off \in PCs /\ again \in PCs /\ Off \in PCs
  BY DEF PCs, Off
<1>2. f \in [0 .. 4 -> PCs] /\ f[0] = Off /\ f[1] = on /\ f[2] = off /\ f[3] = again /\ f[4] = Off
  <2> HIDE DEF on, off, again
  <2> QED
    BY <1>1
<1>3. Seen(Off, TRUE) = on /\ Seen(on, FALSE) = off /\ Seen(off, TRUE) = again /\ Seen(again, FALSE) = Off
  BY DEF Seen, Off
<1>4. TwoTaps \in Seq(Entries) /\ Len(TwoTaps) = 4
  BY TwoTapsType
<1>5. ASSUME NEW n \in 1 .. 4, NEW pc \in PCs PROVE SeenEntry[TwoTaps[n]][pc] = Seen(pc, n \in {1, 3})
  <2>1. TwoTaps[n] \in Entries
    BY <1>4, ElementOfSeq
  <2>2. TwoTaps[n].items = IF n \in {1, 3} THEN <<NUM_LOCK_USAGE>> ELSE << >>
    BY DEF TwoTaps
  <2>3. Range(<<NUM_LOCK_USAGE>>) = {NUM_LOCK_USAGE} /\ Range(<< >>) = {}
    BY DEF Range
  <2>4. NumLockIn(TwoTaps[n].items) = (n \in {1, 3})
    <3>1. CASE n \in {1, 3}
      BY <2>2, <2>3, <3>1 DEF NumLockIn
    <3>2. CASE n \notin {1, 3}
      BY <2>2, <2>3, <3>2 DEF NumLockIn
    <3> QED
      BY <3>1, <3>2
  <2> QED
    BY <2>1, <2>4, SeesEntry
<1> HIDE DEF f
<1> HIDE DEF on, off, again
<1>6. /\ f[1] = SeenEntry[TwoTaps[1]][f[0]]
      /\ f[2] = SeenEntry[TwoTaps[2]][f[1]]
      /\ f[3] = SeenEntry[TwoTaps[3]][f[2]]
      /\ f[4] = SeenEntry[TwoTaps[4]][f[3]]
  <2>1. /\ SeenEntry[TwoTaps[1]][Off] = Seen(Off, 1 \in {1, 3})
        /\ SeenEntry[TwoTaps[2]][on] = Seen(on, 2 \in {1, 3})
        /\ SeenEntry[TwoTaps[3]][off] = Seen(off, 3 \in {1, 3})
        /\ SeenEntry[TwoTaps[4]][again] = Seen(again, 4 \in {1, 3})
    BY <1>1, <1>5
  <2>2. (1 \in {1, 3}) = TRUE /\ (2 \in {1, 3}) = FALSE /\ (3 \in {1, 3}) = TRUE /\ (4 \in {1, 3}) = FALSE
    OBVIOUS
  <2>3. /\ SeenEntry[TwoTaps[1]][Off] = on /\ SeenEntry[TwoTaps[2]][on] = off
        /\ SeenEntry[TwoTaps[3]][off] = again /\ SeenEntry[TwoTaps[4]][again] = Off
    BY <1>3, <2>1, <2>2
  <2> QED
    BY <1>2, <2>3
<1>7. \A n \in 1 .. 4 : f[n] = SeenEntry[TwoTaps[n]][f[n - 1]]
  <2> SUFFICES ASSUME NEW n \in 1 .. 4 PROVE f[n] = SeenEntry[TwoTaps[n]][f[n - 1]]
    OBVIOUS
  <2>1. \/ n = 1 /\ n - 1 = 0
        \/ n = 2 /\ n - 1 = 1
        \/ n = 3 /\ n - 1 = 2
        \/ n = 4 /\ n - 1 = 3
    OBVIOUS
  <2> QED
    BY <1>6, <2>1
<1> QED
  BY <1>2, <1>4, <1>7 DEF Leads

-----------------------------------------------------------------------------
(* NumLock as it was.                                                      *)

\* NumLock is nobody's key and no mapping's target: macros type it, each in pairs.
NumLockByMacros ==
  /\ NUM_LOCK_USAGE \notin Keys
  /\ \A config \in Configs : \A m \in Range(config) : m.target # NUM_LOCK_USAGE
  /\ \A macro \in DOMAIN Macros : Leads(SeenEntry, Queued(macro), Off, Off)

NotTarget == \A m \in Range(mappings) : m.target # NUM_LOCK_USAGE

AtPC == [down |-> num_lock_down, num_lock |-> num_lock]

\* When the reports are out the PC is at pc, where the last one queued has left it; the macro
\* queue leads from there to NumLock as it was; and a report that waits for room has NumLock
\* only from the first entry, which waits with it.
NumLockAfter(pc) ==
  /\ Leads(SeenReport, outgoing_reports, AtPC, pc)
  /\ pc.down = NumLockIn(prev_keys)
  /\ ~crowded =>
       /\ Leads(SeenEntry, macro_queue, pc, Off)
       /\ NumLockIn(keys) => macro_queue # << >> /\ NumLockIn(Head(macro_queue).items)
NumLockInv == \E pc \in PCs : NumLockAfter(pc)

LEMMA NotTargetStep ==
  ASSUME NumLockByMacros, NotTarget, [Next]_vars
  PROVE  NotTarget'
<1>1. ASSUME NEW config \in Configs PROVE \A m \in Range(Compiled(config)) : m.target # NUM_LOCK_USAGE
  <2> SUFFICES ASSUME NEW m \in Range(Compiled(config)) PROVE m.target # NUM_LOCK_USAGE
    OBVIOUS
  <2>1. config \in Seq(Mappings)
    BY LayersAssumption
  <2>2. PICK n \in DOMAIN config : m = [config[n] EXCEPT !.layers = LayersOf(config[n])]
    BY DEF Range, Compiled
  <2>3. config[n] \in Mappings /\ config[n] \in Range(config)
    BY <2>1, LenProperties, ElementOfSeq DEF Range
  <2>4. m.target = config[n].target
    BY <2>2, <2>3 DEF Mappings
  <2> QED
    BY <2>3, <2>4 DEF NumLockByMacros
<1>2. CASE mappings' = mappings
  BY <1>2 DEF NotTarget
<1>3. ASSUME NEW config \in Configs, mappings' = Compiled(config) PROVE NotTarget'
  BY <1>1, <1>3 DEF NotTarget
<1> QED
  BY <1>2, <1>3 DEF Next, vars, read_input, TimePasses, process_mapping, set_mapping_from_config,
       SUSPEND, RESUME

LEMMA ConcatHead ==
  ASSUME NEW S, NEW s \in Seq(S), s # << >>, NEW t \in Seq(S)
  PROVE  s \o t # << >> /\ Head(s \o t) = Head(s)
<1>1. Len(s) \in Nat /\ Len(s) # 0 /\ Len(t) \in Nat
  BY EmptySeq, LenProperties
<1>2. s \o t \in Seq(S) /\ Len(s \o t) = Len(s) + Len(t) /\ (s \o t)[1] = s[1]
  BY <1>1, ConcatProperties
<1>3. s \o t # << >>
  BY <1>1, <1>2, EmptySeq
<1> QED
  BY <1>2, <1>3

\* What a frame adds to the macro queue comes after it, and in pairs.
LEMMA FrameQueueLeads ==
  ASSUME NumLockByMacros, mappings \in Seq(Mappings), macro_queue \in Seq(Entries),
         NEW pc \in PCs, Leads(SeenEntry, macro_queue, pc, Off)
  PROVE  /\ Leads(SeenEntry, FrameQueue, pc, Off)
         /\ macro_queue # << >> => FrameQueue # << >> /\ Head(FrameQueue) = Head(macro_queue)
<1> DEFINE Keeps(q) == macro_queue # << >> => q # << >> /\ Head(q) = Head(macro_queue)
           Acc == {q \in Seq(Entries) : Keeps(q) /\ Leads(SeenEntry, q, pc, Off)}
<1>1. ASSUME NEW q \in Acc, NEW more \in Seq(Entries), Leads(SeenEntry, more, Off, Off)
      PROVE  q \o more \in Acc
  <2>1. q \in Seq(Entries) /\ Keeps(q) /\ Leads(SeenEntry, q, pc, Off)
    OBVIOUS
  <2>2. q \o more \in Seq(Entries)
    BY <2>1, ConcatProperties
  <2>3. Leads(SeenEntry, q \o more, pc, Off)
    BY <1>1, <2>1, LeadsConcat
  <2>4. Keeps(q \o more)
    BY <2>1, ConcatHead
  <2> HIDE DEF Keeps
  <2> QED
    BY <2>2, <2>3, <2>4
<1>2. macro_queue \in Acc
  OBVIOUS
<1>3. \A q \in Acc : \A m \in Range(mappings) :
        Plays(m, layer_state_mask') => q \o Queued(m.target) \in Acc
  <2> SUFFICES ASSUME NEW q \in Acc, NEW m \in Range(mappings), Plays(m, layer_state_mask')
               PROVE  q \o Queued(m.target) \in Acc
    OBVIOUS
  <2>1. Queued(m.target) \in Seq(Entries) /\ Leads(SeenEntry, Queued(m.target), Off, Off)
    BY QueuedType DEF Plays, NumLockByMacros
  <2> HIDE DEF Acc
  <2> QED
    BY <1>1, <2>1
<1>4. TriggeredEntries(layer_state_mask') \in Acc
  <2> HIDE DEF Acc
  <2> DEFINE layers == layer_state_mask'
  <2>1. \A q \in Acc : \A m \in Range(mappings) : Plays(m, layers) => q \o Queued(m.target) \in Acc
    BY <1>3
  <2> HIDE DEF layers
  <2>2. TriggeredEntries(layers) \in Acc
    BY <1>2, <2>1, TriggeredIs
  <2> QED
    BY <2>2 DEF layers
<1>5. FrameQueue \in Acc
  <2>1. Off \in PCs /\ Leads(SeenEntry, << >>, Off, Off) /\ << >> \in Seq(Entries)
    <3>1. Off \in PCs
      BY DEF PCs, Off
    <3> QED
      BY <3>1, LeadsNone, EmptySeq
  <2>2. \/ FrameQueue = TriggeredEntries(layer_state_mask') \o TwoTaps
        \/ FrameQueue = TriggeredEntries(layer_state_mask') \o << >>
    BY DEF FrameQueue
  <2> HIDE DEF Acc
  <2>3. TriggeredEntries(layer_state_mask') \o TwoTaps \in Acc
    BY <1>1, <1>4, TapsLead, TwoTapsType
  <2>4. TriggeredEntries(layer_state_mask') \o << >> \in Acc
    <3> DEFINE none == << >>
    <3>1. none \in Seq(Entries) /\ Leads(SeenEntry, none, Off, Off)
      BY <2>1
    <3> HIDE DEF none
    <3>2. TriggeredEntries(layer_state_mask') \o none \in Acc
      BY <1>1, <1>4, <3>1
    <3> QED
      BY <3>2 DEF none
  <2> QED
    BY <2>2, <2>3, <2>4
<1> QED
  BY <1>5

\* In a frame with room in the array, NumLock is down when the first entry has it.
LEMMA NumLockFromEntry ==
  ASSUME NumLockByMacros, NotTarget, mappings \in Seq(Mappings), OutputType, process_mapping,
         NEW mapped, NEW queue, NEW items, NEW full, NEW first, Frame(mapped, queue, items, full, first),
         ~crowded', NumLockIn(keys) => NumLockIn(items)
  PROVE  NumLockIn(full) <=> NumLockIn(items)
<1>1. ~OutputActive(NUM_LOCK_USAGE)'
  <2>1. mappings' = mappings
    BY DEF process_mapping
  <2> QED
    BY <2>1 DEF OutputActive, NotTarget, NumLockByMacros
<1>2. NUM_LOCK_USAGE \notin Active
  BY <1>1 DEF Active
<1>3. /\ Range(mapped) \subseteq Range(keys) \cup Active
      /\ Range(full) \subseteq Range(mapped) \cup Range(items)
  BY FrameTypes
<1>4. Range(items) \subseteq Range(full)
  BY DEF Frame
<1> QED
  BY <1>2, <1>3, <1>4 DEF NumLockIn

\* The report of a frame, if there is room for it and it is not what the PC has been told
\* already, leaves the PC with NumLock as in the report; otherwise it waits, the last one as it was.
LEMMA FrameReports ==
  ASSUME OutputType, mappings \in Seq(Mappings), NEW pc \in PCs,
         Leads(SeenReport, outgoing_reports, AtPC, pc), pc.down = NumLockIn(prev_keys), MapFrame,
         NEW mapped, NEW queue, NEW items, NEW full, NEW first, Frame(mapped, queue, items, full, first),
         NEW after, after = IF prev_keys' = full THEN Seen(pc, NumLockIn(full)) ELSE pc
  PROVE  /\ after \in PCs
         /\ Leads(SeenReport, outgoing_reports, AtPC, pc)
         /\ Leads(SeenReport, outgoing_reports', AtPC', after)
         /\ after.down = NumLockIn(prev_keys')
<1>1. /\ first \in Seq(Reports) /\ Len(first) <= OR_BUFSIZE
      /\ MouseReport \in Reports /\ KeyboardReport(full) \in Reports
  BY FrameTypes
<1>2. NumLockIn(full) \in BOOLEAN
  BY DEF NumLockIn
<1>3. after \in PCs /\ after.down = NumLockIn(prev_keys')
  <2>1. CASE prev_keys' = full
    BY <1>2, <2>1, SeenType DEF Seen
  <2>2. CASE prev_keys' # full
    <3>1. prev_keys' = prev_keys
      BY <2>2 DEF Frame
    <3> QED
      BY <2>2, <3>1 DEF NumLockIn
  <2> QED
    BY <2>1, <2>2
<1>4. AtPC' = AtPC
  BY DEF MapFrame, AtPC
<1> DEFINE at == AtPC
<1>5. Leads(SeenReport, first, at, pc)
  <2>1. outgoing_reports \in Seq(Reports)
    BY DEF OutputType
  <2>2. CASE first = outgoing_reports
    BY <2>2
  <2>3. CASE first = Enqueue(outgoing_reports, MouseReport)
    <3> HIDE DEF at
    <3>1. Leads(SeenReport, outgoing_reports, at, pc)
      BY DEF at
    <3> QED
      BY <1>1, <2>1, <2>3, <3>1, LeadsMouse
  <2> QED
    BY <2>2, <2>3 DEF Frame
<1> DEFINE second == IF full = prev_keys THEN first ELSE Enqueue(first, KeyboardReport(full))
<1> HIDE DEF at
<1>6. second \in Seq(Reports) /\ Leads(SeenReport, second, at, after)
  <2>1. CASE full = prev_keys
    <3>1. prev_keys' = full
      BY <2>1 DEF Frame
    <3>2. after = pc
      BY <1>2, <2>1, <3>1, SeenTwice
    <3> QED
      BY <1>1, <1>5, <2>1, <3>2
  <2>2. CASE full # prev_keys /\ Len(first) # OR_BUFSIZE
    <3>1. prev_keys' = full
      BY <2>2 DEF Frame
    <3>2. SeenReport[KeyboardReport(full)][pc] = Seen(pc, NumLockIn(full))
      BY <1>1 DEF SeenReport, KeyboardReport
    <3>3. Leads(SeenReport, Append(first, KeyboardReport(full)), at, SeenReport[KeyboardReport(full)][pc])
      BY <1>1, <1>5, SeeTypes, LeadsAppend
    <3>4. second = Append(first, KeyboardReport(full)) /\ second \in Seq(Reports)
      <4>1. Len(first) < OR_BUFSIZE
        <5>1. Len(first) \in Nat /\ OR_BUFSIZE \in Nat
          BY <1>1, LenProperties, MappingAssumption
        <5> QED
          BY <1>1, <2>2, <5>1
      <4>2. second = Append(first, KeyboardReport(full))
        BY <2>2, <4>1 DEF Enqueue
      <4> QED
        BY <1>1, <4>2, AppendProperties
    <3> QED
      BY <3>1, <3>2, <3>3, <3>4
  <2>3. CASE full # prev_keys /\ Len(first) = OR_BUFSIZE
    <3>1. prev_keys' = prev_keys
      BY <2>3 DEF Frame
    <3>2. after = pc /\ second = first
      <4>1. ~(Len(first) < OR_BUFSIZE)
        BY <2>3, MappingAssumption
      <4>2. second = first
        BY <2>3, <4>1 DEF Enqueue
      <4> QED
        BY <2>3, <3>1, <4>2
    <3> QED
      BY <1>1, <1>5, <3>2
  <2> QED
    BY <2>1, <2>2, <2>3
<1>7. outgoing_reports' = second \/ outgoing_reports' = Enqueue(second, MouseReport)
  BY DEF Frame
<1> HIDE DEF second
<1>8. Leads(SeenReport, outgoing_reports', at, after)
  <2>1. Leads(SeenReport, Enqueue(second, MouseReport), at, after)
    BY <1>1, <1>3, <1>6, LeadsMouse
  <2> QED
    BY <1>6, <1>7, <2>1
<1> QED
  BY <1>3, <1>4, <1>8 DEF at

LEMMA NumLockFrame ==
  ASSUME NumLockByMacros, NotTarget, mappings \in Seq(Mappings), OutputType, MapFrame,
         NEW pc \in PCs, NumLockAfter(pc)
  PROVE  NumLockInv'
<1>1. PICK mapped, queue, items, full, first : Frame(mapped, queue, items, full, first)
  BY FrameIs
<1>2. PICK after : after = IF prev_keys' = full THEN Seen(pc, NumLockIn(full)) ELSE pc
  OBVIOUS
<1>3. /\ after \in PCs
      /\ Leads(SeenReport, outgoing_reports', AtPC', after)
      /\ after.down = NumLockIn(prev_keys')
  BY <1>1, <1>2, FrameReports DEF NumLockAfter
<1>4. /\ queue \in Seq(Entries) /\ items \in Seq(Usages) /\ first \in Seq(Reports)
      /\ Len(first) <= Len(outgoing_reports) + 1
  BY <1>1, FrameTypes
<1>5. /\ queue = FrameQueue /\ macro_queue' = Executed(queue)
      /\ items = IF queue = << >> THEN << >> ELSE Head(queue).items
      /\ \/ keys' = << >> /\ prev_keys' = full
         \/ keys' = full /\ prev_keys' = prev_keys
  BY <1>1 DEF Frame
<1>6. Range(<< >>) = {} /\ ~NumLockIn(<< >>)
  <2>1. Range(<< >>) = {}
    BY DEF Range
  <2> QED
    BY <2>1 DEF NumLockIn
<1>7. ASSUME ~crowded'
      PROVE  /\ Leads(SeenEntry, macro_queue', after, Off)
             /\ NumLockIn(keys') => macro_queue' # << >> /\ NumLockIn(Head(macro_queue').items)
  <2>1. /\ Leads(SeenEntry, macro_queue, pc, Off)
        /\ NumLockIn(keys) => macro_queue # << >> /\ NumLockIn(Head(macro_queue).items)
    BY <1>1, <1>7 DEF NumLockAfter, Frame
  <2>2. /\ Leads(SeenEntry, queue, pc, Off)
        /\ macro_queue # << >> => queue # << >> /\ Head(queue) = Head(macro_queue)
    BY <1>5, <2>1, FrameQueueLeads DEF OutputType
  <2>3. NumLockIn(full) <=> NumLockIn(items)
    <3>1. NumLockIn(keys) => NumLockIn(items)
      BY <1>5, <2>1, <2>2
    <3>2. process_mapping
      BY DEF MapFrame
    <3> QED
      BY <1>1, <1>7, <3>1, <3>2, NumLockFromEntry
  <2>4. Off \in PCs /\ Off.down = FALSE
    BY DEF PCs, Off
  <2>5. NumLockIn(items) \in BOOLEAN /\ NumLockIn(full) = NumLockIn(items)
    BY <2>3 DEF NumLockIn
  <2>6. after = Seen(pc, NumLockIn(items)) \/ after = pc
    BY <1>2, <2>5
  <2>7. CASE queue = << >> /\ Executed(queue) = << >>
    <3>1. pc = Off
      BY <2>2, <2>4, <2>7, LeadsNone
    <3>2. ~NumLockIn(items) /\ ~NumLockIn(full)
      BY <1>5, <1>6, <2>3, <2>7
    <3>3. Seen(pc, NumLockIn(items)) = pc
      <4>1. pc.down = NumLockIn(items)
        BY <2>4, <2>5, <3>1, <3>2
      <4> QED
        BY <2>5, <4>1, SeenTwice
    <3>4. Leads(SeenEntry, << >>, after, Off)
      BY <2>4, <2>6, <3>1, <3>3, LeadsNone
    <3>5. ~NumLockIn(keys')
      BY <1>5, <1>6, <3>2 DEF NumLockIn
    <3> QED
      BY <1>5, <2>7, <3>4, <3>5
  <2>8. ASSUME queue # << >>
        PROVE  /\ Head(queue) \in Entries /\ items = Head(queue).items
               /\ Leads(SeenEntry, Tail(queue), Seen(pc, NumLockIn(items)), Off)
    <3>1. Head(queue) \in Entries /\ items = Head(queue).items
      BY <1>4, <1>5, <2>8, HeadTailProperties
    <3>2. Leads(SeenEntry, Tail(queue), SeenEntry[Head(queue)][pc], Off)
      BY <1>4, <2>2, <2>8, SeeTypes, LeadsRest
    <3> QED
      BY <3>1, <3>2, SeesEntry
  <2>9. CASE queue # << >> /\ Executed(queue) = Tail(queue) /\ outgoing_reports = << >>
    <3>1. Len(first) # OR_BUFSIZE
      <4>1. Len(first) \in Nat /\ OR_BUFSIZE \in Nat \ {0, 1} /\ Len(outgoing_reports) = 0
        BY <1>4, <2>9, LenProperties, EmptySeq, MappingAssumption
      <4>2. Len(first) <= 0 + 1
        BY <1>4, <4>1
      <4> QED
        BY <4>1, <4>2
    <3>2. keys' = << >> /\ prev_keys' = full
      BY <1>1, <3>1 DEF Frame
    <3>3. after = Seen(pc, NumLockIn(items))
      BY <1>2, <2>5, <3>2
    <3>4. ~NumLockIn(keys')
      BY <1>6, <3>2 DEF NumLockIn
    <3> QED
      BY <1>5, <2>8, <2>9, <3>3, <3>4
  <2>10. CASE /\ queue # << >> /\ Len(Executed(queue)) = Len(queue)
              /\ \A n \in 1 .. Len(queue) : Executed(queue)[n].items = queue[n].items
    <3>1. Leads(SeenEntry, queue, after, Off)
      <4> DEFINE seen == Seen(pc, NumLockIn(items))
      <4>1. seen \in PCs /\ Seen(seen, NumLockIn(items)) = seen
        BY <2>5, SeenType, SeenTwice
      <4>2. Leads(SeenEntry, Tail(queue), seen, Off)
        BY <2>8, <2>10
      <4>3. after = seen \/ after = pc
        BY <2>6
      <4> HIDE DEF seen
      <4>4. SeenEntry[Head(queue)][seen] = seen
        BY <2>8, <2>10, <4>1, SeesEntry
      <4>5. Leads(SeenEntry, Tail(queue), SeenEntry[Head(queue)][seen], Off)
        BY <4>2, <4>4
      <4>6. Leads(SeenEntry, queue, seen, Off)
        BY <1>4, <2>10, <4>1, <4>5, SeeTypes, LeadsFirst
      <4> QED
        BY <2>2, <4>3, <4>6
    <3>2. Executed(queue) \in Seq(Entries)
      BY <1>4, ExecutedIs
    <3>3. Leads(SeenEntry, Executed(queue), after, Off)
      BY <1>3, <1>4, <2>10, <3>1, <3>2, LeadsSame
    <3>4. Executed(queue) # << >> /\ Head(Executed(queue)).items = items
      <4>1. Len(queue) \in Nat /\ Len(queue) # 0 /\ 1 \in 1 .. Len(queue)
        BY <1>4, <2>10, LenProperties, EmptySeq
      <4>2. Executed(queue) # << >>
        BY <2>10, <4>1, EmptySeq
      <4>3. Head(Executed(queue)) = Executed(queue)[1] /\ Head(queue) = queue[1]
        BY <1>4, <2>10, <3>2, <4>2
      <4> QED
        BY <2>8, <2>10, <4>1, <4>2, <4>3
    <3>5. NumLockIn(keys') => NumLockIn(items)
      BY <1>5, <1>6, <2>3 DEF NumLockIn
    <3> QED
      BY <1>5, <3>3, <3>4, <3>5
  <2> QED
    BY <1>4, <2>7, <2>9, <2>10, ExecutedIs
<1> QED
  BY <1>3, <1>7 DEF NumLockInv, NumLockAfter, NumLockIn

LEMMA NumLockInit ==
  ASSUME NumLockByMacros, MappingInit
  PROVE  NotTarget /\ NumLockInv
<1>1. PICK config \in Configs : mappings = Compiled(config)
  BY DEF MappingInit, Init
<1>2. NotTarget
  <2> SUFFICES ASSUME NEW m \in Range(mappings) PROVE m.target # NUM_LOCK_USAGE
    BY DEF NotTarget
  <2>1. config \in Seq(Mappings)
    BY LayersAssumption
  <2>2. PICK n \in DOMAIN config : m = [config[n] EXCEPT !.layers = LayersOf(config[n])]
    BY <1>1 DEF Range, Compiled
  <2>3. config[n] \in Mappings /\ config[n] \in Range(config)
    BY <2>1, LenProperties, ElementOfSeq DEF Range
  <2>4. m.target = config[n].target
    BY <2>2, <2>3 DEF Mappings
  <2> QED
    BY <2>3, <2>4 DEF NumLockByMacros
<1>3. Off \in PCs /\ Off.down = FALSE
  BY DEF PCs, Off
<1>4. ~NumLockIn(<< >>)
  BY DEF NumLockIn, Range
<1>5. Leads(SeenReport, << >>, Off, Off) /\ Leads(SeenEntry, << >>, Off, Off)
  BY <1>3, LeadsNone
<1>6. AtPC = Off
  BY DEF MappingInit, AtPC, Off
<1>7. /\ outgoing_reports = << >> /\ macro_queue = << >> /\ keys = << >> /\ prev_keys = << >>
  BY DEF MappingInit
<1>8. NumLockAfter(Off)
  <2>1. Off.down = NumLockIn(prev_keys)
    <3>1. NumLockIn(prev_keys) = FALSE
      <4>1. ~NumLockIn(prev_keys)
        BY <1>4, <1>7
      <4> QED
        BY <4>1 DEF NumLockIn
    <3> QED
      BY <1>3, <3>1
  <2>2. Leads(SeenReport, outgoing_reports, AtPC, Off) /\ Leads(SeenEntry, macro_queue, Off, Off)
    BY <1>5, <1>6, <1>7
  <2>3. ~NumLockIn(keys)
    BY <1>4, <1>7
  <2> QED
    BY <2>1, <2>2, <2>3, Zenon DEF NumLockAfter
<1> QED
  BY <1>2, <1>3, <1>8 DEF NumLockInv

LEMMA NumLockStep ==
  ASSUME NumLockByMacros, NotTarget, TypeOK, MappingTypeOK, NumLockInv, [MappingNext]_<<vars, output>>
  PROVE  NumLockInv'
<1>1. PICK pc \in PCs : NumLockAfter(pc)
  BY DEF NumLockInv
<1>2. mappings \in Seq(Mappings) /\ OutputType
  BY DEF TypeOK, MappingTypeOK, OutputType, Reports
<1>3. CASE UNCHANGED <<macro_queue, keys, prev_keys, outgoing_reports, num_lock_down, num_lock, crowded>>
  BY <1>1, <1>3 DEF NumLockInv, NumLockAfter, AtPC, NumLockIn
<1>4. CASE MapFrame
  BY <1>1, <1>2, <1>4, NumLockFrame
<1>5. CASE send_report
  <2>1. /\ outgoing_reports # << >> /\ outgoing_reports' = Tail(outgoing_reports)
        /\ outgoing_reports \in Seq(Reports)
    BY <1>2, <1>5 DEF send_report, OutputType
  <2>2. AtPC \in PCs
    BY DEF MappingTypeOK, AtPC, PCs
  <2>3. Head(outgoing_reports) \in Reports
    BY <2>1, HeadTailProperties
  <2>4. AtPC' = SeenReport[Head(outgoing_reports)][AtPC]
    <3> DEFINE r == Head(outgoing_reports)
               down == NUM_LOCK_USAGE \in Range(r.keys)
    <3>1. SeenReport[r][AtPC] = IF r.id = "keyboard" THEN Seen(AtPC, NumLockIn(r.keys)) ELSE AtPC
      BY <2>2, <2>3 DEF SeenReport
    <3>2. CASE r.id = "keyboard"
      <4>1. num_lock_down' = down /\ num_lock' = IF down /\ ~num_lock_down THEN 1 - num_lock ELSE num_lock
        BY <1>5, <3>2 DEF send_report
      <4>2. Seen(AtPC, NumLockIn(r.keys)) = AtPC'
        BY <4>1 DEF Seen, AtPC, NumLockIn
      <4> QED
        BY <3>1, <3>2, <4>2
    <3>3. CASE r.id # "keyboard"
      <4>1. UNCHANGED <<num_lock_down, num_lock>>
        BY <1>5, <3>3 DEF send_report
      <4> QED
        BY <3>1, <3>3, <4>1 DEF AtPC
    <3> QED
      BY <3>2, <3>3
  <2>5. Leads(SeenReport, Tail(outgoing_reports), SeenReport[Head(outgoing_reports)][AtPC], pc)
    BY <1>1, <2>1, <2>2, SeeTypes, LeadsRest DEF NumLockAfter
  <2>6. UNCHANGED <<macro_queue, keys, prev_keys, crowded>>
    BY <1>5 DEF send_report
  <2>7. Leads(SeenReport, outgoing_reports', AtPC', pc)
    BY <2>1, <2>4, <2>5
  <2>8. NumLockAfter(pc)'
    BY <1>1, <2>6, <2>7 DEF NumLockAfter, NumLockIn
  <2> QED
    BY <2>8 DEF NumLockInv
<1>6. CASE LetTimePass
  BY <1>3, <1>6 DEF LetTimePass
<1>7. CASE KeypadOrHostChanges
  BY <1>3, <1>7 DEF KeypadOrHostChanges
<1>8. ASSUME NEW k \in build.keys, ReadInput(k) PROVE NumLockInv'
  BY <1>3, <1>8 DEF ReadInput, output
<1>9. CASE CompileAgain
  BY <1>3, <1>9 DEF CompileAgain, output
<1>10. CASE Suspend
  BY <1>3, <1>10 DEF Suspend, output
<1>11. ASSUME NEW config \in Configs, Resume(config) PROVE NumLockInv'
  BY <1>3, <1>11 DEF Resume
<1>12. CASE UNCHANGED <<vars, output>>
  BY <1>3, <1>12 DEF output
<1> QED
  BY <1>4, <1>5, <1>6, <1>7, <1>8, <1>9, <1>10, <1>11, <1>12 DEF MappingNext

LEMMA NumLockIsRestored == ASSUME MappingTypeOK, NumLockInv PROVE NumLockRestored
<1> SUFFICES ASSUME macro_queue = << >>, outgoing_reports = << >>, ~crowded
             PROVE  num_lock = 0
  BY DEF NumLockRestored
<1>1. PICK pc \in PCs : NumLockAfter(pc)
  BY DEF NumLockInv
<1>2. AtPC \in PCs /\ Off \in PCs
  BY DEF MappingTypeOK, AtPC, PCs, Off
<1>3. Leads(SeenReport, << >>, AtPC, pc) /\ Leads(SeenEntry, << >>, pc, Off)
  BY <1>1 DEF NumLockAfter
<1>4. AtPC = pc /\ pc = Off
  <2> DEFINE at == AtPC
  <2>1. at \in PCs /\ Leads(SeenReport, << >>, at, pc)
    BY <1>2, <1>3
  <2> HIDE DEF at
  <2>2. at = pc /\ pc = Off
    BY <1>2, <1>3, <2>1, LeadsNone
  <2> QED
    BY <2>2 DEF at
<1>5. AtPC.num_lock = 0
  BY <1>4 DEF Off
<1> QED
  BY <1>5 DEF AtPC

\* Where NumLock is typed by macros only, each in pairs, the PC's NumLock is as it was when the
\* macros are over and the reports are out: however macros, the startup taps, mouse reports, a
\* slow PC, and changes of the configuration and the devices interleave.  Only an array without
\* room loses a tap.  The invariant behind it: the reports that wait lead the PC to where the
\* last one queued has NumLock, and from there the macro queue leads back.
THEOREM MacrosRestoreNumLock == ASSUME NumLockByMacros PROVE MappingSpec => []MappingInv
<1>1. MappingInit => NotTarget /\ NumLockInv
  BY NumLockInit
<1>2. NotTarget /\ [Next]_vars => NotTarget'
  BY NotTargetStep
<1>3. NotTarget /\ TypeOK /\ MappingTypeOK /\ NumLockInv /\ [MappingNext]_<<vars, output>> => NumLockInv'
  BY NumLockStep
<1>4. MappingTypeOK /\ NumLockInv => MappingInv
  BY NumLockIsRestored DEF MappingInv
<1>5. MappingSpec => []NotTarget
  BY <1>1, <1>2, MappingIsLayers, PTL DEF MappingSpec, Spec
<1> QED
  BY <1>1, <1>3, <1>4, <1>5, MappingIsLayers, TypeCorrect, MappingTypes, PTL DEF MappingSpec

=============================================================================
