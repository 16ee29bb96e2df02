----------------------------- MODULE MCMapping -----------------------------
(* Mapping with toggled, held, tapped and shared layer keys, whose output is *)
(* left out (no passthrough); with layer keys, keys and macros; and with the *)
(* startup taps and a mouse beside a user's macro that types NumLock twice;  *)
(* and with that macro beside a key that is typed.                           *)
EXTENDS Mapping

CONSTANTS k1, k2, k3, numlock, hello, taps, nothing

Map(key, target, layers, flags) ==
  [key |-> key, target |-> target, layers |-> layers, sticky |-> "sticky" \in flags,
   tap |-> "tap" \in flags, hold |-> "hold" \in flags]

\* two toggled layers, and a third key that holds another one
TwoToggles == <<Map(k1, 1, Layer, {"sticky"}), Map(k2, 2, Layer, {"sticky"}), Map(k3, 3, {0}, {})>>
\* a toggled layer, and one held from layer 0 by a key, from layer 1 by a long press
ToggleAndHold == <<Map(k1, 1, Layer, {"sticky"}), Map(k2, 2, {0}, {}), Map(k3, 2, {1}, {"hold"})>>
\* tapped for one layer and held for another, and another key back to layer 0
TapAndHold == <<Map(k1, 1, Layer, {"sticky", "tap"}), Map(k1, 2, Layer, {"hold"}),
                Map(k2, 0, {0, 1}, {}), Map(k3, 3, {1}, {"sticky"})>>
\* one key toggles two layers and an output; a long press toggles the first of them
Shared == <<Map(k1, 1, Layer, {"sticky"}), Map(k2, 1, {0}, {"sticky", "hold"}),
            Map(k1, 2, Layer, {"sticky"}), Map(k1, nothing, {0, 1}, {"sticky"})>>
\* a long press toggles a layer, and a tap on that layer another
HoldToggles == <<Map(k1, 1, Layer, {"sticky", "hold"}), Map(k1, 2, {1}, {"sticky", "tap"}),
                 Map(k2, 3, {0, 2}, {"tap"})>>
LayerConfigs == {TwoToggles, ToggleAndHold, TapAndHold, Shared, HoldToggles}

\* one key toggles a layer; another types on layer 0 and plays a macro on layer 1
MacroOnLayer == <<Map(k1, 1, Layer, {"sticky"}), Map(k2, hello, {1}, {})>>
\* a key types the user's NumLock macro
UserTaps == <<Map(k1, taps, Layer, {})>>

MCConfigs == LayerConfigs \cup {MacroOnLayer, UserTaps}
Passthroughs == [c \in MCConfigs |-> IF c \in LayerConfigs THEN {} ELSE Layer]
MCBuilds == {[configs |-> LayerConfigs, keys |-> Keys, startup |-> FALSE, mouse |-> FALSE],
             [configs |-> {MacroOnLayer}, keys |-> {k1, k2}, startup |-> FALSE, mouse |-> TRUE],
             [configs |-> {UserTaps}, keys |-> {k1}, startup |-> TRUE, mouse |-> TRUE],
             [configs |-> {UserTaps}, keys |-> {k1, k2}, startup |-> FALSE, mouse |-> FALSE]}

UsageOrder == <<k2, k1, numlock>>
MCMacros == [m \in {hello, taps} |->
  IF m = hello THEN << <<k2>>, <<k1, numlock>>, << >>, <<numlock>>, << >> >>
  ELSE << <<numlock>>, << >>, <<numlock>>, << >> >>]
=============================================================================
