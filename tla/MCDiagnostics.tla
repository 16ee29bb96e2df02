--------------------------- MODULE MCDiagnostics ---------------------------
(* Two interfaces and a PC that does not read; an interface and a B without  *)
(* diagnostics; diagnostics and no device.  The descriptor of the first      *)
(* interface has more fragments than fit the queue.                          *)
EXTENDS Diagnostics

CONSTANTS kbd, mouse

MCInterfaces == {kbd, mouse}
MCInstance == [i \in MCInterfaces |-> IF i = kbd THEN 0 ELSE 1]
MCFragments == [i \in MCInterfaces |-> IF i = kbd THEN 3 ELSE 1]
MCScenarios ==
  {[devices |-> {kbd, mouse}, reports |-> TRUE, reads |-> FALSE],
   [devices |-> {kbd}, reports |-> FALSE, reads |-> TRUE], [devices |-> {}, reports |-> TRUE, reads |-> TRUE]}
=============================================================================
