--------------------------- MODULE MCExpressions ---------------------------
(* Two expressions, one that a client extends; a stack of four.  1 is 2.   *)
EXTENDS Expressions, TLC

E(op) == [op |-> op, val |-> 0]
U(v) == [op |-> "PUSH_USAGE", val |-> v]
V(v) == [op |-> "PUSH", val |-> v]

MCElements == {U(2), E("INPUT_STATE")}
\* Each operation at its smallest and at its greatest depth, and some too deep or too high.
Programs ==
  {<<>>, <<U(2)>>, <<U(2), E("TAP_STATE")>>,
   <<V(2), E("PORT"), U(4), E("INPUT_STATE")>>, <<V(4), E("PORT"), U(4), E("INPUT_STATE_BINARY")>>,
   <<V(0), E("RECALL"), E("PORT"), U(4), E("INPUT_STATE_SCALED")>>,
   <<V(2), V(2), E("STORE"), V(2), E("RECALL")>>,
   <<V(2), V(4), E("ADD"), E("NOT")>>, <<V(2), E("SWAP")>>, <<V(2), V(4), E("SWAP"), E("MAX")>>,
   <<V(2), V(2), V(4), E("CLAMP")>>, <<V(0), V(2), V(4), E("IFTE"), E("DEBUG")>>,
   <<V(0), E("DUP"), E("DUP"), E("DEADZONE"), E("MONITOR")>>,
   <<V(0), E("DUP"), E("DUP"), E("DUP"), E("DEADZONE2")>>, <<V(0), V(2), V(0), V(2), E("DPAD")>>,
   <<V(0), V(2), V(0), V(2), E("DUP")>>, <<U(2), E("nonsense")>>, <<V(0), V(2), V(0), V(2), V(0)>>, <<V(0), V(2), V(0), E("DPAD")>>}
\* The second one may run after another port was selected.
MCStored == {(0 :> first @@ 1 :> second) : first \in Programs, second \in {<<>>, <<U(4), E("STICKY_STATE")>>}}
MCMapped ==
  {<<>>, <<[raw |-> FALSE, port |-> 0, usage |-> 2]>>,
   <<[raw |-> TRUE, port |-> 0, usage |-> 4], [raw |-> FALSE, port |-> 0, usage |-> 2]>>}
=============================================================================
