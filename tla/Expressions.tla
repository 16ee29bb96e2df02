----------------------------- MODULE Expressions -----------------------------
(***************************************************************************)
(* Expressions (remapper.cc): programs of a stack machine that a frame     *)
(* runs.  They are checked when the mappings are compiled (is_expr_valid,  *)
(* by set_mapping_from_config) and then run without any check (eval_expr). *)
(* An element that reads the state of an input keeps a pointer to the slot *)
(* it found first (state_ptr); a slot that an expression asked for is fed  *)
(* from the reports once update_their_descriptor_derivates knows it.       *)
(*                                                                         *)
(* A step is one element.  Numbers that no property looks into (sums,      *)
(* times, states) are any of Values.                                       *)
(***************************************************************************)
EXTENDS Integers, Sequences, FiniteSets

CONSTANTS
  NEXPRESSIONS,
  STACK_SIZE, NREGISTERS, NPORTS, MAX_INPUT_STATES,
  SCALE,                   \* 1000: what 1 is on the stack
  Values,                  \* of the stack; usages among them
  Elements, MaxElements,   \* what a client appends, and a bound on programs
  Stored,                  \* the programs it may have saved before, of all expressions
  Mapped,                  \* the slots of the mappings: sequences of keys
  NULL

ASSUME ExpressionsAssumption ==
  /\ {NEXPRESSIONS, STACK_SIZE, SCALE} \subseteq Nat \ {0}
  /\ {NREGISTERS, NPORTS, MAX_INPUT_STATES, MaxElements} \subseteq Nat
  /\ Values \subseteq Int /\ 0 \in Values
  /\ Elements \subseteq [op : STRING, val : Values]
  /\ Stored \subseteq [0 .. NEXPRESSIONS - 1 -> Seq([op : STRING, val : Values])]
  /\ \A keys \in Mapped :
       keys \in Seq([raw : BOOLEAN, port : Nat, usage : Int]) /\ Len(keys) <= MAX_INPUT_STATES
  /\ NULL \notin Nat

VARIABLES
  expressions,             \* elements: an op and its number
  expression_valid,
  state_ptr,               \* of each element: a slot, or NULL
  usage_state_ptr,         \* the keys that have slots, in the order of their slots
  their_descriptor_updated,
  registers, port_register,
  suspended,
  pc, expr, at,            \* what the main loop is at: an expression, its next element
  on_stack,                \* of is_expr_valid
  stack,                   \* of eval_expr: its stack[0 .. ptr]
  \* history
  depth,                   \* how deep the stack was before each element, when it was checked
  found,                   \* the key an element's pointer was found with
  derived                  \* the keys that update_their_descriptor_derivates knows

programs == <<expressions, expression_valid, state_ptr, found, depth>>
slots == <<usage_state_ptr, their_descriptor_updated>>
machine == <<registers, port_register>>
cursor == <<pc, expr, at>>
vars == <<programs, slots, machine, suspended, cursor, on_stack, stack, derived>>

Exprs == 0 .. NEXPRESSIONS - 1

-----------------------------------------------------------------------------
(* The operations, as is_expr_valid groups them.                           *)

Idle == {"DEBUG", "EOL"}
Pushes == {"PUSH", "PUSH_USAGE", "AUTO_REPEAT", "TIME", "SCALING", "LAYER_STATE", "TIME_SEC", "PLUGGED_IN"}
Arithmetic1 == {"NOT", "ABS", "SIN", "COS", "RELU", "BITWISE_NOT", "SQRT", "ROUND", "SIGN"}
\* The first four read a scaled input raw.
RawStates == {"INPUT_STATE", "PREV_INPUT_STATE", "INPUT_STATE_FP32", "PREV_INPUT_STATE_FP32"}
InputStates == RawStates \cup {"INPUT_STATE_BINARY", "PREV_INPUT_STATE_BINARY", "INPUT_STATE_SCALED",
                               "PREV_INPUT_STATE_SCALED"}
KeyStates == {"STICKY_STATE", "TAP_STATE", "HOLD_STATE"}
Arithmetic2 == {"ADD", "MUL", "EQ", "GT", "MOD", "BITWISE_OR", "BITWISE_AND", "ATAN2", "DIV", "SUB", "LT",
                "MIN", "MAX"}
Shows == {"MONITOR", "PRINT_IF"}

\* Operands, and what becomes of the depth.
Need(op) ==
  CASE op \in Idle \cup Pushes -> 0
    [] op \in Arithmetic1 \cup InputStates \cup KeyStates \cup {"RECALL", "DUP", "PORT"} -> 1
    [] op \in Arithmetic2 \cup Shows \cup {"STORE", "SWAP"} -> 2
    [] op \in {"CLAMP", "IFTE", "DEADZONE"} -> 3
    [] OTHER -> 4
Effect(op) ==
  CASE op \in Pushes \cup {"DUP"} -> 1
    [] op \in Arithmetic2 \cup {"PORT", "DEADZONE"} -> -1
    [] op \in Shows \cup {"CLAMP", "IFTE", "STORE", "DEADZONE2"} -> -2
    [] op = "DPAD" -> -3
    [] OTHER -> 0
Known == Idle \cup Pushes \cup Arithmetic1 \cup InputStates \cup KeyStates \cup Arithmetic2 \cup Shows
         \cup {"RECALL", "DUP", "PORT", "STORE", "SWAP", "CLAMP", "IFTE", "DEADZONE", "DPAD", "DEADZONE2"}

Acceptable(op, d) ==
  /\ op \in Known
  /\ d >= Need(op)
  /\ op \in Pushes \cup {"DUP"} => d < STACK_SIZE

-----------------------------------------------------------------------------
(* set_mapping_from_config.                                                *)

\* validate_expressions begins: at a change of the boot protocol too, even if suspended.
StartValidation ==
  /\ pc = "idle"
  /\ pc' = "validate" /\ expr' = 0 /\ at' = 1 /\ on_stack' = 0
  /\ depth' = [e \in Exprs |-> <<0>>]
  /\ UNCHANGED <<expressions, expression_valid, state_ptr, found, slots, machine, suspended, stack, derived>>

NextElem == expressions[expr][at]
More == at <= Len(expressions[expr])

\* is_expr_valid accepts an element.
AcceptElement ==
  /\ pc = "validate" /\ expr < NEXPRESSIONS /\ More
  /\ Acceptable(NextElem.op, on_stack)
  /\ on_stack' = on_stack + Effect(NextElem.op)
  /\ depth' = [depth EXCEPT ![expr] = Append(@, on_stack + Effect(NextElem.op))]
  /\ at' = at + 1
  /\ UNCHANGED <<expressions, expression_valid, state_ptr, found, slots, machine, suspended, pc, expr,
                 stack, derived>>

\* ... or comes to the end, or rejects one: the next expression.
EndValidation ==
  /\ pc = "validate" /\ expr < NEXPRESSIONS
  /\ More => ~Acceptable(NextElem.op, on_stack)
  /\ expression_valid' = [expression_valid EXCEPT ![expr] = ~More]
  /\ expr' = expr + 1 /\ at' = 1 /\ on_stack' = 0
  /\ UNCHANGED <<expressions, state_ptr, found, depth, slots, machine, suspended, pc, stack, derived>>

\* Mutated: the pointers stay.
WithoutInvalidation ==
  /\ pc = "validate" /\ expr = NEXPRESSIONS
  /\ \E keys \in Mapped : usage_state_ptr' = keys
  /\ derived' = usage_state_ptr'
  /\ pc' = "idle" /\ expr' = 0
  /\ UNCHANGED <<programs, their_descriptor_updated, machine, suspended, at, on_stack, stack>>

\* invalidate_expr_state_ptr_cache and the rest: new slots, known to the derivates.
CompileMappings ==
  /\ pc = "validate" /\ expr = NEXPRESSIONS
  /\ state_ptr' = [e \in Exprs |-> [i \in DOMAIN expressions[e] |-> NULL]]
  /\ \E keys \in Mapped : usage_state_ptr' = keys
  /\ derived' = usage_state_ptr'
  /\ pc' = "idle" /\ expr' = 0
  /\ UNCHANGED <<expressions, expression_valid, found, depth, their_descriptor_updated, machine, suspended,
                 at, on_stack, stack>>

-----------------------------------------------------------------------------
(* process_mapping and eval_expr.                                          *)

\* In the main loop the derivates come before a frame.
update_their_descriptor_derivates ==
  /\ pc = "idle" /\ their_descriptor_updated
  /\ their_descriptor_updated' = FALSE
  /\ derived' = usage_state_ptr
  /\ UNCHANGED <<programs, usage_state_ptr, machine, suspended, cursor, on_stack, stack>>

BeginFrame ==
  /\ pc = "idle" /\ ~suspended /\ ~their_descriptor_updated
  /\ pc' = "eval" /\ expr' = 0 /\ at' = 1 /\ stack' = <<>>
  /\ port_register' = 0
  /\ UNCHANGED <<programs, slots, registers, suspended, on_stack, derived>>

\* An expression has a result, or is not valid: the next one, or the end of the frame.
EndExpression ==
  /\ pc = "eval"
  /\ ~expression_valid[expr] \/ ~More
  /\ IF expr + 1 < NEXPRESSIONS THEN expr' = expr + 1 /\ UNCHANGED pc ELSE expr' = 0 /\ pc' = "idle"
  /\ at' = 1 /\ stack' = <<>>
  /\ UNCHANGED <<programs, slots, machine, suspended, on_stack, derived>>

\* The element that runs now is one of ops.
Runs(ops) ==
  /\ pc = "eval" /\ expression_valid[expr] /\ More
  /\ NextElem.op \in ops
  /\ at' = at + 1
  /\ UNCHANGED <<expressions, expression_valid, found, depth, suspended, pc, expr, on_stack, derived>>

\* An element that leaves registers, ports and slots alone.
Computes(ops) == Runs(ops) /\ UNCHANGED <<state_ptr, slots, machine>>

\* The operand i below the top.
Operand(i) == stack[Len(stack) - i]
\* What n operands leave on the stack.
Result(n, values) == stack' = SubSeq(stack, 1, Len(stack) - n) \o values

DoNothing == Computes(Idle) /\ UNCHANGED stack
Push ==
  /\ Computes(Pushes)
  /\ \E v \in Values :
       /\ NextElem.op \in {"PUSH", "PUSH_USAGE"} => v = NextElem.val
       /\ Result(0, <<v>>)
Compute1 == Computes(Arithmetic1) /\ \E v \in Values : Result(1, <<v>>)
Compute2 ==
  /\ Computes(Arithmetic2)
  /\ \E v \in Values :
       /\ NextElem.op \in {"MIN", "MAX"} => v \in {Operand(0), Operand(1)}
       /\ Result(2, <<v>>)
DUP == Computes({"DUP"}) /\ Result(0, <<Operand(0)>>)
SWAP == Computes({"SWAP"}) /\ Result(2, <<Operand(0), Operand(1)>>)
CLAMP == Computes({"CLAMP"}) /\ \E v \in {Operand(i) : i \in 0 .. 2} : Result(3, <<v>>)
IFTE == Computes({"IFTE"}) /\ Result(3, <<IF Operand(2) # 0 THEN Operand(1) ELSE Operand(0)>>)
DPAD == Computes({"DPAD"}) /\ \E v \in Values : Result(4, <<v>>)
\* Two coordinates; the radius, or both, go.
DEADZONE == Computes({"DEADZONE"}) /\ \E x, y \in Values : Result(3, <<x, y>>)
DEADZONE2 == Computes({"DEADZONE2"}) /\ \E x, y \in Values : Result(4, <<x, y>>)
Show == Computes(Shows) /\ Result(2, <<>>)

\* A division in C.
Whole(v) == IF v >= 0 THEN v \div SCALE ELSE -((-v) \div SCALE)
Register(v) == Whole(v) - 1

STORE ==
  /\ Runs({"STORE"})
  /\ registers' = IF Register(Operand(0)) \in 0 .. NREGISTERS - 1
                  THEN [registers EXCEPT ![Register(Operand(0))] = Operand(1)] ELSE registers
  /\ Result(2, <<>>)
  /\ UNCHANGED <<state_ptr, slots, port_register>>
RECALL ==
  /\ Computes({"RECALL"})
  /\ Result(1, <<IF Register(Operand(0)) \in 0 .. NREGISTERS - 1 THEN registers[Register(Operand(0))]
                 ELSE Operand(0)>>)

\* The register has a byte.
PORT ==
  /\ Runs({"PORT"})
  /\ LET port == Whole(Operand(0)) % 256 IN port_register' = IF port > NPORTS THEN 0 ELSE port
  /\ Result(1, <<>>)
  /\ UNCHANGED <<state_ptr, slots, registers>>

\* assign_state_slot has a slot for a key, or makes one.
Key == [raw |-> NextElem.op \in RawStates, port |-> port_register, usage |-> Operand(0)]
Slot(key) == {i \in DOMAIN usage_state_ptr : usage_state_ptr[i] = key}
\* Mutated: nobody is told of the new slot.
AssignSilently(key) == usage_state_ptr' = Append(usage_state_ptr, key) /\ UNCHANGED their_descriptor_updated
Assign(key) == usage_state_ptr' = Append(usage_state_ptr, key) /\ their_descriptor_updated' = TRUE

\* An element that has found its slot looks no further.
get_state_ptr ==
  /\ IF state_ptr[expr][at] # NULL \/ Slot(Key) # {} \/ Len(usage_state_ptr) >= MAX_INPUT_STATES
     THEN UNCHANGED slots
     ELSE Assign(Key)
  /\ IF state_ptr[expr][at] # NULL THEN UNCHANGED state_ptr
     ELSE state_ptr' = [state_ptr EXCEPT ![expr][at] =
            IF Slot(Key) # {} THEN CHOOSE i \in Slot(Key) : TRUE
            ELSE IF Len(usage_state_ptr) < MAX_INPUT_STATES THEN Len(usage_state_ptr) + 1
            ELSE NULL]

\* Without a slot, the state of an input is 0.
FetchInput ==
  /\ pc = "eval" /\ expression_valid[expr] /\ More /\ NextElem.op \in InputStates
  /\ at' = at + 1
  /\ get_state_ptr
  /\ found' = IF state_ptr[expr][at] = NULL THEN [found EXCEPT ![expr][at] = Key] ELSE found
  /\ \E v \in Values : (state_ptr'[expr][at] = NULL => v = 0) /\ Result(1, <<v>>)
  /\ UNCHANGED <<expressions, expression_valid, depth, machine, suspended, pc, expr, on_stack, derived>>

\* ... and that of a key, its usage.
FetchKey ==
  /\ pc = "eval" /\ expression_valid[expr] /\ More /\ NextElem.op \in KeyStates
  /\ at' = at + 1
  /\ get_state_ptr
  /\ found' = IF state_ptr[expr][at] = NULL THEN [found EXCEPT ![expr][at] = Key] ELSE found
  /\ \E v \in Values : (state_ptr'[expr][at] = NULL => v = Operand(0)) /\ Result(1, <<v>>)
  /\ UNCHANGED <<expressions, expression_valid, depth, machine, suspended, pc, expr, on_stack, derived>>

-----------------------------------------------------------------------------
(* The client.                                                             *)

SUSPEND ==
  /\ pc = "idle"
  /\ suspended' = TRUE
  /\ UNCHANGED <<programs, slots, machine, cursor, on_stack, stack, derived>>

CLEAR_EXPRESSIONS ==
  /\ pc = "idle" /\ suspended
  /\ expressions' = [e \in Exprs |-> <<>>]
  /\ state_ptr' = [e \in Exprs |-> <<>>] /\ found' = [e \in Exprs |-> <<>>]
  /\ UNCHANGED <<expression_valid, depth, slots, machine, suspended, cursor, on_stack, stack, derived>>

APPEND_TO_EXPRESSION ==
  /\ pc = "idle" /\ suspended
  /\ \E e \in Exprs, elem \in Elements :
       /\ Len(expressions[e]) < MaxElements
       /\ expressions' = [expressions EXCEPT ![e] = Append(@, elem)]
       /\ state_ptr' = [state_ptr EXCEPT ![e] = Append(@, NULL)]
       /\ found' = [found EXCEPT ![e] = Append(@, NULL)]
  /\ UNCHANGED <<expression_valid, depth, slots, machine, suspended, cursor, on_stack, stack, derived>>

\* reset_state at once; then the main loop ends the suspension and compiles.
RESUME ==
  /\ pc = "idle"
  /\ suspended' = FALSE
  /\ registers' = [r \in 0 .. NREGISTERS - 1 |-> 0]
  /\ pc' = "validate" /\ expr' = 0 /\ at' = 1 /\ on_stack' = 0
  /\ depth' = [e \in Exprs |-> <<0>>]
  /\ UNCHANGED <<expressions, expression_valid, state_ptr, found, slots, port_register, stack, derived>>

-----------------------------------------------------------------------------

\* load_config has read programs, and the first compilation is next.
Init ==
  /\ expressions \in Stored
  /\ expression_valid = [e \in Exprs |-> FALSE]
  /\ state_ptr = [e \in Exprs |-> [i \in DOMAIN expressions[e] |-> NULL]]
  /\ found = [e \in Exprs |-> [i \in DOMAIN expressions[e] |-> NULL]]
  /\ usage_state_ptr = <<>> /\ their_descriptor_updated = FALSE
  /\ registers = [r \in 0 .. NREGISTERS - 1 |-> 0] /\ port_register = 0
  /\ suspended = FALSE
  /\ pc = "validate" /\ expr = 0 /\ at = 1
  /\ on_stack = 0
  /\ stack = <<>>
  /\ depth = [e \in Exprs |-> <<0>>]
  /\ derived = <<>>

set_mapping_from_config == StartValidation \/ AcceptElement \/ EndValidation \/ CompileMappings
eval_expr ==
  \/ DoNothing \/ Push \/ Compute1 \/ Compute2 \/ DUP \/ SWAP \/ CLAMP \/ IFTE \/ DPAD \/ DEADZONE \/ DEADZONE2
  \/ Show \/ STORE \/ RECALL \/ PORT \/ FetchInput \/ FetchKey
process_mapping == BeginFrame \/ eval_expr \/ EndExpression
handle_set_report1 == SUSPEND \/ CLEAR_EXPRESSIONS \/ APPEND_TO_EXPRESSION \/ RESUME

Next ==
  \/ set_mapping_from_config
  \/ update_their_descriptor_derivates
  \/ process_mapping
  \/ handle_set_report1

Spec == Init /\ [][Next]_vars

-----------------------------------------------------------------------------
(* Properties.                                                             *)

Elems == [op : STRING, val : Values]
Slots == Nat \cup {NULL}
TypeOK ==
  /\ expression_valid \in [Exprs -> BOOLEAN]
  /\ \A e \in Exprs : DOMAIN state_ptr[e] = DOMAIN expressions[e]
  /\ registers \in [0 .. NREGISTERS - 1 -> Values]
  /\ port_register \in 0 .. NPORTS
  /\ pc \in {"idle", "validate", "eval"}
  /\ expr \in 0 .. NEXPRESSIONS /\ at \in Nat \ {0}
  /\ on_stack \in 0 .. STACK_SIZE
  /\ stack \in Seq(Values) /\ Len(stack) <= STACK_SIZE
  /\ Len(usage_state_ptr) <= MAX_INPUT_STATES
  /\ {suspended, their_descriptor_updated} \subseteq BOOLEAN

\* The lowest operand of an element lies on the stack, and its result too: what eval_expr
\* reads and writes without a check is in its array, and was written by this expression.
OnStack(op) ==
  /\ Len(stack) >= Need(op)
  /\ Len(stack) + Effect(op) <= STACK_SIZE
StackStays == pc = "eval" /\ expression_valid[expr] /\ More => OnStack(NextElem.op)

\* The slot an element keeps is the one of the usage and port it was found for, also after
\* other mappings were compiled, which hand out all slots again.
KeptSlotIsOwn ==
  pc # "validate" =>
    \A e \in Exprs : \A i \in DOMAIN expressions[e] :
      state_ptr[e][i] # NULL => /\ state_ptr[e][i] \in DOMAIN usage_state_ptr
                                /\ usage_state_ptr[state_ptr[e][i]] = found[e][i]

\* What eval_expr reads without a check: the types, its operands, and the slots it has kept.
ExpressionsInv == TypeOK /\ StackStays /\ KeptSlotIsOwn

\* A frame that begins finds every slot fed by the reports, those that the expressions of
\* earlier frames asked for included.
SlotsAreFed == [][BeginFrame => derived = usage_state_ptr]_vars
=============================================================================
