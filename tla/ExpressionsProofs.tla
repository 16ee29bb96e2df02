-------------------------- MODULE ExpressionsProofs --------------------------
(***************************************************************************)
(* Proofs about Expressions: what eval_expr reads and writes without a     *)
(* check lies on its stack, the slots that elements keep are their own,    *)
(* and a frame begins with all slots fed; for any programs and sizes.      *)
(***************************************************************************)
EXTENDS Expressions, SequenceTheorems, TLAPS

Keys == [raw : BOOLEAN, port : Nat, usage : Int]

\* The programs, and what goes with each of their elements.
ProgramsInv ==
  /\ expressions \in [Exprs -> Seq(Elems)]
  /\ state_ptr \in [Exprs -> Seq(Slots)]
  /\ found \in [Exprs -> Seq(Keys \cup {NULL})]
  /\ \A e \in Exprs : /\ Len(state_ptr[e]) = Len(expressions[e])
                      /\ Len(found[e]) = Len(expressions[e])
  /\ usage_state_ptr \in Seq(Keys)
  /\ depth \in [Exprs -> Seq(Nat)]

\* The first n elements of e were accepted, at the depths of depth[e].
Checked(e, n) ==
  /\ depth[e] \in Seq(0 .. STACK_SIZE)
  /\ Len(depth[e]) = n + 1 /\ n <= Len(expressions[e])
  /\ depth[e][1] = 0
  /\ \A i \in 1 .. n : /\ Acceptable(expressions[e][i].op, depth[e][i])
                       /\ depth[e][i + 1] = depth[e][i] + Effect(expressions[e][i].op)
Valid(e) == expression_valid[e] => Checked(e, Len(expressions[e]))

\* is_expr_valid has come to an element; the later expressions are as yet unread.
ValidationInv ==
  pc = "validate" =>
    /\ \A e \in Exprs : e < expr => Valid(e)
    /\ \A e \in Exprs : e > expr => depth[e] = << 0 >>
    /\ expr < NEXPRESSIONS => Checked(expr, at - 1) /\ on_stack = depth[expr][at]

\* Unless programs are being changed, what is valid has been checked.
ValidityInv == pc # "validate" /\ ~suspended => \A e \in Exprs : Valid(e)

\* The stack is as deep at each element as it was when it was checked.
DepthInv ==
  pc = "eval" => /\ ~suspended /\ expr < NEXPRESSIONS
                 /\ expression_valid[expr] => /\ at <= Len(depth[expr])
                                              /\ Len(stack) = depth[expr][at]
                 /\ ~expression_valid[expr] => at = 1 /\ stack = <<>>

\* The derivates know every slot, or are about to.
FedInv == ~their_descriptor_updated => derived = usage_state_ptr

DepthIsKnown == ProgramsInv /\ ValidationInv /\ ValidityInv /\ DepthInv
IInv == TypeOK /\ DepthIsKnown /\ KeptSlotIsOwn /\ FedInv

-----------------------------------------------------------------------------
(* Operations and the stack.                                               *)

\* The sizes are numbers.
LEMMA Sizes ==
  /\ NEXPRESSIONS \in Nat \ {0} /\ STACK_SIZE \in Nat \ {0} /\ SCALE \in Nat \ {0}
  /\ NREGISTERS \in Nat /\ NPORTS \in Nat /\ MAX_INPUT_STATES \in Nat
  /\ Values \subseteq Int /\ 0 \in Values
BY ExpressionsAssumption

\* What an operation needs and does, for each of its groups.
LEMMA OpDepth ==
  ASSUME NEW op
  PROVE  /\ op \in Idle => Need(op) = 0 /\ Effect(op) = 0
         /\ op \in Pushes => Need(op) = 0 /\ Effect(op) = 1
         /\ op \in Arithmetic1 \cup InputStates \cup KeyStates \cup {"RECALL"} => Need(op) = 1 /\ Effect(op) = 0
         /\ op = "DUP" => Need(op) = 1 /\ Effect(op) = 1
         /\ op = "PORT" => Need(op) = 1 /\ Effect(op) = -1
         /\ op \in Arithmetic2 => Need(op) = 2 /\ Effect(op) = -1
         /\ op \in Shows \cup {"STORE"} => Need(op) = 2 /\ Effect(op) = -2
         /\ op = "SWAP" => Need(op) = 2 /\ Effect(op) = 0
         /\ op \in {"CLAMP", "IFTE"} => Need(op) = 3 /\ Effect(op) = -2
         /\ op = "DEADZONE" => Need(op) = 3 /\ Effect(op) = -1
         /\ op = "DPAD" => Need(op) = 4 /\ Effect(op) = -3
         /\ op = "DEADZONE2" => Need(op) = 4 /\ Effect(op) = -2
BY DEF Idle, Pushes, Arithmetic1, RawStates, InputStates, KeyStates, Arithmetic2, Shows, Need, Effect

\* An operation that is_expr_valid accepts leaves a depth that the stack has.
LEMMA AcceptableFits ==
  ASSUME NEW op, NEW d \in 0 .. STACK_SIZE, Acceptable(op, d)
  PROVE  d >= Need(op) /\ d + Effect(op) \in 0 .. STACK_SIZE
<1>1. op \in Known /\ d >= Need(op) /\ (op \in Pushes \cup {"DUP"} => d < STACK_SIZE)
  BY DEF Acceptable
<1>2. STACK_SIZE \in Nat
  BY Sizes
<1>3. /\ Need(op) \in Nat /\ Effect(op) \in Int /\ Need(op) + Effect(op) >= 0
      /\ Effect(op) <= IF op \in Pushes \cup {"DUP"} THEN 1 ELSE 0
  BY <1>1, OpDepth DEF Known
<1> QED
  BY <1>1, <1>2, <1>3

\* n operands make room for no value, one or two.
LEMMA ResultLen ==
  ASSUME NEW n \in Nat, stack \in Seq(Values), n <= Len(stack)
  PROVE  /\ Result(n, <<>>) => stack' \in Seq(Values) /\ Len(stack') = Len(stack) - n
         /\ \A x \in Values :
              Result(n, <<x>>) => stack' \in Seq(Values) /\ Len(stack') = Len(stack) - n + 1
         /\ \A x, y \in Values :
              Result(n, <<x, y>>) => stack' \in Seq(Values) /\ Len(stack') = Len(stack) - n + 2
<1> DEFINE rest == SubSeq(stack, 1, Len(stack) - n)
<1>1. rest \in Seq(Values) /\ Len(rest) = Len(stack) - n
  OBVIOUS
<1>2. ASSUME NEW values \in Seq(Values), Result(n, values)
      PROVE  stack' \in Seq(Values) /\ Len(stack') = Len(stack) - n + Len(values)
  <2>1. stack' = rest \o values
    BY <1>2 DEF Result
  <2> HIDE DEF rest
  <2> QED
    BY <1>1, <2>1, ConcatProperties
<1>3. <<>> \in Seq(Values) /\ Len(<<>>) = 0
  OBVIOUS
<1>4. ASSUME NEW x \in Values, Result(n, <<x>>)
      PROVE  stack' \in Seq(Values) /\ Len(stack') = Len(stack) - n + 1
  <2>1. <<x>> \in Seq(Values) /\ Len(<<x>>) = 1
    OBVIOUS
  <2> QED
    BY <1>2, <1>4, <2>1
<1>5. ASSUME NEW x \in Values, NEW y \in Values, Result(n, <<x, y>>)
      PROVE  stack' \in Seq(Values) /\ Len(stack') = Len(stack) - n + 2
  <2>1. <<x, y>> \in Seq(Values) /\ Len(<<x, y>>) = 2
    OBVIOUS
  <2> QED
    BY <1>2, <1>5, <2>1
<1>6. Len(stack) - n + 0 = Len(stack) - n
  OBVIOUS
<1> QED
  BY <1>2, <1>3, <1>4, <1>5, <1>6

-----------------------------------------------------------------------------
(* An element of an expression runs.                                       *)

\* An element runs at the depth it was checked at.
LEMMA RunsOnStack ==
  ASSUME TypeOK, DepthIsKnown, pc = "eval", expression_valid[expr], More
  PROVE  /\ expr \in Exprs /\ at \in 1 .. Len(expressions[expr])
         /\ NextElem \in Elems
         /\ Len(stack) >= Need(NextElem.op)
         /\ Len(stack) + Effect(NextElem.op) \in 0 .. STACK_SIZE
         /\ Len(stack) = depth[expr][at]
         /\ depth[expr][at + 1] = Len(stack) + Effect(NextElem.op)
         /\ Len(depth[expr]) = Len(expressions[expr]) + 1
<1>1. expr \in Exprs
  BY Sizes DEF TypeOK, DepthIsKnown, DepthInv, Exprs
<1>2. expressions[expr] \in Seq(Elems)
  BY <1>1 DEF DepthIsKnown, ProgramsInv
<1>3. at \in 1 .. Len(expressions[expr])
  BY <1>1, <1>2 DEF TypeOK, More
<1>4. Checked(expr, Len(expressions[expr])) /\ Len(stack) = depth[expr][at]
  BY <1>1 DEF DepthIsKnown, DepthInv, ValidityInv, Valid
<1>5. /\ Acceptable(NextElem.op, depth[expr][at])
      /\ depth[expr][at + 1] = depth[expr][at] + Effect(NextElem.op)
      /\ depth[expr][at] \in 0 .. STACK_SIZE
      /\ Len(depth[expr]) = Len(expressions[expr]) + 1
  <2>1. /\ depth[expr] \in Seq(0 .. STACK_SIZE)
        /\ Len(depth[expr]) = Len(expressions[expr]) + 1
        /\ \A i \in 1 .. Len(expressions[expr]) :
             /\ Acceptable(expressions[expr][i].op, depth[expr][i])
             /\ depth[expr][i + 1] = depth[expr][i] + Effect(expressions[expr][i].op)
    BY <1>4 DEF Checked
  <2>2. at \in 1 .. Len(depth[expr])
    BY <1>2, <1>3, <2>1
  <2>3. depth[expr][at] \in 0 .. STACK_SIZE
    BY <2>1, <2>2, ElementOfSeq
  <2> QED
    BY <1>3, <2>1, <2>3 DEF NextElem
<1>6. NextElem \in Elems
  BY <1>2, <1>3, ElementOfSeq DEF NextElem
<1>7. /\ depth[expr][at] >= Need(NextElem.op)
      /\ depth[expr][at] + Effect(NextElem.op) \in 0 .. STACK_SIZE
  BY <1>5, AcceptableFits
<1> QED
  BY <1>1, <1>3, <1>4, <1>5, <1>6, <1>7

\* What an element does to the stack: all that eval_expr does to the expression.
ElementStep ==
  /\ pc = "eval" /\ expression_valid[expr] /\ More
  /\ at' = at + 1
  /\ stack' \in Seq(Values) /\ Len(stack') = Len(stack) + Effect(NextElem.op)
  /\ UNCHANGED <<expressions, expression_valid, depth, suspended, pc, expr, on_stack, derived>>

\* Elements that compute leave as many values as their effect says.
LEMMA ComputesStep ==
  ASSUME TypeOK, DepthIsKnown,
         \/ DoNothing \/ Push \/ Compute1 \/ Compute2 \/ DUP \/ SWAP \/ CLAMP \/ IFTE \/ DPAD
         \/ DEADZONE \/ DEADZONE2 \/ Show \/ RECALL
  PROVE  ElementStep /\ UNCHANGED <<found, state_ptr, slots, machine>>
<1>1. pc = "eval" /\ expression_valid[expr] /\ More
  BY DEF DoNothing, Push, Compute1, Compute2, DUP, SWAP, CLAMP, IFTE, DPAD, DEADZONE, DEADZONE2, Show,
         RECALL, Computes, Runs
<1>2. /\ UNCHANGED <<found, state_ptr, slots, machine, expressions, expression_valid, depth, suspended,
                     pc, expr, on_stack, derived>>
      /\ at' = at + 1
  BY DEF DoNothing, Push, Compute1, Compute2, DUP, SWAP, CLAMP, IFTE, DPAD, DEADZONE, DEADZONE2, Show,
         RECALL, Computes, Runs
<1>3. stack \in Seq(Values) /\ registers \in [0 .. NREGISTERS - 1 -> Values]
  BY DEF TypeOK
<1>4. Len(stack) >= Need(NextElem.op) /\ NextElem.val \in Values
  BY <1>1, RunsOnStack DEF Elems
<1>5. \A i \in 0 .. Len(stack) - 1 : Operand(i) \in Values
  BY <1>3 DEF Operand
<1> DEFINE Grown == stack' \in Seq(Values) /\ Len(stack') = Len(stack) + Effect(NextElem.op)
<1>6. CASE DoNothing
  <2>1. NextElem.op \in Idle /\ stack' = stack
    BY <1>6 DEF DoNothing, Computes, Runs
  <2> QED
    BY <1>1, <1>2, <1>3, <2>1, OpDepth DEF ElementStep
<1>7. CASE Push
  <2>1. NextElem.op \in Pushes
    BY <1>7 DEF Push, Computes, Runs
  <2>2. PICK v \in Values : Result(0, <<v>>)
    BY <1>7 DEF Push
  <2>3. 0 \in Nat /\ 0 <= Len(stack)
    BY <1>3, <1>4, <2>1, OpDepth
  <2>4. Grown
    BY <1>3, <2>1, <2>2, ResultLen, OpDepth, <2>3
  <2> QED
    BY <1>1, <1>2, <2>4 DEF ElementStep
<1>8. CASE Compute1
  <2>1. NextElem.op \in Arithmetic1
    BY <1>8 DEF Compute1, Computes, Runs
  <2>2. PICK v \in Values : Result(1, <<v>>)
    BY <1>8 DEF Compute1
  <2>3. 1 \in Nat /\ 1 <= Len(stack)
    BY <1>3, <1>4, <2>1, OpDepth
  <2>4. Grown
    BY <1>3, <2>1, <2>2, ResultLen, OpDepth, <2>3
  <2> QED
    BY <1>1, <1>2, <2>4 DEF ElementStep
<1>9. CASE Compute2
  <2>1. NextElem.op \in Arithmetic2
    BY <1>9 DEF Compute2, Computes, Runs
  <2>2. PICK v \in Values : Result(2, <<v>>)
    BY <1>9 DEF Compute2
  <2>3. 2 \in Nat /\ 2 <= Len(stack)
    BY <1>3, <1>4, <2>1, OpDepth
  <2>4. Grown
    BY <1>3, <2>1, <2>2, ResultLen, OpDepth, <2>3
  <2> QED
    BY <1>1, <1>2, <2>4 DEF ElementStep
<1>10. CASE DUP
  <2>1. NextElem.op = "DUP" /\ Result(0, <<Operand(0)>>)
    BY <1>10 DEF DUP, Computes, Runs
  <2>2. Need(NextElem.op) = 1 /\ Effect(NextElem.op) = 1
    BY <2>1, OpDepth
  <2>3. Operand(0) \in Values
    BY <1>3, <1>4, <1>5, <2>2
  <2>4. 0 \in Nat /\ 0 <= Len(stack)
    BY <1>3, <1>4, <2>1, OpDepth
  <2>5. Grown
    BY <1>3, <2>1, <2>2, <2>3, ResultLen, <2>4
  <2> QED
    BY <1>1, <1>2, <2>5 DEF ElementStep
<1>11. CASE SWAP
  <2>1. NextElem.op = "SWAP" /\ Result(2, <<Operand(0), Operand(1)>>)
    BY <1>11 DEF SWAP, Computes, Runs
  <2>2. Need(NextElem.op) = 2 /\ Effect(NextElem.op) = 0
    BY <2>1, OpDepth
  <2>3. Operand(0) \in Values /\ Operand(1) \in Values
    BY <1>3, <1>4, <1>5, <2>2
  <2>4. 2 \in Nat /\ 2 <= Len(stack)
    BY <1>3, <1>4, <2>1, OpDepth
  <2>5. Grown
    BY <1>3, <2>1, <2>2, <2>3, ResultLen, <2>4
  <2> QED
    BY <1>1, <1>2, <2>5 DEF ElementStep
<1>12. CASE CLAMP
  <2>1. NextElem.op = "CLAMP"
    BY <1>12 DEF CLAMP, Computes, Runs
  <2>2. Need(NextElem.op) = 3 /\ Effect(NextElem.op) = -2
    BY <2>1, OpDepth
  <2>3. PICK i \in 0 .. 2 : Result(3, <<Operand(i)>>)
    BY <1>12 DEF CLAMP
  <2>4. Operand(i) \in Values
    BY <1>3, <1>4, <1>5, <2>2
  <2>5. 3 \in Nat /\ 3 <= Len(stack)
    BY <1>3, <1>4, <2>1, OpDepth
  <2>6. Grown
    BY <1>3, <2>2, <2>3, <2>4, ResultLen, <2>5
  <2> QED
    BY <1>1, <1>2, <2>6 DEF ElementStep
<1>13. CASE IFTE
  <2>1. NextElem.op = "IFTE" /\ Result(3, <<IF Operand(2) # 0 THEN Operand(1) ELSE Operand(0)>>)
    BY <1>13 DEF IFTE, Computes, Runs
  <2>2. Need(NextElem.op) = 3 /\ Effect(NextElem.op) = -2
    BY <2>1, OpDepth
  <2>3. Operand(0) \in Values /\ Operand(1) \in Values
    BY <1>3, <1>4, <1>5, <2>2
  <2>4. 3 \in Nat /\ 3 <= Len(stack)
    BY <1>3, <1>4, <2>1, OpDepth
  <2>5. Grown
    BY <1>3, <2>1, <2>2, <2>3, ResultLen, <2>4
  <2> QED
    BY <1>1, <1>2, <2>5 DEF ElementStep
<1>14. CASE DPAD
  <2>1. NextElem.op = "DPAD"
    BY <1>14 DEF DPAD, Computes, Runs
  <2>2. PICK v \in Values : Result(4, <<v>>)
    BY <1>14 DEF DPAD
  <2>3. 4 \in Nat /\ 4 <= Len(stack)
    BY <1>3, <1>4, <2>1, OpDepth
  <2>4. Grown
    BY <1>3, <2>1, <2>2, ResultLen, OpDepth, <2>3
  <2> QED
    BY <1>1, <1>2, <2>4 DEF ElementStep
<1>15. CASE DEADZONE
  <2>1. NextElem.op = "DEADZONE"
    BY <1>15 DEF DEADZONE, Computes, Runs
  <2>2. PICK x \in Values, y \in Values : Result(3, <<x, y>>)
    BY <1>15 DEF DEADZONE
  <2>3. 3 \in Nat /\ 3 <= Len(stack)
    BY <1>3, <1>4, <2>1, OpDepth
  <2>4. Grown
    BY <1>3, <2>1, <2>2, ResultLen, OpDepth, <2>3
  <2> QED
    BY <1>1, <1>2, <2>4 DEF ElementStep
<1>16. CASE DEADZONE2
  <2>1. NextElem.op = "DEADZONE2"
    BY <1>16 DEF DEADZONE2, Computes, Runs
  <2>2. PICK x \in Values, y \in Values : Result(4, <<x, y>>)
    BY <1>16 DEF DEADZONE2
  <2>3. 4 \in Nat /\ 4 <= Len(stack)
    BY <1>3, <1>4, <2>1, OpDepth
  <2>4. Grown
    BY <1>3, <2>1, <2>2, ResultLen, OpDepth, <2>3
  <2> QED
    BY <1>1, <1>2, <2>4 DEF ElementStep
<1>17. CASE Show
  <2>1. NextElem.op \in Shows /\ Result(2, <<>>)
    BY <1>17 DEF Show, Computes, Runs
  <2>2. 2 \in Nat /\ 2 <= Len(stack)
    BY <1>3, <1>4, <2>1, OpDepth
  <2>3. Grown
    BY <1>3, <2>1, ResultLen, OpDepth, <2>2
  <2> QED
    BY <1>1, <1>2, <2>3 DEF ElementStep
<1>18. CASE RECALL
  <2> DEFINE v == IF Register(Operand(0)) \in 0 .. NREGISTERS - 1 THEN registers[Register(Operand(0))]
                  ELSE Operand(0)
  <2>1. NextElem.op = "RECALL" /\ Result(1, <<v>>)
    BY <1>18 DEF RECALL, Computes, Runs
  <2>2. Need(NextElem.op) = 1 /\ Effect(NextElem.op) = 0
    BY <2>1, OpDepth
  <2>3. v \in Values
    BY <1>3, <1>4, <1>5, <2>2
  <2> HIDE DEF v
  <2>4. 1 \in Nat /\ 1 <= Len(stack)
    BY <1>3, <1>4, <2>1, OpDepth
  <2>5. Grown
    BY <1>3, <2>1, <2>2, <2>3, ResultLen, <2>4
  <2> QED
    BY <1>1, <1>2, <2>5 DEF ElementStep
<1> QED
  BY <1>6, <1>7, <1>8, <1>9, <1>10, <1>11, <1>12, <1>13, <1>14, <1>15, <1>16, <1>17, <1>18

\* STORE writes a register that exists, and PORT a port that the device may have.
LEMMA StorePortStep ==
  ASSUME TypeOK, DepthIsKnown, STORE \/ PORT
  PROVE  /\ ElementStep /\ UNCHANGED <<found, state_ptr, slots>>
         /\ registers' \in [0 .. NREGISTERS - 1 -> Values] /\ port_register' \in 0 .. NPORTS
<1>1. pc = "eval" /\ expression_valid[expr] /\ More
  BY DEF STORE, PORT, Runs
<1>2. /\ UNCHANGED <<found, state_ptr, slots, expressions, expression_valid, depth, suspended,
                     pc, expr, on_stack, derived>>
      /\ at' = at + 1
  BY DEF STORE, PORT, Runs
<1>3. /\ stack \in Seq(Values) /\ registers \in [0 .. NREGISTERS - 1 -> Values]
      /\ port_register \in 0 .. NPORTS
  BY DEF TypeOK
<1>4. Len(stack) >= Need(NextElem.op)
  BY <1>1, RunsOnStack
<1>5. \A i \in 0 .. Len(stack) - 1 : Operand(i) \in Values
  BY <1>3 DEF Operand
<1>6. CASE STORE
  <2>1. NextElem.op = "STORE" /\ Result(2, <<>>) /\ UNCHANGED port_register
    BY <1>6 DEF STORE, Runs
  <2>2. Need(NextElem.op) = 2 /\ Effect(NextElem.op) = -2
    BY <2>1, OpDepth DEF Shows
  <2>3. 2 \in Nat /\ 2 <= Len(stack)
    BY <1>3, <1>4, <2>2
  <2>4. stack' \in Seq(Values) /\ Len(stack') = Len(stack) + Effect(NextElem.op)
    BY <1>3, <2>1, <2>2, <2>3, ResultLen
  <2>5. Operand(1) \in Values
    BY <1>3, <1>5, <2>3
  <2>6. registers' \in [0 .. NREGISTERS - 1 -> Values]
    BY <1>3, <1>6, <2>5 DEF STORE
  <2> QED
    BY <1>1, <1>2, <1>3, <2>1, <2>4, <2>6 DEF ElementStep
<1>7. CASE PORT
  <2> DEFINE port == Whole(Operand(0)) % 256
  <2>1. /\ NextElem.op = "PORT" /\ Result(1, <<>>) /\ UNCHANGED registers
        /\ port_register' = IF port > NPORTS THEN 0 ELSE port
    BY <1>7 DEF PORT, Runs
  <2>2. Need(NextElem.op) = 1 /\ Effect(NextElem.op) = -1
    BY <2>1, OpDepth
  <2>3. 1 \in Nat /\ 1 <= Len(stack)
    BY <1>3, <1>4, <2>2
  <2>4. stack' \in Seq(Values) /\ Len(stack') = Len(stack) + Effect(NextElem.op)
    BY <1>3, <2>1, <2>2, <2>3, ResultLen
  <2>5. Operand(0) \in Int
    <3>1. 0 \in 0 .. Len(stack) - 1
      BY <1>3, <2>3
    <3> QED
      BY <1>5, <3>1, Sizes
  <2>6. Whole(Operand(0)) \in Int
    BY <2>5, Sizes DEF Whole
  <2>7. port \in 0 .. 255
    BY <2>6
  <2> HIDE DEF port
  <2>8. port_register' \in 0 .. NPORTS
    BY <2>1, <2>7, Sizes
  <2> QED
    BY <1>1, <1>2, <1>3, <2>1, <2>4, <2>8 DEF ElementStep
<1> QED
  BY <1>6, <1>7

\* An element that reads a state looks for its slot.
SlotStep ==
  /\ get_state_ptr
  /\ found' = IF state_ptr[expr][at] = NULL THEN [found EXCEPT ![expr][at] = Key] ELSE found
  /\ Key \in Keys

\* A fetch of a usage or a key keeps its slot, and goes on to the next element.
LEMMA FetchStep ==
  ASSUME TypeOK, DepthIsKnown, FetchInput \/ FetchKey
  PROVE  ElementStep /\ SlotStep /\ UNCHANGED machine
<1>1. /\ pc = "eval" /\ expression_valid[expr] /\ More /\ get_state_ptr
      /\ NextElem.op \in InputStates \cup KeyStates
      /\ found' = IF state_ptr[expr][at] = NULL THEN [found EXCEPT ![expr][at] = Key] ELSE found
      /\ at' = at + 1
      /\ \E v \in Values : Result(1, <<v>>)
      /\ UNCHANGED <<expressions, expression_valid, depth, machine, suspended, pc, expr, on_stack, derived>>
  BY DEF FetchInput, FetchKey
<1>2. Need(NextElem.op) = 1 /\ Effect(NextElem.op) = 0
  BY <1>1, OpDepth
<1>3. stack \in Seq(Values) /\ Len(stack) >= 1 /\ port_register \in Nat
  BY <1>1, <1>2, RunsOnStack, Sizes DEF TypeOK
<1>4. 1 \in Nat /\ 1 <= Len(stack)
  BY <1>3
<1>5. stack' \in Seq(Values) /\ Len(stack') = Len(stack) + Effect(NextElem.op)
  BY <1>1, <1>2, <1>3, <1>4, ResultLen
<1>6. Operand(0) \in Int
  <2>1. Len(stack) \in 1 .. Len(stack) /\ Operand(0) = stack[Len(stack)]
    BY <1>3 DEF Operand
  <2> QED
    BY <1>3, <2>1, ElementOfSeq, Sizes
<1>7. Key \in Keys
  BY <1>3, <1>6 DEF Key, Keys
<1> QED
  BY <1>1, <1>5, <1>7 DEF ElementStep, SlotStep

\* An element of an expression does one of these, and leaves the registers in order.
LEMMA EvalStep ==
  ASSUME TypeOK, DepthIsKnown, eval_expr
  PROVE  /\ ElementStep
         /\ UNCHANGED <<found, state_ptr, slots>> \/ SlotStep
         /\ registers' \in [0 .. NREGISTERS - 1 -> Values] /\ port_register' \in 0 .. NPORTS
<1>1. registers \in [0 .. NREGISTERS - 1 -> Values] /\ port_register \in 0 .. NPORTS
  BY DEF TypeOK
<1>2. CASE STORE \/ PORT
  BY <1>2, StorePortStep
<1>3. CASE FetchInput \/ FetchKey
  BY <1>1, <1>3, FetchStep DEF machine
<1>4. CASE \/ DoNothing \/ Push \/ Compute1 \/ Compute2 \/ DUP \/ SWAP \/ CLAMP \/ IFTE \/ DPAD
           \/ DEADZONE \/ DEADZONE2 \/ Show \/ RECALL
  BY <1>1, <1>4, ComputesStep DEF machine
<1> QED
  BY <1>2, <1>3, <1>4 DEF eval_expr

-----------------------------------------------------------------------------
(* The slots of the elements.                                              *)

\* What get_state_ptr finds or makes is the slot of the key, and the other elements keep theirs.
LEMMA SlotIsOwn ==
  ASSUME TypeOK, DepthIsKnown, KeptSlotIsOwn, FedInv,
         pc = "eval", expression_valid[expr], More, SlotStep,
         UNCHANGED <<expressions, pc, derived, depth>>
  PROVE  ProgramsInv' /\ KeptSlotIsOwn' /\ FedInv' /\ Len(usage_state_ptr') <= MAX_INPUT_STATES
         /\ their_descriptor_updated' \in BOOLEAN
<1>1. expr \in Exprs /\ at \in 1 .. Len(expressions[expr])
  BY RunsOnStack
<1>2. /\ expressions \in [Exprs -> Seq(Elems)]
      /\ state_ptr \in [Exprs -> Seq(Slots)]
      /\ found \in [Exprs -> Seq(Keys \cup {NULL})]
      /\ \A e \in Exprs : /\ Len(state_ptr[e]) = Len(expressions[e])
                          /\ Len(found[e]) = Len(expressions[e])
      /\ usage_state_ptr \in Seq(Keys) /\ Len(usage_state_ptr) <= MAX_INPUT_STATES
      /\ depth \in [Exprs -> Seq(Nat)]
      /\ their_descriptor_updated \in BOOLEAN /\ Key \in Keys
  BY DEF DepthIsKnown, ProgramsInv, TypeOK, SlotStep
<1>3. CASE state_ptr[expr][at] # NULL
  <2>1. UNCHANGED <<found, state_ptr, slots>>
    BY <1>3 DEF SlotStep, get_state_ptr
  <2> QED
    BY <1>2, <2>1 DEF ProgramsInv, KeptSlotIsOwn, FedInv, slots, DepthIsKnown
<1>4. CASE state_ptr[expr][at] = NULL
  <2> DEFINE ptr == IF Slot(Key) # {} THEN CHOOSE i \in Slot(Key) : TRUE
                    ELSE IF Len(usage_state_ptr) < MAX_INPUT_STATES THEN Len(usage_state_ptr) + 1
                    ELSE NULL
             makes == Slot(Key) = {} /\ Len(usage_state_ptr) < MAX_INPUT_STATES
  <2>1. /\ state_ptr' = [state_ptr EXCEPT ![expr][at] = ptr]
        /\ found' = [found EXCEPT ![expr][at] = Key]
    BY <1>4 DEF SlotStep, get_state_ptr
  <2>2. /\ makes => Assign(Key)
        /\ ~makes => UNCHANGED slots
    BY <1>2, <1>4, Sizes DEF SlotStep, get_state_ptr
  <2>3. /\ usage_state_ptr' \in Seq(Keys) /\ Len(usage_state_ptr') <= MAX_INPUT_STATES
        /\ \A i \in DOMAIN usage_state_ptr :
             i \in DOMAIN usage_state_ptr' /\ usage_state_ptr'[i] = usage_state_ptr[i]
        /\ their_descriptor_updated' \in BOOLEAN /\ FedInv'
    <3>1. CASE makes
      <4>1. usage_state_ptr' = Append(usage_state_ptr, Key) /\ their_descriptor_updated' = TRUE
        BY <2>2, <3>1 DEF Assign
      <4>2. /\ usage_state_ptr' \in Seq(Keys) /\ Len(usage_state_ptr') = Len(usage_state_ptr) + 1
            /\ \A i \in 1 .. Len(usage_state_ptr) : usage_state_ptr'[i] = usage_state_ptr[i]
        BY <1>2, <4>1, AppendProperties
      <4> QED
        BY <1>2, <3>1, <4>1, <4>2, LenProperties, Sizes DEF FedInv
    <3>2. CASE ~makes
      BY <1>2, <2>2, <3>2 DEF slots, FedInv
    <3> QED
      BY <3>1, <3>2
  <2>4. ptr # NULL => ptr \in DOMAIN usage_state_ptr' /\ usage_state_ptr'[ptr] = Key
    <3>1. CASE Slot(Key) # {}
      <4>1. ptr \in Slot(Key)
        BY <3>1
      <4> QED
        BY <4>1, <2>3 DEF Slot
    <3>2. CASE makes
      <4>1. ptr = Len(usage_state_ptr) + 1
        BY <3>2
      <4> QED
        BY <1>2, <2>2, <2>3, <3>2, <4>1, AppendProperties, LenProperties DEF Assign
    <3> QED
      BY <3>1, <3>2
  <2>5. ptr \in Slots
    BY <1>2, <2>3, <2>4, LenProperties DEF Slots
  <2> HIDE DEF ptr
  <2>6. /\ state_ptr'[expr] = [state_ptr[expr] EXCEPT ![at] = ptr]
        /\ found'[expr] = [found[expr] EXCEPT ![at] = Key]
        /\ \A e \in Exprs : e # expr => state_ptr'[e] = state_ptr[e] /\ found'[e] = found[e]
    BY <1>1, <1>2, <2>1
  <2>7. /\ state_ptr'[expr] \in Seq(Slots) /\ Len(state_ptr'[expr]) = Len(expressions[expr])
        /\ found'[expr] \in Seq(Keys \cup {NULL}) /\ Len(found'[expr]) = Len(expressions[expr])
        /\ \A i \in 1 .. Len(expressions[expr]) :
             /\ state_ptr'[expr][i] = IF i = at THEN ptr ELSE state_ptr[expr][i]
             /\ found'[expr][i] = IF i = at THEN Key ELSE found[expr][i]
    BY <1>1, <1>2, <2>5, <2>6, ExceptSeq
  <2>8. ProgramsInv'
    <3>1. /\ state_ptr' \in [Exprs -> Seq(Slots)]
          /\ found' \in [Exprs -> Seq(Keys \cup {NULL})]
      BY <1>1, <1>2, <2>1, <2>7
    <3> QED
      BY <1>2, <2>3, <2>6, <2>7, <3>1, ZenonT(40) DEF ProgramsInv
  <2>9. KeptSlotIsOwn'
    <3> SUFFICES ASSUME NEW e \in Exprs, NEW i \in DOMAIN expressions[e], state_ptr'[e][i] # NULL
                 PROVE  /\ state_ptr'[e][i] \in DOMAIN usage_state_ptr'
                        /\ usage_state_ptr'[state_ptr'[e][i]] = found'[e][i]
      BY DEF KeptSlotIsOwn
    <3>1. i \in 1 .. Len(expressions[e])
      BY <1>2, LenProperties
    <3>2. CASE e = expr /\ i = at
      BY <2>4, <2>7, <3>1, <3>2
    <3>3. CASE ~(e = expr /\ i = at)
      <4>1. state_ptr'[e][i] = state_ptr[e][i] /\ found'[e][i] = found[e][i]
        BY <2>6, <2>7, <3>1, <3>3
      <4>2. /\ state_ptr[e][i] \in DOMAIN usage_state_ptr
            /\ usage_state_ptr[state_ptr[e][i]] = found[e][i]
        BY <4>1 DEF KeptSlotIsOwn
      <4> QED
        BY <2>3, <4>1, <4>2
    <3> QED
      BY <3>2, <3>3
  <2> QED
    BY <2>3, <2>8, <2>9
<1> QED
  BY <1>3, <1>4

-----------------------------------------------------------------------------
(* The invariant.                                                          *)

\* At the start the invariant holds.
LEMMA InitInv == Init => IInv
<1> SUFFICES ASSUME Init PROVE IInv
  OBVIOUS
<1>1. /\ expressions \in [Exprs -> Seq(Elems)]
      /\ usage_state_ptr = <<>>
      /\ \A e \in Exprs : /\ DOMAIN expressions[e] = 1 .. Len(expressions[e])
                          /\ Len(expressions[e]) \in Nat
  <2>1. expressions \in [Exprs -> Seq(Elems)] /\ usage_state_ptr = <<>>
    BY ExpressionsAssumption DEF Init, Exprs, Elems
  <2> QED
    BY <2>1, LenProperties
<1>2. \A e \in Exprs : \A s : s = [i \in DOMAIN expressions[e] |-> NULL] =>
        /\ s \in Seq({NULL}) /\ Len(s) = Len(expressions[e])
        /\ DOMAIN s = DOMAIN expressions[e] /\ \A i \in DOMAIN expressions[e] : s[i] = NULL
  BY <1>1
<1>3. ProgramsInv
  <2>1. state_ptr \in [Exprs -> Seq({NULL})] /\ found \in [Exprs -> Seq({NULL})]
    BY <1>2 DEF Init
  <2>2. \A s \in Seq({NULL}) : s \in Seq(Slots) /\ s \in Seq(Keys \cup {NULL})
    BY SeqMonotonic DEF Slots
  <2>3. state_ptr \in [Exprs -> Seq(Slots)] /\ found \in [Exprs -> Seq(Keys \cup {NULL})]
    BY <2>1, <2>2
  <2>4. \A e \in Exprs : /\ Len(state_ptr[e]) = Len(expressions[e])
                         /\ Len(found[e]) = Len(expressions[e])
    BY <1>2 DEF Init
  <2> QED
    BY <1>1, <2>3, <2>4 DEF ProgramsInv, Init
<1>4. TypeOK
  <2>1. \A e \in Exprs : DOMAIN state_ptr[e] = DOMAIN expressions[e]
    BY <1>2 DEF Init
  <2>2. expression_valid \in [Exprs -> BOOLEAN] /\ registers \in [0 .. NREGISTERS - 1 -> Values]
    BY Sizes DEF Init
  <2>3. stack \in Seq(Values) /\ Len(stack) = 0 /\ Len(usage_state_ptr) = 0
    BY DEF Init
  <2>4. /\ port_register \in 0 .. NPORTS /\ pc \in {"idle", "validate", "eval"}
        /\ expr \in 0 .. NEXPRESSIONS /\ at \in Nat \ {0} /\ on_stack \in 0 .. STACK_SIZE
    BY Sizes DEF Init
  <2>5. {suspended, their_descriptor_updated} \subseteq BOOLEAN
    BY Zenon DEF Init
  <2> QED
    BY <2>1, <2>2, <2>3, <2>4, <2>5, Sizes DEF TypeOK
<1>5. KeptSlotIsOwn
  BY DEF Init, KeptSlotIsOwn
<1>6. FedInv
  BY DEF Init, FedInv
<1>7. ValidationInv
  <2>1. pc = "validate" /\ expr = 0 /\ at = 1 /\ on_stack = 0 /\ \A e \in Exprs : depth[e] = << 0 >>
    BY DEF Init
  <2>2. 0 \in Exprs /\ \A e \in Exprs : ~(e < 0)
    BY Sizes DEF Exprs
  <2>3. << 0 >> \in Seq(0 .. STACK_SIZE) /\ Len(<< 0 >>) = 1 /\ << 0 >>[1] = 0
    BY Sizes
  <2>4. Len(expressions[0]) \in Nat /\ depth[0] = << 0 >>
    BY <1>1, <2>1, <2>2
  <2>5. Checked(0, 0)
    BY <2>3, <2>4 DEF Checked
  <2> QED
    BY <2>1, <2>2, <2>4, <2>5 DEF ValidationInv
<1>8. ValidityInv /\ DepthInv
  BY DEF Init, ValidityInv, DepthInv
<1> QED
  BY <1>3, <1>4, <1>5, <1>6, <1>7, <1>8 DEF IInv, DepthIsKnown

\* A validation begins with no element of any expression accepted.
LEMMA BeginsUnread ==
  ASSUME ProgramsInv, pc' = "validate", expr' = 0, at' = 1, on_stack' = 0,
         depth' = [e \in Exprs |-> << 0 >>], UNCHANGED expressions
  PROVE  ValidationInv' /\ ValidityInv' /\ DepthInv'
<1>1. 0 \in Exprs /\ \A e \in Exprs : ~(e < 0) /\ depth'[e] = << 0 >>
  BY Sizes DEF Exprs
<1>2. << 0 >> \in Seq(0 .. STACK_SIZE) /\ Len(<< 0 >>) = 1 /\ << 0 >>[1] = 0
  BY Sizes
<1>3. Len(expressions[0]) \in Nat
  BY <1>1 DEF ProgramsInv
<1>4. Checked(0, 0)'
  BY <1>1, <1>2, <1>3 DEF Checked
<1> QED
  BY <1>1, <1>2, <1>4 DEF ValidationInv, ValidityInv, DepthInv

\* What was checked of e stays so while e and its depths do.
LEMMA CheckedSame ==
  ASSUME NEW e, UNCHANGED <<expressions, expression_valid>>, UNCHANGED depth
  PROVE  /\ \A n : Checked(e, n) <=> Checked(e, n)'
         /\ Valid(e) <=> Valid(e)'
BY DEF Checked, Valid

\* An element keeps the stack at the depth of the next one.
LEMMA ElementKeepsDepth ==
  ASSUME TypeOK, DepthIsKnown, ElementStep
  PROVE  ValidationInv' /\ ValidityInv' /\ DepthInv'
<1>1. /\ pc = "eval" /\ expression_valid[expr] /\ More /\ at' = at + 1
      /\ Len(stack') = Len(stack) + Effect(NextElem.op)
      /\ UNCHANGED <<expressions, expression_valid, depth, suspended, pc, expr>>
  BY DEF ElementStep
<1>2. /\ at \in 1 .. Len(expressions[expr])
      /\ depth[expr][at + 1] = Len(stack) + Effect(NextElem.op)
      /\ Len(depth[expr]) = Len(expressions[expr]) + 1
      /\ expr \in Exprs
  BY <1>1, RunsOnStack
<1>3. Len(expressions[expr]) \in Nat
  BY <1>2 DEF DepthIsKnown, ProgramsInv
<1>4. ValidationInv'
  BY <1>1 DEF ValidationInv
<1>5. ValidityInv'
  BY <1>1, CheckedSame DEF DepthIsKnown, ValidityInv
<1>6. at + 1 <= Len(depth[expr])
  BY <1>2, <1>3
<1>7. DepthInv'
  BY <1>1, <1>2, <1>6 DEF DepthIsKnown, DepthInv
<1> QED
  BY <1>4, <1>5, <1>7

\* ... and everything else in its type.
LEMMA ElementKeepsType ==
  ASSUME TypeOK, DepthIsKnown, ElementStep, ProgramsInv',
         registers' \in [0 .. NREGISTERS - 1 -> Values], port_register' \in 0 .. NPORTS,
         Len(usage_state_ptr') <= MAX_INPUT_STATES, their_descriptor_updated' \in BOOLEAN
  PROVE  TypeOK'
<1>1. /\ at' = at + 1 /\ stack' \in Seq(Values) /\ Len(stack') = Len(stack) + Effect(NextElem.op)
      /\ UNCHANGED <<expressions, expression_valid, suspended, pc, expr, on_stack>>
  BY DEF ElementStep
<1>2. Len(stack) + Effect(NextElem.op) \in 0 .. STACK_SIZE
  BY RunsOnStack DEF ElementStep
<1>3. Len(stack') <= STACK_SIZE
  BY <1>1, <1>2, Sizes
<1>4. \A e \in Exprs : DOMAIN state_ptr'[e] = DOMAIN expressions'[e]
  BY LenProperties DEF ProgramsInv
<1> QED
  BY <1>1, <1>3, <1>4 DEF TypeOK

\* A step of the evaluation keeps the invariant.
LEMMA EvalKeepsInv ==
  ASSUME IInv, eval_expr
  PROVE  IInv'
<1> USE DEF IInv
<1>1. /\ ElementStep
      /\ UNCHANGED <<found, state_ptr, slots>> \/ SlotStep
      /\ registers' \in [0 .. NREGISTERS - 1 -> Values] /\ port_register' \in 0 .. NPORTS
  BY EvalStep
<1>2. /\ pc = "eval" /\ expression_valid[expr] /\ More
      /\ UNCHANGED <<expressions, pc, derived, depth>>
  BY <1>1 DEF ElementStep
<1>3. ProgramsInv' /\ KeptSlotIsOwn' /\ FedInv' /\ Len(usage_state_ptr') <= MAX_INPUT_STATES
      /\ their_descriptor_updated' \in BOOLEAN
  <2>1. CASE UNCHANGED <<found, state_ptr, slots>>
    BY <1>2, <2>1 DEF DepthIsKnown, ProgramsInv, KeptSlotIsOwn, FedInv, slots, TypeOK
  <2>2. CASE SlotStep
    BY <1>2, <2>2, SlotIsOwn
  <2> QED
    BY <1>1, <2>1, <2>2
<1>4. TypeOK'
  BY <1>1, <1>3, ElementKeepsType
<1>5. ValidationInv' /\ ValidityInv' /\ DepthInv'
  BY <1>1, ElementKeepsDepth
<1> QED
  BY <1>3, <1>4, <1>5 DEF DepthIsKnown

\* is_expr_valid accepts the next element: one more has been checked.
LEMMA AcceptKeepsInv ==
  ASSUME IInv, AcceptElement
  PROVE  IInv'
<1> USE DEF IInv
<1>1. /\ pc = "validate" /\ expr < NEXPRESSIONS /\ More /\ Acceptable(NextElem.op, on_stack)
      /\ on_stack' = on_stack + Effect(NextElem.op)
      /\ depth' = [depth EXCEPT ![expr] = Append(@, on_stack')]
      /\ at' = at + 1
      /\ UNCHANGED <<expressions, expression_valid, state_ptr, found, slots, machine, suspended, pc, expr,
                     stack, derived>>
  BY DEF AcceptElement
<1>2. expr \in Exprs
  BY <1>1, Sizes DEF TypeOK, Exprs
<1>3. /\ \A e \in Exprs : e < expr => Valid(e)
      /\ \A e \in Exprs : e > expr => depth[e] = << 0 >>
      /\ Checked(expr, at - 1) /\ on_stack = depth[expr][at]
  BY <1>1 DEF DepthIsKnown, ValidationInv
<1>4. /\ on_stack \in 0 .. STACK_SIZE /\ at \in Nat \ {0}
      /\ expressions[expr] \in Seq(Elems) /\ depth \in [Exprs -> Seq(Nat)]
  BY <1>2 DEF TypeOK, DepthIsKnown, ProgramsInv
<1>5. on_stack' \in 0 .. STACK_SIZE
  BY <1>1, <1>4, AcceptableFits
<1>6. /\ depth[expr] \in Seq(0 .. STACK_SIZE) /\ Len(depth[expr]) = at /\ depth[expr][1] = 0
      /\ \A i \in 1 .. at - 1 :
           /\ Acceptable(expressions[expr][i].op, depth[expr][i])
           /\ depth[expr][i + 1] = depth[expr][i] + Effect(expressions[expr][i].op)
  BY <1>3, <1>4 DEF Checked
<1>7. /\ depth'[expr] = Append(depth[expr], on_stack')
      /\ \A e \in Exprs : e # expr => depth'[e] = depth[e]
  BY <1>1, <1>2, <1>4
<1>8. /\ depth'[expr] \in Seq(0 .. STACK_SIZE) /\ Len(depth'[expr]) = at + 1
      /\ \A i \in 1 .. at : depth'[expr][i] = depth[expr][i]
      /\ depth'[expr][at + 1] = on_stack'
  BY <1>4, <1>5, <1>6, <1>7, AppendProperties
<1>9. at <= Len(expressions[expr]) /\ Len(expressions[expr]) \in Nat
  BY <1>1, <1>4 DEF More
<1>10. Checked(expr, at - 1)'
  <2>1. ASSUME NEW i \in 1 .. at
        PROVE  /\ Acceptable(expressions[expr][i].op, depth'[expr][i])
               /\ depth'[expr][i + 1] = depth'[expr][i] + Effect(expressions[expr][i].op)
    <3>1. CASE i = at
      BY <1>1, <1>3, <1>4, <1>8, <3>1 DEF NextElem
    <3>2. CASE i < at
      <4>1. i \in 1 .. at - 1 /\ i \in 1 .. at /\ i + 1 \in 1 .. at
        BY <1>4, <3>2
      <4> QED
        BY <1>6, <1>8, <4>1
    <3> QED
      BY <1>4, <3>1, <3>2
  <2>2. depth'[expr][1] = 0 /\ Len(depth'[expr]) = at + 1 /\ depth'[expr] \in Seq(0 .. STACK_SIZE)
    BY <1>4, <1>6, <1>8, SMTT(30)
  <2>3. at' - 1 = at /\ expr' = expr /\ expressions' = expressions
    BY <1>1, <1>4
  <2> QED
    BY <1>9, <2>1, <2>2, <2>3 DEF Checked
<1>11. ValidationInv'
  <2>1. ASSUME NEW e \in Exprs, e < expr
        PROVE  Valid(e)'
    <3>1. depth'[e] = depth[e] /\ Valid(e)
      BY <1>2, <1>3, <1>7, <2>1, Sizes DEF Exprs
    <3> QED
      BY <1>1, <3>1 DEF Valid, Checked
  <2>2. ASSUME NEW e \in Exprs, e > expr
        PROVE  depth'[e] = << 0 >>
    BY <1>2, <1>3, <1>7, <2>2, Sizes DEF Exprs
  <2>3. at' - 1 = at /\ on_stack' = depth'[expr][at']
    BY <1>1, <1>4, <1>8
  <2> QED
    BY <1>1, <1>10, <2>1, <2>2, <2>3 DEF ValidationInv
<1>12. ProgramsInv'
  <2>1. depth' \in [Exprs -> Seq(Nat)]
    BY <1>1, <1>2, <1>4, <1>5, AppendProperties, Sizes
  <2> QED
    BY <1>1, <2>1 DEF DepthIsKnown, ProgramsInv, slots
<1>13. TypeOK'
  BY <1>1, <1>4, <1>5 DEF TypeOK, slots, machine
<1>14. KeptSlotIsOwn' /\ FedInv' /\ ValidityInv' /\ DepthInv'
  BY <1>1 DEF KeptSlotIsOwn, FedInv, ValidityInv, DepthInv, slots
<1> QED
  BY <1>11, <1>12, <1>13, <1>14 DEF DepthIsKnown

\* ... or comes to the end of an expression, or rejects it: valid is what was read to its end.
LEMMA EndKeepsInv ==
  ASSUME IInv, EndValidation
  PROVE  IInv'
<1> USE DEF IInv
<1>1. /\ pc = "validate" /\ expr < NEXPRESSIONS
      /\ expression_valid' = [expression_valid EXCEPT ![expr] = ~More]
      /\ expr' = expr + 1 /\ at' = 1 /\ on_stack' = 0
      /\ UNCHANGED <<expressions, state_ptr, found, depth, slots, machine, suspended, pc, stack, derived>>
  BY DEF EndValidation
<1>2. expr \in Exprs /\ expr + 1 \in 0 .. NEXPRESSIONS
  BY <1>1, Sizes DEF TypeOK, Exprs
<1>3. /\ \A e \in Exprs : e < expr => Valid(e)
      /\ \A e \in Exprs : e > expr => depth[e] = << 0 >>
      /\ Checked(expr, at - 1)
  BY <1>1 DEF DepthIsKnown, ValidationInv
<1>4. /\ at \in Nat \ {0} /\ expressions \in [Exprs -> Seq(Elems)]
      /\ expression_valid \in [Exprs -> BOOLEAN]
  BY <1>2 DEF TypeOK, DepthIsKnown, ProgramsInv
<1>5. \A e \in Exprs : Len(expressions[e]) \in Nat
  BY <1>4
<1>6. ~More => at - 1 = Len(expressions[expr])
  BY <1>2, <1>3, <1>4, <1>5 DEF More, Checked
<1>7. ValidationInv'
  <2>1. ASSUME NEW e \in Exprs, e < expr + 1
        PROVE  Valid(e)'
    <3>1. CASE e = expr
      <4>1. expression_valid'[e] = ~More
        BY <1>1, <1>2, <1>4, <3>1
      <4>2. ~More => Checked(e, Len(expressions[e]))
        BY <1>3, <1>6, <3>1
      <4> QED
        BY <1>1, <4>1, <4>2 DEF Valid, Checked
    <3>2. CASE e # expr
      <4>1. expression_valid'[e] = expression_valid[e] /\ Valid(e)
        BY <1>1, <1>2, <1>3, <1>4, <2>1, <3>2, Sizes DEF Exprs
      <4> QED
        BY <1>1, <4>1 DEF Valid, Checked
    <3> QED
      BY <3>1, <3>2
  <2>2. ASSUME NEW e \in Exprs, e > expr + 1
        PROVE  depth'[e] = << 0 >>
    BY <1>1, <1>2, <1>3, <2>2, Sizes DEF Exprs
  <2>3. expr + 1 < NEXPRESSIONS => Checked(expr + 1, 0) /\ 0 = depth[expr + 1][1]
    <3>1. SUFFICES ASSUME expr + 1 < NEXPRESSIONS PROVE Checked(expr + 1, 0) /\ 0 = depth[expr + 1][1]
      OBVIOUS
    <3>2. expr + 1 \in Exprs /\ depth[expr + 1] = << 0 >>
      BY <1>2, <1>3, <3>1, Sizes DEF Exprs
    <3>3. << 0 >> \in Seq(0 .. STACK_SIZE) /\ Len(<< 0 >>) = 1 /\ << 0 >>[1] = 0
      BY Sizes
    <3> QED
      BY <1>5, <3>2, <3>3 DEF Checked
  <2>4. expr' < NEXPRESSIONS => Checked(expr, at - 1)' /\ on_stack' = depth'[expr'][at']
    <3>1. at' - 1 = 0 /\ UNCHANGED <<expressions, depth>>
      BY <1>1
    <3> QED
      BY <1>1, <2>3, <3>1 DEF Checked
  <2> QED
    BY <1>1, <2>1, <2>2, <2>4 DEF ValidationInv
<1>8. ProgramsInv'
  BY <1>1 DEF DepthIsKnown, ProgramsInv, slots
<1>9. TypeOK'
  <2>1. expression_valid' \in [Exprs -> BOOLEAN]
    BY <1>1, <1>4 DEF More
  <2> QED
    BY <1>1, <1>2, <2>1, Sizes DEF TypeOK, slots, machine
<1>10. KeptSlotIsOwn' /\ FedInv' /\ ValidityInv' /\ DepthInv'
  BY <1>1 DEF KeptSlotIsOwn, FedInv, ValidityInv, DepthInv, slots
<1> QED
  BY <1>7, <1>8, <1>9, <1>10 DEF DepthIsKnown

\* Mappings are compiled once every expression was read: pointers go, slots are new.
LEMMA CompileKeepsInv ==
  ASSUME IInv, CompileMappings
  PROVE  IInv'
<1> USE DEF IInv
<1>1. /\ pc = "validate" /\ expr = NEXPRESSIONS
      /\ state_ptr' = [e \in Exprs |-> [i \in DOMAIN expressions[e] |-> NULL]]
      /\ derived' = usage_state_ptr'
      /\ pc' = "idle" /\ expr' = 0
      /\ UNCHANGED <<expressions, expression_valid, found, depth, their_descriptor_updated, machine,
                     suspended, at, on_stack, stack>>
  BY DEF CompileMappings
<1>2. usage_state_ptr' \in Seq(Keys) /\ Len(usage_state_ptr') <= MAX_INPUT_STATES
  <2>1. PICK keys \in Mapped : usage_state_ptr' = keys
    BY DEF CompileMappings
  <2> QED
    BY <2>1, ExpressionsAssumption DEF Keys
<1>3. \A e \in Exprs : /\ state_ptr'[e] \in Seq({NULL})
                       /\ Len(state_ptr'[e]) = Len(expressions[e])
                       /\ DOMAIN state_ptr'[e] = DOMAIN expressions[e]
                       /\ \A i \in DOMAIN expressions[e] : state_ptr'[e][i] = NULL
  <2>1. \A e \in Exprs : DOMAIN expressions[e] = 1 .. Len(expressions[e]) /\ Len(expressions[e]) \in Nat
    BY LenProperties DEF DepthIsKnown, ProgramsInv
  <2> QED
    BY <1>1, <2>1
<1>4. ProgramsInv'
  <2>1. \A s \in Seq({NULL}) : s \in Seq(Slots)
    BY SeqMonotonic DEF Slots
  <2>2. state_ptr' \in [Exprs -> Seq(Slots)]
    BY <1>1, <1>3, <2>1
  <2> QED
    BY <1>1, <1>2, <1>3, <2>2 DEF DepthIsKnown, ProgramsInv
<1>5. TypeOK'
  BY <1>1, <1>2, <1>3, Sizes DEF TypeOK, machine
<1>6. ValidityInv'
  <2>1. \A e \in Exprs : e < expr => Valid(e)
    BY <1>1 DEF DepthIsKnown, ValidationInv
  <2>2. \A e \in Exprs : Valid(e)
    BY <1>1, <2>1, Sizes DEF Exprs
  <2> QED
    BY <1>1, <2>2 DEF ValidityInv, Valid, Checked
<1>7. KeptSlotIsOwn'
  BY <1>1, <1>3 DEF KeptSlotIsOwn
<1>8. FedInv' /\ ValidationInv' /\ DepthInv'
  BY <1>1 DEF FedInv, ValidationInv, DepthInv
<1> QED
  BY <1>4, <1>5, <1>6, <1>7, <1>8 DEF DepthIsKnown

\* A frame begins with the first expression, and goes from one to the next.
LEMMA FrameKeepsInv ==
  ASSUME IInv, BeginFrame \/ EndExpression
  PROVE  IInv'
<1> USE DEF IInv
<1>1. /\ at' = 1 /\ stack' = <<>> /\ Len(stack') = 0 /\ stack' \in Seq(Values)
      /\ pc # "validate" /\ ~suspended
      /\ UNCHANGED <<expressions, expression_valid, state_ptr, found, depth, slots, registers, suspended,
                     on_stack, derived>>
  <2>1. CASE BeginFrame
    BY <2>1 DEF BeginFrame, programs
  <2>2. CASE EndExpression
    <3>1. pc = "eval" /\ ~suspended
      BY <2>2 DEF EndExpression, DepthIsKnown, DepthInv
    <3> QED
      BY <2>2, <3>1 DEF EndExpression, programs, machine
  <2> QED
    BY <2>1, <2>2
<1>2. /\ pc' \in {"idle", "eval"}
      /\ expr' \in Exprs
      /\ port_register' \in 0 .. NPORTS
  <2>1. CASE BeginFrame
    BY <2>1, Sizes DEF BeginFrame, Exprs
  <2>2. CASE EndExpression
    BY <2>2, Sizes DEF EndExpression, Exprs, machine, TypeOK
  <2> QED
    BY <2>1, <2>2
<1>3. ProgramsInv'
  BY <1>1 DEF DepthIsKnown, ProgramsInv, slots
<1>4. TypeOK'
  BY <1>1, <1>2, Sizes DEF TypeOK, slots, Exprs
<1>5. KeptSlotIsOwn' /\ FedInv' /\ ValidationInv'
  BY <1>1, <1>2 DEF KeptSlotIsOwn, FedInv, ValidationInv, slots
<1>6. ValidityInv'
  BY <1>1 DEF DepthIsKnown, ValidityInv, Valid, Checked
<1>7. DepthInv'
  <2>1. expression_valid'[expr'] => Checked(expr, Len(expressions[expr]))'
    BY <1>1, <1>2, <1>6 DEF ValidityInv, Valid
  <2>2. Len(expressions'[expr']) \in Nat
    BY <1>2, <1>3 DEF ProgramsInv
  <2>3. expression_valid'[expr'] => at' <= Len(depth'[expr']) /\ Len(stack') = depth'[expr'][at']
    BY <1>1, <2>1, <2>2 DEF Checked
  <2> QED
    BY <1>1, <1>2, <2>3, Sizes DEF DepthInv, Exprs
<1> QED
  BY <1>3, <1>4, <1>5, <1>6, <1>7 DEF DepthIsKnown

\* A client changes programs only while it suspends the mappings; what it leaves is validated.
LEMMA ClientKeepsInv ==
  ASSUME IInv, handle_set_report1 \/ StartValidation
  PROVE  IInv'
<1> USE DEF IInv
<1>1. /\ usage_state_ptr \in Seq(Keys) /\ depth \in [Exprs -> Seq(Nat)]
      /\ expressions \in [Exprs -> Seq(Elems)] /\ state_ptr \in [Exprs -> Seq(Slots)]
      /\ found \in [Exprs -> Seq(Keys \cup {NULL})]
      /\ \A e \in Exprs : /\ Len(state_ptr[e]) = Len(expressions[e])
                          /\ Len(found[e]) = Len(expressions[e])
  BY DEF DepthIsKnown, ProgramsInv
<1>2. CASE SUSPEND
  <2>1. /\ suspended' = TRUE /\ pc = "idle"
        /\ UNCHANGED <<programs, slots, machine, cursor, on_stack, stack, derived>>
    BY <1>2 DEF SUSPEND
  <2>2. TypeOK'
    BY <2>1 DEF TypeOK, programs, slots, machine, cursor
  <2>3. ProgramsInv' /\ ValidationInv' /\ ValidityInv' /\ DepthInv'
    BY <2>1 DEF DepthIsKnown, ProgramsInv, ValidationInv, ValidityInv, DepthInv, programs, slots, cursor
  <2>4. KeptSlotIsOwn' /\ FedInv'
    BY <2>1 DEF KeptSlotIsOwn, FedInv, programs, slots, cursor
  <2> QED
    BY <2>2, <2>3, <2>4 DEF DepthIsKnown
<1>3. CASE RESUME \/ StartValidation
  <2>1. /\ pc = "idle" /\ pc' = "validate" /\ expr' = 0 /\ at' = 1 /\ on_stack' = 0
        /\ depth' = [e \in Exprs |-> << 0 >>]
        /\ registers' \in [0 .. NREGISTERS - 1 -> Values] /\ suspended' \in BOOLEAN
        /\ UNCHANGED <<expressions, expression_valid, state_ptr, found, slots, port_register, stack, derived>>
    BY <1>3, Sizes DEF RESUME, StartValidation, TypeOK, machine
  <2>2. TypeOK'
    BY <2>1, Sizes DEF TypeOK, slots
  <2>3. ProgramsInv'
    BY <1>1, <2>1 DEF ProgramsInv, slots
  <2>4. ValidationInv' /\ ValidityInv' /\ DepthInv'
    BY <2>1, BeginsUnread DEF DepthIsKnown
  <2>5. KeptSlotIsOwn' /\ FedInv'
    BY <2>1 DEF KeptSlotIsOwn, FedInv, slots
  <2> QED
    BY <2>2, <2>3, <2>4, <2>5 DEF DepthIsKnown
<1>4. CASE CLEAR_EXPRESSIONS
  <2>1. /\ pc = "idle" /\ suspended
        /\ expressions' = [e \in Exprs |-> <<>>]
        /\ state_ptr' = [e \in Exprs |-> <<>>] /\ found' = [e \in Exprs |-> <<>>]
        /\ UNCHANGED <<expression_valid, depth, slots, machine, suspended, cursor, on_stack, stack, derived>>
    BY <1>4 DEF CLEAR_EXPRESSIONS
  <2>2. TypeOK'
    BY <2>1 DEF TypeOK, slots, machine, cursor
  <2>3. ProgramsInv'
    BY <1>1, <2>1 DEF ProgramsInv, slots
  <2>4. ValidationInv' /\ ValidityInv' /\ DepthInv'
    BY <2>1 DEF ValidationInv, ValidityInv, DepthInv, cursor
  <2>5. KeptSlotIsOwn' /\ FedInv'
    BY <2>1 DEF KeptSlotIsOwn, FedInv, slots
  <2> QED
    BY <2>2, <2>3, <2>4, <2>5 DEF DepthIsKnown
<1>5. CASE APPEND_TO_EXPRESSION
  <2>1. PICK e0 \in Exprs, elem \in Elements :
          /\ expressions' = [expressions EXCEPT ![e0] = Append(@, elem)]
          /\ state_ptr' = [state_ptr EXCEPT ![e0] = Append(@, NULL)]
          /\ found' = [found EXCEPT ![e0] = Append(@, NULL)]
    BY <1>5 DEF APPEND_TO_EXPRESSION
  <2>2. /\ pc = "idle" /\ suspended
        /\ UNCHANGED <<expression_valid, depth, slots, machine, suspended, cursor, on_stack, stack, derived>>
    BY <1>5 DEF APPEND_TO_EXPRESSION
  <2>3. elem \in Elems /\ NULL \in Slots /\ NULL \in Keys \cup {NULL}
    BY ExpressionsAssumption DEF Elems, Slots
  <2>4. /\ \A e \in Exprs : e # e0 => /\ expressions'[e] = expressions[e]
                                      /\ state_ptr'[e] = state_ptr[e] /\ found'[e] = found[e]
        /\ expressions'[e0] = Append(expressions[e0], elem)
        /\ state_ptr'[e0] = Append(state_ptr[e0], NULL) /\ found'[e0] = Append(found[e0], NULL)
    BY <1>1, <2>1
  <2>5. /\ expressions'[e0] \in Seq(Elems) /\ Len(expressions'[e0]) = Len(expressions[e0]) + 1
        /\ state_ptr'[e0] \in Seq(Slots) /\ Len(state_ptr'[e0]) = Len(state_ptr[e0]) + 1
        /\ found'[e0] \in Seq(Keys \cup {NULL}) /\ Len(found'[e0]) = Len(found[e0]) + 1
        /\ \A i \in 1 .. Len(expressions[e0]) : /\ state_ptr'[e0][i] = state_ptr[e0][i]
                                                /\ found'[e0][i] = found[e0][i]
        /\ state_ptr'[e0][Len(expressions[e0]) + 1] = NULL
    BY <1>1, <2>3, <2>4, AppendProperties
  <2>6. ProgramsInv'
    <3>1. /\ expressions' \in [Exprs -> Seq(Elems)] /\ state_ptr' \in [Exprs -> Seq(Slots)]
          /\ found' \in [Exprs -> Seq(Keys \cup {NULL})]
      BY <1>1, <2>1, <2>5
    <3>2. \A e \in Exprs : /\ Len(state_ptr'[e]) = Len(expressions'[e])
                           /\ Len(found'[e]) = Len(expressions'[e])
      BY <1>1, <2>4, <2>5
    <3> QED
      BY <1>1, <2>2, <3>1, <3>2 DEF ProgramsInv, slots
  <2>7. TypeOK'
    <3>1. \A e \in Exprs : DOMAIN state_ptr'[e] = DOMAIN expressions'[e]
      BY <2>6, LenProperties DEF ProgramsInv
    <3> QED
      BY <2>2, <3>1 DEF TypeOK, slots, machine, cursor
  <2>8. KeptSlotIsOwn'
    <3> SUFFICES ASSUME NEW e \in Exprs, NEW i \in DOMAIN expressions'[e], state_ptr'[e][i] # NULL
                 PROVE  /\ state_ptr'[e][i] \in DOMAIN usage_state_ptr
                        /\ usage_state_ptr[state_ptr'[e][i]] = found'[e][i]
      BY <2>2 DEF KeptSlotIsOwn, slots
    <3>1. i \in DOMAIN expressions[e] /\ state_ptr'[e][i] = state_ptr[e][i] /\ found'[e][i] = found[e][i]
      <4>1. CASE e = e0
        <5>1. i \in 1 .. Len(expressions[e0]) + 1 /\ Len(expressions[e0]) \in Nat
          BY <1>1, <2>5, <4>1, LenProperties
        <5>2. i \in 1 .. Len(expressions[e0])
          BY <2>5, <4>1, <5>1
        <5> QED
          BY <1>1, <2>5, <4>1, <5>2, LenProperties
      <4>2. CASE e # e0
        BY <2>4, <4>2
      <4> QED
        BY <4>1, <4>2
    <3>2. pc # "validate"
      BY <2>2
    <3> QED
      BY <3>1, <3>2 DEF KeptSlotIsOwn
  <2>9. FedInv' /\ ValidationInv' /\ ValidityInv' /\ DepthInv'
    BY <2>2 DEF FedInv, ValidationInv, ValidityInv, DepthInv, slots, cursor
  <2> QED
    BY <2>6, <2>7, <2>8, <2>9 DEF DepthIsKnown
<1> QED
  BY <1>2, <1>3, <1>4, <1>5 DEF handle_set_report1

\* The derivates come to know every slot; a stutter changes nothing.
LEMMA DerivatesKeepInv ==
  ASSUME IInv, update_their_descriptor_derivates \/ UNCHANGED vars
  PROVE  IInv'
<1> USE DEF IInv
<1>1. /\ UNCHANGED <<programs, usage_state_ptr, machine, suspended, cursor, on_stack, stack>>
      /\ their_descriptor_updated' \in BOOLEAN
      /\ FedInv'
  BY DEF update_their_descriptor_derivates, vars, slots, FedInv, TypeOK
<1>2. TypeOK'
  BY <1>1 DEF TypeOK, programs, machine, cursor
<1>3. ProgramsInv' /\ KeptSlotIsOwn'
  BY <1>1 DEF DepthIsKnown, ProgramsInv, KeptSlotIsOwn, programs, cursor
<1>4. ValidationInv' /\ ValidityInv' /\ DepthInv'
  BY <1>1 DEF DepthIsKnown, ValidationInv, ValidityInv, DepthInv, Valid, Checked, programs, cursor
<1> QED
  BY <1>1, <1>2, <1>3, <1>4 DEF DepthIsKnown

\* The invariant is inductive.
LEMMA StepInv == IInv /\ [Next]_vars => IInv'
<1> SUFFICES ASSUME IInv, [Next]_vars PROVE IInv'
  OBVIOUS
<1>1. CASE AcceptElement
  BY <1>1, AcceptKeepsInv
<1>2. CASE EndValidation
  BY <1>2, EndKeepsInv
<1>3. CASE CompileMappings
  BY <1>3, CompileKeepsInv
<1>4. CASE BeginFrame \/ EndExpression
  BY <1>4, FrameKeepsInv
<1>5. CASE eval_expr
  BY <1>5, EvalKeepsInv
<1>6. CASE handle_set_report1 \/ StartValidation
  BY <1>6, ClientKeepsInv
<1>7. CASE update_their_descriptor_derivates \/ UNCHANGED vars
  BY <1>7, DerivatesKeepInv
<1> QED
  BY <1>1, <1>2, <1>3, <1>4, <1>5, <1>6, <1>7 DEF Next, set_mapping_from_config, process_mapping

-----------------------------------------------------------------------------
(* Theorems.                                                               *)

\* The invariant holds in every state.
LEMMA Inductive == Spec => []IInv
<1> QED
  BY InitInv, StepInv, PTL DEF Spec

\* eval_expr indexes its stack, its registers and its slots without a check, and yet every
\* operand lies on the stack, every result fits, and a slot kept from an earlier frame is the
\* slot of the usage and port it was found for: for any programs, sizes and mappings.
THEOREM ExpressionsAreSafe == Spec => []ExpressionsInv
<1>1. IInv => ExpressionsInv
  <2> SUFFICES ASSUME IInv PROVE StackStays
    BY DEF IInv, ExpressionsInv
  <2> SUFFICES ASSUME pc = "eval", expression_valid[expr], More PROVE OnStack(NextElem.op)
    BY DEF StackStays
  <2> QED
    BY RunsOnStack, Sizes DEF IInv, OnStack
<1> QED
  BY <1>1, Inductive, PTL

\* A frame begins when update_their_descriptor_derivates knows every slot that the expressions
\* of earlier frames made: for any programs, sizes and mappings.
THEOREM FramesBeginFed == Spec => SlotsAreFed
<1>1. IInv /\ [Next]_vars => [BeginFrame => derived = usage_state_ptr]_vars
  BY DEF IInv, FedInv, BeginFrame
<1> QED
  BY <1>1, Inductive, PTL DEF Spec, SlotsAreFed
=============================================================================
