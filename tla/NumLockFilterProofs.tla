------------------------- MODULE NumLockFilterProofs -------------------------
(***************************************************************************)
(* Proofs about the NumLock filter, for every set of interfaces and        *)
(* reports, every edge time and every burst, and about KeypadOutput, which *)
(* runs it, for every set of digits, every report and every build.         *)
(*                                                                         *)
(* What is inductive of the filter is a statement about one of them: the   *)
(* states it sends alternate, its automaton is in a "down" stage only      *)
(* while the key is down, and it ends with NumLock down exactly while it   *)
(* passes a press through.                                                 *)
(*                                                                         *)
(* Of the keyboard report a statement about each function that writes it   *)
(* is enough; that a key keeps its usage needs an invariant which ties how *)
(* its press was shown to what its filter infers.                          *)
(***************************************************************************)
EXTENDS KeypadOutput, SequenceTheorems, FiniteSetTheorems, WellFoundedInduction, TLAPS

-----------------------------------------------------------------------------
(* One filter.                                                             *)

Queued(f) == Len(f.pending_output_states)

Alternates(f) ==
  \A k \in 1 .. Queued(f) :
    f.pending_output_states[k] <=> (f.output_num_lock <=> k % 2 = 0)

DownStages == {"FIRST_DOWN", "TRAILING_DOWN", "PASSTHROUGH_DOWN"}

FilterInv(f) ==
  /\ Alternates(f)
  /\ f.stage \in DownStages => f.previous_num_lock
  /\ LastState(f) <=> f.stage = "PASSTHROUGH_DOWN"

\* The states a stage may still queue for what it has withheld.
Cost(stage) ==
  CASE stage = "FIRST_DOWN" -> 1
    [] stage \in {"WAIT_KEYPAD", "KEYPAD_ACTIVE", "WAIT_TRAILING_DOWN"} -> 2
    [] stage = "TRAILING_DOWN" -> 3
    [] OTHER -> 0

Debt(f) == Queued(f) + Cost(f.stage)
Presses(f) == Withheld(f.stage) + PendingPresses(f)

SameKey(f, g) ==
  /\ g.previous_num_lock = f.previous_num_lock
  /\ g.previous_keypad = f.previous_keypad
  /\ g.output_num_lock = f.output_num_lock

\* g is f with so many states, and so many presses among them, queued on top.
Grows(f, g, states, presses) ==
  /\ g \in FilterType
  /\ Alternates(g)
  /\ SameKey(f, g)
  /\ Queued(g) = Queued(f) + states
  /\ PendingPresses(g) = PendingPresses(f) + presses

LEMMA Parity ==
  ASSUME NEW n \in Nat
  PROVE  /\ n % 2 \in {0, 1} /\ n \div 2 \in Nat /\ (n + 1) \div 2 \in Nat
         /\ (n + 1) % 2 = 0 <=> n % 2 # 0
         /\ n % 2 = 0 => (n + 1) \div 2 = n \div 2 /\ (n + 2) \div 2 = n \div 2 + 1
         /\ n % 2 # 0 => (n + 1) \div 2 = n \div 2 + 1 /\ (n + 2) \div 2 = n \div 2 + 1
OBVIOUS

LEMMA StageCosts ==
  /\ Withheld("IDLE") = 0 /\ Cost("IDLE") = 0
  /\ Withheld("FIRST_DOWN") = 1 /\ Cost("FIRST_DOWN") = 1
  /\ Withheld("WAIT_KEYPAD") = 1 /\ Cost("WAIT_KEYPAD") = 2
  /\ Withheld("KEYPAD_ACTIVE") = 1 /\ Cost("KEYPAD_ACTIVE") = 2
  /\ Withheld("WAIT_TRAILING_DOWN") = 1 /\ Cost("WAIT_TRAILING_DOWN") = 2
  /\ Withheld("TRAILING_DOWN") = 2 /\ Cost("TRAILING_DOWN") = 3
  /\ Withheld("PASSTHROUGH_DOWN") = 0 /\ Cost("PASSTHROUGH_DOWN") = 0
BY DEF Withheld, Cost

LEMMA CountType ==
  ASSUME NEW f \in FilterType
  PROVE  /\ f.pending_output_states \in Seq(BOOLEAN)
         /\ Queued(f) \in Nat
         /\ PendingPresses(f) \in Nat
         /\ f.stage \in Stages
         /\ f.output_num_lock \in BOOLEAN
         /\ f.output_num_lock => PendingPresses(f) = Queued(f) \div 2
         /\ ~f.output_num_lock => PendingPresses(f) = (Queued(f) + 1) \div 2
<1>1. /\ f.pending_output_states \in Seq(BOOLEAN)
      /\ Queued(f) \in Nat
      /\ f.stage \in Stages
      /\ f.output_num_lock \in BOOLEAN
  BY DEF FilterType, Queued
<1>2. CASE f.output_num_lock
  <2>1. PendingPresses(f) = Queued(f) \div 2
    BY <1>1, <1>2 DEF PendingPresses, Queued
  <2> QED BY <2>1, <1>1, <1>2, Parity
<1>3. CASE ~f.output_num_lock
  <2>1. PendingPresses(f) = (Queued(f) + 1) \div 2
    BY <1>1, <1>3 DEF PendingPresses, Queued
  <2> QED BY <2>1, <1>1, <1>3, Parity
<1> QED BY <1>2, <1>3

\* Whether the last state is a press is a matter of parity.
LEMMA LastOfAlternation ==
  ASSUME NEW f \in FilterType, Alternates(f)
  PROVE  LastState(f) <=> (f.output_num_lock <=> Queued(f) % 2 = 0)
<1>1. Queued(f) \in Nat /\ f.pending_output_states \in Seq(BOOLEAN)
  BY CountType
<1>2. CASE f.pending_output_states = << >>
  BY <1>2 DEF LastState, Queued
<1>3. CASE f.pending_output_states # << >>
  <2>1. Queued(f) \in 1 .. Queued(f)
    BY <1>1, <1>3 DEF Queued
  <2> QED BY <2>1, <1>3 DEF LastState, Alternates, Queued
<1> QED BY <1>2, <1>3

\* Queueing a state other than the last one.
LEMMA Queue ==
  ASSUME NEW f \in FilterType, Alternates(f), NEW state \in BOOLEAN,
         ~(LastState(f) <=> state), NEW g, g = queue_num_lock_state(f, state)
  PROVE  /\ state => Grows(f, g, 1, 1)
         /\ ~state => Grows(f, g, 1, 0)
         /\ LastState(g) <=> state
         /\ g.stage = f.stage
         /\ g.deadline = f.deadline
<1> DEFINE p == f.pending_output_states
           n == Queued(f)
<1>1. p \in Seq(BOOLEAN) /\ n \in Nat /\ n = Len(p)
  BY CountType DEF Queued
<1>2. /\ Append(p, state) \in Seq(BOOLEAN)
      /\ Len(Append(p, state)) = n + 1
      /\ Append(p, state)[n + 1] = state
      /\ \A k \in 1 .. n : Append(p, state)[k] = p[k]
      /\ Append(p, state) # << >>
  BY <1>1 DEF Queued
<1>3. g = [f EXCEPT !.pending_output_states = Append(p, state)]
  BY DEF queue_num_lock_state
<1>4. /\ g.pending_output_states = Append(p, state)
      /\ g.stage = f.stage
      /\ g.deadline = f.deadline
      /\ SameKey(f, g)
  BY <1>3 DEF FilterType, SameKey
<1>5. g \in FilterType
  BY <1>2, <1>3 DEF FilterType
<1>6. state <=> ~(f.output_num_lock <=> n % 2 = 0)
  BY LastOfAlternation
<1>7. Queued(g) = n + 1
  BY <1>2, <1>4 DEF Queued
<1>8. Alternates(g)
  <2> SUFFICES ASSUME NEW k \in 1 .. n + 1
               PROVE  Append(p, state)[k] <=> (f.output_num_lock <=> k % 2 = 0)
    BY <1>4, <1>7 DEF Alternates, SameKey
  <2>1. CASE k = n + 1
    <3>1. (n + 1) % 2 = 0 <=> ~(n % 2 = 0)
      BY <1>1, Parity
    <3> QED BY <2>1, <3>1, <1>2, <1>6
  <2>2. CASE k # n + 1
    <3>1. k \in 1 .. n
      BY <2>2, <1>1
    <3> QED BY <3>1, <1>2 DEF Alternates
  <2> QED BY <2>1, <2>2
<1>9. LastState(g) <=> state
  BY <1>2, <1>4, <1>1 DEF LastState
<1>10. /\ state => PendingPresses(g) = PendingPresses(f) + 1
       /\ ~state => PendingPresses(g) = PendingPresses(f)
  <2>1. CASE f.output_num_lock
    <3>1. PendingPresses(f) = n \div 2 /\ PendingPresses(g) = (n + 1) \div 2
      BY <2>1, <1>4, <1>5, <1>7, CountType DEF SameKey
    <3> QED BY <3>1, <2>1, <1>1, <1>6, Parity
  <2>2. CASE ~f.output_num_lock
    <3>1. PendingPresses(f) = (n + 1) \div 2 /\ PendingPresses(g) = (n + 1 + 1) \div 2
      BY <2>2, <1>4, <1>5, <1>7, CountType DEF SameKey
    <3>2. n + 1 + 1 = n + 2
      BY <1>1
    <3> QED BY <3>1, <3>2, <2>2, <1>1, <1>6, Parity
  <2> QED BY <2>1, <2>2
<1>11. PendingPresses(f) \in Nat
  BY CountType
<1> QED BY <1>4, <1>5, <1>7, <1>8, <1>9, <1>10, <1>11 DEF Grows

LEMMA GrowTwice ==
  ASSUME NEW f \in FilterType, NEW g, NEW h,
         NEW m \in Nat, NEW n \in Nat, NEW a \in Nat, NEW b \in Nat,
         Grows(f, g, m, a), Grows(g, h, n, b)
  PROVE  Grows(f, h, m + n, a + b)
<1>1. Queued(f) \in Nat /\ PendingPresses(f) \in Nat
  BY CountType
<1>2. Queued(h) = Queued(f) + (m + n) /\ PendingPresses(h) = PendingPresses(f) + (a + b)
  BY <1>1 DEF Grows
<1> QED BY <1>2 DEF Grows, SameKey

\* Only the queue and the output matter for what will be sent.
SameQueue(f, g) ==
  g.pending_output_states = f.pending_output_states /\ g.output_num_lock = f.output_num_lock

LEMMA QueueDecides ==
  ASSUME NEW f \in FilterType, NEW g \in FilterType, Alternates(f),
         SameKey(f, g), SameQueue(f, g)
  PROVE  /\ Grows(f, g, 0, 0)
         /\ LastState(g) <=> LastState(f)
<1>1. /\ Alternates(g)
      /\ LastState(g) <=> LastState(f)
      /\ PendingPresses(g) = PendingPresses(f)
      /\ Queued(g) = Queued(f)
  BY DEF SameQueue, Alternates, LastState, PendingPresses, Queued
<1> QED BY <1>1, CountType DEF Grows

LEMMA EnterStage ==
  ASSUME NEW f \in FilterType, Alternates(f), NEW stage \in Stages,
         NEW deadline \in 0 .. NoDeadline, NEW g, g = Enter(f, stage, deadline)
  PROVE  /\ Grows(f, g, 0, 0)
         /\ LastState(g) <=> LastState(f)
         /\ g.stage = stage
<1>1. g \in FilterType
  BY DEF Enter, FilterType
<1>2. g.stage = stage /\ SameKey(f, g) /\ SameQueue(f, g)
  BY DEF Enter, FilterType, SameKey, SameQueue
<1> QED BY <1>1, <1>2, QueueDecides

LEMMA Infer ==
  ASSUME NEW f \in FilterType, Alternates(f), NEW state \in {"on", "off"},
         NEW g, g = [f EXCEPT !.inferred_num_lock = state]
  PROVE  /\ Grows(f, g, 0, 0)
         /\ LastState(g) <=> LastState(f)
         /\ g.stage = f.stage
<1>1. g \in FilterType
  BY DEF FilterType
<1>2. g.stage = f.stage /\ SameKey(f, g) /\ SameQueue(f, g)
  BY DEF FilterType, SameKey, SameQueue
<1> QED BY <1>1, <1>2, QueueDecides

LEMMA Deadlines == NoDeadline \in 0 .. NoDeadline /\ NUM_LOCK_SYNC_EDGE \in 0 .. NoDeadline
BY FilterAssumption DEF NoDeadline

\* A replayed tap is one press and its release.
LEMMA Tap ==
  ASSUME NEW f \in FilterType, Alternates(f), ~LastState(f),
         NEW g, g = replay_first_num_lock_tap(f)
  PROVE  /\ Grows(f, g, 2, 1)
         /\ ~LastState(g)
         /\ g.stage = f.stage
<1> DEFINE down == queue_num_lock_state(f, TRUE)
<1>1. Grows(f, down, 1, 1) /\ LastState(down) /\ down.stage = f.stage
  BY Queue
<1>2. g = queue_num_lock_state(down, FALSE)
  BY DEF replay_first_num_lock_tap
<1> HIDE DEF down
<1>3. down \in FilterType /\ Alternates(down)
  BY <1>1 DEF Grows
<1>4. Grows(down, g, 1, 0) /\ ~LastState(g) /\ g.stage = down.stage
  BY <1>1, <1>2, <1>3, Queue
<1>5. Grows(f, g, 1 + 1, 1 + 0)
  BY <1>1, <1>4, GrowTwice
<1> QED BY <1>1, <1>4, <1>5

LEMMA Pass ==
  ASSUME NEW f \in FilterType, Alternates(f), ~LastState(f), NEW g, g = PassDown(f)
  PROVE  /\ Grows(f, g, 1, 1)
         /\ LastState(g)
         /\ g.stage = "PASSTHROUGH_DOWN"
<1> DEFINE down == queue_num_lock_state(f, TRUE)
<1>1. Grows(f, down, 1, 1) /\ LastState(down)
  BY Queue
<1>2. g = Enter(down, "PASSTHROUGH_DOWN", NoDeadline)
  BY DEF PassDown
<1> HIDE DEF down
<1>3. down \in FilterType /\ Alternates(down)
  BY <1>1 DEF Grows
<1>4. Grows(down, g, 0, 0) /\ LastState(g) /\ g.stage = "PASSTHROUGH_DOWN"
  BY <1>1, <1>2, <1>3, EnterStage, Deadlines DEF Stages
<1>5. Grows(f, g, 1 + 0, 1 + 0)
  BY <1>1, <1>4, GrowTwice
<1> QED BY <1>4, <1>5

LEMMA TapAndPass ==
  ASSUME NEW f \in FilterType, Alternates(f), ~LastState(f),
         NEW g, g = ReplayAndPassDown(f)
  PROVE  /\ Grows(f, g, 3, 2)
         /\ LastState(g)
         /\ g.stage = "PASSTHROUGH_DOWN"
<1> DEFINE tapped == replay_first_num_lock_tap(f)
<1>1. Grows(f, tapped, 2, 1) /\ ~LastState(tapped)
  BY Tap
<1>2. g = PassDown(tapped)
  BY DEF ReplayAndPassDown
<1> HIDE DEF tapped
<1>3. tapped \in FilterType /\ Alternates(tapped)
  BY <1>1 DEF Grows
<1>4. Grows(tapped, g, 1, 1) /\ LastState(g) /\ g.stage = "PASSTHROUGH_DOWN"
  BY <1>1, <1>2, <1>3, Pass
<1>5. Grows(f, g, 2 + 1, 1 + 1)
  BY <1>1, <1>4, GrowTwice
<1> QED BY <1>4, <1>5

\* A deadline that passes turns what is withheld into what is pending, neither
\* more nor less.
LEMMA Timeout ==
  ASSUME NEW f \in FilterType, FilterInv(f),
         NEW g, g = advance_num_lock_sync_timeout(f)
  PROVE  /\ g \in FilterType
         /\ FilterInv(g)
         /\ SameKey(f, g)
         /\ Presses(g) = Presses(f)
         /\ Debt(g) = Debt(f)
<1> USE DEF Grows, Presses, Debt
<1>1. CASE f.deadline # 0
  BY <1>1 DEF advance_num_lock_sync_timeout, SameKey
<1>2. CASE f.deadline = 0 /\ f.stage = "FIRST_DOWN"
  <2>1. g = PassDown(f)
    BY <1>2 DEF advance_num_lock_sync_timeout
  <2>2. Alternates(f) /\ ~LastState(f) /\ f.previous_num_lock
    BY <1>2 DEF FilterInv, DownStages
  <2>3. Grows(f, g, 1, 1) /\ LastState(g) /\ g.stage = "PASSTHROUGH_DOWN"
    BY <2>1, <2>2, Pass
  <2>4. FilterInv(g)
    BY <2>2, <2>3 DEF FilterInv, SameKey
  <2>5. Presses(g) = Presses(f) /\ Debt(g) = Debt(f)
    BY <1>2, <2>3, CountType, StageCosts
  <2> QED BY <2>3, <2>4, <2>5
<1>3. CASE f.deadline = 0 /\ f.stage \in {"WAIT_KEYPAD", "WAIT_TRAILING_DOWN"}
  <2> DEFINE tapped == replay_first_num_lock_tap(f)
             inferred == toggle_inferred_num_lock_state(tapped)
  <2>1. g = Enter(inferred, "IDLE", NoDeadline)
    BY <1>3 DEF advance_num_lock_sync_timeout
  <2>2. Alternates(f) /\ ~LastState(f)
    BY <1>3 DEF FilterInv, DownStages
  <2>3. Grows(f, tapped, 2, 1) /\ ~LastState(tapped)
    BY <2>2, Tap
  <2>4. Grows(tapped, inferred, 0, 0) /\ ~LastState(inferred)
    <3>1. \E state \in {"on", "off"} :
            inferred = [tapped EXCEPT !.inferred_num_lock = state]
      BY DEF toggle_inferred_num_lock_state
    <3> HIDE DEF tapped, inferred
    <3> QED BY <3>1, <2>3, Infer
  <2> HIDE DEF tapped, inferred
  <2>5. Grows(inferred, g, 0, 0) /\ ~LastState(g) /\ g.stage = "IDLE"
    <3>1. "IDLE" \in Stages
      BY DEF Stages
    <3>2. inferred \in FilterType /\ Alternates(inferred)
      BY <2>4
    <3> QED BY <2>1, <2>4, <3>1, <3>2, EnterStage, Deadlines
  <2>6. Grows(f, inferred, 2 + 0, 1 + 0)
    BY <2>3, <2>4, GrowTwice
  <2>7. Grows(f, g, 2 + 0, 1 + 0)
    BY <2>5, <2>6, GrowTwice
  <2>8. FilterInv(g)
    BY <2>5, <2>7 DEF FilterInv, DownStages
  <2>9. Presses(g) = Presses(f) /\ Debt(g) = Debt(f)
    BY <1>3, <2>5, <2>7, CountType, StageCosts
  <2> QED BY <2>7, <2>8, <2>9
<1>4. CASE f.deadline = 0 /\ f.stage = "TRAILING_DOWN"
  <2>1. g = ReplayAndPassDown(f)
    BY <1>4 DEF advance_num_lock_sync_timeout
  <2>2. Alternates(f) /\ ~LastState(f) /\ f.previous_num_lock
    BY <1>4 DEF FilterInv, DownStages
  <2>3. Grows(f, g, 3, 2) /\ LastState(g) /\ g.stage = "PASSTHROUGH_DOWN"
    BY <2>1, <2>2, TapAndPass
  <2>4. FilterInv(g)
    BY <2>2, <2>3 DEF FilterInv, SameKey
  <2>5. Presses(g) = Presses(f) /\ Debt(g) = Debt(f)
    BY <1>4, <2>3, CountType, StageCosts
  <2> QED BY <2>3, <2>4, <2>5
<1>5. CASE f.deadline = 0 /\ f.stage \notin
             {"FIRST_DOWN", "WAIT_KEYPAD", "WAIT_TRAILING_DOWN", "TRAILING_DOWN"}
  <2>1. g = [f EXCEPT !.deadline = NoDeadline]
    BY <1>5 DEF advance_num_lock_sync_timeout
  <2>2. g = Enter(f, f.stage, NoDeadline)
    BY <2>1 DEF Enter, FilterType
  <2>3. Grows(f, g, 0, 0) /\ (LastState(g) <=> LastState(f)) /\ g.stage = f.stage
    <3>1. f.stage \in Stages /\ Alternates(f)
      BY CountType DEF FilterInv
    <3> QED BY <2>2, <3>1, EnterStage, Deadlines
  <2> QED BY <2>3, CountType DEF FilterInv, SameKey
<1> QED BY <1>1, <1>2, <1>3, <1>4, <1>5

\* What a step of the automaton does: numDown is the edge, num_lock the new state.
Step(f, g, num_lock, numDown, keyDown) ==
  /\ g \in FilterType
  /\ Alternates(g)
  /\ SameKey(f, g)
  /\ g.stage \in DownStages => num_lock
  /\ LastState(g) <=> g.stage = "PASSTHROUGH_DOWN"
  /\ Debt(g) <= Debt(f) + 1
  /\ numDown => \/ Presses(g) = Presses(f) + 1
                \/ f.stage = "WAIT_KEYPAD" /\ keyDown
  /\ ~numDown => Presses(g) = Presses(f) \/ Presses(g) = Presses(f) - 2

\* A transition that queues m states, a presses among them.
LEMMA Transition ==
  ASSUME NEW f \in FilterType, NEW g, NEW m \in 0 .. 3, NEW a \in 0 .. 2,
         Grows(f, g, m, a), NEW num_lock \in BOOLEAN, NEW numDown \in BOOLEAN,
         NEW keyDown \in BOOLEAN,
         g.stage \in DownStages => num_lock,
         LastState(g) <=> g.stage = "PASSTHROUGH_DOWN",
         m + Cost(g.stage) <= Cost(f.stage) + 1,
         \/ numDown /\ f.stage = "WAIT_KEYPAD" /\ keyDown
         \/ numDown /\ a + Withheld(g.stage) = Withheld(f.stage) + 1
         \/ ~numDown /\ a + Withheld(g.stage) = Withheld(f.stage)
         \/ ~numDown /\ a + Withheld(g.stage) = Withheld(f.stage) - 2
  PROVE  Step(f, g, num_lock, numDown, keyDown)
<1>1. g \in FilterType /\ Alternates(g) /\ SameKey(f, g)
  BY DEF Grows
<1>2. /\ Queued(f) \in Nat /\ PendingPresses(f) \in Nat
      /\ f.stage \in Stages /\ g.stage \in Stages
  BY <1>1, CountType
<1>3. /\ Cost(f.stage) \in 0 .. 3 /\ Cost(g.stage) \in 0 .. 3
      /\ Withheld(f.stage) \in 0 .. 2 /\ Withheld(g.stage) \in 0 .. 2
  BY <1>2, StageCosts DEF Stages
<1>4. Queued(g) = Queued(f) + m /\ PendingPresses(g) = PendingPresses(f) + a
  BY DEF Grows
<1>5. Debt(g) <= Debt(f) + 1
  BY <1>2, <1>3, <1>4 DEF Debt
<1>6. Presses(g) = Presses(f) + (Withheld(g.stage) - Withheld(f.stage) + a)
  BY <1>2, <1>3, <1>4 DEF Presses
<1>7. Presses(f) \in Nat
  BY <1>2, <1>3 DEF Presses
<1>8. numDown => \/ Presses(g) = Presses(f) + 1
                 \/ f.stage = "WAIT_KEYPAD" /\ keyDown
  BY <1>3, <1>6, <1>7
<1>9. ~numDown => Presses(g) = Presses(f) \/ Presses(g) = Presses(f) - 2
  BY <1>3, <1>6, <1>7
<1> QED BY <1>1, <1>5, <1>8, <1>9 DEF Step

\* One step of the automaton.  f's key is as it was before the report, numDown
\* .. keyUp are the edges the report makes.
LEMMA Observe ==
  ASSUME NEW f \in FilterType, FilterInv(f), NEW num_lock \in BOOLEAN,
         NEW keyDown \in BOOLEAN, NEW keyUp \in BOOLEAN, NEW keypad \in BOOLEAN,
         NEW numDown \in BOOLEAN, numDown <=> num_lock /\ ~f.previous_num_lock,
         NEW numUp \in BOOLEAN, numUp <=> ~num_lock /\ f.previous_num_lock,
         NEW g, g = Observed(f, numDown, numUp, keyDown, keyUp, keypad)
  PROVE  Step(f, g, num_lock, numDown, keyDown)
<1> DEFINE Goal == Step(f, g, num_lock, numDown, keyDown)
<1> SUFFICES Goal
  OBVIOUS
<1>a. /\ f.stage \in Stages
      /\ Alternates(f)
  BY CountType DEF FilterInv
<1>b. f.previous_num_lock \in BOOLEAN
  BY DEF FilterType
<1>t. ASSUME NEW m \in 0 .. 3, NEW a \in 0 .. 2, Grows(f, g, m, a),
             g.stage \in DownStages => num_lock,
             LastState(g) <=> g.stage = "PASSTHROUGH_DOWN",
             m + Cost(g.stage) <= Cost(f.stage) + 1,
             \/ numDown /\ f.stage = "WAIT_KEYPAD" /\ keyDown
             \/ numDown /\ a + Withheld(g.stage) = Withheld(f.stage) + 1
             \/ ~numDown /\ a + Withheld(g.stage) = Withheld(f.stage)
             \/ ~numDown /\ a + Withheld(g.stage) = Withheld(f.stage) - 2
      PROVE  Goal
  BY <1>t, Transition
<1>d. numDown => num_lock
  OBVIOUS
<1> HIDE DEF Goal
\* What each kind of transition does.
<1>s. ASSUME g = f, ~numDown, f.stage \in DownStages => num_lock
      PROVE  Goal
  <2>1. Grows(f, g, 0, 0)
    BY <1>s, <1>a, CountType DEF Grows, SameKey
  <2>2. Cost(f.stage) \in 0 .. 3 /\ Withheld(f.stage) \in 0 .. 2
    BY <1>a, StageCosts DEF Stages
  <2> QED BY <1>s, <2>1, <2>2, <1>t, <1>d DEF FilterInv
<1>e. ASSUME NEW stage \in Stages, NEW deadline \in 0 .. NoDeadline,
             g = Enter(f, stage, deadline), ~LastState(f), stage # "PASSTHROUGH_DOWN"
      PROVE  Grows(f, g, 0, 0) /\ ~LastState(g) /\ g.stage = stage
  BY <1>e, <1>a, EnterStage
<1>1. CASE f.stage = "IDLE"
  <2>1. ~LastState(f)
    BY <1>1 DEF FilterInv
  <2>2. CASE numDown
    <3>1. g = Enter(f, "FIRST_DOWN", NUM_LOCK_SYNC_EDGE)
      BY <1>1, <2>2 DEF Observed
    <3>2. Grows(f, g, 0, 0) /\ ~LastState(g) /\ g.stage = "FIRST_DOWN"
      BY <3>1, <2>1, <1>e, Deadlines DEF Stages
    <3>3. /\ 0 \in 0 .. 3 /\ 0 \in 0 .. 2 /\ Grows(f, g, 0, 0)
          /\ 0 + Cost(g.stage) <= Cost(f.stage) + 1
          /\ 0 + Withheld(g.stage) = Withheld(f.stage) + 1
      BY <3>2, <1>1, StageCosts
    <3> QED BY <3>2, <3>3, <2>2, <1>1, <1>t, <1>d
  <2>3. CASE ~numDown /\ keyDown
    <3>1. g = [f EXCEPT !.inferred_num_lock = "off"]
      BY <1>1, <2>3 DEF Observed
    <3>2. Grows(f, g, 0, 0) /\ ~LastState(g) /\ g.stage = "IDLE"
      BY <3>1, <2>1, <1>1, <1>a, Infer
    <3>3. /\ 0 \in 0 .. 3 /\ 0 \in 0 .. 2 /\ Grows(f, g, 0, 0)
          /\ 0 + Cost(g.stage) <= Cost(f.stage) + 1
          /\ 0 + Withheld(g.stage) = Withheld(f.stage)
      BY <3>2, <1>1, StageCosts
    <3> QED BY <3>2, <3>3, <2>3, <1>1, <1>t, <1>d DEF DownStages
  <2>4. CASE ~numDown /\ ~keyDown
    <3>1. g = f
      BY <1>1, <2>4 DEF Observed
    <3> QED BY <3>1, <2>4, <1>1, <1>s DEF DownStages
  <2> QED BY <2>2, <2>3, <2>4
<1>2. CASE f.stage = "FIRST_DOWN"
  <2>1. ~LastState(f) /\ f.previous_num_lock /\ ~numDown
    BY <1>2, <1>b DEF FilterInv, DownStages
  <2>2. CASE numUp
    <3>1. \E stage \in {"KEYPAD_ACTIVE", "WAIT_KEYPAD"},
             deadline \in {NoDeadline, NUM_LOCK_SYNC_EDGE} : g = Enter(f, stage, deadline)
      BY <1>2, <2>2 DEF Observed
    <3>2. Grows(f, g, 0, 0) /\ ~LastState(g) /\ g.stage \in {"KEYPAD_ACTIVE", "WAIT_KEYPAD"}
      BY <3>1, <2>1, <1>e, Deadlines DEF Stages
    <3>3. /\ 0 \in 0 .. 3 /\ 0 \in 0 .. 2 /\ Grows(f, g, 0, 0)
          /\ 0 + Cost(g.stage) <= Cost(f.stage) + 1
          /\ 0 + Withheld(g.stage) = Withheld(f.stage)
      BY <3>2, <1>2, StageCosts
    <3> QED BY <3>2, <3>3, <2>1, <1>2, <1>t, <1>d DEF DownStages
  <2>3. CASE ~numUp /\ keyDown
    <3>1. g = PassDown(f)
      BY <1>2, <2>3 DEF Observed
    <3>2. Grows(f, g, 1, 1) /\ LastState(g) /\ g.stage = "PASSTHROUGH_DOWN"
      BY <3>1, <2>1, <1>a, Pass
    <3>3. num_lock
      BY <2>1, <2>3
    <3>4. /\ 1 \in 0 .. 3 /\ 1 \in 0 .. 2 /\ Grows(f, g, 1, 1)
          /\ 1 + Cost(g.stage) <= Cost(f.stage) + 1
          /\ 1 + Withheld(g.stage) = Withheld(f.stage)
      BY <3>2, <3>3, <1>2, StageCosts
    <3> QED BY <3>2, <3>3, <3>4, <2>1, <1>2, <1>t, <1>d
  <2>4. CASE ~numUp /\ ~keyDown
    <3>1. g = f
      BY <1>2, <2>4 DEF Observed
    <3> QED BY <3>1, <2>1, <2>4, <1>s
  <2> QED BY <2>2, <2>3, <2>4
<1>3. CASE f.stage = "WAIT_KEYPAD"
  <2>1. ~LastState(f)
    BY <1>3 DEF FilterInv
  <2>2. CASE keyDown
    <3>1. g = Enter(f, "KEYPAD_ACTIVE", NoDeadline)
      BY <1>3, <2>2 DEF Observed
    <3>2. Grows(f, g, 0, 0) /\ ~LastState(g) /\ g.stage = "KEYPAD_ACTIVE"
      BY <3>1, <2>1, <1>e, Deadlines DEF Stages
    <3>3. /\ 0 \in 0 .. 3 /\ 0 \in 0 .. 2 /\ Grows(f, g, 0, 0)
          /\ 0 + Cost(g.stage) <= Cost(f.stage) + 1
          /\ 0 + Withheld(g.stage) = Withheld(f.stage)
      BY <3>2, <1>3, StageCosts
    <3> QED BY <3>2, <3>3, <2>2, <1>3, <1>t, <1>d DEF DownStages
  <2>3. CASE ~keyDown /\ numDown
    <3>1. g = ReplayAndPassDown(f)
      BY <1>3, <2>3 DEF Observed
    <3>2. Grows(f, g, 3, 2) /\ LastState(g) /\ g.stage = "PASSTHROUGH_DOWN"
      BY <3>1, <2>1, <1>a, TapAndPass
    <3>3. /\ 3 \in 0 .. 3 /\ 2 \in 0 .. 2 /\ Grows(f, g, 3, 2)
          /\ 3 + Cost(g.stage) <= Cost(f.stage) + 1
          /\ 2 + Withheld(g.stage) = Withheld(f.stage) + 1
      BY <3>2, <1>3, StageCosts
    <3> QED BY <3>2, <3>3, <2>3, <1>3, <1>t, <1>d
  <2>4. CASE ~keyDown /\ ~numDown
    <3>1. g = f
      BY <1>3, <2>4 DEF Observed
    <3> QED BY <3>1, <2>4, <1>3, <1>s DEF DownStages
  <2> QED BY <2>2, <2>3, <2>4
<1>4. CASE f.stage = "KEYPAD_ACTIVE"
  <2>1. ~LastState(f)
    BY <1>4 DEF FilterInv
  <2>2. CASE numDown
    <3>1. g = ReplayAndPassDown(f)
      BY <1>4, <2>2 DEF Observed
    <3>2. Grows(f, g, 3, 2) /\ LastState(g) /\ g.stage = "PASSTHROUGH_DOWN"
      BY <3>1, <2>1, <1>a, TapAndPass
    <3>3. /\ 3 \in 0 .. 3 /\ 2 \in 0 .. 2 /\ Grows(f, g, 3, 2)
          /\ 3 + Cost(g.stage) <= Cost(f.stage) + 1
          /\ 2 + Withheld(g.stage) = Withheld(f.stage) + 1
      BY <3>2, <1>4, StageCosts
    <3> QED BY <3>2, <3>3, <2>2, <1>4, <1>t, <1>d
  <2>3. CASE ~numDown /\ keyUp
    <3>1. g = Enter(f, "WAIT_TRAILING_DOWN", NUM_LOCK_SYNC_EDGE)
      BY <1>4, <2>3 DEF Observed
    <3>2. Grows(f, g, 0, 0) /\ ~LastState(g) /\ g.stage = "WAIT_TRAILING_DOWN"
      BY <3>1, <2>1, <1>e, Deadlines DEF Stages
    <3>3. /\ 0 \in 0 .. 3 /\ 0 \in 0 .. 2 /\ Grows(f, g, 0, 0)
          /\ 0 + Cost(g.stage) <= Cost(f.stage) + 1
          /\ 0 + Withheld(g.stage) = Withheld(f.stage)
      BY <3>2, <1>4, StageCosts
    <3> QED BY <3>2, <3>3, <2>3, <1>4, <1>t, <1>d DEF DownStages
  <2>4. CASE ~numDown /\ ~keyUp
    <3>1. g = f
      BY <1>4, <2>4 DEF Observed
    <3> QED BY <3>1, <2>4, <1>4, <1>s DEF DownStages
  <2> QED BY <2>2, <2>3, <2>4
<1>5. CASE f.stage = "WAIT_TRAILING_DOWN"
  <2>1. ~LastState(f)
    BY <1>5 DEF FilterInv
  <2>2. CASE numDown
    <3>1. g = Enter(f, "TRAILING_DOWN", NUM_LOCK_SYNC_EDGE)
      BY <1>5, <2>2 DEF Observed
    <3>2. Grows(f, g, 0, 0) /\ ~LastState(g) /\ g.stage = "TRAILING_DOWN"
      BY <3>1, <2>1, <1>e, Deadlines DEF Stages
    <3>3. /\ 0 \in 0 .. 3 /\ 0 \in 0 .. 2 /\ Grows(f, g, 0, 0)
          /\ 0 + Cost(g.stage) <= Cost(f.stage) + 1
          /\ 0 + Withheld(g.stage) = Withheld(f.stage) + 1
      BY <3>2, <1>5, StageCosts
    <3> QED BY <3>2, <3>3, <2>2, <1>5, <1>t, <1>d
  <2>3. CASE ~numDown /\ keyDown
    <3>1. g = Enter(f, "KEYPAD_ACTIVE", NoDeadline)
      BY <1>5, <2>3 DEF Observed
    <3>2. Grows(f, g, 0, 0) /\ ~LastState(g) /\ g.stage = "KEYPAD_ACTIVE"
      BY <3>1, <2>1, <1>e, Deadlines DEF Stages
    <3>3. /\ 0 \in 0 .. 3 /\ 0 \in 0 .. 2 /\ Grows(f, g, 0, 0)
          /\ 0 + Cost(g.stage) <= Cost(f.stage) + 1
          /\ 0 + Withheld(g.stage) = Withheld(f.stage)
      BY <3>2, <1>5, StageCosts
    <3> QED BY <3>2, <3>3, <2>3, <1>5, <1>t, <1>d DEF DownStages
  <2>4. CASE ~numDown /\ ~keyDown
    <3>1. g = f
      BY <1>5, <2>4 DEF Observed
    <3> QED BY <3>1, <2>4, <1>5, <1>s DEF DownStages
  <2> QED BY <2>2, <2>3, <2>4
<1>6. CASE f.stage = "TRAILING_DOWN"
  <2>1. ~LastState(f) /\ f.previous_num_lock /\ ~numDown
    BY <1>6, <1>b DEF FilterInv, DownStages
  <2>2. CASE numUp
    <3> DEFINE on == [f EXCEPT !.inferred_num_lock = "on"]
    <3>1. g = Enter(on, "IDLE", NoDeadline)
      BY <1>6, <2>2 DEF Observed
    <3>2. Grows(f, on, 0, 0) /\ ~LastState(on)
      BY <2>1, <1>a, Infer
    <3> HIDE DEF on
    <3>3. on \in FilterType /\ Alternates(on)
      BY <3>2 DEF Grows
    <3>4. Grows(on, g, 0, 0) /\ ~LastState(g) /\ g.stage = "IDLE"
      BY <3>1, <3>2, <3>3, EnterStage, Deadlines DEF Stages
    <3>5. Grows(f, g, 0 + 0, 0 + 0)
      BY <3>2, <3>4, GrowTwice
    <3>6. /\ 0 \in 0 .. 3 /\ 0 \in 0 .. 2 /\ Grows(f, g, 0, 0)
          /\ 0 + Cost(g.stage) <= Cost(f.stage) + 1
          /\ 0 + Withheld(g.stage) = Withheld(f.stage) - 2
      BY <3>4, <3>5, <1>6, StageCosts
    <3> QED BY <3>4, <3>5, <3>6, <2>1, <1>6, <1>t, <1>d DEF DownStages
  <2>3. CASE ~numUp
    <3>1. g = f
      BY <1>6, <2>3 DEF Observed
    <3> QED BY <3>1, <2>1, <2>3, <1>s
  <2> QED BY <2>2, <2>3
<1>7. CASE f.stage = "PASSTHROUGH_DOWN"
  <2>1. LastState(f) /\ f.previous_num_lock /\ ~numDown
    BY <1>7, <1>b DEF FilterInv, DownStages
  <2>2. CASE numUp
    <3> DEFINE up == queue_num_lock_state(f, FALSE)
    <3>1. g = Enter(up, "IDLE", f.deadline)
      BY <1>7, <2>2 DEF Observed
    <3>2. Grows(f, up, 1, 0) /\ ~LastState(up)
      BY <2>1, <1>a, Queue
    <3> HIDE DEF up
    <3>3. up \in FilterType /\ Alternates(up)
      BY <3>2 DEF Grows
    <3>4. f.deadline \in 0 .. NoDeadline
      BY DEF FilterType
    <3>5. Grows(up, g, 0, 0) /\ ~LastState(g) /\ g.stage = "IDLE"
      BY <3>1, <3>2, <3>3, <3>4, EnterStage DEF Stages
    <3>6. Grows(f, g, 1 + 0, 0 + 0)
      BY <3>2, <3>5, GrowTwice
    <3>7. /\ 1 \in 0 .. 3 /\ 0 \in 0 .. 2 /\ Grows(f, g, 1, 0)
          /\ 1 + Cost(g.stage) <= Cost(f.stage) + 1
          /\ 0 + Withheld(g.stage) = Withheld(f.stage)
      BY <3>5, <3>6, <1>7, StageCosts
    <3> QED BY <3>5, <3>6, <3>7, <2>1, <1>7, <1>t, <1>d DEF DownStages
  <2>3. CASE ~numUp
    <3>1. g = f
      BY <1>7, <2>3 DEF Observed
    <3> QED BY <3>1, <2>1, <2>3, <1>s
  <2> QED BY <2>2, <2>3
<1> QED BY <1>a, <1>1, <1>2, <1>3, <1>4, <1>5, <1>6, <1>7 DEF Stages

\* A report's own contribution changes nothing that is sent.
LEMMA Note ==
  ASSUME NEW f \in FilterType, FilterInv(f), NEW r \in ReportIds,
         NEW num_lock \in BOOLEAN, NEW keypad \in BOOLEAN,
         NEW g, g = Noted(f, r, num_lock, keypad)
  PROVE  /\ g \in FilterType
         /\ FilterInv(g)
         /\ SameKey(f, g)
         /\ Presses(g) = Presses(f)
         /\ Debt(g) = Debt(f)
<1>1. /\ g \in FilterType
      /\ g.stage = f.stage
      /\ SameKey(f, g)
      /\ SameQueue(f, g)
  BY DEF Noted, FilterType, SameKey, SameQueue
<1>2. Grows(f, g, 0, 0) /\ (LastState(g) <=> LastState(f))
  BY <1>1, QueueDecides DEF FilterInv
<1>3. Queued(g) = Queued(f) /\ PendingPresses(g) = PendingPresses(f)
  BY <1>2, CountType DEF Grows
<1>4. FilterInv(g)
  BY <1>1, <1>2 DEF FilterInv, Grows, SameKey
<1> QED BY <1>1, <1>3, <1>4 DEF Presses, Debt

\* What a report may do to a filter: g is f after it, with the edges it saw.
Reported(f, g, num_lock, keypad) ==
  /\ g \in FilterType
  /\ FilterInv(g)
  /\ g.output_num_lock = f.output_num_lock
  /\ Debt(g) <= Debt(f) + 1
  /\ num_lock /\ ~f.previous_num_lock =>
       \/ Presses(g) = Presses(f) + 1
       \/ /\ advance_num_lock_sync_timeout(f).stage = "WAIT_KEYPAD"
          /\ keypad /\ ~f.previous_keypad
  /\ ~(num_lock /\ ~f.previous_num_lock) =>
       Presses(g) = Presses(f) \/ Presses(g) = Presses(f) - 2

LEMMA Report ==
  ASSUME NEW f \in FilterType, FilterInv(f), NEW num_lock \in BOOLEAN, NEW keypad \in BOOLEAN,
         NEW g, g = observe_num_lock_sync_state(f, num_lock, keypad)
  PROVE  Reported(f, g, num_lock, keypad)
<1> DEFINE now == advance_num_lock_sync_timeout(f)
           numDown == num_lock /\ ~f.previous_num_lock
           numUp == ~num_lock /\ f.previous_num_lock
           keyDown == keypad /\ ~f.previous_keypad
           keyUp == ~keypad /\ f.previous_keypad
           done == Observed(now, numDown, numUp, keyDown, keyUp, keypad)
<1>1. g = [done EXCEPT !.previous_num_lock = num_lock, !.previous_keypad = keypad]
  BY DEF observe_num_lock_sync_state
<1>2. /\ now \in FilterType
      /\ FilterInv(now)
      /\ SameKey(f, now)
      /\ Presses(now) = Presses(f)
      /\ Debt(now) = Debt(f)
  BY Timeout
<1>3. now.previous_num_lock = f.previous_num_lock
  BY <1>2 DEF SameKey
<1>4. /\ numDown \in BOOLEAN /\ (numDown <=> num_lock /\ ~now.previous_num_lock)
      /\ numUp \in BOOLEAN /\ (numUp <=> ~num_lock /\ now.previous_num_lock)
      /\ keyDown \in BOOLEAN /\ keyUp \in BOOLEAN
  BY <1>3
<1> HIDE DEF now, numDown, numUp, keyDown, keyUp
<1>5. Step(now, done, num_lock, numDown, keyDown)
  BY <1>2, <1>4, Observe
<1> HIDE DEF done
<1>6. /\ done \in FilterType
      /\ Alternates(done)
      /\ SameKey(now, done)
      /\ done.stage \in DownStages => num_lock
      /\ LastState(done) <=> done.stage = "PASSTHROUGH_DOWN"
  BY <1>5 DEF Step
<1>7. /\ g \in FilterType
      /\ g.stage = done.stage
      /\ SameQueue(done, g)
      /\ g.previous_num_lock = num_lock
  BY <1>1, <1>6 DEF FilterType, SameQueue
<1>8. /\ Alternates(g) <=> Alternates(done)
      /\ LastState(g) <=> LastState(done)
      /\ PendingPresses(g) = PendingPresses(done)
      /\ Queued(g) = Queued(done)
  BY <1>7 DEF SameQueue, Alternates, LastState, PendingPresses, Queued
<1>9. FilterInv(g)
  BY <1>6, <1>7, <1>8 DEF FilterInv
<1>10. Presses(g) = Presses(done) /\ Debt(g) = Debt(done)
  BY <1>7, <1>8 DEF Presses, Debt
<1>11. g.output_num_lock = f.output_num_lock
  BY <1>2, <1>6, <1>7 DEF SameKey, SameQueue
<1>12. Debt(g) <= Debt(f) + 1
  BY <1>2, <1>5, <1>10 DEF Step
<1>13. /\ numDown => \/ Presses(g) = Presses(f) + 1
                     \/ now.stage = "WAIT_KEYPAD" /\ keyDown
       /\ ~numDown => Presses(g) = Presses(f) \/ Presses(g) = Presses(f) - 2
  BY <1>2, <1>5, <1>10 DEF Step
<1> QED BY <1>7, <1>9, <1>11, <1>12, <1>13 DEF now, numDown, keyDown, Reported

LEMMA HeadAndTail ==
  ASSUME NEW p \in Seq(BOOLEAN), p # << >>
  PROVE  /\ Len(p) \in Nat \ {0} /\ 1 \in 1 .. Len(p) /\ Len(p) \in 1 .. Len(p)
         /\ Head(p) = p[1] /\ Head(p) \in BOOLEAN
         /\ Tail(p) \in Seq(BOOLEAN)
         /\ Len(Tail(p)) = Len(p) - 1
         /\ \A k \in 1 .. Len(p) - 1 : Tail(p)[k] = p[k + 1]
         /\ Len(p) = 1 => Tail(p) = << >>
         /\ Len(p) > 1 => Tail(p) # << >>
<1>1. Len(p) \in Nat \ {0}
  OBVIOUS
<1>2. 1 \in 1 .. Len(p) /\ Len(p) \in 1 .. Len(p)
  BY <1>1
<1>3. Head(p) = p[1] /\ Head(p) \in BOOLEAN /\ Tail(p) \in Seq(BOOLEAN) /\ Len(Tail(p)) = Len(p) - 1
  OBVIOUS
<1>4. \A k \in 1 .. Len(p) - 1 : Tail(p)[k] = p[k + 1]
  OBVIOUS
<1>5. ASSUME NEW q \in Seq(BOOLEAN)
      PROVE  q = << >> <=> Len(q) = 0
  BY EmptySeq
<1>6. /\ Len(p) = 1 => Tail(p) = << >>
      /\ Len(p) > 1 => Tail(p) # << >>
  <2> DEFINE q == Tail(p)
             n == Len(p)
  <2>1. q \in Seq(BOOLEAN) /\ Len(q) = n - 1 /\ n \in Nat
    BY <1>1, <1>3
  <2>2. q = << >> <=> Len(q) = 0
    BY <2>1, <1>5
  <2> HIDE DEF q, n
  <2>3. n = 1 => q = << >>
    BY <2>1, <2>2
  <2>4. n > 1 => q # << >>
    BY <2>1, <2>2
  <2> QED BY <2>3, <2>4 DEF q, n
<1> QED BY <1>1, <1>2, <1>3, <1>4, <1>5, <1>6

\* A frame takes the first pending state out; a press among them is one less.
LEMMA Pop ==
  ASSUME NEW f \in FilterType, FilterInv(f), NEW g, g = Popped(f)
  PROVE  /\ g \in FilterType
         /\ FilterInv(g)
         /\ Debt(g) <= Debt(f)
         /\ f.pending_output_states # << >> => Debt(g) = Debt(f) - 1
         /\ f.pending_output_states = << >> => g = f
         /\ IF g.output_num_lock /\ ~f.output_num_lock
            THEN Presses(g) = Presses(f) - 1 ELSE Presses(g) = Presses(f)
<1> DEFINE p == f.pending_output_states
           n == Queued(f)
<1>0. /\ p \in Seq(BOOLEAN) /\ n \in Nat /\ n = Len(p) /\ f.output_num_lock \in BOOLEAN
      /\ f.stage \in Stages
  BY CountType DEF Queued
<1>c. Cost(f.stage) \in 0 .. 3 /\ Withheld(f.stage) \in 0 .. 2
  BY <1>0, StageCosts DEF Stages
<1>1. CASE p = << >>
  <2>1. g = f
    BY <1>1 DEF Popped
  <2>2. Debt(f) \in Nat
    BY <1>0, <1>c DEF Debt
  <2> QED BY <2>1, <2>2, <1>1
<1>2. CASE p # << >>
  <2>1. g = [f EXCEPT !.output_num_lock = Head(p), !.pending_output_states = Tail(p)]
    BY <1>2 DEF Popped
  <2>2. /\ n \in Nat \ {0} /\ 1 \in 1 .. n /\ n \in 1 .. n
        /\ Head(p) = p[1] /\ Head(p) \in BOOLEAN
        /\ Tail(p) \in Seq(BOOLEAN)
        /\ Len(Tail(p)) = n - 1
        /\ \A k \in 1 .. n - 1 : Tail(p)[k] = p[k + 1]
        /\ n = 1 => Tail(p) = << >>
        /\ n > 1 => Tail(p) # << >>
    BY <1>0, <1>2, HeadAndTail DEF Queued
  <2>3. /\ g.output_num_lock = Head(p)
        /\ g.pending_output_states = Tail(p)
        /\ g.stage = f.stage
        /\ g.previous_num_lock = f.previous_num_lock
    BY <2>1 DEF FilterType
  <2>4. g \in FilterType
    BY <2>1, <2>2 DEF FilterType
  <2>5. Queued(g) = n - 1
    BY <2>2, <2>3 DEF Queued
  <2>6. g.output_num_lock <=> ~f.output_num_lock
    <3>1. p[1] <=> (f.output_num_lock <=> 1 % 2 = 0)
      BY <2>2 DEF FilterInv, Alternates
    <3>2. 1 % 2 # 0
      OBVIOUS
    <3> QED BY <3>1, <3>2, <2>2, <2>3
  <2>7. Alternates(g)
    <3> SUFFICES ASSUME NEW k \in 1 .. n - 1
                 PROVE  Tail(p)[k] <=> (g.output_num_lock <=> k % 2 = 0)
      BY <2>3, <2>5 DEF Alternates
    <3>1. k \in Nat /\ k + 1 \in 1 .. n
      BY <2>2
    <3>2. p[k + 1] <=> (f.output_num_lock <=> (k + 1) % 2 = 0)
      BY <3>1 DEF FilterInv, Alternates
    <3>3. (k + 1) % 2 = 0 <=> ~(k % 2 = 0)
      BY <3>1, Parity
    <3>4. Tail(p)[k] = p[k + 1]
      BY <2>2
    <3> QED BY <3>2, <3>3, <3>4, <2>6
  <2>8. LastState(g) <=> LastState(f)
    <3>1. LastState(f) = p[n]
      BY <1>2 DEF LastState, Queued
    <3>2. CASE n = 1
      <4>1. LastState(g) = Head(p)
        BY <3>2, <2>2, <2>3 DEF LastState
      <4> QED BY <4>1, <3>1, <3>2, <2>2
    <3>3. CASE n > 1
      <4>1. LastState(g) = Tail(p)[n - 1]
        BY <3>3, <2>2, <2>3 DEF LastState
      <4>2. n - 1 \in 1 .. n - 1 /\ (n - 1) + 1 = n
        BY <3>3, <2>2
      <4> QED BY <4>1, <4>2, <3>1, <2>2
    <3> QED BY <3>2, <3>3, <2>2
  <2>9. FilterInv(g)
    BY <2>3, <2>7, <2>8 DEF FilterInv
  <2>10. Debt(g) = Debt(f) - 1 /\ Debt(g) <= Debt(f)
    <3> DEFINE c == Cost(f.stage)
    <3>1. Debt(f) = n + c /\ Debt(g) = (n - 1) + c
      BY <2>3, <2>5 DEF Debt
    <3>2. n \in Nat /\ c \in 0 .. 3
      BY <1>0, <1>c
    <3> HIDE DEF n, c
    <3> QED BY <3>1, <3>2
  <2>11. CASE f.output_num_lock
    <3>1. PendingPresses(f) = n \div 2 /\ PendingPresses(g) = ((n - 1) + 1) \div 2
      BY <2>4, <2>5, <2>6, <2>11, CountType
    <3>2. (n - 1) + 1 = n
      BY <2>2
    <3>3. Presses(g) = Presses(f)
      BY <3>1, <3>2, <2>3 DEF Presses
    <3> QED BY <3>3, <2>4, <2>9, <2>10, <2>11, <1>2
  <2>12. CASE ~f.output_num_lock
    <3>1. PendingPresses(f) = (n + 1) \div 2 /\ PendingPresses(g) = (n - 1) \div 2
      BY <2>4, <2>5, <2>6, <2>12, CountType
    <3>2. PICK m \in Nat : n = m + 1
      <4>1. n - 1 \in Nat /\ n = (n - 1) + 1
        BY <2>2
      <4> QED BY <4>1
    <3>3. (m + 2) \div 2 = m \div 2 + 1 /\ m \div 2 \in Nat
      BY <3>2, Parity
    <3>4. n + 1 = m + 2 /\ n - 1 = m
      BY <3>2
    <3>5. PendingPresses(g) = PendingPresses(f) - 1 /\ PendingPresses(f) \in Nat
      BY <3>1, <3>3, <3>4
    <3>6. Presses(g) = Presses(f) - 1
      BY <3>5, <2>3, <1>c DEF Presses
    <3> QED BY <3>6, <2>4, <2>6, <2>9, <2>10, <2>12, <1>2
  <2> QED BY <2>11, <2>12, <1>0
<1> QED BY <1>1, <1>2

LEMMA FreshFilter ==
  /\ NewFilter \in FilterType
  /\ FilterInv(NewFilter)
  /\ NewFilter.output_num_lock = FALSE
  /\ Presses(NewFilter) = 0
  /\ Debt(NewFilter) = 0
<1>1. NewFilter \in FilterType
  BY Deadlines DEF NewFilter, FilterType, Stages
<1>2. /\ NewFilter.output_num_lock = FALSE
      /\ NewFilter.stage = "IDLE"
      /\ NewFilter.pending_output_states = << >>
  BY DEF NewFilter
<1>3. Queued(NewFilter) = 0 /\ ~LastState(NewFilter) /\ Alternates(NewFilter)
  BY <1>2 DEF Queued, LastState, Alternates
<1>4. PendingPresses(NewFilter) = 0
  <2>1. PendingPresses(NewFilter) = (0 + 1) \div 2
    BY <1>1, <1>2, <1>3, CountType
  <2>2. (0 + 1) \div 2 = 0
    OBVIOUS
  <2> QED BY <2>1, <2>2
<1> QED BY <1>1, <1>2, <1>3, <1>4, StageCosts DEF FilterInv, Presses, Debt, DownStages


-----------------------------------------------------------------------------
(* One filter with its history: reports handled and not yet covered by a   *)
(* frame, presses not yet re-emitted (odd or even), a press lost.          *)

LEMMA SumTypes ==
  ASSUME NEW f \in FilterType
  PROVE  Presses(f) \in Nat /\ Debt(f) \in Nat /\ Cost(f.stage) \in 0 .. 3
<1>1. Queued(f) \in Nat /\ PendingPresses(f) \in Nat /\ f.stage \in Stages
  BY CountType
<1>2. Cost(f.stage) \in 0 .. 3 /\ Withheld(f.stage) \in 0 .. 2
  BY <1>1, StageCosts DEF Stages
<1> QED BY <1>1, <1>2 DEF Presses, Debt

LEMMA OddEven ==
  ASSUME NEW n \in Nat, NEW m \in Nat
  PROVE  /\ m = n + 1 => (m % 2 = 1 <=> ~(n % 2 = 1))
         /\ m = n - 1 => (m % 2 = 1 <=> ~(n % 2 = 1))
         /\ m = n - 2 => (m % 2 = 1 <=> n % 2 = 1)
OBVIOUS

Good(f, waiting, isOdd, lost) ==
  /\ FilterInv(f)
  /\ Debt(f) <= 3 + waiting
  /\ ~lost => (isOdd <=> Presses(f) % 2 = 1)

LEMMA ReportKeepsGood ==
  ASSUME NEW f \in FilterType, NEW waiting \in Nat, NEW isOdd \in BOOLEAN,
         NEW lost \in BOOLEAN, Good(f, waiting, isOdd, lost),
         NEW r \in ReportIds, NEW num_lock \in BOOLEAN, NEW keypad \in BOOLEAN,
         NEW n, n = Noted(f, r, num_lock, keypad),
         NEW g, g = observe_num_lock_sync_state(n, AnyNumLock(n), AnyKeypad(n)),
         NEW newOdd \in BOOLEAN, newOdd <=> ~(isOdd <=> NumLockDown(n)),
         NEW newLost \in BOOLEAN, newLost <=> lost \/ Swallows(n)
  PROVE  /\ g \in FilterType
         /\ g.output_num_lock = f.output_num_lock
         /\ Good(g, waiting + 1, newOdd, newLost)
<1>1. FilterInv(f) /\ Debt(f) <= 3 + waiting /\ (~lost => (isOdd <=> Presses(f) % 2 = 1))
  BY DEF Good
<1>2. /\ n \in FilterType
      /\ FilterInv(n)
      /\ SameKey(f, n)
      /\ Presses(n) = Presses(f)
      /\ Debt(n) = Debt(f)
  BY <1>1, Note
<1>3. AnyNumLock(n) \in BOOLEAN /\ AnyKeypad(n) \in BOOLEAN
  BY DEF AnyNumLock, AnyKeypad
<1>4. /\ g \in FilterType
      /\ FilterInv(g)
      /\ g.output_num_lock = n.output_num_lock
      /\ Debt(g) <= Debt(n) + 1
      /\ NumLockDown(n) => Presses(g) = Presses(n) + 1 \/ Swallows(n)
      /\ ~NumLockDown(n) => Presses(g) = Presses(n) \/ Presses(g) = Presses(n) - 2
  <2>1. Reported(n, g, AnyNumLock(n), AnyKeypad(n))
    BY <1>2, <1>3, Report
  <2> QED BY <2>1 DEF Reported, NumLockDown, Swallows
<1>5. /\ Presses(n) \in Nat /\ Debt(n) \in Nat
      /\ Presses(g) \in Nat /\ Debt(g) \in Nat
  BY <1>2, <1>4, SumTypes
<1>6. Debt(g) <= 3 + (waiting + 1)
  BY <1>1, <1>2, <1>4, <1>5
<1>7. ASSUME ~newLost PROVE newOdd <=> Presses(g) % 2 = 1
  <2>1. isOdd <=> Presses(n) % 2 = 1
    BY <1>1, <1>2, <1>7
  <2>2. CASE NumLockDown(n)
    <3>1. Presses(g) = Presses(n) + 1
      BY <1>4, <1>7, <2>2
    <3>2. Presses(g) % 2 = 1 <=> ~(Presses(n) % 2 = 1)
      BY <3>1, <1>5, OddEven
    <3> QED BY <3>2, <2>1, <2>2
  <2>3. CASE ~NumLockDown(n)
    <3>1. Presses(g) % 2 = 1 <=> Presses(n) % 2 = 1
      BY <1>4, <1>5, <2>3, OddEven
    <3> QED BY <3>1, <2>1, <2>3
  <2> QED BY <2>2, <2>3
<1> QED BY <1>2, <1>4, <1>6, <1>7 DEF Good, SameKey

LEMMA FrameKeepsGood ==
  ASSUME NEW f \in FilterType, NEW waiting \in Nat, NEW isOdd \in BOOLEAN,
         NEW lost \in BOOLEAN, Good(f, waiting, isOdd, lost),
         NEW g, g = Popped(advance_num_lock_sync_timeout(f)),
         NEW newWaiting, newWaiting = IF waiting = 0 THEN 0 ELSE waiting - 1,
         NEW newOdd \in BOOLEAN,
         newOdd <=> IF g.output_num_lock /\ ~f.output_num_lock THEN ~isOdd ELSE isOdd
  PROVE  g \in FilterType /\ Good(g, newWaiting, newOdd, lost)
<1> DEFINE now == advance_num_lock_sync_timeout(f)
<1>1. FilterInv(f) /\ Debt(f) <= 3 + waiting /\ (~lost => (isOdd <=> Presses(f) % 2 = 1))
  BY DEF Good
<1>2. /\ now \in FilterType
      /\ FilterInv(now)
      /\ SameKey(f, now)
      /\ Presses(now) = Presses(f)
      /\ Debt(now) = Debt(f)
  BY <1>1, Timeout
<1>3. g = Popped(now)
  OBVIOUS
<1> HIDE DEF now
<1>4. /\ g \in FilterType
      /\ FilterInv(g)
      /\ now.pending_output_states # << >> => Debt(g) = Debt(now) - 1
      /\ now.pending_output_states = << >> => g = now
      /\ IF g.output_num_lock /\ ~now.output_num_lock
         THEN Presses(g) = Presses(now) - 1 ELSE Presses(g) = Presses(now)
  BY <1>2, <1>3, Pop
<1>5. /\ Presses(now) \in Nat /\ Debt(now) \in Nat /\ Cost(now.stage) \in 0 .. 3
      /\ Presses(g) \in Nat /\ Debt(g) \in Nat
  BY <1>2, <1>4, SumTypes
<1>6. Debt(g) <= 3 + newWaiting
  <2>1. CASE now.pending_output_states # << >>
    <3>1. Debt(g) <= 3 + waiting - 1
      BY <2>1, <1>1, <1>2, <1>4, <1>5
    <3> QED BY <3>1, <1>5
  <2>2. CASE now.pending_output_states = << >>
    <3>1. Debt(g) <= 3
      BY <2>2, <1>4, <1>5 DEF Debt, Queued
    <3>2. newWaiting \in Nat
      OBVIOUS
    <3> QED BY <3>1, <3>2, <1>5
  <2> QED BY <2>1, <2>2
<1>7. now.output_num_lock = f.output_num_lock
  BY <1>2 DEF SameKey
<1>8. ASSUME ~lost PROVE newOdd <=> Presses(g) % 2 = 1
  <2>1. isOdd <=> Presses(now) % 2 = 1
    BY <1>1, <1>2, <1>8
  <2>2. CASE g.output_num_lock /\ ~f.output_num_lock
    <3>1. Presses(g) = Presses(now) - 1
      BY <2>2, <1>4, <1>7
    <3>2. Presses(g) % 2 = 1 <=> ~(Presses(now) % 2 = 1)
      BY <3>1, <1>5, OddEven
    <3> QED BY <3>2, <2>1, <2>2
  <2>3. CASE ~(g.output_num_lock /\ ~f.output_num_lock)
    <3>1. Presses(g) = Presses(now)
      BY <2>3, <1>4, <1>7
    <3> QED BY <3>1, <2>1, <2>3
  <2> QED BY <2>2, <2>3
<1> QED BY <1>4, <1>6, <1>8 DEF Good

\* Time only moves the deadline.
LEMMA PassedKeepsGood ==
  ASSUME NEW f \in FilterType, NEW waiting \in Nat, NEW isOdd \in BOOLEAN,
         NEW lost \in BOOLEAN, Good(f, waiting, isOdd, lost),
         NEW g, g = Passed(f)
  PROVE  /\ g \in FilterType
         /\ g.output_num_lock = f.output_num_lock
         /\ Good(g, waiting, isOdd, lost)
<1>1. f.deadline \in 0 .. NoDeadline /\ NUM_LOCK_SYNC_EDGE \in Nat
  BY FilterAssumption DEF FilterType
<1>2. (IF f.deadline \in 1 .. NUM_LOCK_SYNC_EDGE THEN f.deadline - 1 ELSE f.deadline)
        \in 0 .. NoDeadline
  BY <1>1 DEF NoDeadline
<1>3. g \in FilterType
  BY <1>2 DEF Passed, FilterType
<1>4. g.stage = f.stage /\ SameKey(f, g) /\ SameQueue(f, g)
  BY DEF Passed, FilterType, SameKey, SameQueue
<1>5. Grows(f, g, 0, 0) /\ (LastState(g) <=> LastState(f))
  BY <1>3, <1>4, QueueDecides DEF Good, FilterInv
<1>6. Queued(g) = Queued(f) /\ PendingPresses(g) = PendingPresses(f)
  BY <1>5, CountType DEF Grows
<1>7. FilterInv(g)
  BY <1>4, <1>5 DEF Good, FilterInv, Grows, SameKey
<1>8. Presses(g) = Presses(f) /\ Debt(g) = Debt(f)
  BY <1>4, <1>6 DEF Presses, Debt
<1> QED BY <1>3, <1>4, <1>7, <1>8 DEF Good, SameKey

-----------------------------------------------------------------------------
(* The specification.                                                      *)

IInv ==
  /\ TypeOK
  /\ \A i \in Interfaces :
       IF filters[i] = NoFilter THEN ~odd[i]
       ELSE Good(filters[i], burst[i], odd[i], i \in swallowed)
  /\ \A i \in input_state : filters[i] # NoFilter /\ filters[i].output_num_lock

LEMMA InitIInv == Init => IInv
<1> SUFFICES ASSUME Init PROVE IInv
  OBVIOUS
<1>1. TypeOK
  <2>1. burst \in [Interfaces -> 0 .. Burst]
    <3>1. 0 \in 0 .. Burst
      BY FilterAssumption
    <3> QED BY <3>1 DEF Init
  <2>2. /\ filters \in [Interfaces -> FilterType \cup {NoFilter}]
        /\ odd \in [Interfaces -> BOOLEAN]
    BY DEF Init
  <2> QED BY <2>1, <2>2 DEF Init, TypeOK
<1>2. \A i \in Interfaces : filters[i] = NoFilter /\ ~odd[i]
  BY DEF Init
<1>3. input_state = {}
  BY DEF Init
<1> QED BY <1>1, <1>2, <1>3 DEF IInv

\* What an interface has now, whether it has an entry or gets one.
LEMMA StartsGood ==
  ASSUME IInv, NEW i \in Interfaces
  PROVE  /\ FilterOf(i) \in FilterType
         /\ Good(FilterOf(i), burst[i], odd[i], i \in swallowed)
         /\ filters[i] # NoFilter => FilterOf(i) = filters[i]
         /\ filters[i] = NoFilter => FilterOf(i).output_num_lock = FALSE
<1>1. /\ filters[i] \in FilterType \cup {NoFilter}
      /\ burst[i] \in Nat
      /\ odd[i] \in BOOLEAN
  BY FilterAssumption DEF IInv, TypeOK
<1>2. CASE filters[i] = NoFilter
  <2>1. FilterOf(i) = NewFilter /\ ~odd[i]
    BY <1>2 DEF FilterOf, IInv
  <2>2. Debt(NewFilter) <= 3 + burst[i]
    BY <1>1, FreshFilter
  <2>3. ~(Presses(NewFilter) % 2 = 1)
    <3>1. 0 % 2 = 0
      OBVIOUS
    <3> QED BY <3>1, FreshFilter
  <2> QED BY <2>1, <2>2, <2>3, <1>2, FreshFilter DEF Good
<1>3. CASE filters[i] # NoFilter
  BY <1>1, <1>3 DEF FilterOf, IInv
<1> QED BY <1>2, <1>3

LEMMA ReportKeepsIInv ==
  ASSUME IInv, NEW i \in Interfaces, NEW r \in ReportIds,
         NEW num_lock \in BOOLEAN, NEW keypad \in BOOLEAN,
         filter_num_lock_sync_report(i, r, num_lock, keypad)
  PROVE  IInv'
<1> DEFINE f == FilterOf(i)
           n == Noted(f, r, num_lock, keypad)
           g == observe_num_lock_sync_state(n, AnyNumLock(n), AnyKeypad(n))
<1>1. TypeOK
  BY DEF IInv
<1>2. /\ filters' = [filters EXCEPT ![i] = g]
      /\ odd' = [odd EXCEPT ![i] = @ # NumLockDown(n)]
      /\ swallowed' = swallowed \cup {j \in {i} : Swallows(n)}
      /\ burst' = [burst EXCEPT ![i] = @ + 1]
      /\ burst[i] < Burst
      /\ UNCHANGED <<input_state, silent>>
  BY DEF filter_num_lock_sync_report
<1>3. /\ f \in FilterType
      /\ Good(f, burst[i], odd[i], i \in swallowed)
      /\ filters[i] # NoFilter => f = filters[i]
      /\ filters[i] = NoFilter => f.output_num_lock = FALSE
  BY StartsGood
<1>4. /\ burst[i] \in Nat /\ odd[i] \in BOOLEAN /\ NumLockDown(n) \in BOOLEAN
      /\ (i \in swallowed) \in BOOLEAN /\ (i \in swallowed') \in BOOLEAN
  BY <1>1, FilterAssumption DEF TypeOK, NumLockDown
<1> HIDE DEF f
<1>5. /\ odd'[i] \in BOOLEAN /\ (odd'[i] <=> ~(odd[i] <=> NumLockDown(n)))
      /\ i \in swallowed' <=> i \in swallowed \/ Swallows(n)
      /\ burst'[i] = burst[i] + 1
  BY <1>1, <1>2, <1>4 DEF TypeOK
<1> HIDE DEF n
<1>6. n = Noted(f, r, num_lock, keypad)
  BY DEF n
<1> HIDE DEF g
<1>7. g = observe_num_lock_sync_state(n, AnyNumLock(n), AnyKeypad(n))
  BY DEF g
<1>8. /\ g \in FilterType
      /\ g.output_num_lock = f.output_num_lock
      /\ Good(g, burst'[i], odd'[i], i \in swallowed')
  <2> DEFINE lost == i \in swallowed
             newLost == i \in swallowed'
             newOdd == odd'[i]
             newBurst == burst'[i]
  <2>1. /\ lost \in BOOLEAN /\ newLost \in BOOLEAN /\ newOdd \in BOOLEAN
        /\ Good(f, burst[i], odd[i], lost)
        /\ newOdd <=> ~(odd[i] <=> NumLockDown(n))
        /\ newLost <=> lost \/ Swallows(n)
        /\ newBurst = burst[i] + 1
    BY <1>3, <1>4, <1>5
  <2> HIDE DEF lost, newLost, newOdd, newBurst
  <2>2. /\ g \in FilterType
        /\ g.output_num_lock = f.output_num_lock
        /\ Good(g, burst[i] + 1, newOdd, newLost)
    BY <2>1, <1>3, <1>4, <1>6, <1>7, ReportKeepsGood
  <2> QED BY <2>1, <2>2 DEF newLost, newOdd, newBurst
<1>9. g # NoFilter /\ filters'[i] = g
  BY <1>1, <1>2, <1>8, NoFilterAssumption DEF TypeOK
<1>10. TypeOK'
  <2>1. filters' \in [Interfaces -> FilterType \cup {NoFilter}]
    BY <1>1, <1>2, <1>8 DEF TypeOK
  <2>2. burst' \in [Interfaces -> 0 .. Burst]
    <3>1. burst[i] + 1 \in 0 .. Burst
      BY <1>1, <1>2, FilterAssumption DEF TypeOK
    <3> QED BY <3>1, <1>1, <1>2 DEF TypeOK
  <2>3. odd' \in [Interfaces -> BOOLEAN]
    BY <1>1, <1>2 DEF TypeOK
  <2>4. swallowed' \subseteq Interfaces /\ input_state' \subseteq Interfaces /\ silent' \in BOOLEAN
    BY <1>1, <1>2 DEF TypeOK
  <2> QED BY <2>1, <2>2, <2>3, <2>4 DEF TypeOK
<1>11. ASSUME NEW j \in Interfaces
       PROVE  IF filters'[j] = NoFilter THEN ~odd'[j]
              ELSE Good(filters'[j], burst'[j], odd'[j], j \in swallowed')
  <2>1. CASE j = i
    BY <2>1, <1>8, <1>9
  <2>2. CASE j # i
    <3>1. /\ filters'[j] = filters[j] /\ burst'[j] = burst[j] /\ odd'[j] = odd[j]
          /\ (j \in swallowed') <=> (j \in swallowed)
      BY <2>2, <1>1, <1>2 DEF TypeOK
    <3>2. IF filters[j] = NoFilter THEN ~odd[j]
          ELSE Good(filters[j], burst[j], odd[j], j \in swallowed)
      BY DEF IInv
    <3> QED BY <3>1, <3>2 DEF Good
  <2> QED BY <2>1, <2>2
<1>12. ASSUME NEW j \in input_state'
       PROVE  filters'[j] # NoFilter /\ filters'[j].output_num_lock
  <2>1. j \in input_state /\ filters[j] # NoFilter /\ filters[j].output_num_lock
    BY <1>2 DEF IInv
  <2>2. CASE j = i
    BY <2>1, <2>2, <1>3, <1>8, <1>9
  <2>3. CASE j # i
    BY <2>1, <2>3, <1>1, <1>2 DEF TypeOK
  <2> QED BY <2>2, <2>3
<1> QED BY <1>10, <1>11, <1>12 DEF IInv

LEMMA FrameKeepsIInv ==
  ASSUME IInv, apply_filtered_num_lock_states
  PROVE  IInv'
<1>1. TypeOK
  BY DEF IInv
<1>2. /\ filters' = [i \in Interfaces |-> IF i \in Filtered THEN After(i) ELSE NoFilter]
      /\ input_state' = (input_state \ Filtered)
                          \cup {i \in Filtered : After(i).output_num_lock}
      /\ odd' = [i \in Interfaces |->
                   IF i \in Filtered /\ After(i).output_num_lock /\ ~filters[i].output_num_lock
                   THEN ~odd[i] ELSE odd[i]]
      /\ burst' = [i \in Interfaces |-> IF burst[i] = 0 THEN 0 ELSE burst[i] - 1]
      /\ UNCHANGED <<silent, swallowed>>
  BY DEF apply_filtered_num_lock_states
<1>3. odd' \in [Interfaces -> BOOLEAN]
  <2>1. \A i \in Interfaces :
          (IF i \in Filtered /\ After(i).output_num_lock /\ ~filters[i].output_num_lock
           THEN ~odd[i] ELSE odd[i]) \in BOOLEAN
    BY <1>1 DEF TypeOK
  <2> QED BY <2>1, <1>2
<1>4. ASSUME NEW i \in Filtered
      PROVE  /\ After(i) \in FilterType
             /\ filters'[i] = After(i)
             /\ filters'[i] # NoFilter
             /\ Good(After(i), burst'[i], odd'[i], i \in swallowed')
  <2>1. /\ i \in Interfaces
        /\ filters[i] \in FilterType
        /\ burst[i] \in Nat /\ odd[i] \in BOOLEAN /\ odd'[i] \in BOOLEAN
        /\ (i \in swallowed) \in BOOLEAN
        /\ Good(filters[i], burst[i], odd[i], i \in swallowed)
    BY <1>1, <1>3, FilterAssumption DEF Filtered, IInv, TypeOK
  <2>2. burst'[i] = IF burst[i] = 0 THEN 0 ELSE burst[i] - 1
    BY <1>2, <2>1
  <2>3. odd'[i] <=> IF After(i).output_num_lock /\ ~filters[i].output_num_lock
                    THEN ~odd[i] ELSE odd[i]
    BY <1>2, <2>1
  <2>4. After(i) = Popped(advance_num_lock_sync_timeout(filters[i]))
    BY DEF After
  <2>5. After(i) \in FilterType /\ Good(After(i), burst'[i], odd'[i], i \in swallowed)
    <3> DEFINE lost == i \in swallowed
               newOdd == odd'[i]
               newBurst == burst'[i]
               g == After(i)
    <3>1. /\ lost \in BOOLEAN /\ newOdd \in BOOLEAN
          /\ Good(filters[i], burst[i], odd[i], lost)
          /\ g = Popped(advance_num_lock_sync_timeout(filters[i]))
          /\ newOdd <=> IF g.output_num_lock /\ ~filters[i].output_num_lock
                        THEN ~odd[i] ELSE odd[i]
          /\ newBurst = IF burst[i] = 0 THEN 0 ELSE burst[i] - 1
      BY <2>1, <2>2, <2>3, <2>4
    <3> HIDE DEF lost, newOdd, newBurst, g
    <3>2. g \in FilterType /\ Good(g, newBurst, newOdd, lost)
      BY <3>1, <2>1, FrameKeepsGood
    <3> QED BY <3>2 DEF lost, newOdd, newBurst, g
  <2>6. filters'[i] = After(i)
    BY <1>2, <2>1
  <2> QED BY <2>5, <2>6, <1>2, NoFilterAssumption
<1>5. TypeOK'
  <2>1. filters' \in [Interfaces -> FilterType \cup {NoFilter}]
    BY <1>2, <1>4
  <2>2. burst' \in [Interfaces -> 0 .. Burst]
    <3>1. \A i \in Interfaces : (IF burst[i] = 0 THEN 0 ELSE burst[i] - 1) \in 0 .. Burst
      BY <1>1, FilterAssumption DEF TypeOK
    <3> QED BY <3>1, <1>2
  <2>3. input_state' \subseteq Interfaces
    BY <1>1, <1>2 DEF TypeOK, Filtered
  <2> QED BY <2>1, <2>2, <2>3, <1>1, <1>2, <1>3 DEF TypeOK
<1>6. ASSUME NEW i \in Interfaces
      PROVE  IF filters'[i] = NoFilter THEN ~odd'[i]
             ELSE Good(filters'[i], burst'[i], odd'[i], i \in swallowed')
  <2>1. CASE i \in Filtered
    BY <2>1, <1>4
  <2>2. CASE i \notin Filtered
    <3>1. filters'[i] = NoFilter /\ (odd'[i] <=> odd[i]) /\ filters[i] = NoFilter
      BY <2>2, <1>2 DEF Filtered
    <3> QED BY <3>1 DEF IInv
  <2> QED BY <2>1, <2>2
<1>7. ASSUME NEW i \in input_state'
      PROVE  filters'[i] # NoFilter /\ filters'[i].output_num_lock
  <2>1. i \in Filtered /\ After(i).output_num_lock
    BY <1>1, <1>2 DEF IInv, TypeOK, Filtered
  <2> QED BY <2>1, <1>4
<1> QED BY <1>5, <1>6, <1>7 DEF IInv

LEMMA RemovalKeepsIInv ==
  ASSUME IInv, NEW dev_addr, remove_num_lock_sync_filters(dev_addr)
  PROVE  IInv'
<1> DEFINE gone == {i \in Interfaces : DeviceOf[i] = dev_addr}
<1>1. TypeOK
  BY DEF IInv
<1>2. /\ input_state' = input_state \ (gone \cap Filtered)
      /\ filters' = [i \in Interfaces |-> IF i \in gone THEN NoFilter ELSE filters[i]]
      /\ odd' = [i \in Interfaces |-> i \notin gone /\ odd[i]]
      /\ swallowed' = swallowed \ gone
      /\ UNCHANGED <<silent, burst>>
  BY DEF remove_num_lock_sync_filters
<1> HIDE DEF gone
<1>3. TypeOK'
  <2>1. odd' \in [Interfaces -> BOOLEAN]
    <3>1. \A i \in Interfaces : (i \notin gone /\ odd[i]) \in BOOLEAN
      OBVIOUS
    <3> QED BY <3>1, <1>2
  <2> QED BY <2>1, <1>1, <1>2 DEF TypeOK
<1>4. ASSUME NEW i \in Interfaces
      PROVE  IF filters'[i] = NoFilter THEN ~odd'[i]
             ELSE Good(filters'[i], burst'[i], odd'[i], i \in swallowed')
  <2>1. IF filters[i] = NoFilter THEN ~odd[i]
        ELSE Good(filters[i], burst[i], odd[i], i \in swallowed)
    BY DEF IInv
  <2>2. CASE i \in gone
    BY <2>2, <1>2
  <2>3. CASE i \notin gone
    <3>1. filters'[i] = filters[i] /\ burst'[i] = burst[i] /\ (odd'[i] <=> odd[i])
          /\ (i \in swallowed' <=> i \in swallowed)
      BY <2>3, <1>2
    <3> QED BY <3>1, <2>1 DEF Good
  <2> QED BY <2>2, <2>3
<1>5. ASSUME NEW i \in input_state'
      PROVE  filters'[i] # NoFilter /\ filters'[i].output_num_lock
  <2>1. i \in Interfaces /\ filters[i] # NoFilter /\ filters[i].output_num_lock
    BY <1>1, <1>2 DEF IInv, TypeOK
  <2>2. i \notin gone
    BY <2>1, <1>2 DEF Filtered
  <2> QED BY <2>1, <2>2, <1>2
<1> QED BY <1>3, <1>4, <1>5 DEF IInv

LEMMA TimeKeepsIInv ==
  ASSUME IInv, TimePasses
  PROVE  IInv'
<1>1. TypeOK
  BY DEF IInv
<1>2. /\ filters' = [i \in Interfaces |->
                       IF i \in Filtered THEN Passed(filters[i]) ELSE NoFilter]
      /\ input_state' = input_state /\ silent' = silent /\ burst' = burst
      /\ odd' = odd /\ swallowed' = swallowed
  BY DEF TimePasses, history
<1>3. ASSUME NEW i \in Filtered
      PROVE  /\ filters'[i] \in FilterType
             /\ filters'[i] # NoFilter
             /\ filters'[i].output_num_lock = filters[i].output_num_lock
             /\ Good(filters'[i], burst[i], odd[i], i \in swallowed)
  <2>1. /\ i \in Interfaces
        /\ filters[i] \in FilterType
        /\ burst[i] \in Nat /\ odd[i] \in BOOLEAN
        /\ (i \in swallowed) \in BOOLEAN
        /\ Good(filters[i], burst[i], odd[i], i \in swallowed)
    BY <1>1, FilterAssumption DEF Filtered, IInv, TypeOK
  <2>2. filters'[i] = Passed(filters[i])
    BY <1>2, <2>1
  <2> DEFINE lost == i \in swallowed
             g == filters'[i]
  <2>3. /\ lost \in BOOLEAN /\ Good(filters[i], burst[i], odd[i], lost)
        /\ g = Passed(filters[i])
    BY <2>1, <2>2
  <2> HIDE DEF lost, g
  <2>4. /\ g \in FilterType
        /\ g.output_num_lock = filters[i].output_num_lock
        /\ Good(g, burst[i], odd[i], lost)
    BY <2>1, <2>3, PassedKeepsGood
  <2> QED BY <2>4, NoFilterAssumption DEF lost, g
<1>4. TypeOK'
  <2>1. filters' \in [Interfaces -> FilterType \cup {NoFilter}]
    BY <1>2, <1>3
  <2> QED BY <2>1, <1>1, <1>2 DEF TypeOK
<1>5. ASSUME NEW i \in Interfaces
      PROVE  IF filters'[i] = NoFilter THEN ~odd[i]
             ELSE Good(filters'[i], burst[i], odd[i], i \in swallowed)
  <2>1. CASE i \in Filtered
    BY <2>1, <1>3
  <2>2. CASE i \notin Filtered
    BY <2>2, <1>2 DEF Filtered, IInv
  <2> QED BY <2>1, <2>2
<1>6. ASSUME NEW i \in input_state
      PROVE  filters'[i] # NoFilter /\ filters'[i].output_num_lock
  <2>1. i \in Filtered /\ filters[i].output_num_lock
    BY <1>1 DEF IInv, TypeOK, Filtered
  <2> QED BY <2>1, <1>3
<1> QED BY <1>2, <1>4, <1>5, <1>6 DEF IInv

LEMMA NextIInv == IInv /\ [Next]_vars => IInv'
<1> SUFFICES ASSUME IInv, [Next]_vars PROVE IInv'
  OBVIOUS
<1>1. ASSUME NEW i \in Interfaces, NEW r \in ReportIds, NEW num_lock \in BOOLEAN,
             NEW keypad \in BOOLEAN, filter_num_lock_sync_report(i, r, num_lock, keypad)
      PROVE  IInv'
  BY <1>1, ReportKeepsIInv
<1>2. CASE apply_filtered_num_lock_states
  BY <1>2, FrameKeepsIInv
<1>3. ASSUME NEW i \in Interfaces, remove_num_lock_sync_filters(DeviceOf[i])
      PROVE  IInv'
  BY <1>3, RemovalKeepsIInv
<1>4. CASE set_mapping_from_config
  BY <1>4 DEF set_mapping_from_config, IInv, TypeOK, history
<1>5. CASE TimePasses
  BY <1>5, TimeKeepsIInv
<1>6. CASE FallSilent
  BY <1>6 DEF FallSilent, IInv, TypeOK, history
<1>7. CASE UNCHANGED vars
  BY <1>7 DEF vars, history, IInv, TypeOK
<1> QED BY <1>1, <1>2, <1>3, <1>4, <1>5, <1>6, <1>7 DEF Next

LEMMA AlwaysIInv == Spec => []IInv
BY InitIInv, NextIInv, PTL DEF Spec

\* The filters of controller A have the type the declarations of remapper.cc
\* give them, whatever the reports.
THEOREM TypeCorrect == Spec => []TypeOK
<1>1. IInv => TypeOK
  BY DEF IInv
<1> QED BY <1>1, AlwaysIInv, PTL

\* NumLock is never left down towards the PC by a device that went away or by a
\* key that came up: apply_filtered_num_lock_states owes the PC the release.
THEOREM NeverStuck == Spec => []NoStuckNumLock
<1>1. IInv => NoStuckNumLock
  <2> SUFFICES ASSUME IInv, NEW i \in Filtered, LastState(filters[i])
               PROVE  filters[i].previous_num_lock
    BY DEF NoStuckNumLock, IInv
  <2>1. FilterInv(filters[i])
    BY DEF IInv, Filtered, Good
  <2> QED BY <2>1 DEF FilterInv, DownStages
<1> QED BY <1>1, AlwaysIInv, PTL

\* The filter drops NumLock presses in pairs only, so the PC's lock state never
\* turns around by itself.
THEOREM TogglesPaired == Spec => []TogglesConserved
<1>1. IInv => TogglesConserved
  BY DEF IInv, Filtered, Good, Presses, TogglesConserved
<1> QED BY <1>1, AlwaysIInv, PTL

\* The pending states of a filter are bounded by what one frame can bring.
THEOREM ShortBacklog == Spec => []BacklogBounded
<1>1. IInv => BacklogBounded
  <2> SUFFICES ASSUME IInv, NEW i \in Filtered
               PROVE  Len(filters[i].pending_output_states) <= 3 + burst[i]
    BY DEF BacklogBounded
  <2>1. /\ filters[i] \in FilterType /\ burst[i] \in Nat
        /\ Debt(filters[i]) <= 3 + burst[i]
    BY FilterAssumption DEF IInv, Filtered, Good, TypeOK
  <2>2. Queued(filters[i]) \in Nat /\ Cost(filters[i].stage) \in 0 .. 3
    BY <2>1, CountType, SumTypes
  <2> QED BY <2>1, <2>2 DEF Debt, Queued
<1> QED BY <1>1, AlwaysIInv, PTL

-----------------------------------------------------------------------------
(* KeypadOutput runs the filters of NumLockFilter.                         *)

LEMMA KeypadStepIsStep == [KeypadNext]_kvars => [Next]_vars
<1> SUFFICES ASSUME [KeypadNext]_kvars PROVE [Next]_vars
  OBVIOUS
<1>1. ASSUME NEW i \in Interfaces, NEW r \in ReportIds, NEW num_lock \in BOOLEAN, NEW held \in Held,
             ReadReport(i, r, num_lock, held)
      PROVE  Next
  <2>1. (held \cap KeypadKeys # {}) \in BOOLEAN
    OBVIOUS
  <2>2. filter_num_lock_sync_report(i, r, num_lock, held \cap KeypadKeys # {})
    BY <1>1 DEF ReadReport
  <2> DEFINE keypad == held \cap KeypadKeys # {}
  <2> HIDE DEF keypad
  <2>3. keypad \in BOOLEAN /\ filter_num_lock_sync_report(i, r, num_lock, keypad)
    BY <2>1, <2>2 DEF keypad
  <2> QED
    BY <2>3 DEF Next
<1>2. CASE BeginFrame
  BY <1>2 DEF BeginFrame, Next
<1>3. CASE EndFrame
  BY <1>3 DEF EndFrame
<1>4. ASSUME NEW i \in Interfaces, device_disconnected_callback(DeviceOf[i]) PROVE Next
  BY <1>4 DEF device_disconnected_callback, Next
<1>5. CASE NewConfig
  BY <1>5 DEF NewConfig, Next
<1>6. CASE LetTimePass
  BY <1>6 DEF LetTimePass, Next
<1>7. CASE DevicesFallSilent
  BY <1>7 DEF DevicesFallSilent, Next
<1>8. CASE UNCHANGED kvars
  BY <1>8 DEF kvars
<1>9. ASSUME NEW i \in Interfaces, NEW r \in ReportIds, NEW num_lock \in BOOLEAN,
             NEW keypad \in BOOLEAN, RolloverReport(i, r, num_lock, keypad)
      PROVE  Next
  BY <1>9 DEF RolloverReport, Next
<1> QED
  BY <1>1, <1>2, <1>3, <1>4, <1>5, <1>6, <1>7, <1>8, <1>9 DEF KeypadNext

\* What the keyboard report is made of takes nothing from the filters: each step of KeypadOutput
\* is a step of NumLockFilter or leaves it alone.
THEOREM KeypadIsFilter == KeypadSpec => Spec
<1>1. KeypadInit => Init
  BY DEF KeypadInit
<1> QED
  BY <1>1, KeypadStepIsStep, PTL DEF KeypadSpec, Spec

\* So NumLock is never stuck, and taps vanish in pairs only, whatever is done to the keypad keys.
THEOREM FilterInKeypad ==
  KeypadSpec => [](TypeOK /\ NoStuckNumLock /\ TogglesConserved /\ BacklogBounded)
BY KeypadIsFilter, TypeCorrect, NeverStuck, TogglesPaired, ShortBacklog, PTL

-----------------------------------------------------------------------------
(* Usages.                                                                 *)

LEMMA UsageFacts ==
  /\ \A d \in Digits : /\ Keypad(d) \in KeypadKeys /\ Keypad(d)[2] = d /\ Keypad(d) \notin Modifiers
                       /\ Top(d) \in TopKeys /\ Top(d) \notin Modifiers
  /\ \A d, e \in Digits : /\ Keypad(d) # Top(e)
                          /\ Keypad(d) = Keypad(e) => d = e
                          /\ Top(d) = Top(e) => d = e
  /\ KeypadKeys \cap TopKeys = {}
  /\ Minus \notin Modifiers /\ Minus \notin KeypadKeys \cup TopKeys
  /\ Alt \in Modifiers /\ Shift \in Modifiers /\ Alt # Shift /\ Alt \notin KeypadKeys \cup TopKeys
  /\ Shift \notin Usages /\ Minus \in Usages /\ Alt \in Usages
  /\ KeypadKeys \cup TopKeys \subseteq Usages \ Modifiers
  /\ One \in Digits /\ Six \in Digits
<1>1. \A d, e : /\ Keypad(d) # Top(e)
                /\ Keypad(d) = Keypad(e) => d = e
                /\ Top(d) = Top(e) => d = e
                /\ Keypad(d)[2] = d /\ Top(d)[2] = d
                /\ Keypad(d) \notin Modifiers /\ Top(d) \notin Modifiers
                /\ Keypad(d) # Minus /\ Top(d) # Minus
  BY DEF Keypad, Top, Modifiers, Alt, Shift, Minus
<1>2. Minus \notin Modifiers /\ Alt \in Modifiers /\ Shift \in Modifiers /\ Alt # Shift /\ Minus # Shift
  BY DEF Modifiers, Alt, Shift, Minus
<1>3. KeypadKeys \cap TopKeys = {} /\ Minus \notin KeypadKeys \cup TopKeys
  BY <1>1 DEF KeypadKeys, TopKeys
<1>4. Shift \notin KeypadKeys \cup TopKeys /\ Alt \notin KeypadKeys \cup TopKeys
  BY <1>1, <1>2 DEF KeypadKeys, TopKeys
<1>5. KeypadKeys \cup TopKeys \subseteq Usages \ Modifiers
  BY <1>1 DEF KeypadKeys, TopKeys, Usages
<1> QED
  BY <1>1, <1>2, <1>3, <1>4, <1>5, KeypadAssumption DEF KeypadKeys, TopKeys, Usages

LEMMA TargetFacts ==
  ASSUME NEW key \in Usages
  PROVE  /\ Target(key) \in Usages
         /\ Target(key) \in Modifiers <=> key \in Modifiers
         /\ key \notin KeypadKeys => Target(key) = key
<1>1. CASE key \notin KeypadKeys
  BY <1>1 DEF Target
<1>2. CASE key \in KeypadKeys
  <2>1. PICK d \in Digits : key = Keypad(d)
    BY <1>2 DEF KeypadKeys
  <2>2. Target(key) \in {Keypad(d), Top(d)}
    BY <2>1, UsageFacts DEF Target
  <2>3. Keypad(d) \in Usages /\ Top(d) \in Usages /\ Keypad(d) \notin Modifiers /\ Top(d) \notin Modifiers
    BY UsageFacts
  <2> QED
    BY <1>2, <2>1, <2>2, <2>3
<1> QED
  BY <1>1, <1>2

-----------------------------------------------------------------------------
(* Induction up to a number.                                               *)

LEMMA LeastElement ==
  ASSUME NEW T \in SUBSET Nat, T # {}
  PROVE  \E x \in T : \A y \in T : x <= y
<1>1. PICK x \in T : \A y \in T : <<y, x>> \notin OpToRel(<, Nat)
  BY NatLessThanWellFounded, WFMin
<1>2. \A y \in T : ~(y < x)
  BY <1>1 DEF OpToRel
<1>3. QED
  BY <1>2

LEMMA UpTo ==
  ASSUME NEW N \in Nat, NEW T, 0 \in T, \A n \in 0 .. N - 1 : n \in T => n + 1 \in T
  PROVE  \A n \in 0 .. N : n \in T
<1> SUFFICES ASSUME NEW m \in 0 .. N, m \notin T PROVE FALSE
  OBVIOUS
<1> DEFINE U == {n \in 0 .. N : n \notin T}
<1>1. PICK x \in U : \A y \in U : x <= y
  <2>1. U \in SUBSET Nat /\ U # {}
    OBVIOUS
  <2> HIDE DEF U
  <2> QED
    BY <2>1, LeastElement
<1>2. x \in 0 .. N /\ x \notin T /\ x # 0 /\ x - 1 \in 0 .. N - 1
  BY <1>1
<1>3. x - 1 \notin U
  <2>1. ~(x <= x - 1)
    BY <1>2
  <2> QED
    BY <1>1, <2>1
<1>4. x - 1 \in T
  BY <1>2, <1>3
<1>5. x - 1 + 1 = x
  BY <1>2
<1> QED
  BY <1>2, <1>4, <1>5

-----------------------------------------------------------------------------
(* One report: setting and clearing usages.                                *)

\* A place has one usage.
ReportType ==
  {report \in [array : SUBSET ((1 .. Places) \X (Usages \ Modifiers)), modifiers : SUBSET Modifiers] :
     \A p, q \in report.array : p[1] = q[1] => p = q}

\* The usage was put into the report beside what the last frame left in it.
Anew(report, usage) == \E p \in report.array \ uncleared.array : p[2] = usage

\* None of these usages was put into two places.
Once(report, usages) ==
  \A p, q \in report.array \ uncleared.array : p[2] = q[2] /\ p[2] \in usages => p = q

LEMMA AnewIsActive ==
  ASSUME NEW report, NEW usage, Anew(report, usage)
  PROVE  output_usage_active(report, usage)
BY DEF Anew, output_usage_active

LEMMA InArray ==
  ASSUME NEW report \in ReportType, NEW usage, usage \notin Modifiers
  PROVE  output_usage_active(report, usage) <=> \E p \in report.array : p[2] = usage
BY DEF ReportType, output_usage_active

LEMMA FirstFree ==
  ASSUME NEW report \in ReportType, Free(report) # {},
         NEW n, n = CHOOSE m \in Free(report) : \A k \in Free(report) : m <= k
  PROVE  n \in 1 .. Places /\ n \in Free(report)
<1>1. Free(report) \in SUBSET Nat /\ Free(report) \subseteq 1 .. Places
  BY KeypadAssumption DEF Free
<1>2. \E m \in Free(report) : \A k \in Free(report) : m <= k
  BY <1>1, LeastElement
<1> QED
  BY <1>1, <1>2

LEMMA SetUsage ==
  ASSUME NEW report \in ReportType, NEW usage \in Usages \cup Modifiers,
         NEW after, after = set_output_usage(report, usage)
  PROVE  /\ after \in ReportType
         /\ \A u : output_usage_active(after, u) => output_usage_active(report, u) \/ u = usage
         /\ \A u : output_usage_active(report, u) => output_usage_active(after, u)
         /\ usage \in Modifiers \/ Free(report) # {} => output_usage_active(after, usage)
         /\ usage \in Modifiers => after.array = report.array
         /\ usage \notin Modifiers => after.modifiers = report.modifiers
         /\ \A u : Anew(after, u) => Anew(report, u) \/ u = usage
         /\ \A usages : /\ Once(report, usages)
                        /\ usage \in usages => ~Anew(report, usage)
                        => Once(after, usages)
<1>1. CASE usage \in Modifiers
  <2>1. after = [report EXCEPT !.modifiers = @ \cup {usage}]
    BY <1>1 DEF set_output_usage
  <2>2. after.array = report.array /\ after.modifiers = report.modifiers \cup {usage} /\ after \in ReportType
    BY <1>1, <2>1 DEF ReportType
  <2> QED
    BY <1>1, <2>2 DEF output_usage_active, Once, Anew
<1>2. CASE usage \notin Modifiers /\ Free(report) = {}
  <2>1. after = report
    BY <1>2 DEF set_output_usage
  <2> QED
    BY <1>2, <2>1
<1>3. CASE usage \notin Modifiers /\ Free(report) # {}
  <2> DEFINE n == CHOOSE m \in Free(report) : \A k \in Free(report) : m <= k
  <2>1. after = [report EXCEPT !.array = @ \cup {<<n, usage>>}]
    BY <1>3 DEF set_output_usage
  <2>2. n \in 1 .. Places /\ n \in Free(report)
    BY <1>3, FirstFree
  <2> HIDE DEF n
  <2>3. /\ after.array = report.array \cup {<<n, usage>>}
        /\ after.modifiers = report.modifiers
        /\ after \in ReportType
    <3> DEFINE new == <<n, usage>>
    <3>1. new \in (1 .. Places) \X (Usages \ Modifiers) /\ new[1] = n
      BY <1>3, <2>2
    <3>2. \A p \in report.array : p[1] # n
      BY <2>2 DEF Free
    <3> HIDE DEF new
    <3>3. after.array = report.array \cup {new} /\ after.modifiers = report.modifiers
      BY <2>1 DEF ReportType, new
    <3>4. \A p, q \in report.array \cup {new} : p[1] = q[1] => p = q
      BY <3>1, <3>2 DEF ReportType
    <3>5. after \in ReportType
      BY <2>1, <3>1, <3>3, <3>4 DEF ReportType, new
    <3> QED
      BY <3>3, <3>5 DEF new
  <2>4. \A u : output_usage_active(after, u) <=> output_usage_active(report, u) \/ u = usage
    <3>1. <<n, usage>>[2] = usage
      OBVIOUS
    <3>2. \A u : (\E p \in after.array : p[2] = u) <=> (\E p \in report.array : p[2] = u) \/ u = usage
      BY <2>3, <3>1
    <3> QED
      BY <2>3, <3>2 DEF output_usage_active
  <2>5. ASSUME NEW usages, Once(report, usages), usage \in usages => ~Anew(report, usage)
        PROVE  Once(after, usages)
    <3> SUFFICES ASSUME NEW p \in after.array \ uncleared.array, NEW q \in after.array \ uncleared.array,
                        p[2] = q[2], p[2] \in usages
                 PROVE  p = q
      BY DEF Once
    <3>1. \A r \in report.array \ uncleared.array : r[2] = usage => Anew(report, usage)
      BY DEF Anew
    <3>2. <<n, usage>>[2] = usage
      OBVIOUS
    <3> QED
      BY <2>3, <2>5, <3>1, <3>2 DEF Once
  <2>6. \A u : Anew(after, u) => Anew(report, u) \/ u = usage
    <3>1. <<n, usage>>[2] = usage
      OBVIOUS
    <3> QED
      BY <2>3, <3>1 DEF Anew
  <2> QED
    BY <1>3, <2>3, <2>4, <2>5, <2>6
<1> QED
  BY <1>1, <1>2, <1>3

LEMMA ClearUsages ==
  ASSUME NEW report \in ReportType, NEW usages,
         NEW after, after = clear_output_usages(report, usages)
  PROVE  /\ after \in ReportType
         /\ \A u : output_usage_active(after, u) <=> output_usage_active(report, u) /\ u \notin usages
         /\ after.array \subseteq report.array
         /\ after.modifiers = report.modifiers \ usages
         /\ \A some : Once(report, some) => Once(after, some)
<1>1. /\ after.array = {place \in report.array : place[2] \notin usages}
      /\ after.modifiers = report.modifiers \ usages
      /\ after \in ReportType
  BY DEF clear_output_usages, ReportType
<1>2. \A u : output_usage_active(after, u) <=> output_usage_active(report, u) /\ u \notin usages
  BY <1>1 DEF output_usage_active
<1>3. \A some : Once(report, some) => Once(after, some)
  BY <1>1 DEF Once
<1> QED
  BY <1>1, <1>2, <1>3

-----------------------------------------------------------------------------
(* The two recursions: mapping and restoring.                              *)

\* f starts from base and goes on step by step.
Follows(f, Acc, base, N, step) ==
  /\ f \in [0 .. N -> Acc]
  /\ f[0] = base
  /\ \A n \in 0 .. N - 1 : f[n + 1] = step[n + 1][f[n]]

LEMMA FollowsExists ==
  ASSUME NEW Acc, NEW base \in Acc, NEW N \in Nat, NEW step \in [1 .. N -> [Acc -> Acc]]
  PROVE  \E f : Follows(f, Acc, base, N, step)
<1> DEFINE T == {n \in 0 .. N : \E f : Follows(f, Acc, base, n, step)}
<1>1. 0 \in T
  <2> DEFINE f == [n \in 0 .. 0 |-> base]
  <2>1. Follows(f, Acc, base, 0, step)
    BY DEF Follows
  <2> HIDE DEF f
  <2> QED
    BY <2>1
<1>2. ASSUME NEW n \in 0 .. N - 1, n \in T PROVE n + 1 \in T
  <2>1. PICK f : Follows(f, Acc, base, n, step)
    BY <1>2
  <2> DEFINE g == [m \in 0 .. n + 1 |-> IF m = n + 1 THEN step[n + 1][f[n]] ELSE f[m]]
  <2>2. f \in [0 .. n -> Acc] /\ n \in 0 .. n /\ f[n] \in Acc /\ n + 1 \in 1 .. N
    BY <2>1 DEF Follows
  <2>3. step[n + 1][f[n]] \in Acc
    BY <2>2
  <2>4. g \in [0 .. n + 1 -> Acc]
    BY <2>2, <2>3
  <2>5. g[0] = base
    BY <2>1 DEF Follows
  <2>6. ASSUME NEW m \in 0 .. (n + 1) - 1 PROVE g[m + 1] = step[m + 1][g[m]]
    <3>1. CASE m = n
      BY <3>1
    <3>2. CASE m # n
      <4>1. m \in 0 .. n - 1 /\ m + 1 \in 0 .. n + 1 /\ m + 1 # n + 1 /\ m # n + 1 /\ m \in 0 .. n + 1
        BY <3>2
      <4>2. f[m + 1] = step[m + 1][f[m]]
        BY <2>1, <4>1 DEF Follows
      <4> QED
        BY <4>1, <4>2
    <3> QED
      BY <3>1, <3>2
  <2>7. Follows(g, Acc, base, n + 1, step) /\ n + 1 \in 0 .. N
    <3> HIDE DEF g
    <3> QED
      BY <2>4, <2>5, <2>6 DEF Follows
  <2> HIDE DEF g
  <2> QED
    BY <2>7
<1>3. \A n \in 0 .. N : n \in T
  <2> HIDE DEF T
  <2> QED
    BY <1>1, <1>2, UpTo
<1> QED
  BY <1>3

Placed(report, n) ==
  IF ReportOrder[n] \in targets THEN set_output_usage(report, ReportOrder[n]) ELSE report

Restored(report, d) == IF d \in Digits THEN Restore(report, d) ELSE report

LEMMA MappedIs ==
  ASSUME pressed \subseteq Usages, uncleared \in ReportType
  PROVE  \E g : /\ g \in [0 .. Len(ReportOrder) -> ReportType]
                /\ g[0] = uncleared
                /\ \A n \in 0 .. Len(ReportOrder) - 1 : g[n + 1] = Placed(g[n], n + 1)
                /\ Mapped = g[Len(ReportOrder)]
<1> DEFINE N == Len(ReportOrder)
           Acc == ReportType
           step == [n \in 1 .. N |-> [s \in Acc |-> Placed(s, n)]]
<1>1. N \in Nat /\ uncleared \in Acc
  BY KeypadAssumption, LenProperties
<1>2. ASSUME NEW s \in Acc, NEW n \in 1 .. N PROVE Placed(s, n) \in Acc
  <2>1. ReportOrder[n] \in Usages
    BY KeypadAssumption, ElementOfSeq
  <2> QED
    BY <2>1, SetUsage DEF Placed
<1> HIDE DEF Acc, N
<1>3. step \in [1 .. N -> [Acc -> Acc]]
  BY <1>2
<1>4. PICK f : Follows(f, Acc, uncleared, N, step)
  <2> HIDE DEF step
  <2> QED
    BY <1>1, <1>3, FollowsExists
<1>5. f \in [0 .. N -> Acc] /\ f[0] = uncleared
  BY <1>4 DEF Follows
<1>6. ASSUME NEW n \in 0 .. N - 1 PROVE f[n + 1] = Placed(f[n], n + 1)
  <2>1. n + 1 \in 1 .. N /\ n \in 0 .. N /\ f[n] \in Acc
    BY <1>1, <1>5
  <2>2. f[n + 1] = step[n + 1][f[n]]
    BY <1>4 DEF Follows
  <2> QED
    BY <2>1, <2>2
<1> HIDE DEF step
<1> DEFINE Is(g) == g = [n \in 0 .. N |-> IF n = 0 THEN uncleared ELSE Placed(g[n - 1], n)]
           own == [n \in 0 .. N |-> f[n]]
           g == CHOOSE h : Is(h)
<1>7. Is(own)
  <2> SUFFICES ASSUME NEW n \in 0 .. N PROVE f[n] = IF n = 0 THEN uncleared ELSE Placed(own[n - 1], n)
    OBVIOUS
  <2>1. CASE n = 0
    BY <2>1, <1>5
  <2>2. CASE n # 0
    <3>1. n - 1 \in 0 .. N - 1 /\ n - 1 \in 0 .. N /\ n - 1 + 1 = n
      BY <2>2, <1>1
    <3>2. f[n] = Placed(f[n - 1], n)
      BY <3>1, <1>6
    <3> QED
      BY <3>1, <3>2, <2>2
  <2> QED
    BY <2>1, <2>2
<1> HIDE DEF own
<1>8. Is(g)
  <2> HIDE DEF Is
  <2> QED
    BY <1>7
<1>9. Mapped = g[N]
  BY DEF N, Mapped, Placed
<1> HIDE DEF g
<1>10. g[0] = uncleared
  BY <1>1, <1>8
<1>11. ASSUME NEW n \in 0 .. N - 1 PROVE g[n + 1] = Placed(g[n], n + 1)
  <2>1. n + 1 \in 0 .. N /\ n + 1 # 0 /\ n + 1 - 1 = n
    BY <1>1
  <2> QED
    BY <1>1, <2>1, <1>8
<1>12. \A n \in 0 .. N : g[n] \in Acc
  <2> DEFINE U == {n \in 0 .. N : g[n] \in Acc}
  <2>1. 0 \in U
    BY <1>1, <1>10
  <2>2. ASSUME NEW n \in 0 .. N - 1, n \in U PROVE n + 1 \in U
    <3>1. n + 1 \in 0 .. N /\ n + 1 \in 1 .. N
      BY <1>1
    <3> QED
      BY <3>1, <2>2, <1>2, <1>11
  <2> HIDE DEF U
  <2>3. \A n \in 0 .. N : n \in U
    BY <1>1, <2>1, <2>2, UpTo
  <2> QED
    BY <2>3 DEF U
<1>13. DOMAIN g = 0 .. N /\ g = [n \in 0 .. N |-> g[n]]
  BY <1>8
<1>14. g \in [0 .. N -> Acc]
  BY <1>12, <1>13
<1> QED
  BY <1>9, <1>10, <1>11, <1>14 DEF N, Acc

LEMMA RestoreType ==
  ASSUME NEW report \in ReportType, NEW d \in Digits
  PROVE  Restore(report, d) \in ReportType
<1> DEFINE rest == clear_output_usages(report, {Top(d)})
<1>1. rest \in ReportType
  BY ClearUsages
<1>2. Keypad(d) \in Usages
  BY UsageFacts
<1>3. set_output_usage(rest, Keypad(d)) \in ReportType
  <2> HIDE DEF rest
  <2> QED
    BY <1>1, <1>2, SetUsage
<1> QED
  BY <1>1, <1>3 DEF Restore

LEMMA RestoredIs ==
  ASSUME NEW report \in ReportType, NEW on, build.restores, ~on, physical_keypad_is_active
  PROVE  \E g : /\ g \in [0 .. LastDigit -> ReportType]
                /\ g[0] = report
                /\ \A n \in 0 .. LastDigit - 1 : g[n + 1] = Restored(g[n], n + 1)
                /\ apply_num_lock_aware_keypad_output(report, on) = g[LastDigit]
<1> DEFINE N == LastDigit
           Acc == ReportType
           step == [n \in 1 .. N |-> [s \in Acc |-> Restored(s, n)]]
<1>1. N \in Nat /\ report \in Acc
  BY DEF LastDigit
<1>2. ASSUME NEW s \in Acc, NEW n \in 1 .. N PROVE Restored(s, n) \in Acc
  BY RestoreType DEF Restored
<1> HIDE DEF Acc, N
<1>3. step \in [1 .. N -> [Acc -> Acc]]
  BY <1>2
<1>4. PICK f : Follows(f, Acc, report, N, step)
  <2> HIDE DEF step
  <2> QED
    BY <1>1, <1>3, FollowsExists
<1>5. f \in [0 .. N -> Acc] /\ f[0] = report
  BY <1>4 DEF Follows
<1>6. ASSUME NEW n \in 0 .. N - 1 PROVE f[n + 1] = Restored(f[n], n + 1)
  <2>1. n + 1 \in 1 .. N /\ n \in 0 .. N /\ f[n] \in Acc
    BY <1>1, <1>5
  <2>2. f[n + 1] = step[n + 1][f[n]]
    BY <1>4 DEF Follows
  <2> QED
    BY <2>1, <2>2
<1> HIDE DEF step
<1> DEFINE Is(g) == g = [n \in 0 .. N |-> IF n = 0 THEN report ELSE Restored(g[n - 1], n)]
           own == [n \in 0 .. N |-> f[n]]
           g == CHOOSE h : Is(h)
<1>7. Is(own)
  <2> SUFFICES ASSUME NEW n \in 0 .. N PROVE f[n] = IF n = 0 THEN report ELSE Restored(own[n - 1], n)
    OBVIOUS
  <2>1. CASE n = 0
    BY <2>1, <1>5
  <2>2. CASE n # 0
    <3>1. n - 1 \in 0 .. N - 1 /\ n - 1 \in 0 .. N /\ n - 1 + 1 = n
      BY <2>2, <1>1
    <3>2. f[n] = Restored(f[n - 1], n)
      BY <3>1, <1>6
    <3> QED
      BY <3>1, <3>2, <2>2
  <2> QED
    BY <2>1, <2>2
<1> HIDE DEF own
<1>8. Is(g)
  <2> HIDE DEF Is
  <2> QED
    BY <1>7
<1>9. apply_num_lock_aware_keypad_output(report, on) = g[N]
  BY DEF N, apply_num_lock_aware_keypad_output, Restored
<1> HIDE DEF g
<1>10. g[0] = report
  BY <1>1, <1>8
<1>11. ASSUME NEW n \in 0 .. N - 1 PROVE g[n + 1] = Restored(g[n], n + 1)
  <2>1. n + 1 \in 0 .. N /\ n + 1 # 0 /\ n + 1 - 1 = n
    BY <1>1
  <2> QED
    BY <1>1, <2>1, <1>8
<1>12. \A n \in 0 .. N : g[n] \in Acc
  <2> DEFINE U == {n \in 0 .. N : g[n] \in Acc}
  <2>1. 0 \in U
    BY <1>1, <1>10
  <2>2. ASSUME NEW n \in 0 .. N - 1, n \in U PROVE n + 1 \in U
    <3>1. n + 1 \in 0 .. N /\ n + 1 \in 1 .. N
      BY <1>1
    <3> QED
      BY <3>1, <2>2, <1>2, <1>11
  <2> HIDE DEF U
  <2>3. \A n \in 0 .. N : n \in U
    BY <1>1, <2>1, <2>2, UpTo
  <2> QED
    BY <2>3 DEF U
<1>13. DOMAIN g = 0 .. N /\ g = [n \in 0 .. N |-> g[n]]
  BY <1>8
<1>14. g \in [0 .. N -> Acc]
  BY <1>12, <1>13
<1> QED
  BY <1>9, <1>10, <1>11, <1>14 DEF N, Acc

-----------------------------------------------------------------------------
(* What a report shows of the keys that are pressed.                       *)

LEMMA FiniteUsages == IsFiniteSet(Usages)
<1>1. Len(ReportOrder) \in Nat /\ ReportOrder \in [1 .. Len(ReportOrder) -> Usages]
  BY KeypadAssumption, LenProperties
<1>2. \A usage \in Usages : \E n \in 1 .. Len(ReportOrder) : ReportOrder[n] = usage
  BY <1>1, KeypadAssumption DEF Range
<1>3. ReportOrder \in Surjection(1 .. Len(ReportOrder), Usages)
  BY <1>1, <1>2 DEF Surjection
<1>4. IsFiniteSet(1 .. Len(ReportOrder))
  BY <1>1, FS_Interval
<1> QED
  BY <1>3, <1>4, FS_Surjection

\* The places that the last frame left occupied.
LEMMA LeftPlaces ==
  ASSUME uncleared \in ReportType, NEW left, left = {p[1] : p \in uncleared.array}
  PROVE  /\ left \subseteq 1 .. Places /\ IsFiniteSet(left)
         /\ Cardinality(left) \in Nat /\ Cardinality(uncleared.array) \in Nat
         /\ Cardinality(left) <= Cardinality(uncleared.array)
<1> DEFINE A == uncleared.array
           f == [p \in A |-> p[1]]
<1>1. \A p \in A : p[1] \in 1 .. Places
  BY DEF ReportType
<1>2. \A p, q \in A : p[1] = q[1] => p = q
  BY DEF ReportType
<1> HIDE DEF A
<1>3. f \in Injection(A, 1 .. Places)
  BY <1>1, <1>2 DEF Injection, IsInjective
<1>4. f \in Surjection(A, left)
  BY DEF Surjection, A
<1> HIDE DEF f
<1>5. IsFiniteSet(A)
  <2>1. IsFiniteSet(1 .. Places)
    BY KeypadAssumption, FS_Interval
  <2> QED
    BY <1>3, <2>1, FS_Injection
<1>6. IsFiniteSet(left) /\ Cardinality(left) <= Cardinality(A)
  BY <1>4, <1>5, FS_Surjection
<1>7. Cardinality(left) \in Nat /\ Cardinality(A) \in Nat
  BY <1>5, <1>6, FS_CardinalityType
<1>8. left \subseteq 1 .. Places
  BY <1>1 DEF A
<1> QED
  BY <1>6, <1>7, <1>8 DEF A

\* If there is no place left, then each of those the last frame did not leave occupied shows
\* another key.
LEMMA RoomLeft ==
  ASSUME pressed \subseteq Usages, uncleared \in ReportType, Fits,
         NEW report \in ReportType, Once(report, Usages),
         \A u : Anew(report, u) => u \in targets,
         NEW usage \in targets \ Modifiers, ~output_usage_active(report, usage)
  PROVE  Free(report) # {}
<1> SUFFICES ASSUME Free(report) = {} PROVE FALSE
  OBVIOUS
<1> DEFINE left == {p[1] : p \in uncleared.array}
           rest == (1 .. Places) \ left
           P == rest \cup {0}
           K == pressed \ Modifiers
           shown(n) == IF n = 0 THEN usage ELSE CHOOSE u : <<n, u>> \in report.array
           key(u) == CHOOSE k \in pressed : Target(k) = u
           f == [n \in P |-> key(shown(n))]
<1>1. Places \in Nat
  BY KeypadAssumption
<1>2. ASSUME NEW n \in rest PROVE <<n, shown(n)>> \in report.array \ uncleared.array
  <2>1. PICK p \in report.array : p[1] = n
    BY DEF Free
  <2>2. p = <<n, p[2]>>
    BY <2>1 DEF ReportType
  <2>3. n # 0
    BY <1>1
  <2>4. <<n, shown(n)>> \in report.array
    BY <2>1, <2>2, <2>3
  <2>5. ASSUME <<n, shown(n)>> \in uncleared.array PROVE FALSE
    <3> HIDE DEF shown
    <3>1. <<n, shown(n)>>[1] \in left
      BY <2>5
    <3> QED
      BY <3>1
  <2> QED
    BY <2>4, <2>5
<1>3. ASSUME NEW n \in rest
      PROVE  /\ shown(n) \in Usages \ Modifiers /\ output_usage_active(report, shown(n))
             /\ shown(n) \in targets
  <2> HIDE DEF shown
  <2>1. <<n, shown(n)>> \in (1 .. Places) \X (Usages \ Modifiers)
    BY <1>2 DEF ReportType
  <2>2. <<n, shown(n)>>[2] = shown(n)
    OBVIOUS
  <2>3. Anew(report, shown(n))
    BY <1>2, <2>2 DEF Anew
  <2> QED
    BY <2>1, <2>3, AnewIsActive
<1>4. shown(0) = usage
  OBVIOUS
<1>5. ASSUME NEW n \in P, n # 0 PROVE n \in rest
  BY <1>5
<1> HIDE DEF rest
<1>6. ASSUME NEW n \in P PROVE shown(n) \in targets \ Modifiers
  <2>1. CASE n = 0
    BY <2>1, <1>4
  <2>2. CASE n # 0
    BY <2>2, <1>3, <1>5
  <2> QED
    BY <2>1, <2>2
<1>7. ASSUME NEW m \in P, NEW n \in P, shown(m) = shown(n) PROVE m = n
  <2>1. ASSUME NEW k \in rest PROVE shown(k) # usage
    BY <1>3, <2>1
  <2>2. CASE m = 0
    BY <2>1, <2>2, <1>4, <1>5, <1>7
  <2>3. CASE n = 0
    BY <2>1, <2>3, <1>4, <1>5, <1>7
  <2>4. CASE m # 0 /\ n # 0
    <3>1. m \in rest /\ n \in rest
      BY <1>5, <2>4
    <3> HIDE DEF shown
    <3>2. <<m, shown(m)>>[2] = shown(m) /\ <<n, shown(n)>>[2] = shown(n)
      OBVIOUS
    <3>3. <<m, shown(m)>> = <<n, shown(n)>>
      BY <3>1, <3>2, <1>2, <1>3, <1>7 DEF Once
    <3> QED
      BY <3>3
  <2> QED
    BY <2>2, <2>3, <2>4
<1> HIDE DEF shown
<1>8. ASSUME NEW u \in targets \ Modifiers PROVE key(u) \in K /\ Target(key(u)) = u
  <2>1. PICK k \in pressed : Target(k) = u
    BY <1>8 DEF targets
  <2>2. key(u) \in pressed /\ Target(key(u)) = u
    BY <2>1
  <2> HIDE DEF key
  <2>3. key(u) \notin Modifiers
    BY <2>2, TargetFacts
  <2> QED
    BY <2>2, <2>3
<1> HIDE DEF key
<1>9. f \in [P -> K]
  BY <1>6, <1>8
<1>10. \A m, n \in P : m # n => f[m] # f[n]
  BY <1>6, <1>7, <1>8
<1>11. /\ left \subseteq 1 .. Places /\ Cardinality(left) \in Nat
       /\ Cardinality(uncleared.array) \in Nat /\ Cardinality(left) <= Cardinality(uncleared.array)
  <2> HIDE DEF left
  <2> QED
    BY LeftPlaces DEF left
<1>12. IsFiniteSet(rest) /\ Cardinality(rest) = Places - Cardinality(left)
  <2> HIDE DEF left
  <2> DEFINE all == 1 .. Places
  <2>1. IsFiniteSet(all) /\ Cardinality(all) = Places
    BY <1>1, FS_Interval
  <2>2. all \cap left = left
    BY <1>11
  <2>3. rest = all \ left
    BY DEF rest
  <2> HIDE DEF all, rest
  <2>4. IsFiniteSet(all \ left) /\ Cardinality(all \ left) = Cardinality(all) - Cardinality(all \cap left)
    BY <2>1, FS_Difference
  <2> QED
    BY <2>1, <2>2, <2>3, <2>4
<1>13. IsFiniteSet(P) /\ Cardinality(P) = Places - Cardinality(left) + 1
  <2>1. 0 \notin rest
    BY <1>1 DEF rest
  <2> QED
    BY <1>12, <2>1, FS_AddElement
<1>14. IsFiniteSet(K) /\ Cardinality(K) \in Nat
  BY FiniteUsages, FS_Subset, FS_CardinalityType
<1>15. Cardinality(uncleared.array) + Cardinality(K) <= Places
  BY DEF Fits
<1> HIDE DEF left, K, P, f
<1>16. Cardinality(K) < Cardinality(P)
  BY <1>1, <1>11, <1>13, <1>14, <1>15
<1> QED
  BY <1>9, <1>10, <1>13, <1>14, <1>16, FS_PigeonHole

\* The usages up to the n-th have been mapped.
MappedTo(report, n) ==
  /\ Once(report, Usages)
  /\ \A u : Anew(report, u) => u \in targets /\ \E m \in 1 .. n : ReportOrder[m] = u
  /\ \A u : output_usage_active(report, u) => u \in targets \/ output_usage_active(uncleared, u)
  /\ \A u : output_usage_active(uncleared, u) => output_usage_active(report, u)
  /\ Fits => \A m \in 1 .. n : ReportOrder[m] \in targets => output_usage_active(report, ReportOrder[m])

LEMMA PlacedStep ==
  ASSUME pressed \subseteq Usages, uncleared \in ReportType, NEW report \in ReportType,
         NEW n \in 0 .. Len(ReportOrder) - 1, MappedTo(report, n),
         NEW after, after = Placed(report, n + 1)
  PROVE  MappedTo(after, n + 1)
<1> DEFINE usage == ReportOrder[n + 1]
<1>1. Len(ReportOrder) \in Nat /\ ReportOrder \in [1 .. Len(ReportOrder) -> Usages]
  BY KeypadAssumption, LenProperties
<1>2. PICK k : k = n + 1 /\ k \in 1 .. Len(ReportOrder) /\ (1 .. k) = (1 .. n) \cup {k} /\ k \notin 1 .. n
  BY <1>1
<1>3. usage \in Usages /\ usage = ReportOrder[k]
  BY <1>1, <1>2
<1>4. \A m \in 1 .. n : ReportOrder[m] # usage
  <2>1. \A m \in 1 .. n : m \in DOMAIN ReportOrder /\ m # k
    BY <1>1, <1>2
  <2> QED
    BY <2>1, <1>1, <1>2, <1>3, KeypadAssumption DEF IsInjective
<1> HIDE DEF usage
<1>5. ~Anew(report, usage)
  BY <1>4 DEF MappedTo
<1>6. CASE usage \notin targets
  <2>1. after = report
    BY <1>6 DEF Placed, usage
  <2> QED
    BY <1>2, <1>3, <1>6, <2>1 DEF MappedTo
<1>7. CASE usage \in targets
  <2>1. after = set_output_usage(report, usage)
    BY <1>7 DEF Placed, usage
  <2>2. /\ Once(after, Usages)
        /\ \A u : Anew(after, u) => Anew(report, u) \/ u = usage
        /\ \A u : output_usage_active(after, u) => output_usage_active(report, u) \/ u = usage
        /\ \A u : output_usage_active(report, u) => output_usage_active(after, u)
        /\ usage \in Modifiers \/ Free(report) # {} => output_usage_active(after, usage)
    BY <1>3, <1>5, <2>1, SetUsage DEF MappedTo
  <2>3. Fits => output_usage_active(after, usage)
    <3>1. CASE output_usage_active(report, usage)
      BY <2>2, <3>1
    <3>2. CASE ~output_usage_active(report, usage)
      <4>1. Fits /\ usage \notin Modifiers => Free(report) # {}
        BY <1>7, <3>2, RoomLeft DEF MappedTo
      <4> QED
        BY <2>2, <4>1
    <3> QED
      BY <3>1, <3>2
  <2>4. \A u : Anew(after, u) => u \in targets /\ \E m \in 1 .. k : ReportOrder[m] = u
    BY <1>2, <1>3, <1>7, <2>2 DEF MappedTo
  <2>5. Fits => \A m \in 1 .. k : ReportOrder[m] \in targets => output_usage_active(after, ReportOrder[m])
    BY <1>2, <1>3, <2>2, <2>3 DEF MappedTo
  <2>6. /\ \A u : output_usage_active(after, u) => u \in targets \/ output_usage_active(uncleared, u)
        /\ \A u : output_usage_active(uncleared, u) => output_usage_active(after, u)
    BY <1>7, <2>2 DEF MappedTo
  <2> QED
    BY <1>2, <2>2, <2>4, <2>5, <2>6 DEF MappedTo
<1> QED
  BY <1>6, <1>7

\* Before NumLock and the chord are looked at, the report shows what it was left with and what the
\* pressed keys are mapped to, put in once each, and all of it if there are places.
LEMMA MappedShows ==
  ASSUME pressed \subseteq Usages, uncleared \in ReportType
  PROVE  /\ Mapped \in ReportType
         /\ Once(Mapped, Usages)
         /\ \A u : output_usage_active(Mapped, u) => u \in targets \/ output_usage_active(uncleared, u)
         /\ \A u : output_usage_active(uncleared, u) => output_usage_active(Mapped, u)
         /\ Fits => \A u \in targets : output_usage_active(Mapped, u)
<1> DEFINE N == Len(ReportOrder)
<1>1. PICK g : /\ g \in [0 .. N -> ReportType]
               /\ g[0] = uncleared
               /\ \A n \in 0 .. N - 1 : g[n + 1] = Placed(g[n], n + 1)
               /\ Mapped = g[N]
  BY MappedIs
<1>2. N \in Nat /\ ReportOrder \in [1 .. N -> Usages]
  BY KeypadAssumption, LenProperties
<1> DEFINE U == {n \in 0 .. N : MappedTo(g[n], n)}
<1>3. 0 \in U
  <2>1. \A u : ~Anew(uncleared, u)
    BY DEF Anew
  <2>2. Once(uncleared, Usages)
    BY DEF Once
  <2>3. 1 .. 0 = {}
    OBVIOUS
  <2>4. MappedTo(uncleared, 0)
    BY <2>1, <2>2, <2>3 DEF MappedTo
  <2> QED
    BY <1>1, <1>2, <2>4
<1>4. ASSUME NEW n \in 0 .. N - 1, n \in U PROVE n + 1 \in U
  <2>1. n \in 0 .. N /\ n + 1 \in 0 .. N /\ g[n] \in ReportType
    BY <1>1, <1>2
  <2> QED
    BY <1>1, <1>4, <2>1, PlacedStep
<1>5. N \in U
  <2> HIDE DEF U
  <2>1. \A n \in 0 .. N : n \in U
    BY <1>2, <1>3, <1>4, UpTo
  <2> QED
    BY <1>2, <2>1
<1>6. Mapped \in ReportType /\ MappedTo(Mapped, N)
  BY <1>1, <1>2, <1>5
<1>7. ASSUME NEW u \in targets PROVE \E m \in 1 .. N : ReportOrder[m] = u
  <2>1. u \in Usages
    BY <1>7, TargetFacts DEF targets
  <2> QED
    BY <1>2, <2>1, KeypadAssumption DEF Range
<1> QED
  BY <1>6, <1>7 DEF MappedTo

-----------------------------------------------------------------------------
(* What restoring keypad usages and replacing the chord do to a report.    *)

DigitKeys == KeypadKeys \cup TopKeys
Restoring(on) == build.restores /\ ~on /\ physical_keypad_is_active

LEMMA RestoreOne ==
  ASSUME NEW report \in ReportType, NEW d \in Digits, NEW after, after = Restore(report, d)
  PROVE  /\ after \in ReportType
         /\ after.modifiers = report.modifiers
         /\ build.dedup /\ Once(report, DigitKeys) => Once(after, DigitKeys)
         /\ \A u : u # Top(d) /\ output_usage_active(report, u) => output_usage_active(after, u)
         /\ Keypad(d) \notin pressed => after = report
         /\ /\ Keypad(d) \in pressed
            /\ output_usage_active(report, Top(d)) \/ output_usage_active(report, Keypad(d))
            => output_usage_active(after, Keypad(d))
<1> DEFINE rest == clear_output_usages(report, {Top(d)})
           set == set_output_usage(rest, Keypad(d))
<1>1. /\ Keypad(d) \in Usages \ Modifiers /\ Top(d) \in Usages \ Modifiers
      /\ Keypad(d) # Top(d) /\ Keypad(d) \in DigitKeys
  BY UsageFacts DEF DigitKeys
<1>2. /\ rest \in ReportType
      /\ \A u : output_usage_active(rest, u) <=> output_usage_active(report, u) /\ u # Top(d)
      /\ rest.array \subseteq report.array
      /\ rest.modifiers = report.modifiers
      /\ \A some : Once(report, some) => Once(rest, some)
  <2>1. report.modifiers \ {Top(d)} = report.modifiers
    BY <1>1 DEF ReportType
  <2>2. /\ rest \in ReportType
        /\ \A u : output_usage_active(rest, u) <=> output_usage_active(report, u) /\ u \notin {Top(d)}
        /\ rest.array \subseteq report.array
        /\ rest.modifiers = report.modifiers \ {Top(d)}
        /\ \A some : Once(report, some) => Once(rest, some)
    <3> DEFINE usages == {Top(d)}
    <3> HIDE DEF usages
    <3>1. rest = clear_output_usages(report, usages)
      BY DEF usages
    <3> HIDE DEF rest
    <3>2. /\ rest \in ReportType
          /\ \A u : output_usage_active(rest, u) <=> output_usage_active(report, u) /\ u \notin usages
          /\ rest.array \subseteq report.array
          /\ rest.modifiers = report.modifiers \ usages
          /\ \A some : Once(report, some) => Once(rest, some)
      BY <3>1, ClearUsages
    <3> QED
      BY <3>2 DEF usages
  <2> HIDE DEF rest
  <2> QED
    BY <2>1, <2>2
<1>3. output_usage_active(report, Top(d)) => Free(rest) # {}
  <2> SUFFICES ASSUME output_usage_active(report, Top(d)) PROVE Free(rest) # {}
    OBVIOUS
  <2>1. PICK p \in report.array : p[2] = Top(d)
    BY <1>1, InArray
  <2>2. p[1] \in 1 .. Places /\ p \notin rest.array
    BY <2>1, <1>1, <1>2 DEF ReportType, output_usage_active
  <2>3. \A place \in rest.array : place[1] # p[1]
    BY <1>2, <2>2 DEF ReportType
  <2> QED
    BY <2>2, <2>3 DEF Free
<1> HIDE DEF rest
<1>4. /\ set \in ReportType
      /\ \A u : output_usage_active(rest, u) => output_usage_active(set, u)
      /\ Free(rest) # {} => output_usage_active(set, Keypad(d))
      /\ set.modifiers = rest.modifiers
      /\ ~output_usage_active(rest, Keypad(d)) /\ Once(rest, DigitKeys) => Once(set, DigitKeys)
  BY <1>1, <1>2, SetUsage, AnewIsActive
<1> HIDE DEF set
<1>5. CASE Keypad(d) \notin pressed
  <2>1. after = report
    BY <1>5 DEF Restore
  <2> QED
    BY <1>5, <2>1
<1>6. CASE Keypad(d) \in pressed /\ build.dedup /\ output_usage_active(rest, Keypad(d))
  <2>1. after = rest
    BY <1>6 DEF Restore, rest
  <2> QED
    BY <1>2, <1>6, <2>1
<1>7. CASE Keypad(d) \in pressed /\ ~(build.dedup /\ output_usage_active(rest, Keypad(d)))
  <2>1. after = set
    BY <1>7 DEF Restore, rest, set
  <2>2. output_usage_active(report, Keypad(d)) => output_usage_active(set, Keypad(d))
    BY <1>1, <1>2, <1>4
  <2> QED
    BY <1>2, <1>3, <1>4, <1>7, <2>1, <2>2
<1> QED
  BY <1>5, <1>6, <1>7

\* The digits up to the n-th have been restored.
RestoredTo(report, after, n) ==
  /\ after.modifiers = report.modifiers
  /\ build.dedup /\ Once(report, DigitKeys) => Once(after, DigitKeys)
  /\ \A u : u \notin TopKeys /\ output_usage_active(report, u) => output_usage_active(after, u)
  /\ \A e \in Digits : output_usage_active(report, Top(e)) /\ (Keypad(e) \notin pressed \/ n < e)
                       => output_usage_active(after, Top(e))
  /\ \A e \in Digits : /\ Keypad(e) \in pressed /\ e <= n
                       /\ output_usage_active(report, Top(e)) \/ output_usage_active(report, Keypad(e))
                       => output_usage_active(after, Keypad(e))

LEMMA RestoredStep ==
  ASSUME NEW report \in ReportType, NEW before \in ReportType, NEW n \in 0 .. LastDigit - 1,
         RestoredTo(report, before, n), NEW after, after = Restored(before, n + 1)
  PROVE  RestoredTo(report, after, n + 1)
<1>1. PICK d : d = n + 1 /\ d \in 1 .. LastDigit
  BY DEF LastDigit
<1>2. \A e \in Digits : e \in Nat /\ (n < e <=> e = d \/ d < e) /\ (e <= d <=> e <= n \/ e = d)
  BY <1>1, KeypadAssumption
<1>3. CASE d \notin Digits
  <2>1. after = before
    BY <1>1, <1>3 DEF Restored
  <2>2. \A e \in Digits : (n < e <=> d < e) /\ (e <= d <=> e <= n)
    BY <1>2, <1>3
  <2>3. RestoredTo(report, before, d)
    BY <2>2 DEF RestoredTo
  <2> QED
    BY <1>1, <2>1, <2>3
<1>4. CASE d \in Digits
  <2>1. /\ after.modifiers = before.modifiers
        /\ build.dedup /\ Once(before, DigitKeys) => Once(after, DigitKeys)
        /\ \A u : u # Top(d) /\ output_usage_active(before, u) => output_usage_active(after, u)
        /\ Keypad(d) \notin pressed => after = before
        /\ /\ Keypad(d) \in pressed
           /\ output_usage_active(before, Top(d)) \/ output_usage_active(before, Keypad(d))
           => output_usage_active(after, Keypad(d))
    BY <1>1, <1>4, RestoreOne DEF Restored
  <2>2. \A e \in Digits : Keypad(e) # Top(d) /\ Keypad(e) \notin TopKeys /\ (Top(e) = Top(d) => e = d)
    BY <1>4, UsageFacts
  <2>3. \A u : u \notin TopKeys => u # Top(d)
    BY <1>4, UsageFacts
  <2>4. \A u : u \notin TopKeys /\ output_usage_active(report, u) => output_usage_active(after, u)
    BY <2>1, <2>3 DEF RestoredTo
  <2>5. ASSUME NEW e \in Digits, output_usage_active(report, Top(e)), Keypad(e) \notin pressed \/ d < e
        PROVE  output_usage_active(after, Top(e))
    <3>1. output_usage_active(before, Top(e))
      BY <1>2, <2>5 DEF RestoredTo
    <3>2. CASE e = d
      <4>1. ~(d < e)
        BY <1>2, <3>2
      <4> QED
        BY <2>1, <2>5, <3>1, <3>2, <4>1
    <3> QED
      BY <2>1, <2>2, <3>1, <3>2
  <2>6. ASSUME NEW e \in Digits, Keypad(e) \in pressed, e <= d,
               output_usage_active(report, Top(e)) \/ output_usage_active(report, Keypad(e))
        PROVE  output_usage_active(after, Keypad(e))
    <3>1. CASE e <= n
      BY <2>1, <2>2, <2>6, <3>1 DEF RestoredTo
    <3>2. CASE e = d
      <4>1. n < e
        BY <1>2, <3>2
      <4>2. output_usage_active(before, Top(e)) \/ output_usage_active(before, Keypad(e))
        BY <2>2, <2>6, <4>1 DEF RestoredTo
      <4> QED
        BY <2>1, <2>6, <3>2, <4>2
    <3> QED
      BY <1>2, <2>6, <3>1, <3>2
  <2> QED
    BY <1>1, <2>1, <2>4, <2>5, <2>6 DEF RestoredTo
<1> QED
  BY <1>3, <1>4

\* Restoring takes nothing but the twins in the top row of pressed keypad keys.
LEMMA RestoredShows ==
  ASSUME NEW report \in ReportType, NEW on, NEW after,
         after = apply_num_lock_aware_keypad_output(report, on)
  PROVE  /\ after \in ReportType
         /\ ~Restoring(on) => after = report
         /\ after.modifiers = report.modifiers
         /\ build.dedup /\ Once(report, DigitKeys) => Once(after, DigitKeys)
         /\ \A u : u \notin TopKeys /\ output_usage_active(report, u) => output_usage_active(after, u)
         /\ \A e \in Digits : output_usage_active(report, Top(e)) /\ Keypad(e) \notin pressed
                              => output_usage_active(after, Top(e))
         /\ \A e \in Digits :
              /\ Restoring(on) /\ Keypad(e) \in pressed
              /\ output_usage_active(report, Top(e)) \/ output_usage_active(report, Keypad(e))
              => output_usage_active(after, Keypad(e))
<1>1. CASE ~Restoring(on)
  <2>1. after = report
    BY <1>1 DEF apply_num_lock_aware_keypad_output, Restoring
  <2> QED
    BY <1>1, <2>1
<1>2. CASE Restoring(on)
  <2> DEFINE N == LastDigit
  <2>1. PICK g : /\ g \in [0 .. N -> ReportType]
                 /\ g[0] = report
                 /\ \A n \in 0 .. N - 1 : g[n + 1] = Restored(g[n], n + 1)
                 /\ after = g[N]
    BY <1>2, RestoredIs DEF Restoring
  <2>2. N \in Nat /\ \A e \in Digits : e \in 1 .. N
    BY KeypadAssumption DEF LastDigit
  <2> DEFINE U == {n \in 0 .. N : RestoredTo(report, g[n], n)}
  <2> HIDE DEF N
  <2>3. 0 \in U
    <3>1. \A e \in Digits : ~(e <= 0)
      BY <2>2
    <3>2. RestoredTo(report, report, 0)
      BY <3>1 DEF RestoredTo
    <3> QED
      BY <2>1, <2>2, <3>2
  <2>4. ASSUME NEW n \in 0 .. N - 1, n \in U PROVE n + 1 \in U
    <3>1. n \in 0 .. N /\ n + 1 \in 0 .. N /\ g[n] \in ReportType
      BY <2>1, <2>2
    <3>2. RestoredTo(report, g[n + 1], n + 1)
      BY <2>1, <2>4, <3>1, RestoredStep DEF N
    <3> QED
      BY <3>1, <3>2
  <2>5. N \in U
    <3> HIDE DEF U
    <3>1. \A n \in 0 .. N : n \in U
      BY <2>2, <2>3, <2>4, UpTo
    <3> QED
      BY <2>2, <3>1
  <2>6. after \in ReportType /\ RestoredTo(report, after, N)
    BY <2>1, <2>2, <2>5
  <2>7. \A e \in Digits : e <= N
    BY <2>2
  <2> QED
    BY <1>2, <2>6, <2>7 DEF RestoredTo
<1> QED
  BY <1>1, <1>2

LEMMA ChordKeyFacts ==
  /\ ChordKeys \subseteq Usages
  /\ Minus \notin ChordKeys /\ Shift \notin ChordKeys
  /\ \A d \in Digits : /\ Keypad(d) \in ChordKeys <=> d \in {One, Six}
                       /\ Top(d) \in ChordKeys <=> d \in {One, Six}
<1>1. /\ One \in Digits /\ Six \in Digits
      /\ Minus \notin Modifiers /\ Minus \notin KeypadKeys \cup TopKeys
      /\ Alt # Shift /\ Alt \in Modifiers /\ Shift \notin Usages /\ Alt \in Usages
      /\ \A d \in Digits : /\ Keypad(d) \in KeypadKeys /\ Top(d) \in TopKeys
                           /\ Keypad(d) \notin Modifiers /\ Top(d) \notin Modifiers
      /\ \A d, e \in Digits : /\ Keypad(d) # Top(e)
                              /\ Keypad(d) = Keypad(e) => d = e
                              /\ Top(d) = Top(e) => d = e
      /\ KeypadKeys \cup TopKeys \subseteq Usages
  BY UsageFacts
<1>2. ChordKeys \subseteq Usages
  BY <1>1 DEF ChordKeys
<1>3. Minus \notin ChordKeys /\ Shift \notin ChordKeys
  <2>1. Shift \notin ChordKeys
    BY <1>1, <1>2
  <2>2. \A d \in Digits : Keypad(d) # Minus /\ Top(d) # Minus
    BY <1>1
  <2>3. Alt # Minus
    BY <1>1
  <2> QED
    BY <1>1, <2>1, <2>2, <2>3 DEF ChordKeys
<1>4. ASSUME NEW d \in Digits PROVE Keypad(d) \in ChordKeys <=> d \in {One, Six}
  BY <1>1 DEF ChordKeys
<1>5. ASSUME NEW d \in Digits PROVE Top(d) \in ChordKeys <=> d \in {One, Six}
  BY <1>1 DEF ChordKeys
<1> QED
  BY <1>2, <1>3, <1>4, <1>5

LEMMA ChordShows ==
  ASSUME NEW report \in ReportType, NEW after, after = apply_alt_numpad_equals_chord(report)
  PROVE  /\ after \in ReportType
         /\ Once(report, DigitKeys) => Once(after, DigitKeys)
         /\ \A u : u \notin ChordKeys /\ output_usage_active(report, u) => output_usage_active(after, u)
         /\ \A u : output_usage_active(after, u) => output_usage_active(report, u) \/ u \in {Minus, Shift}
         /\ ~Chord /\ ~alt_numpad_equals_active => after = report
         /\ Chord \/ alt_numpad_equals_active => \A key \in ChordKeys : ~output_usage_active(after, key)
         /\ Chord => Shift \in after.modifiers
         /\ ~Chord => (Shift \in after.modifiers <=> Shift \in report.modifiers)
<1> DEFINE rest == clear_output_usages(report, ChordKeys)
           minus == set_output_usage(rest, Minus)
           both == set_output_usage(minus, Shift)
<1>1. CASE ~Chord /\ ~alt_numpad_equals_active
  <2>1. after = report
    BY <1>1 DEF apply_alt_numpad_equals_chord
  <2> QED
    BY <1>1, <2>1
<1>2. /\ rest \in ReportType
      /\ \A u : output_usage_active(rest, u) <=> output_usage_active(report, u) /\ u \notin ChordKeys
      /\ rest.modifiers = report.modifiers \ ChordKeys
      /\ Once(report, DigitKeys) => Once(rest, DigitKeys)
  BY ClearUsages
<1> HIDE DEF rest
<1>3. CASE ~Chord /\ alt_numpad_equals_active
  <2>1. after = rest
    BY <1>3 DEF apply_alt_numpad_equals_chord, rest
  <2> QED
    BY <1>2, <1>3, <2>1, ChordKeyFacts
<1>4. CASE Chord
  <2>1. after = both
    BY <1>4 DEF apply_alt_numpad_equals_chord, rest
  <2>2. /\ Minus \in Usages \cup Modifiers /\ Minus \notin DigitKeys
        /\ Shift \in Modifiers /\ Shift \in Usages \cup Modifiers
    BY UsageFacts DEF DigitKeys
  <2>3. Shift \notin DigitKeys
    BY UsageFacts DEF DigitKeys
  <2>4. /\ minus \in ReportType
        /\ \A u : output_usage_active(minus, u) => output_usage_active(rest, u) \/ u = Minus
        /\ \A u : output_usage_active(rest, u) => output_usage_active(minus, u)
        /\ Once(rest, DigitKeys) => Once(minus, DigitKeys)
    BY <1>2, <2>2, SetUsage
  <2> HIDE DEF minus
  <2>5. /\ both \in ReportType
        /\ \A u : output_usage_active(both, u) => output_usage_active(minus, u) \/ u = Shift
        /\ \A u : output_usage_active(minus, u) => output_usage_active(both, u)
        /\ Once(minus, DigitKeys) => Once(both, DigitKeys)
    BY <2>2, <2>3, <2>4, SetUsage
  <2>6. Shift \in both.modifiers
    <3>1. both = [minus EXCEPT !.modifiers = @ \cup {Shift}]
      BY <2>2 DEF set_output_usage
    <3> QED
      BY <2>4, <3>1 DEF ReportType
  <2> HIDE DEF both
  <2> QED
    BY <1>2, <1>4, <2>1, <2>4, <2>5, <2>6, ChordKeyFacts
<1> QED
  BY <1>1, <1>3, <1>4

\* The keys that are down are keys, and a full queue leaves a keyboard report.
KeysInv == keys \in [Interfaces -> SUBSET Usages] /\ uncleared \in ReportType

LEMMA ReportsTyped ==
  ASSUME KeysInv, NEW report \in KeyboardReports
  PROVE  report \in ReportType
<1>1. pressed \subseteq Usages /\ uncleared \in ReportType
  BY DEF KeysInv, pressed
<1>2. PICK on : report = apply_alt_numpad_equals_chord(apply_num_lock_aware_keypad_output(Mapped, on))
  BY DEF KeyboardReports
<1>3. Mapped \in ReportType
  BY <1>1, MappedShows
<1>4. apply_num_lock_aware_keypad_output(Mapped, on) \in ReportType
  BY <1>3, RestoredShows
<1> QED
  BY <1>2, <1>4, ChordShows

LEMMA KeysAlways == KeypadSpec => []KeysInv
<1>1. Cleared \in ReportType
  BY DEF Cleared, ReportType
<1>1a. KeypadInit => KeysInv
  BY <1>1 DEF KeypadInit, KeysInv
<1>2. KeysInv /\ [KeypadNext]_kvars => KeysInv'
  <2> SUFFICES ASSUME KeysInv, [KeypadNext]_kvars PROVE KeysInv'
    OBVIOUS
  <2>1. ASSUME NEW i \in Interfaces, NEW r \in ReportIds, NEW num_lock \in BOOLEAN, NEW held \in Held,
               ReadReport(i, r, num_lock, held)
        PROVE  KeysInv'
    BY <2>1, KeypadAssumption DEF ReadReport, KeysInv
  <2>2. CASE NewConfig
    BY <2>2 DEF NewConfig, KeysInv
  <2>3. CASE EndFrame
    <3>1. keys' = keys /\ \E report \in KeyboardReports : uncleared' \in {report, Cleared}
      BY <2>3 DEF EndFrame
    <3>2. uncleared' \in ReportType
      BY <1>1, <3>1, ReportsTyped
    <3> QED
      BY <3>1, <3>2 DEF KeysInv
  <2>4. CASE UNCHANGED <<keys, uncleared>>
    BY <2>4 DEF KeysInv
  <2>5. BeginFrame \/ LetTimePass \/ DevicesFallSilent \/ UNCHANGED kvars => UNCHANGED <<keys, uncleared>>
    BY DEF BeginFrame, LetTimePass, DevicesFallSilent, kvars, kstate
  <2>6. (\E i \in Interfaces : device_disconnected_callback(DeviceOf[i])) => UNCHANGED <<keys, uncleared>>
    BY DEF device_disconnected_callback
  <2>7. (\E i \in Interfaces, r \in ReportIds, num_lock, keypad \in BOOLEAN :
           RolloverReport(i, r, num_lock, keypad))
        => UNCHANGED <<keys, uncleared>>
    BY DEF RolloverReport
  <2> QED
    BY <2>1, <2>2, <2>3, <2>4, <2>5, <2>6, <2>7 DEF KeypadNext
<1> QED
  BY <1>1a, <1>2, PTL DEF KeypadSpec

LEMMA ReportIsSound == ASSUME KeysInv PROVE KeyboardReportInv
<1>1. pressed \subseteq Usages /\ uncleared \in ReportType
  BY DEF KeysInv, pressed
<1>2. ASSUME NEW report \in KeyboardReports
      PROVE  /\ build.dedup => Once(report, DigitKeys)
             /\ Fits => \A d \in Digits :
                          /\ Top(d) \in pressed /\ Keypad(d) \notin pressed
                          /\ Top(d) \in ChordKeys => ~Chord /\ ~alt_numpad_equals_active
                          => output_usage_active(report, Top(d))
             /\ Chord \/ alt_numpad_equals_active =>
                  /\ \A key \in ChordKeys : ~output_usage_active(report, key)
                  /\ Shift \in report.modifiers <=> Chord \/ Shift \in uncleared.modifiers
  <2>1. PICK on : report = apply_alt_numpad_equals_chord(apply_num_lock_aware_keypad_output(Mapped, on))
    BY <1>2 DEF KeyboardReports
  <2> DEFINE restored == apply_num_lock_aware_keypad_output(Mapped, on)
  <2>2. /\ Mapped \in ReportType
        /\ Once(Mapped, DigitKeys)
        /\ \A u : output_usage_active(Mapped, u) => u \in targets \/ output_usage_active(uncleared, u)
        /\ \A u : output_usage_active(uncleared, u) => output_usage_active(Mapped, u)
        /\ Fits => \A u \in targets : output_usage_active(Mapped, u)
    <3>1. DigitKeys \subseteq Usages
      BY UsageFacts DEF DigitKeys
    <3> QED
      BY <1>1, <3>1, MappedShows DEF Once
  <2>3. /\ restored \in ReportType
        /\ restored.modifiers = Mapped.modifiers
        /\ build.dedup => Once(restored, DigitKeys)
        /\ \A e \in Digits : output_usage_active(Mapped, Top(e)) /\ Keypad(e) \notin pressed
                             => output_usage_active(restored, Top(e))
    BY <2>2, RestoredShows
  <2> HIDE DEF restored
  <2>4. /\ Once(restored, DigitKeys) => Once(report, DigitKeys)
        /\ \A u : u \notin ChordKeys /\ output_usage_active(restored, u) => output_usage_active(report, u)
        /\ ~Chord /\ ~alt_numpad_equals_active => report = restored
        /\ Chord \/ alt_numpad_equals_active => \A key \in ChordKeys : ~output_usage_active(report, key)
        /\ Chord => Shift \in report.modifiers
        /\ ~Chord => (Shift \in report.modifiers <=> Shift \in restored.modifiers)
    BY <2>1, <2>3, ChordShows DEF restored
  <2>5. ASSUME Fits, NEW d \in Digits, Top(d) \in pressed, Keypad(d) \notin pressed,
               Top(d) \in ChordKeys => ~Chord /\ ~alt_numpad_equals_active
        PROVE  output_usage_active(report, Top(d))
    <3>1. Top(d) \notin KeypadKeys /\ Top(d) \in Usages
      BY UsageFacts
    <3>2. Target(Top(d)) = Top(d)
      BY <3>1, TargetFacts
    <3>3. Top(d) \in targets
      BY <2>5, <3>2 DEF targets
    <3>4. output_usage_active(restored, Top(d))
      BY <2>2, <2>3, <2>5, <3>3
    <3> QED
      BY <2>4, <2>5, <3>4
  <2>6. Shift \in restored.modifiers <=> Shift \in uncleared.modifiers
    <3>1. Shift \notin targets /\ Shift \in Modifiers
      BY <1>1, TargetFacts, UsageFacts DEF targets
    <3>2. output_usage_active(Mapped, Shift) <=> output_usage_active(uncleared, Shift)
      BY <2>2, <3>1
    <3>3. ASSUME NEW some \in ReportType
          PROVE  output_usage_active(some, Shift) <=> Shift \in some.modifiers
      BY <3>1 DEF ReportType, output_usage_active
    <3> QED
      BY <1>1, <2>2, <2>3, <3>2, <3>3
  <2> QED
    BY <2>3, <2>4, <2>5, <2>6
<1>3. DigitsNotDoubled
  BY <1>2 DEF DigitsNotDoubled, Once, DigitKeys
<1>4. NumberRowIsKept
  BY <1>2 DEF NumberRowIsKept
<1>5. ChordIsReplaced
  BY <1>2 DEF ChordIsReplaced
<1> QED
  BY <1>3, <1>4, <1>5 DEF KeyboardReportInv

\* However mapping, NumLock and the chord rewrite the keyboard report one after the other, and
\* whatever a full queue left in it, no frame puts a digit into it twice, it misses no digit of the
\* number row for which there is room, and shows nothing of a chord beside what replaces it.
THEOREM ReportsAreSound == KeypadSpec => []KeyboardReportInv
BY KeysAlways, ReportIsSound, PTL

-----------------------------------------------------------------------------
(* One keyboard: the inferred state does not change under a key.           *)

SameKeypad(f, g) ==
  /\ g \in FilterType
  /\ g.keypad_by_report = f.keypad_by_report
  /\ g.previous_keypad = f.previous_keypad

LEMMA QueueKeepsKeypad ==
  ASSUME NEW f \in FilterType, NEW state \in BOOLEAN, NEW g, g = queue_num_lock_state(f, state)
  PROVE  SameKeypad(f, g) /\ g.stage = f.stage /\ g.inferred_num_lock = f.inferred_num_lock
<1>1. Append(f.pending_output_states, state) \in Seq(BOOLEAN)
  BY AppendProperties DEF FilterType
<1> QED
  BY <1>1 DEF queue_num_lock_state, FilterType, SameKeypad

LEMMA EnterKeepsKeypad ==
  ASSUME NEW f \in FilterType, NEW stage \in Stages, NEW deadline \in 0 .. NoDeadline,
         NEW g, g = Enter(f, stage, deadline)
  PROVE  SameKeypad(f, g) /\ g.stage = stage /\ g.inferred_num_lock = f.inferred_num_lock
BY DEF Enter, FilterType, SameKeypad

LEMMA PassKeepsKeypad ==
  ASSUME NEW f \in FilterType
  PROVE  /\ SameKeypad(f, replay_first_num_lock_tap(f))
         /\ replay_first_num_lock_tap(f).inferred_num_lock = f.inferred_num_lock
         /\ \A g \in {PassDown(f), ReplayAndPassDown(f)} :
              SameKeypad(f, g) /\ g.stage = "PASSTHROUGH_DOWN" /\ g.inferred_num_lock = f.inferred_num_lock
<1>1. /\ SameKeypad(f, replay_first_num_lock_tap(f))
      /\ replay_first_num_lock_tap(f).inferred_num_lock = f.inferred_num_lock
  <2> DEFINE one == queue_num_lock_state(f, TRUE)
  <2>1. SameKeypad(f, one) /\ one.inferred_num_lock = f.inferred_num_lock
    BY QueueKeepsKeypad
  <2> HIDE DEF one
  <2>2. /\ SameKeypad(one, queue_num_lock_state(one, FALSE))
        /\ queue_num_lock_state(one, FALSE).inferred_num_lock = one.inferred_num_lock
    BY <2>1, QueueKeepsKeypad DEF SameKeypad
  <2> QED
    BY <2>1, <2>2 DEF SameKeypad, replay_first_num_lock_tap, one
<1>2. ASSUME NEW h \in FilterType
      PROVE  /\ SameKeypad(h, PassDown(h)) /\ PassDown(h).stage = "PASSTHROUGH_DOWN"
             /\ PassDown(h).inferred_num_lock = h.inferred_num_lock
  <2> DEFINE down == queue_num_lock_state(h, TRUE)
  <2>1. SameKeypad(h, down) /\ down.inferred_num_lock = h.inferred_num_lock
    BY QueueKeepsKeypad
  <2> HIDE DEF down
  <2>2. "PASSTHROUGH_DOWN" \in Stages /\ NoDeadline \in 0 .. NoDeadline
    BY Deadlines DEF Stages
  <2>3. /\ SameKeypad(down, Enter(down, "PASSTHROUGH_DOWN", NoDeadline))
        /\ Enter(down, "PASSTHROUGH_DOWN", NoDeadline).stage = "PASSTHROUGH_DOWN"
        /\ Enter(down, "PASSTHROUGH_DOWN", NoDeadline).inferred_num_lock = down.inferred_num_lock
    BY <2>1, <2>2, EnterKeepsKeypad DEF SameKeypad
  <2> QED
    BY <2>1, <2>3 DEF SameKeypad, PassDown, down
<1>3. replay_first_num_lock_tap(f) \in FilterType
  BY <1>1 DEF SameKeypad
<1> QED
  BY <1>1, <1>2, <1>3 DEF SameKeypad, ReplayAndPassDown

Waiting == {"WAIT_KEYPAD", "WAIT_TRAILING_DOWN"}

LEMMA TimeoutKeepsKeypad ==
  ASSUME NEW f \in FilterType, NEW g, g = advance_num_lock_sync_timeout(f)
  PROVE  /\ SameKeypad(f, g)
         /\ g.stage = f.stage \/ g.stage \in {"IDLE", "PASSTHROUGH_DOWN"}
         /\ f.stage \notin Waiting => g.inferred_num_lock = f.inferred_num_lock
<1>1. CASE f.deadline # 0
  <2>1. g = f
    BY <1>1 DEF advance_num_lock_sync_timeout
  <2> QED
    BY <2>1 DEF SameKeypad
<1>2. CASE f.deadline = 0 /\ f.stage = "FIRST_DOWN"
  <2>1. g = PassDown(f)
    BY <1>2 DEF advance_num_lock_sync_timeout
  <2> QED
    BY <2>1, PassKeepsKeypad
<1>3. CASE f.deadline = 0 /\ f.stage = "TRAILING_DOWN"
  <2>1. g = ReplayAndPassDown(f)
    BY <1>3 DEF advance_num_lock_sync_timeout
  <2> QED
    BY <2>1, PassKeepsKeypad
<1>4. CASE f.deadline = 0 /\ f.stage \in Waiting
  <2> DEFINE tap == replay_first_num_lock_tap(f)
             turned == toggle_inferred_num_lock_state(tap)
  <2>1. g = Enter(turned, "IDLE", NoDeadline)
    BY <1>4 DEF advance_num_lock_sync_timeout, Waiting
  <2>2. SameKeypad(f, tap)
    BY PassKeepsKeypad
  <2> HIDE DEF tap
  <2>3. SameKeypad(f, turned)
    BY <2>2 DEF SameKeypad, toggle_inferred_num_lock_state, FilterType
  <2> HIDE DEF turned
  <2>4. "IDLE" \in Stages /\ NoDeadline \in 0 .. NoDeadline
    BY Deadlines DEF Stages
  <2>5. SameKeypad(turned, g) /\ g.stage = "IDLE"
    BY <2>1, <2>3, <2>4, EnterKeepsKeypad DEF SameKeypad
  <2> QED
    BY <1>4, <2>3, <2>5 DEF SameKeypad
<1>5. CASE f.deadline = 0 /\ f.stage \notin Waiting \cup {"FIRST_DOWN", "TRAILING_DOWN"}
  <2>1. g = [f EXCEPT !.deadline = NoDeadline]
    BY <1>5 DEF advance_num_lock_sync_timeout, Waiting
  <2>2. NoDeadline \in 0 .. NoDeadline
    BY Deadlines
  <2> QED
    BY <2>1, <2>2 DEF SameKeypad, FilterType
<1> QED
  BY <1>1, <1>2, <1>3, <1>4, <1>5

\* While a keypad key stays down, no report turns the inferred state round.
LEMMA ObservedKeepsKeypad ==
  ASSUME NEW f \in FilterType, NEW keypad \in BOOLEAN,
         NEW numDown \in BOOLEAN, NEW numUp \in BOOLEAN,
         f.stage \in Waiting => ~f.previous_keypad,
         NEW g, g = Observed(f, numDown, numUp, keypad /\ ~f.previous_keypad,
                             ~keypad /\ f.previous_keypad, keypad)
  PROVE  /\ SameKeypad(f, g)
         /\ g.stage \in Waiting => ~keypad
         /\ g.stage = "TRAILING_DOWN" => f.stage \in {"TRAILING_DOWN", "WAIT_TRAILING_DOWN"}
         /\ f.previous_keypad /\ f.stage # "TRAILING_DOWN" => g.inferred_num_lock = f.inferred_num_lock
<1> DEFINE keyDown == keypad /\ ~f.previous_keypad
           keyUp == ~keypad /\ f.previous_keypad
           Kept(h) == /\ SameKeypad(f, h)
                      /\ h.stage \in Waiting => ~keypad
                      /\ h.stage = "TRAILING_DOWN" => f.stage \in {"TRAILING_DOWN", "WAIT_TRAILING_DOWN"}
                      /\ f.previous_keypad /\ f.stage # "TRAILING_DOWN"
                         => h.inferred_num_lock = f.inferred_num_lock
<1>a. /\ f.stage \in Stages /\ f.previous_keypad \in BOOLEAN /\ f.deadline \in 0 .. NoDeadline
      /\ NoDeadline \in 0 .. NoDeadline /\ NUM_LOCK_SYNC_EDGE \in 0 .. NoDeadline
  BY Deadlines DEF FilterType
<1>b. /\ keyDown \in BOOLEAN /\ keyUp \in BOOLEAN
      /\ keyDown => keypad /\ ~f.previous_keypad
      /\ keyUp => ~keypad
  OBVIOUS
<1>c. f.stage \in Waiting /\ ~keyDown => ~keypad
  OBVIOUS
<1>g. g = Observed(f, numDown, numUp, keyDown, keyUp, keypad)
  OBVIOUS
<1>e. ASSUME NEW stage \in Stages, NEW deadline \in 0 .. NoDeadline, g = Enter(f, stage, deadline),
             stage \in Waiting => ~keypad, stage = "TRAILING_DOWN" => f.stage = "WAIT_TRAILING_DOWN"
      PROVE  Kept(g)
  BY <1>e, EnterKeepsKeypad
<1>p. ASSUME g \in {PassDown(f), ReplayAndPassDown(f)} PROVE Kept(g)
  BY <1>p, PassKeepsKeypad DEF Waiting
<1>s. ASSUME g = f, f.stage \in Waiting => ~keypad PROVE Kept(g)
  BY <1>s DEF SameKeypad
<1> SUFFICES Kept(g)
  OBVIOUS
<1> HIDE DEF Kept, keyDown, keyUp
<1>1. CASE f.stage = "IDLE"
  <2>1. CASE numDown
    <3>1. g = Enter(f, "FIRST_DOWN", NUM_LOCK_SYNC_EDGE)
      BY <1>g, <1>1, <2>1 DEF Observed
    <3> QED
      BY <3>1, <1>a, <1>e DEF Stages, Waiting
  <2>2. CASE ~numDown /\ keyDown
    <3>1. g = [f EXCEPT !.inferred_num_lock = "off"]
      BY <1>g, <1>1, <2>2 DEF Observed
    <3>2. SameKeypad(f, g) /\ g.stage = "IDLE"
      BY <1>1, <3>1 DEF SameKeypad, FilterType
    <3> QED
      BY <1>b, <2>2, <3>2 DEF Kept, Waiting
  <2>3. CASE ~numDown /\ ~keyDown
    <3>1. g = f
      BY <1>g, <1>1, <2>3 DEF Observed
    <3> QED
      BY <3>1, <1>1, <1>s DEF Waiting
  <2> QED
    BY <2>1, <2>2, <2>3
<1>2. CASE f.stage = "FIRST_DOWN"
  <2>1. CASE numUp /\ keypad
    <3>1. g = Enter(f, "KEYPAD_ACTIVE", NoDeadline)
      BY <1>g, <1>2, <2>1 DEF Observed
    <3> QED
      BY <3>1, <1>a, <1>e DEF Stages, Waiting
  <2>2. CASE numUp /\ ~keypad
    <3>1. g = Enter(f, "WAIT_KEYPAD", NUM_LOCK_SYNC_EDGE)
      BY <1>g, <1>2, <2>2 DEF Observed
    <3> QED
      BY <2>2, <3>1, <1>a, <1>e DEF Stages, Waiting
  <2>3. CASE ~numUp /\ keyDown
    <3>1. g = PassDown(f)
      BY <1>g, <1>2, <2>3 DEF Observed
    <3> QED
      BY <3>1, <1>p
  <2>4. CASE ~numUp /\ ~keyDown
    <3>1. g = f
      BY <1>g, <1>2, <2>4 DEF Observed
    <3> QED
      BY <3>1, <1>2, <1>s DEF Waiting
  <2> QED
    BY <2>1, <2>2, <2>3, <2>4
<1>3. CASE f.stage = "WAIT_KEYPAD"
  <2>1. CASE keyDown
    <3>1. g = Enter(f, "KEYPAD_ACTIVE", NoDeadline)
      BY <1>g, <1>3, <2>1 DEF Observed
    <3> QED
      BY <3>1, <1>a, <1>e DEF Stages, Waiting
  <2>2. CASE ~keyDown /\ numDown
    <3>1. g = ReplayAndPassDown(f)
      BY <1>g, <1>3, <2>2 DEF Observed
    <3> QED
      BY <3>1, <1>p
  <2>3. CASE ~keyDown /\ ~numDown
    <3>1. g = f
      BY <1>g, <1>3, <2>3 DEF Observed
    <3> QED
      BY <2>3, <3>1, <1>c, <1>s
  <2> QED
    BY <2>1, <2>2, <2>3
<1>4. CASE f.stage = "KEYPAD_ACTIVE"
  <2>1. CASE numDown
    <3>1. g = ReplayAndPassDown(f)
      BY <1>g, <1>4, <2>1 DEF Observed
    <3> QED
      BY <3>1, <1>p
  <2>2. CASE ~numDown /\ keyUp
    <3>1. g = Enter(f, "WAIT_TRAILING_DOWN", NUM_LOCK_SYNC_EDGE)
      BY <1>g, <1>4, <2>2 DEF Observed
    <3> QED
      BY <2>2, <3>1, <1>a, <1>b, <1>e DEF Stages, Waiting
  <2>3. CASE ~numDown /\ ~keyUp
    <3>1. g = f
      BY <1>g, <1>4, <2>3 DEF Observed
    <3> QED
      BY <3>1, <1>4, <1>s DEF Waiting
  <2> QED
    BY <2>1, <2>2, <2>3
<1>5. CASE f.stage = "WAIT_TRAILING_DOWN"
  <2>1. CASE numDown
    <3>1. g = Enter(f, "TRAILING_DOWN", NUM_LOCK_SYNC_EDGE)
      BY <1>g, <1>5, <2>1 DEF Observed
    <3> QED
      BY <3>1, <1>5, <1>a, <1>e DEF Stages, Waiting
  <2>2. CASE ~numDown /\ keyDown
    <3>1. g = Enter(f, "KEYPAD_ACTIVE", NoDeadline)
      BY <1>g, <1>5, <2>2 DEF Observed
    <3> QED
      BY <3>1, <1>a, <1>e DEF Stages, Waiting
  <2>3. CASE ~numDown /\ ~keyDown
    <3>1. g = f
      BY <1>g, <1>5, <2>3 DEF Observed
    <3> QED
      BY <2>3, <3>1, <1>c, <1>s
  <2> QED
    BY <2>1, <2>2, <2>3
<1>6. CASE f.stage = "TRAILING_DOWN"
  <2>1. CASE numUp
    <3> DEFINE on == [f EXCEPT !.inferred_num_lock = "on"]
    <3>1. g = Enter(on, "IDLE", NoDeadline)
      BY <1>g, <1>6, <2>1 DEF Observed
    <3>2. SameKeypad(f, on)
      BY DEF SameKeypad, FilterType
    <3> HIDE DEF on
    <3>3. on \in FilterType /\ "IDLE" \in Stages
      BY <3>2 DEF SameKeypad, Stages
    <3>4. SameKeypad(on, g) /\ g.stage = "IDLE"
      BY <1>a, <3>1, <3>3, EnterKeepsKeypad
    <3> QED
      BY <1>6, <3>2, <3>4 DEF Kept, SameKeypad, Waiting
  <2>2. CASE ~numUp
    <3>1. g = f
      BY <1>g, <1>6, <2>2 DEF Observed
    <3> QED
      BY <3>1, <1>6, <1>s DEF Waiting
  <2> QED
    BY <2>1, <2>2
<1>7. CASE f.stage = "PASSTHROUGH_DOWN"
  <2>1. CASE numUp
    <3> DEFINE up == queue_num_lock_state(f, FALSE)
    <3>1. g = Enter(up, "IDLE", f.deadline)
      BY <1>g, <1>7, <2>1 DEF Observed
    <3>2. SameKeypad(f, up) /\ up.inferred_num_lock = f.inferred_num_lock
      BY QueueKeepsKeypad
    <3> HIDE DEF up
    <3>3. up \in FilterType /\ "IDLE" \in Stages
      BY <3>2 DEF SameKeypad, Stages
    <3>4. SameKeypad(up, g) /\ g.stage = "IDLE" /\ g.inferred_num_lock = up.inferred_num_lock
      BY <1>a, <3>1, <3>3, EnterKeepsKeypad
    <3> QED
      BY <3>2, <3>4 DEF Kept, SameKeypad, Waiting
  <2>2. CASE ~numUp
    <3>1. g = f
      BY <1>g, <1>7, <2>2 DEF Observed
    <3> QED
      BY <3>1, <1>7, <1>s DEF Waiting
  <2> QED
    BY <2>1, <2>2
<1> QED
  BY <1>a, <1>1, <1>2, <1>3, <1>4, <1>5, <1>6, <1>7 DEF Stages

\* What is known of a filter's keypad keys: previous_keypad is the aggregate, and a stage that
\* waits for a key finds none.
Steady(f) ==
  /\ AnyKeypad(f) <=> f.previous_keypad
  /\ f.stage \in Waiting => ~f.previous_keypad

\* g is f some time later, for a key that was down before and is still down.
Unmoved(f, g) ==
  f.previous_keypad /\ g.previous_keypad /\ f.stage # "TRAILING_DOWN"
  => g.stage # "TRAILING_DOWN" /\ g.inferred_num_lock = f.inferred_num_lock

LEMMA ReportIsSteady ==
  ASSUME NEW f \in FilterType, Steady(f), NEW r \in ReportIds,
         NEW num_lock \in BOOLEAN, NEW keypad \in BOOLEAN,
         NEW n, n = Noted(f, r, num_lock, keypad),
         NEW g, g = observe_num_lock_sync_state(n, AnyNumLock(n), AnyKeypad(n))
  PROVE  /\ g \in FilterType /\ Steady(g) /\ Unmoved(f, g)
         /\ r \in DefinesKeypad /\ keypad => g.previous_keypad
         /\ r \notin DefinesKeypad => (g.previous_keypad <=> f.previous_keypad)
<1> DEFINE any == AnyKeypad(n)
           down == AnyNumLock(n)
           now == advance_num_lock_sync_timeout(n)
           numDown == down /\ ~n.previous_num_lock
           numUp == ~down /\ n.previous_num_lock
           done == Observed(now, numDown, numUp, any /\ ~n.previous_keypad, ~any /\ n.previous_keypad, any)
<1>1. /\ n \in FilterType /\ n.stage = f.stage /\ n.previous_keypad = f.previous_keypad
      /\ n.inferred_num_lock = f.inferred_num_lock
      /\ n.keypad_by_report = IF r \in DefinesKeypad THEN [f.keypad_by_report EXCEPT ![r] = keypad]
                              ELSE f.keypad_by_report
  BY DEF Noted, FilterType
<1>2. any \in BOOLEAN /\ down \in BOOLEAN
  BY DEF AnyKeypad, AnyNumLock
<1>3. r \in DefinesKeypad /\ keypad => any
  BY <1>1 DEF AnyKeypad, FilterType
<1>4. r \notin DefinesKeypad => (any <=> f.previous_keypad)
  BY <1>1 DEF AnyKeypad, Steady
<1>5. /\ SameKeypad(n, now)
      /\ now.stage = n.stage \/ now.stage \in {"IDLE", "PASSTHROUGH_DOWN"}
      /\ n.stage \notin Waiting => now.inferred_num_lock = n.inferred_num_lock
  BY <1>1, TimeoutKeepsKeypad
<1>6. g = [done EXCEPT !.previous_num_lock = down, !.previous_keypad = any]
  BY DEF observe_num_lock_sync_state
<1> HIDE DEF any, down, now
<1>7. now.stage \in Waiting => ~now.previous_keypad
  BY <1>1, <1>5 DEF SameKeypad, Steady, Waiting
<1>8. now \in FilterType /\ now.previous_keypad = n.previous_keypad
  BY <1>5 DEF SameKeypad
<1>9. numDown \in BOOLEAN /\ numUp \in BOOLEAN
  BY <1>1, <1>2 DEF FilterType
<1>9a. done = Observed(now, numDown, numUp, any /\ ~now.previous_keypad,
                       ~any /\ now.previous_keypad, any)
  BY <1>8
<1> HIDE DEF numDown, numUp, done
<1>10. /\ SameKeypad(now, done)
       /\ done.stage \in Waiting => ~any
       /\ done.stage = "TRAILING_DOWN" => now.stage \in {"TRAILING_DOWN", "WAIT_TRAILING_DOWN"}
       /\ now.previous_keypad /\ now.stage # "TRAILING_DOWN" => done.inferred_num_lock = now.inferred_num_lock
  BY <1>2, <1>7, <1>8, <1>9, <1>9a, ObservedKeepsKeypad, SMTT(30)
<1>11. /\ g.previous_keypad = any /\ g.stage = done.stage /\ g.inferred_num_lock = done.inferred_num_lock
       /\ g.keypad_by_report = done.keypad_by_report
       /\ g \in FilterType
  BY <1>2, <1>6, <1>10 DEF SameKeypad, FilterType
<1>12. g.keypad_by_report = n.keypad_by_report
  BY <1>5, <1>10, <1>11 DEF SameKeypad
<1>13. AnyKeypad(g) <=> any
  BY <1>12 DEF AnyKeypad, any
<1>14. Steady(g)
  BY <1>10, <1>11, <1>13 DEF Steady
<1>15. Unmoved(f, g)
  <2> SUFFICES ASSUME f.previous_keypad, g.previous_keypad, f.stage # "TRAILING_DOWN"
               PROVE  g.stage # "TRAILING_DOWN" /\ g.inferred_num_lock = f.inferred_num_lock
    BY DEF Unmoved
  <2>1. f.stage \notin Waiting
    BY DEF Steady
  <2>2. now.stage \notin Waiting \cup {"TRAILING_DOWN"} /\ now.inferred_num_lock = f.inferred_num_lock
    BY <2>1, <1>1, <1>5 DEF Waiting
  <2> QED
    BY <2>2, <1>1, <1>8, <1>10, <1>11 DEF Waiting
<1> QED
  BY <1>3, <1>4, <1>11, <1>14, <1>15

LEMMA FrameIsSteady ==
  ASSUME NEW f \in FilterType, Steady(f), NEW g, g = Popped(advance_num_lock_sync_timeout(f))
  PROVE  g \in FilterType /\ Steady(g) /\ Unmoved(f, g) /\ g.previous_keypad = f.previous_keypad
<1> DEFINE now == advance_num_lock_sync_timeout(f)
<1>1. /\ SameKeypad(f, now)
      /\ now.stage = f.stage \/ now.stage \in {"IDLE", "PASSTHROUGH_DOWN"}
      /\ f.stage \notin Waiting => now.inferred_num_lock = f.inferred_num_lock
  BY TimeoutKeepsKeypad
<1> HIDE DEF now
<1>2. g = Popped(now)
  BY DEF now
<1>3. /\ g.keypad_by_report = now.keypad_by_report /\ g.previous_keypad = now.previous_keypad
      /\ g.stage = now.stage /\ g.inferred_num_lock = now.inferred_num_lock
      /\ g \in FilterType
  <2>1. now \in FilterType
    BY <1>1 DEF SameKeypad
  <2>2. now.pending_output_states \in Seq(BOOLEAN)
    BY <2>1 DEF FilterType
  <2>3. now.pending_output_states # << >> =>
          /\ Head(now.pending_output_states) \in BOOLEAN
          /\ Tail(now.pending_output_states) \in Seq(BOOLEAN)
    BY <2>2, HeadTailProperties
  <2> QED
    <3>1. CASE now.pending_output_states = << >>
      BY <1>2, <2>1, <3>1 DEF Popped
    <3>2. CASE now.pending_output_states # << >>
      <4> DEFINE out == Head(now.pending_output_states)
                 rest == Tail(now.pending_output_states)
      <4>1. g = [now EXCEPT !.output_num_lock = out, !.pending_output_states = rest]
        BY <1>2, <3>2 DEF Popped
      <4>2. out \in BOOLEAN /\ rest \in Seq(BOOLEAN)
        BY <2>3, <3>2
      <4> HIDE DEF out, rest
      <4> QED
        BY <2>1, <4>1, <4>2 DEF FilterType
    <3> QED
      BY <3>1, <3>2
<1>4. AnyKeypad(g) <=> AnyKeypad(f)
  BY <1>1, <1>3 DEF AnyKeypad, SameKeypad
<1> QED
  BY <1>1, <1>3, <1>4 DEF Steady, Unmoved, Waiting, SameKeypad

LEMMA PassedIsSteady ==
  ASSUME NEW f \in FilterType, Steady(f), NEW g, g = Passed(f)
  PROVE  g \in FilterType /\ Steady(g) /\ Unmoved(f, g) /\ g.previous_keypad = f.previous_keypad
<1>1. /\ g.keypad_by_report = f.keypad_by_report /\ g.previous_keypad = f.previous_keypad
      /\ g.stage = f.stage /\ g.inferred_num_lock = f.inferred_num_lock
  BY DEF Passed, FilterType
<1>2. f.deadline \in 0 .. NoDeadline /\ NUM_LOCK_SYNC_EDGE \in Nat
  BY FilterAssumption DEF FilterType
<1>3. (IF f.deadline \in 1 .. NUM_LOCK_SYNC_EDGE THEN f.deadline - 1 ELSE f.deadline) \in 0 .. NoDeadline
  BY <1>2 DEF NoDeadline
<1>4. g \in FilterType
  BY <1>3 DEF Passed, FilterType
<1> QED
  BY <1>1, <1>4 DEF Steady, Unmoved, AnyKeypad

LEMMA NewIsSteady == Steady(NewFilter) /\ ~NewFilter.previous_keypad
BY DEF NewFilter, Steady, AnyKeypad, Waiting

\* One keyboard interface, and places for all keys that are down at a time.  With two of
\* them the inference of the one changes what the keys of the other are shown as.
OneKeyboard ==
  /\ \A i, j \in Interfaces : i = j
  /\ \A held \in Held : Cardinality(held \ Modifiers) <= Places

Restores(i) == build.restores /\ filters[i].inferred_num_lock = "off"

\* A key that is shown, or yet to be shown, as it was pressed: its filter has seen the press,
\* and infers what it did then.
KeptKey(i, d) ==
  /\ filters[i] # NoFilter
  /\ filters[i].previous_keypad
  /\ filters[i].stage # "TRAILING_DOWN"
  /\ first[Keypad(d)] = "keypad" => Restores(i) \/ d \notin build.normalises
  /\ first[Keypad(d)] = "top" => d \in build.normalises /\ ~Restores(i)

\* A report that a full queue left uncleared shows the key as before, and shows nothing yet of a
\* key that is new.
StillShown(d) ==
  /\ first[Keypad(d)] = "new" => ~output_usage_active(uncleared, Keypad(d))
  /\ uncleared # Cleared =>
       /\ first[Keypad(d)] = "keypad" => output_usage_active(uncleared, Keypad(d))
       /\ first[Keypad(d)] = "top" => /\ output_usage_active(uncleared, Top(d))
                                      /\ ~output_usage_active(uncleared, Keypad(d))

KeepInv ==
  /\ keys \in [Interfaces -> Held \cup {{}}]
  /\ \A i \in Interfaces : filters[i] # NoFilter => Steady(filters[i])
  /\ \A i \in Interfaces, d \in Digits :
       Keypad(d) \in keys[i] /\ first[Keypad(d)] \in {"new", "keypad", "top"} => KeptKey(i, d)
  /\ \A d \in Digits : Keypad(d) \in pressed => StillShown(d)
  /\ alt_numpad_equals_active => \A d \in {One, Six} : first[Keypad(d)] \notin {"keypad", "top"}

LEMMA ClearedShows == \A u : ~output_usage_active(Cleared, u)
BY DEF Cleared, output_usage_active

\* In a report that was cleared there is room for all keys.
LEMMA OnePressed ==
  ASSUME OneKeyboard, KeepInv
  PROVE  /\ \A i \in Interfaces : pressed = keys[i]
         /\ uncleared = Cleared => Fits
<1>1. \A i \in Interfaces : pressed = keys[i]
  BY DEF OneKeyboard, pressed
<1>2. Cardinality({}) = 0 /\ Places \in Nat
  BY FS_EmptySet, KeypadAssumption
<1>3. Cardinality(pressed \ Modifiers) <= Places
  <2>1. CASE Interfaces = {}
    <3>1. pressed \ Modifiers = {}
      BY <2>1 DEF pressed
    <3> QED
      BY <1>2, <3>1
  <2>2. ASSUME NEW i \in Interfaces PROVE Cardinality(pressed \ Modifiers) <= Places
    <3>1. pressed = keys[i] /\ keys[i] \in Held \cup {{}}
      BY <1>1 DEF KeepInv
    <3>2. CASE keys[i] \in Held
      BY <3>1, <3>2 DEF OneKeyboard
    <3>3. CASE keys[i] = {}
      <4>1. pressed \ Modifiers = {}
        BY <3>1, <3>3
      <4> QED
        BY <1>2, <4>1
    <3> QED
      BY <3>1, <3>2, <3>3
  <2> QED
    BY <2>1, <2>2
<1>4. Cardinality(pressed \ Modifiers) \in Nat
  <2>1. pressed \subseteq Usages
    BY KeypadAssumption DEF KeepInv, pressed
  <2> QED
    BY <2>1, FiniteUsages, FS_Subset, FS_CardinalityType
<1>5. ASSUME uncleared = Cleared PROVE Fits
  <2>1. uncleared.array = {}
    BY <1>5 DEF Cleared
  <2> QED
    BY <1>2, <1>3, <1>4, <2>1 DEF Fits
<1> QED
  BY <1>1, <1>5

\* What a report says of a key follows from what the one filter infers, and from what the last
\* report said of it if that was not cleared.
LEMMA ShownAs ==
  ASSUME OneKeyboard, TypeOK, KeysInv, KeepInv, NEW i \in Interfaces, NEW d \in Digits,
         Keypad(d) \in pressed, filters[i] # NoFilter, filters[i].previous_keypad,
         d \notin {One, Six} \/ ~(Chord \/ alt_numpad_equals_active),
         NEW report \in KeyboardReports
  PROVE  /\ output_usage_active(uncleared, Keypad(d)) => output_usage_active(report, Keypad(d))
         /\ Fits /\ (Restores(i) \/ d \notin build.normalises) => output_usage_active(report, Keypad(d))
         /\ d \in build.normalises /\ ~Restores(i) =>
              /\ Fits \/ output_usage_active(uncleared, Top(d)) => output_usage_active(report, Top(d))
              /\ output_usage_active(report, Keypad(d)) => output_usage_active(uncleared, Keypad(d))
<1>1. pressed \subseteq Usages /\ uncleared \in ReportType
  BY DEF KeysInv, pressed
<1>2. PICK on \in host_num_lock_active :
        report = apply_alt_numpad_equals_chord(apply_num_lock_aware_keypad_output(Mapped, on))
  BY DEF KeyboardReports
<1>3. Restoring(on) <=> Restores(i)
  <2>1. Filtered = {i}
    BY DEF OneKeyboard, Filtered
  <2>2. physical_keypad_is_active
    BY <2>1 DEF physical_keypad_is_active, KeepInv, Steady
  <2>3. on \in BOOLEAN /\ (on <=> filters[i].inferred_num_lock # "off")
    <3>1. CASE Known = {}
      <4>1. filters[i].inferred_num_lock = "unknown" /\ host_num_lock_active = {TRUE}
        BY <2>1, <3>1 DEF Known, host_num_lock_active
      <4> QED
        BY <4>1
    <3>2. CASE Known # {}
      <4>1. Known = {i} /\ filters[i].inferred_num_lock # "unknown"
        BY <2>1, <3>2 DEF Known
      <4>2. PICK j \in Known : on = (filters[j].inferred_num_lock = "on")
        BY <3>2 DEF host_num_lock_active
      <4>3. filters[i].inferred_num_lock \in {"on", "off"}
        BY <4>1 DEF TypeOK, FilterType
      <4>4. on = (filters[i].inferred_num_lock = "on")
        BY <4>1, <4>2
      <4> QED
        BY <4>3, <4>4
    <3> QED
      BY <3>1, <3>2
  <2> QED
    BY <2>2, <2>3 DEF Restoring, Restores
<1> DEFINE restored == apply_num_lock_aware_keypad_output(Mapped, on)
<1>4. /\ Mapped \in ReportType
      /\ \A u : output_usage_active(Mapped, u) => u \in targets \/ output_usage_active(uncleared, u)
      /\ \A u : output_usage_active(uncleared, u) => output_usage_active(Mapped, u)
      /\ Fits => \A u \in targets : output_usage_active(Mapped, u)
  BY <1>1, MappedShows
<1>5. /\ restored \in ReportType
      /\ ~Restoring(on) => restored = Mapped
      /\ output_usage_active(Mapped, Keypad(d)) => output_usage_active(restored, Keypad(d))
      /\ /\ Restoring(on)
         /\ output_usage_active(Mapped, Top(d)) \/ output_usage_active(Mapped, Keypad(d))
         => output_usage_active(restored, Keypad(d))
  <2>1. Keypad(d) \notin TopKeys
    BY UsageFacts
  <2> QED
    BY <1>4, <2>1, RestoredShows
<1> HIDE DEF restored
<1>6. \A u \in {Keypad(d), Top(d)} : output_usage_active(report, u) <=> output_usage_active(restored, u)
  <2>1. report = apply_alt_numpad_equals_chord(restored)
    BY <1>2 DEF restored
  <2>2. CASE ~Chord /\ ~alt_numpad_equals_active
    BY <1>5, <2>1, <2>2, ChordShows
  <2>3. CASE d \notin {One, Six}
    <3>1. /\ \A u : u \notin ChordKeys /\ output_usage_active(restored, u) => output_usage_active(report, u)
          /\ \A u : output_usage_active(report, u) => output_usage_active(restored, u) \/ u \in {Minus, Shift}
      BY <1>5, <2>1, ChordShows
    <3>2. /\ Keypad(d) \notin ChordKeys /\ Top(d) \notin ChordKeys
          /\ Keypad(d) \notin {Minus, Shift} /\ Top(d) \notin {Minus, Shift}
      BY <2>3, ChordKeyFacts, UsageFacts
    <3> QED
      BY <3>1, <3>2
  <2> QED
    BY <2>2, <2>3
<1>7. Keypad(d) \in KeypadKeys /\ Keypad(d)[2] = d
  BY UsageFacts
<1>8. Target(Keypad(d)) = IF d \in build.normalises THEN Top(d) ELSE Keypad(d)
  BY <1>7 DEF Target
<1>9. Target(Keypad(d)) \in targets
  BY DEF targets
<1>10. ASSUME d \in build.normalises PROVE Keypad(d) \notin targets
  <2> SUFFICES ASSUME NEW key \in pressed, Target(key) = Keypad(d) PROVE FALSE
    BY DEF targets
  <2>1. CASE key \in KeypadKeys
    <3>1. PICK e \in Digits : key = Keypad(e)
      BY <2>1 DEF KeypadKeys
    <3>2. key[2] = e
      BY <3>1, UsageFacts
    <3>3. CASE e \in build.normalises
      BY <2>1, <3>2, <3>3, UsageFacts DEF Target
    <3>4. CASE e \notin build.normalises
      BY <1>10, <2>1, <3>1, <3>2, <3>4, UsageFacts DEF Target
    <3> QED
      BY <3>3, <3>4
  <2>2. CASE key \notin KeypadKeys
    BY <1>7, <2>2 DEF Target
  <2> QED
    BY <2>1, <2>2
<1>11. CASE Restores(i)
  <2>1. Fits => output_usage_active(Mapped, Top(d)) \/ output_usage_active(Mapped, Keypad(d))
    BY <1>4, <1>8, <1>9
  <2> QED
    BY <1>3, <1>4, <1>5, <1>6, <1>11, <2>1
<1>12. CASE ~Restores(i)
  <2>1. restored = Mapped
    BY <1>3, <1>5, <1>12
  <2>2. CASE d \in build.normalises
    BY <1>4, <1>6, <1>8, <1>9, <1>10, <1>12, <2>1, <2>2
  <2>3. CASE d \notin build.normalises
    BY <1>4, <1>6, <1>8, <1>9, <1>12, <2>1, <2>3
  <2> QED
    BY <2>2, <2>3
<1> QED
  BY <1>11, <1>12

\* What a key that has been shown is shown as in every report to come.
LEMMA KeepsOn ==
  ASSUME OneKeyboard, TypeOK, KeysInv, KeepInv, NEW report \in KeyboardReports, NEW d \in Digits,
         Keypad(d) \in pressed, ~(Chord /\ d \in {One, Six}), first[Keypad(d)] \in {"keypad", "top"}
  PROVE  /\ first[Keypad(d)] = "keypad" => output_usage_active(report, Keypad(d))
         /\ first[Keypad(d)] = "top" => /\ output_usage_active(report, Top(d))
                                        /\ ~output_usage_active(report, Keypad(d))
<1>1. PICK i \in Interfaces : Keypad(d) \in keys[i]
  BY DEF pressed
<1>2. KeptKey(i, d) /\ StillShown(d)
  BY <1>1 DEF KeepInv
<1>3. d \notin {One, Six} \/ ~(Chord \/ alt_numpad_equals_active)
  BY DEF KeepInv
<1>4. filters[i] # NoFilter /\ filters[i].previous_keypad
  BY <1>2 DEF KeptKey
<1>5. /\ output_usage_active(uncleared, Keypad(d)) => output_usage_active(report, Keypad(d))
      /\ Fits /\ (Restores(i) \/ d \notin build.normalises) => output_usage_active(report, Keypad(d))
      /\ d \in build.normalises /\ ~Restores(i) =>
           /\ Fits \/ output_usage_active(uncleared, Top(d)) => output_usage_active(report, Top(d))
           /\ output_usage_active(report, Keypad(d)) => output_usage_active(uncleared, Keypad(d))
  BY <1>3, <1>4, ShownAs
<1>6. CASE uncleared = Cleared
  <2>1. Fits /\ ~output_usage_active(uncleared, Keypad(d))
    BY <1>6, OnePressed, ClearedShows
  <2> QED
    BY <1>2, <1>5, <2>1 DEF KeptKey
<1>7. CASE uncleared # Cleared
  BY <1>2, <1>5, <1>7 DEF KeptKey, StillShown
<1> QED
  BY <1>6, <1>7

LEMMA KeepImplies ==
  ASSUME OneKeyboard, TypeOK, KeysInv, KeepInv
  PROVE  KeepsItsUsage
BY KeepsOn DEF KeepsItsUsage

LEMMA ChordCleared ==
  ASSUME KeysInv, Chord \/ alt_numpad_equals_active,
         NEW report \in KeyboardReports, NEW key \in ChordKeys
  PROVE  ~output_usage_active(report, key)
<1>1. pressed \subseteq Usages /\ uncleared \in ReportType
  BY DEF KeysInv, pressed
<1>2. PICK on : report = apply_alt_numpad_equals_chord(apply_num_lock_aware_keypad_output(Mapped, on))
  BY DEF KeyboardReports
<1>3. Mapped \in ReportType
  BY <1>1, MappedShows
<1>4. apply_num_lock_aware_keypad_output(Mapped, on) \in ReportType
  BY <1>3, RestoredShows
<1> QED
  BY <1>2, <1>4, ChordShows

\* A filter that did not turn round under a key keeps what the key is shown as.
LEMMA UnmovedKeeps ==
  ASSUME NEW i \in Interfaces, NEW d \in Digits, KeptKey(i, d),
         filters'[i] # NoFilter, Unmoved(filters[i], filters'[i]), filters'[i].previous_keypad,
         build' = build, first'[Keypad(d)] = first[Keypad(d)]
  PROVE  KeptKey(i, d)'
BY DEF KeptKey, Unmoved, Restores

LEMMA ReadKeeps ==
  ASSUME OneKeyboard, IInv, KeepInv, NEW i \in Interfaces, NEW r \in ReportIds,
         NEW num_lock \in BOOLEAN, NEW held \in Held, ReadReport(i, r, num_lock, held)
  PROVE  KeepInv'
<1> DEFINE keypad == held \cap KeypadKeys # {}
           f == FilterOf(i)
           n == Noted(f, r, num_lock, keypad)
           g == observe_num_lock_sync_state(n, AnyNumLock(n), AnyKeypad(n))
<1>1. /\ filters' = [filters EXCEPT ![i] = g]
      /\ keys' = [keys EXCEPT ![i] = held]
      /\ first' = [key \in KeypadKeys |->
                     IF key \in held \ pressed THEN Fresh(i, key)
                     ELSE IF key \in pressed' THEN first[key] ELSE "up"]
      /\ r \notin DefinesKeypad => held = keys[i]
      /\ build' = build /\ alt_numpad_equals_active' = alt_numpad_equals_active
      /\ uncleared' = uncleared
  BY DEF ReadReport, filter_num_lock_sync_report
<1>2. keypad \in BOOLEAN
  OBVIOUS
<1>3. f \in FilterType /\ (filters[i] # NoFilter => f = filters[i])
  BY StartsGood
<1>4. Steady(f)
  BY <1>3, NewIsSteady DEF FilterOf, KeepInv
<1> HIDE DEF keypad, f
<1>5. /\ g \in FilterType /\ Steady(g) /\ Unmoved(f, g)
      /\ r \in DefinesKeypad /\ keypad => g.previous_keypad
      /\ r \notin DefinesKeypad => (g.previous_keypad <=> f.previous_keypad)
  BY <1>2, <1>3, <1>4, ReportIsSteady
<1> HIDE DEF n, g
<1>6. /\ \A j \in Interfaces : j = i
      /\ filters'[i] = g /\ g # NoFilter
      /\ keys'[i] = held /\ pressed = keys[i] /\ pressed' = held
  <2>1. \A j \in Interfaces : j = i
    BY DEF OneKeyboard
  <2>2. filters'[i] = g /\ keys'[i] = held
    BY <1>1 DEF IInv, TypeOK, KeepInv
  <2>3. g # NoFilter
    BY <1>5, NoFilterAssumption
  <2>4. pressed = keys[i] /\ pressed' = keys'[i]
    BY <2>1 DEF pressed
  <2> QED
    BY <2>1, <2>2, <2>3, <2>4
<1>7. keys' \in [Interfaces -> Held \cup {{}}]
  BY <1>1 DEF KeepInv
<1>8. \A j \in Interfaces : filters'[j] # NoFilter => Steady(filters'[j])
  BY <1>5, <1>6
<1>9. ASSUME NEW d \in Digits, Keypad(d) \in held, first'[Keypad(d)] \in {"new", "keypad", "top"}
      PROVE  KeptKey(i, d)'
  <2>1. Keypad(d) \in KeypadKeys
    BY UsageFacts
  <2>2. keypad
    BY <1>9, <2>1 DEF keypad
  <2>3. CASE Keypad(d) \notin keys[i]
    <3>1. r \in DefinesKeypad
      BY <1>1, <1>9, <2>3
    <3>2. first'[Keypad(d)] = Fresh(i, Keypad(d))
      BY <1>1, <1>6, <1>9, <2>1, <2>3
    <3>3. g.stage # "TRAILING_DOWN" /\ first'[Keypad(d)] = "new"
      BY <1>6, <1>9, <3>2 DEF Fresh
    <3> QED
      BY <1>5, <1>6, <2>2, <3>1, <3>3 DEF KeptKey
  <2>4. CASE Keypad(d) \in keys[i]
    <3>1. first'[Keypad(d)] = first[Keypad(d)]
      BY <1>1, <1>6, <1>9, <2>1, <2>4
    <3>2. KeptKey(i, d)
      BY <1>9, <2>4, <3>1 DEF KeepInv
    <3>3. f = filters[i] /\ f.previous_keypad
      BY <1>3, <3>2 DEF KeptKey
    <3>4. g.previous_keypad
      BY <1>5, <2>2, <3>3
    <3> QED
      BY <1>1, <1>5, <1>6, <3>1, <3>2, <3>3, <3>4, UnmovedKeeps
  <2> QED
    BY <2>3, <2>4
<1>10. ASSUME NEW d \in Digits, Keypad(d) \in pressed' PROVE StillShown(d)'
  <2>1. Keypad(d) \in KeypadKeys /\ Keypad(d) \in held
    BY <1>6, <1>10, UsageFacts
  <2>2. CASE Keypad(d) \notin pressed
    <3>1. first'[Keypad(d)] = Fresh(i, Keypad(d))
      BY <1>1, <2>1, <2>2
    <3>2. /\ first'[Keypad(d)] \in {"late", "new"}
          /\ first'[Keypad(d)] = "new" => ~output_usage_active(uncleared, Keypad(d))
      BY <3>1 DEF Fresh
    <3> QED
      BY <1>1, <3>2 DEF StillShown
  <2>3. CASE Keypad(d) \in pressed
    <3>1. first'[Keypad(d)] = first[Keypad(d)]
      BY <1>1, <1>10, <2>1, <2>3
    <3>2. StillShown(d)
      BY <2>3 DEF KeepInv
    <3> QED
      BY <1>1, <3>1, <3>2 DEF StillShown
  <2> QED
    BY <2>2, <2>3
<1>11. ASSUME alt_numpad_equals_active', NEW d \in {One, Six}
       PROVE  first'[Keypad(d)] \notin {"keypad", "top"}
  <2>1. Keypad(d) \in KeypadKeys
    BY UsageFacts, KeypadAssumption
  <2>2. first[Keypad(d)] \notin {"keypad", "top"}
    BY <1>1, <1>11 DEF KeepInv
  <2>3. Fresh(i, Keypad(d)) \in {"late", "new"}
    BY DEF Fresh
  <2> QED
    BY <1>1, <2>1, <2>2, <2>3
<1> QED
  BY <1>6, <1>7, <1>8, <1>9, <1>10, <1>11 DEF KeepInv

\* A report of RollOver leaves the keys and may only hide them from the filter.
LEMMA RolloverKeeps ==
  ASSUME OneKeyboard, IInv, KeepInv, NEW i \in Interfaces, NEW r \in ReportIds,
         NEW num_lock \in BOOLEAN, NEW keypad \in BOOLEAN, RolloverReport(i, r, num_lock, keypad)
  PROVE  KeepInv'
<1> DEFINE f == FilterOf(i)
           n == Noted(f, r, num_lock, keypad)
           g == observe_num_lock_sync_state(n, AnyNumLock(n), AnyKeypad(n))
<1>1. /\ filters' = [filters EXCEPT ![i] = g]
      /\ first' = [key \in KeypadKeys |->
                     IF key \in keys[i] /\ r \in DefinesKeypad /\ ~keypad THEN "late" ELSE first[key]]
      /\ keys' = keys /\ build' = build /\ uncleared' = uncleared
      /\ alt_numpad_equals_active' = alt_numpad_equals_active
  BY DEF RolloverReport, filter_num_lock_sync_report
<1>2. f \in FilterType /\ (filters[i] # NoFilter => f = filters[i])
  BY StartsGood
<1>3. Steady(f)
  BY <1>2, NewIsSteady DEF FilterOf, KeepInv
<1> HIDE DEF f
<1>4. /\ g \in FilterType /\ Steady(g) /\ Unmoved(f, g)
      /\ r \in DefinesKeypad /\ keypad => g.previous_keypad
      /\ r \notin DefinesKeypad => (g.previous_keypad <=> f.previous_keypad)
  BY <1>2, <1>3, ReportIsSteady
<1> HIDE DEF n, g
<1>5. (\A j \in Interfaces : j = i) /\ filters'[i] = g /\ g # NoFilter
  <2>1. \A j \in Interfaces : j = i
    BY DEF OneKeyboard
  <2>2. filters'[i] = g
    BY <1>1 DEF IInv, TypeOK
  <2> QED
    BY <1>4, <2>1, <2>2, NoFilterAssumption
<1>6. \A d \in Digits : first'[Keypad(d)] \in {"late", first[Keypad(d)]}
  BY <1>1, UsageFacts
<1>7. ASSUME NEW d \in Digits, Keypad(d) \in keys[i], first'[Keypad(d)] \in {"new", "keypad", "top"}
      PROVE  KeptKey(i, d)'
  <2>1. first'[Keypad(d)] = first[Keypad(d)] /\ ~(r \in DefinesKeypad /\ ~keypad)
    BY <1>1, <1>7, UsageFacts
  <2>2. KeptKey(i, d)
    BY <1>7, <2>1 DEF KeepInv
  <2>3. f = filters[i] /\ f.previous_keypad
    BY <1>2, <2>2 DEF KeptKey
  <2>4. g.previous_keypad
    BY <1>4, <2>1, <2>3
  <2> QED
    BY <1>1, <1>4, <1>5, <2>1, <2>2, <2>3, <2>4, UnmovedKeeps
<1>8. \A j \in Interfaces : filters'[j] # NoFilter => Steady(filters'[j])
  BY <1>4, <1>5
<1>9. pressed' = pressed
  BY <1>1 DEF pressed
<1>10. ASSUME NEW d \in Digits, Keypad(d) \in pressed PROVE StillShown(d)'
  BY <1>1, <1>6, <1>10 DEF KeepInv, StillShown
<1>11. ASSUME alt_numpad_equals_active', NEW d \in {One, Six}
       PROVE  first'[Keypad(d)] \notin {"keypad", "top"}
  <2>1. d \in Digits /\ first[Keypad(d)] \notin {"keypad", "top"}
    BY <1>1, <1>11, KeypadAssumption DEF KeepInv
  <2> QED
    BY <1>6, <2>1
<1> QED
  BY <1>1, <1>5, <1>7, <1>8, <1>9, <1>10, <1>11 DEF KeepInv

LEMMA TimedKeeps ==
  ASSUME IInv, KeepInv, UNCHANGED kstate,
         \A i \in Interfaces : IF filters[i] = NoFilter THEN filters'[i] = NoFilter
                               ELSE filters'[i] \in {After(i), Passed(filters[i])}
  PROVE  KeepInv'
<1>1. /\ build' = build /\ keys' = keys /\ first' = first /\ alt_numpad_equals_active' = alt_numpad_equals_active
      /\ uncleared' = uncleared /\ pressed' = pressed
  BY DEF kstate, pressed
<1>2. ASSUME NEW i \in Interfaces, filters[i] # NoFilter
      PROVE  /\ filters'[i] # NoFilter /\ Steady(filters'[i]) /\ Unmoved(filters[i], filters'[i])
             /\ filters'[i].previous_keypad = filters[i].previous_keypad
  <2>1. filters[i] \in FilterType /\ Steady(filters[i])
    BY <1>2 DEF IInv, TypeOK, KeepInv
  <2>2. CASE filters'[i] = After(i)
    BY <2>1, <2>2, FrameIsSteady, NoFilterAssumption DEF After
  <2>3. CASE filters'[i] = Passed(filters[i])
    BY <2>1, <2>3, PassedIsSteady, NoFilterAssumption
  <2> QED
    BY <1>2, <2>2, <2>3
<1>3. \A i \in Interfaces : filters'[i] # NoFilter => Steady(filters'[i])
  BY <1>2
<1>4. ASSUME NEW i \in Interfaces, NEW d \in Digits,
             Keypad(d) \in keys'[i], first'[Keypad(d)] \in {"new", "keypad", "top"}
      PROVE  KeptKey(i, d)'
  <2>1. KeptKey(i, d)
    BY <1>1, <1>4 DEF KeepInv
  <2>2. filters[i] # NoFilter /\ filters[i].previous_keypad
    BY <2>1 DEF KeptKey
  <2> QED
    BY <1>1, <1>2, <2>1, <2>2, UnmovedKeeps
<1>5. ASSUME NEW d \in Digits, Keypad(d) \in pressed PROVE StillShown(d)'
  BY <1>1, <1>5 DEF KeepInv, StillShown
<1> QED
  BY <1>1, <1>3, <1>4, <1>5 DEF KeepInv

LEMMA ReportKeeps ==
  ASSUME OneKeyboard, TypeOK, KeysInv, KeepInv, EndFrame
  PROVE  KeepInv'
<1>1. /\ filters' = filters /\ build' = build /\ keys' = keys /\ pressed' = pressed
      /\ alt_numpad_equals_active' = Chord
  BY DEF EndFrame, vars, pressed
<1>2. PICK report \in KeyboardReports :
        /\ uncleared' \in {report, Cleared}
        /\ first' = [key \in KeypadKeys |->
                      IF Chord /\ key \in ChordKeys THEN "late" ELSE FirstShown(key, report)]
  BY DEF EndFrame
<1>3. ASSUME NEW d \in Digits
      PROVE  /\ Keypad(d) \in KeypadKeys /\ Keypad(d)[2] = d
             /\ first'[Keypad(d)] = "late" \/ first'[Keypad(d)] = FirstShown(Keypad(d), report)
             /\ Chord /\ d \in {One, Six} => first'[Keypad(d)] = "late"
  <2>1. Keypad(d) \in KeypadKeys /\ Keypad(d)[2] = d
    BY UsageFacts
  <2>2. d \in {One, Six} => Keypad(d) \in ChordKeys
    BY ChordKeyFacts
  <2> QED
    BY <1>2, <2>1, <2>2
<1>4. ASSUME NEW d \in Digits, first'[Keypad(d)] # "late"
      PROVE  /\ first[Keypad(d)] # "new" => first'[Keypad(d)] = first[Keypad(d)]
             /\ first[Keypad(d)] = "new" =>
                  /\ Fits
                  /\ first'[Keypad(d)] = IF output_usage_active(report, Keypad(d)) THEN "keypad"
                                         ELSE IF output_usage_active(report, Top(d)) THEN "top"
                                         ELSE "new"
  BY <1>3, <1>4 DEF FirstShown
<1>5. ASSUME NEW i \in Interfaces, NEW d \in Digits,
             Keypad(d) \in keys[i], first'[Keypad(d)] \in {"new", "keypad", "top"}
      PROVE  KeptKey(i, d)'
  <2>1. first[Keypad(d)] \in {"new", "keypad", "top"} /\ Keypad(d) \in pressed
    BY <1>4, <1>5 DEF pressed
  <2>2. KeptKey(i, d) /\ StillShown(d)
    BY <1>5, <2>1 DEF KeepInv
  <2>3. /\ filters'[i] # NoFilter /\ filters'[i].previous_keypad /\ filters'[i].stage # "TRAILING_DOWN"
        /\ Restores(i)' = Restores(i)
    BY <1>1, <2>2 DEF KeptKey, Restores
  <2>4. CASE first[Keypad(d)] # "new"
    <3>1. first'[Keypad(d)] = first[Keypad(d)]
      BY <1>4, <1>5, <2>4
    <3> QED
      BY <1>1, <2>2, <2>3, <3>1 DEF KeptKey
  <2>5. CASE first[Keypad(d)] = "new"
    <3>1. /\ Fits
          /\ first'[Keypad(d)] = IF output_usage_active(report, Keypad(d)) THEN "keypad"
                                 ELSE IF output_usage_active(report, Top(d)) THEN "top" ELSE "new"
      BY <1>4, <1>5, <2>5
    <3>2. ~output_usage_active(uncleared, Keypad(d))
      BY <2>2, <2>5 DEF StillShown
    <3>3. CASE d \notin {One, Six} \/ ~(Chord \/ alt_numpad_equals_active)
      <4>1. filters[i] # NoFilter /\ filters[i].previous_keypad
        BY <2>2 DEF KeptKey
      <4>2. /\ Restores(i) \/ d \notin build.normalises => output_usage_active(report, Keypad(d))
            /\ d \in build.normalises /\ ~Restores(i) =>
                 output_usage_active(report, Top(d)) /\ ~output_usage_active(report, Keypad(d))
        BY <2>1, <3>1, <3>2, <3>3, <4>1, ShownAs
      <4> QED
        BY <1>1, <2>3, <3>1, <4>2 DEF KeptKey
    <3>4. CASE d \in {One, Six} /\ (Chord \/ alt_numpad_equals_active)
      <4>1. Keypad(d) \in ChordKeys /\ Top(d) \in ChordKeys
        BY <3>4, ChordKeyFacts
      <4>2. ~output_usage_active(report, Keypad(d)) /\ ~output_usage_active(report, Top(d))
        BY <3>4, <4>1, ChordCleared
      <4> QED
        BY <2>3, <3>1, <4>2 DEF KeptKey
    <3> QED
      BY <3>3, <3>4
  <2> QED
    BY <2>4, <2>5
<1>6. ASSUME NEW d \in Digits, Keypad(d) \in pressed PROVE StillShown(d)'
  <2>1. CASE uncleared' = Cleared
    BY <2>1, ClearedShows DEF StillShown
  <2>2. CASE first'[Keypad(d)] = "late"
    BY <2>2 DEF StillShown
  <2>3. CASE uncleared' = report /\ first'[Keypad(d)] # "late"
    <3>1. CASE first[Keypad(d)] = "new"
      BY <1>4, <2>3, <3>1 DEF StillShown
    <3>2. CASE first[Keypad(d)] # "new"
      <4>1. first'[Keypad(d)] = first[Keypad(d)] /\ ~(Chord /\ d \in {One, Six})
        BY <1>3, <1>4, <2>3, <3>2
      <4>2. first[Keypad(d)] \in {"keypad", "top"} =>
              /\ first[Keypad(d)] = "keypad" => output_usage_active(report, Keypad(d))
              /\ first[Keypad(d)] = "top" => /\ output_usage_active(report, Top(d))
                                             /\ ~output_usage_active(report, Keypad(d))
        BY <1>6, <4>1, KeepsOn
      <4> QED
        BY <2>3, <3>2, <4>1, <4>2 DEF StillShown
    <3> QED
      BY <3>1, <3>2
  <2> QED
    BY <1>2, <2>1, <2>2, <2>3
<1> QED
  BY <1>1, <1>3, <1>5, <1>6, KeypadAssumption DEF KeepInv

LEMMA KeepStep ==
  ASSUME OneKeyboard, IInv, KeysInv, KeepInv, [KeypadNext]_kvars
  PROVE  KeepInv'
<1>1. ASSUME NEW i \in Interfaces, NEW r \in ReportIds, NEW num_lock \in BOOLEAN, NEW held \in Held,
             ReadReport(i, r, num_lock, held)
      PROVE  KeepInv'
  BY <1>1, ReadKeeps
<1>2. CASE BeginFrame
  <2>1. /\ UNCHANGED kstate
        /\ filters' = [i \in Interfaces |-> IF i \in Filtered THEN After(i) ELSE NoFilter]
    BY <1>2 DEF BeginFrame, apply_filtered_num_lock_states
  <2>2. \A i \in Interfaces : IF filters[i] = NoFilter THEN filters'[i] = NoFilter
                              ELSE filters'[i] \in {After(i), Passed(filters[i])}
    BY <2>1 DEF Filtered
  <2> QED
    BY <2>1, <2>2, TimedKeeps
<1>3. CASE EndFrame
  BY <1>3, ReportKeeps DEF IInv
<1>4. ASSUME NEW j \in Interfaces, device_disconnected_callback(DeviceOf[j]) PROVE KeepInv'
  <2> DEFINE gone == {i \in Interfaces : DeviceOf[i] = DeviceOf[j]}
  <2>1. /\ filters' = [i \in Interfaces |-> IF i \in gone THEN NoFilter ELSE filters[i]]
        /\ keys' = keys
        /\ first' = [key \in KeypadKeys |-> IF first[key] = "up" THEN "up" ELSE "late"]
    BY <1>4 DEF device_disconnected_callback, remove_num_lock_sync_filters
  <2> HIDE DEF gone
  <2>2. \A i \in Interfaces : filters'[i] # NoFilter => Steady(filters'[i])
    BY <2>1 DEF KeepInv
  <2>3. \A d \in Digits : first'[Keypad(d)] \notin {"new", "keypad", "top"}
    BY <2>1, UsageFacts
  <2>4. \A d \in Digits : StillShown(d)'
    BY <2>3 DEF StillShown
  <2> QED
    BY <2>1, <2>2, <2>3, <2>4, KeypadAssumption DEF KeepInv
<1>5. CASE NewConfig
  <2>1. /\ filters' = filters /\ keys' = [i \in Interfaces |-> {}]
        /\ first' = [key \in KeypadKeys |-> "up"]
    BY <1>5 DEF NewConfig, set_mapping_from_config
  <2>2. \A d \in Digits : first'[Keypad(d)] = "up"
    BY <2>1, UsageFacts
  <2>3. \A d \in Digits : StillShown(d)'
    BY <2>2 DEF StillShown
  <2> QED
    BY <2>1, <2>2, <2>3, KeypadAssumption DEF KeepInv
<1>6. CASE LetTimePass
  <2>1. /\ UNCHANGED kstate
        /\ filters' = [i \in Interfaces |-> IF i \in Filtered THEN Passed(filters[i]) ELSE NoFilter]
    BY <1>6 DEF LetTimePass, TimePasses, kstate
  <2>2. \A i \in Interfaces : IF filters[i] = NoFilter THEN filters'[i] = NoFilter
                              ELSE filters'[i] \in {After(i), Passed(filters[i])}
    BY <2>1 DEF Filtered
  <2> QED
    BY <2>1, <2>2, TimedKeeps
<1>7. CASE UNCHANGED <<filters, kstate>>
  <2>1. /\ filters' = filters /\ build' = build /\ keys' = keys /\ first' = first
        /\ alt_numpad_equals_active' = alt_numpad_equals_active
        /\ uncleared' = uncleared /\ pressed' = pressed
    BY <1>7 DEF kstate, pressed
  <2> QED
    BY <2>1 DEF KeepInv, KeptKey, StillShown, Restores
<1>8. DevicesFallSilent => UNCHANGED <<filters, kstate>>
  BY DEF DevicesFallSilent, FallSilent
<1>9. UNCHANGED kvars => UNCHANGED <<filters, kstate>>
  BY DEF kvars, vars
<1>10. ASSUME NEW i \in Interfaces, NEW r \in ReportIds, NEW num_lock \in BOOLEAN,
              NEW keypad \in BOOLEAN, RolloverReport(i, r, num_lock, keypad)
       PROVE  KeepInv'
  BY <1>10, RolloverKeeps
<1> QED
  BY <1>1, <1>2, <1>3, <1>4, <1>5, <1>6, <1>7, <1>8, <1>9, <1>10 DEF KeypadNext

\* With one keyboard the PC sees a keypad key as one thing from its press to its release, however
\* NumLock is inferred anew, reports come, frames fall and queues are full in the meantime.  Left
\* out are presses that are not shown as such in the first place, or that a report of RollOver hides
\* from the filter.
THEOREM KeysKeepTheirUsage ==
  ASSUME OneKeyboard
  PROVE  KeypadSpec => []KeepsItsUsage
<1>1. KeypadInit => KeepInv
  <2> SUFFICES ASSUME KeypadInit PROVE KeepInv
    OBVIOUS
  <2>1. pressed = {} /\ \A d \in Digits : first[Keypad(d)] = "up"
    BY UsageFacts DEF KeypadInit, pressed
  <2> QED
    BY <2>1, KeypadAssumption DEF KeypadInit, Init, KeepInv
<1>2. IInv /\ KeysInv /\ KeepInv /\ [KeypadNext]_kvars => KeepInv'
  BY KeepStep
<1>3. IInv /\ KeysInv /\ KeepInv => KeepsItsUsage
  BY KeepImplies DEF IInv
<1>4. KeypadSpec => []IInv
  BY KeypadIsFilter, AlwaysIInv, PTL
<1> QED
  BY <1>1, <1>2, <1>3, <1>4, KeysAlways, PTL DEF KeypadSpec
=============================================================================
