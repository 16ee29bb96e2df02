---------------------------- MODULE BridgeProofs ----------------------------
(***************************************************************************)
(* Bridge, for any number of interfaces, slots and ring bytes: its types,  *)
(* the slot table (HeldIsNotArmed, SlotPerInput), that A gets the reports  *)
(* of each interface in order (NextReportInOrder), that B and A agree on   *)
(* the interfaces there are (AgreeOnInterfaces), that the round-robin      *)
(* cursor lets no interface be overtaken twice (NoSecondOvertake), and     *)
(* that the bridge implements ReportStream, but for its fairness.          *)
(***************************************************************************)
EXTENDS Bridge, FiniteSetTheorems, SequenceTheorems, WellFoundedInduction, TLAPS

-----------------------------------------------------------------------------
(* Arithmetic of the round-robin cursor.                                   *)

LEMMA ModBelow == ASSUME NEW N \in Nat \ {0}, NEW a \in 0 .. N - 1 PROVE a % N = a
  BY SMT

LEMMA ModAbove ==
  ASSUME NEW N \in Nat \ {0}, NEW a \in N .. 2 * N - 1 PROVE a % N = a - N
  BY SMT

LEMMA ModRange == ASSUME NEW N \in Nat \ {0}, NEW a \in Nat PROVE a % N \in 0 .. N - 1
  BY SMT

LEMMA ModOfSum ==
  ASSUME NEW N \in Nat \ {0}, NEW a \in 0 .. N - 1, NEW x \in 0 .. N - 1
  PROVE  (a + x) % N = IF a + x < N THEN a + x ELSE a + x - N
  BY SMT

\* Going round from any slot reaches every slot.
LEMMA Round ==
  ASSUME NEW N \in Nat \ {0}, NEW a \in 0 .. N - 1, NEW s \in 0 .. N - 1
  PROVE  \E k \in 0 .. N - 1 : (a + k) % N = s
<1>1. CASE s >= a
  <2>1. s - a \in 0 .. N - 1 /\ a + (s - a) = s
    BY <1>1
  <2>2. QED
    BY <2>1, ModBelow
<1>2. CASE s < a
  <2>1. s - a + N \in 0 .. N - 1 /\ a + (s - a + N) = s + N
    BY <1>2
  <2>2. (s + N) % N = s
    BY ModAbove
  <2>3. QED
    BY <2>1, <2>2
<1>3. QED
  BY <1>1, <1>2

LEMMA LeastElement ==
  ASSUME NEW T \in SUBSET Nat, T # {}
  PROVE  \E x \in T : \A y \in T : x <= y
<1>1. PICK x \in T : \A y \in T : <<y, x>> \notin OpToRel(<, Nat)
  BY NatLessThanWellFounded, WFMin
<1>2. \A y \in T : ~(y < x)
  BY <1>1 DEF OpToRel
<1>3. QED
  BY <1>2

-----------------------------------------------------------------------------
(* The operators of the slot table.                                        *)

Table == [Slots -> [itf : Interfaces \cup {NoInterface}, report : Numbers \cup {NoReport}]]

\* The table with slot s cleared of its report.
LEMMA Clear ==
  ASSUME TypeOK, NEW s \in Slots
  PROVE  [hid_input_states EXCEPT ![s].report = NoReport]
           = [hid_input_states EXCEPT ![s] = [itf    |-> hid_input_states[s].itf,
                                              report |-> NoReport]]
<1>1. hid_input_states[s]
        \in [itf : Interfaces \cup {NoInterface}, report : Numbers \cup {NoReport}]
  BY DEF TypeOK
<1>2. [hid_input_states[s] EXCEPT !.report = NoReport]
        = [itf |-> hid_input_states[s].itf, report |-> NoReport]
  BY <1>1
<1>3. QED
  BY <1>2

LEMMA ClearType ==
  ASSUME TypeOK, NEW s \in Slots
  PROVE  [hid_input_states EXCEPT ![s].report = NoReport] \in Table
<1>1. [itf |-> hid_input_states[s].itf, report |-> NoReport]
        \in [itf : Interfaces \cup {NoInterface}, report : Numbers \cup {NoReport}]
  BY DEF TypeOK
<1>2. QED
  BY <1>1, Clear DEF TypeOK, Table

\* The flush acts on a slot that holds a report.
LEMMA CurrentIsPending ==
  ASSUME TypeOK, has_pending_hid_reports
  PROVE  Current \in Slots /\ Pending(Current)
<1> USE BridgeAssumption DEF Slots
<1> DEFINE after(k) == (next_pending_hid_input + k) % CFG_TUH_HID
           T == {k \in Slots : Pending(after(k))}
<1>1. PICK s \in Slots : Pending(s)
  BY DEF has_pending_hid_reports
<1>2. PICK k \in Slots : after(k) = s
  BY Round DEF TypeOK
<1>3. PICK m \in T : \A n \in T : m <= n
  <2>1. T # {} /\ T \in SUBSET Nat
    BY <1>1, <1>2
  <2>2. QED
    BY <2>1, LeastElement
<1> DEFINE IsFirst(x) == Pending(after(x)) /\ \A n \in Slots : n < x => ~Pending(after(n))
<1>4. m \in Slots /\ IsFirst(m)
  BY <1>3
<1> DEFINE first == CHOOSE x \in Slots : IsFirst(x)
<1>5. first \in Slots /\ IsFirst(first)
  <2> HIDE DEF IsFirst
  <2>1. QED
    BY <1>4
<1>6. after(first) \in Slots
  <2>1. \A x \in Slots : after(x) \in Slots
    BY ModRange DEF TypeOK
  <2> HIDE DEF first, after
  <2>2. QED
    BY <1>5, <2>1
<1>7. Current = after(first)
  BY DEF Current
<1>8. QED
  BY <1>5, <1>6, <1>7

\* Registering keeps every slot but at most one inactive one, which becomes the
\* interface's.
LEMMA Register ==
  ASSUME TypeOK, NEW i \in Interfaces
  PROVE  \/ /\ register_hid_input(i) = hid_input_states
            /\ \/ \E s \in Slots : hid_input_states[s].itf = i
               \/ \A s \in Slots : Active(s)
         \/ /\ \A s \in Slots : hid_input_states[s].itf # i
            /\ \E f \in Slots :
                 /\ ~Active(f)
                 /\ register_hid_input(i) =
                      [hid_input_states EXCEPT ![f] = [itf |-> i, report |-> NoReport]]
<1> DEFINE free == {s \in Slots : ~Active(s)}
           first == CHOOSE s \in free : \A t \in free : s <= t
<1>1. CASE (\E s \in Slots : hid_input_states[s].itf = i) \/ free = {}
  BY <1>1 DEF register_hid_input
<1>2. CASE ~((\E s \in Slots : hid_input_states[s].itf = i) \/ free = {})
  <2>1. free \in SUBSET Nat
    BY BridgeAssumption DEF Slots
  <2>2. first \in free
    BY <1>2, <2>1, LeastElement
  <2>3. register_hid_input(i) =
          [hid_input_states EXCEPT ![first] = [itf |-> i, report |-> NoReport]]
    BY <1>2 DEF register_hid_input
  <2>4. QED
    BY <1>2, <2>2, <2>3
<1>3. QED
  BY <1>1, <1>2

LEMMA RegisterType ==
  ASSUME TypeOK, NEW i \in Interfaces
  PROVE  register_hid_input(i) \in Table
<1>1. hid_input_states \in Table
  BY DEF TypeOK, Table
<1>2. [itf |-> i, report |-> NoReport]
        \in [itf : Interfaces \cup {NoInterface}, report : Numbers \cup {NoReport}]
  OBVIOUS
<1>3. QED
  BY <1>1, <1>2, Register DEF Table

-----------------------------------------------------------------------------
(* Type correctness.                                                       *)

LEMMA InitType == Init => TypeOK
  BY BridgeAssumption DEF Init, TypeOK, Slots, Numbers, FreeSlot

LEMMA WriteType ==
  ASSUME TypeOK, NEW f \in Frames, WriteFrame(f)
  PROVE  line' \in Seq(Frames) /\ buf_items' \in 0 .. BUFFER_SIZE
  BY DEF TypeOK, WriteFrame

LEMMA SentType ==
  ASSUME TypeOK, NEW i \in Interfaces, RecordSent(i)
  PROVE  sent' \in [Interfaces -> Numbers] /\ passed' \in [Interfaces -> SUBSET Interfaces]
<1>1. sent' \in [Interfaces -> Numbers]
  BY DEF TypeOK, RecordSent
<1>2. \A j \in Interfaces : passed[j] \in SUBSET Interfaces
  BY DEF TypeOK
<1>3. passed' \in [Interfaces -> SUBSET Interfaces]
  BY <1>2 DEF RecordSent
<1>4. QED
  BY <1>1, <1>3

LEMMA TypeStep == TypeOK /\ [Next]_vars => TypeOK'
<1> SUFFICES ASSUME TypeOK, [Next]_vars PROVE TypeOK'
  OBVIOUS
<1> USE BridgeAssumption
<1> USE DEF inputs, uart, history
<1>0. /\ 0 \in Numbers /\ next_pending_hid_input \in Nat
      /\ \A s \in Slots : NextSlot(s) \in Slots
      /\ \A n \in Numbers : (n + 1) % ReportNumbers \in Numbers
  BY ModRange DEF Numbers, NextSlot, Slots, TypeOK
<1>1. CASE SerialRead
  BY <1>1 DEF SerialRead, serial_read, TypeOK
<1>2. CASE FlushSend
  <2> DEFINE held == hid_input_states[Current]
  <2>1. Current \in Slots /\ Pending(Current)
    BY <1>2, CurrentIsPending DEF FlushSend
  <2>2. held.itf \in Interfaces /\ held.report \in Numbers
    BY <2>1 DEF TypeOK, Pending, Active
  <2>3. Frame("report", held.itf, held.report) \in Frames
    BY <2>2 DEF Frame, Frames
  <2>4. line' \in Seq(Frames) /\ buf_items' \in 0 .. BUFFER_SIZE
    BY <1>2, <2>3, WriteType DEF FlushSend
  <2>5. ep' \in [Interfaces -> {"closed", "idle", "armed", "done"}]
    <3>1. PICK e \in {"closed", "idle", "armed", "done"} :
            ep' = [ep EXCEPT ![held.itf] = e]
      BY <1>2, <2>2 DEF FlushSend, ArmResults, TypeOK
    <3>2. QED
      BY <3>1 DEF TypeOK
  <2>6. sent' \in [Interfaces -> Numbers] /\ passed' \in [Interfaces -> SUBSET Interfaces]
    BY <1>2, <2>2, SentType DEF FlushSend
  <2>7. hid_input_states' \in Table
    <3>1. hid_input_states' = [hid_input_states EXCEPT ![Current].report = NoReport]
      BY <1>2 DEF FlushSend
    <3>2. QED
      BY <2>1, <3>1, ClearType
  <2>8. next_pending_hid_input' \in Slots
    BY <1>2, <2>1, <1>0 DEF FlushSend
  <2>9. QED
    BY <1>2, <2>4, <2>5, <2>6, <2>7, <2>8 DEF FlushSend, TypeOK, Table
<1>3. CASE FlushBlocked
  BY <1>3, CurrentIsPending DEF FlushBlocked, TypeOK
<1>4. CASE FlushDone
  BY <1>4 DEF FlushDone, TypeOK
<1>5. ASSUME NEW i \in Interfaces, ReceiveSend(i) PROVE TypeOK'
  <2>1. Frame("report", i, taken[i]) \in Frames
    BY DEF Frame, Frames, TypeOK
  <2>2. line' \in Seq(Frames) /\ buf_items' \in 0 .. BUFFER_SIZE
    BY <1>5, <2>1, WriteType DEF ReceiveSend
  <2>3. sent' \in [Interfaces -> Numbers] /\ passed' \in [Interfaces -> SUBSET Interfaces]
    BY <1>5, SentType DEF ReceiveSend
  <2>4. ep' \in [Interfaces -> {"closed", "idle", "armed", "done"}]
    BY <1>5 DEF ReceiveSend, TypeOK
  <2>5. hid_input_states' \in Table
    BY <1>5, RegisterType DEF ReceiveSend
  <2>6. QED
    BY <1>5, <2>2, <2>3, <2>4, <2>5 DEF ReceiveSend, TypeOK, Table
<1>6. ASSUME NEW i \in Interfaces, ReceiveHold(i) PROVE TypeOK'
  <2>1. hid_input_states' \in Table
    <3>1. register_hid_input(i) \in Table /\ taken[i] \in Numbers
      BY RegisterType DEF TypeOK
    <3>2. QED
      BY <1>6, <3>1 DEF ReceiveHold, Table
  <2>2. QED
    BY <1>6, <2>1 DEF ReceiveHold, TypeOK, Table
<1>7. ASSUME NEW i \in Interfaces, tuh_hid_mount_cb(i) PROVE TypeOK'
  <2>1. Frame("connected", i, 0) \in Frames
    BY <1>0 DEF Frame, Frames
  <2>2. line' \in Seq(Frames) /\ buf_items' \in 0 .. BUFFER_SIZE
    BY <1>7, <2>1, WriteType DEF tuh_hid_mount_cb
  <2>3. hid_input_states' \in Table
    BY <1>7, RegisterType DEF tuh_hid_mount_cb, TypeOK, Table
  <2>4. ep' \in [Interfaces -> {"closed", "idle", "armed", "done"}]
    BY <1>7 DEF tuh_hid_mount_cb, arm_ready_hid_inputs, TypeOK
  <2>5. plugs' \in 0 .. MaxPlugs
    BY <1>7 DEF tuh_hid_mount_cb, TypeOK
  <2>6. QED
    BY <1>7, <2>2, <2>3, <2>4, <2>5 DEF tuh_hid_mount_cb, TypeOK, Table
<1>8. ASSUME NEW i \in Interfaces, tuh_hid_umount_cb(i) PROVE TypeOK'
  <2>1. Frame("disconnected", i, 0) \in Frames
    BY <1>0 DEF Frame, Frames
  <2>2. line' \in Seq(Frames) /\ buf_items' \in 0 .. BUFFER_SIZE
    BY <1>8, <2>1, WriteType DEF tuh_hid_umount_cb
  <2>3. hid_input_states' \in Table
    BY <1>8 DEF tuh_hid_umount_cb, unregister_hid_input, FreeSlot, TypeOK, Table
  <2>4. passed' \in [Interfaces -> SUBSET Interfaces]
    <3>1. \A j \in Interfaces : passed[j] \in SUBSET Interfaces
      BY DEF TypeOK
    <3>2. QED
      BY <1>8, <3>1 DEF tuh_hid_umount_cb
  <2>5. leaving' \subseteq Interfaces /\ pc' = "task"
    BY <1>8 DEF tuh_hid_umount_cb, Mounted
  <2>6. QED
    BY <1>0, <1>8, <2>2, <2>3, <2>4, <2>5 DEF tuh_hid_umount_cb, TypeOK, Table
<1>9. CASE tuh_sof_cb
  <2>1. Frame("sof", NoInterface, 0) \in Frames
    BY DEF Frame, Frames
  <2>2. line' \in Seq(Frames) /\ buf_items' \in 0 .. BUFFER_SIZE
    BY <1>9, <2>1, WriteType DEF tuh_sof_cb
  <2>3. QED
    BY <1>9, <2>2 DEF tuh_sof_cb, TypeOK
<1>10. CASE ArmInputs
  BY <1>10 DEF ArmInputs, InTask, arm_ready_hid_inputs, TypeOK
<1>11. ASSUME NEW i \in Interfaces, Complete(i) PROVE TypeOK'
  BY <1>0, <1>11 DEF Complete, TypeOK
<1>12. CASE AHandle
  <2>1. line' \in Seq(Frames) /\ Head(line) \in Frames
    BY <1>12 DEF AHandle, TypeOK
  <2>2. a_connected' \subseteq Interfaces
    BY <1>12, <2>1 DEF AHandle, TypeOK, Frames
  <2>3. got' \in [Interfaces -> Numbers]
    BY <1>12, <2>1 DEF AHandle, TypeOK, Frames
  <2>4. QED
    BY <1>12, <2>1, <2>2, <2>3 DEF AHandle, TypeOK
<1>13. CASE UNCHANGED vars
  BY <1>13 DEF vars, TypeOK
<1>14. QED
  BY <1>1, <1>2, <1>3, <1>4, <1>5, <1>6, <1>7, <1>8, <1>9, <1>10, <1>11, <1>12, <1>13
  DEF Next, Callback

\* Every variable of Bridge keeps its type: in particular the ring never holds
\* more than BUFFER_SIZE bytes and the cursor always names a slot.
THEOREM TypeCorrect == Spec => []TypeOK
<1>1. QED
  BY InitType, TypeStep, PTL DEF Spec
-----------------------------------------------------------------------------
(* The slot table.                                                         *)

SlotInv == HeldIsNotArmed /\ SlotPerInput

\* When TinyUSB still mounts another interface there is a slot left for it: the
\* slots in use name different mounted interfaces.
LEMMA SlotLeft ==
  ASSUME TypeOK, SlotInv, Cardinality(Mounted) < CFG_TUH_HID
  PROVE  \E s \in Slots : ~Active(s)
<1> SUFFICES ASSUME \A s \in Slots : Active(s) PROVE FALSE
  OBVIOUS
<1> DEFINE f == [s \in Slots |-> hid_input_states[s].itf]
<1>1. IsFiniteSet(Slots) /\ Cardinality(Slots) = CFG_TUH_HID
  BY FS_Interval, BridgeAssumption DEF Slots
<1>2. IsFiniteSet(Mounted)
  BY FS_Subset, BridgeAssumption DEF Mounted
<1>3. f \in [Slots -> Mounted]
  BY DEF SlotInv, SlotPerInput
<1>4. Cardinality(Mounted) < Cardinality(Slots)
  BY <1>1
<1>5. \E x, y \in Slots : x # y /\ f[x] = f[y]
  <2> HIDE DEF f
  <2>1. QED
    BY <1>1, <1>2, <1>3, <1>4, FS_PigeonHole
<1>6. QED
  BY <1>5 DEF SlotInv, SlotPerInput

\* Registering keeps every active slot and keeps interfaces and slots apart.
LEMMA RegisterKeeps ==
  ASSUME TypeOK, SlotPerInput, NEW i \in Interfaces
  PROVE  /\ \A s \in Slots : Active(s) => register_hid_input(i)[s] = hid_input_states[s]
         /\ \A s \in Slots : ~Active(s) =>
              \/ register_hid_input(i)[s] = hid_input_states[s]
              \/ register_hid_input(i)[s] = [itf |-> i, report |-> NoReport]
         /\ \A s, t \in Slots :
              register_hid_input(i)[s].itf # NoInterface
              /\ register_hid_input(i)[s].itf = register_hid_input(i)[t].itf
              => s = t
<1>1. CASE register_hid_input(i) = hid_input_states
  BY <1>1 DEF SlotPerInput, Active
<1>2. CASE register_hid_input(i) # hid_input_states
  <2>1. \A s \in Slots : hid_input_states[s].itf # i
    BY <1>2, Register
  <2>2. PICK f \in Slots :
          /\ ~Active(f)
          /\ register_hid_input(i) = [hid_input_states EXCEPT ![f] = [itf |-> i, report |-> NoReport]]
    BY <1>2, Register
  <2>3. \A s \in Slots : register_hid_input(i)[s] =
          IF s = f THEN [itf |-> i, report |-> NoReport] ELSE hid_input_states[s]
    BY <2>2 DEF TypeOK
  <2>4. QED
    BY <2>1, <2>2, <2>3 DEF SlotPerInput, Active
<1>3. QED
  BY <1>1, <1>2

\* SlotInv only reads the table and the endpoints.
LEMMA SlotInvFrame ==
  ASSUME SlotInv, UNCHANGED <<hid_input_states, ep>>
  PROVE  SlotInv'
  BY DEF SlotInv, HeldIsNotArmed, SlotPerInput, Mounted, Pending, Active

\* Arming an endpoint whose slot holds nothing.
LEMMA SlotInvArm ==
  ASSUME TypeOK, SlotInv, UNCHANGED hid_input_states,
         arm_ready_hid_inputs(hid_input_states, ep)
  PROVE  SlotInv'
<1>1. PICK armed \in SUBSET Ready(hid_input_states, ep) :
        ep' = [i \in Interfaces |-> IF i \in armed THEN "armed" ELSE ep[i]]
  BY DEF arm_ready_hid_inputs
<1>2. \A i \in armed : /\ i \in Interfaces /\ ep[i] = "idle"
                       /\ \E t \in Slots : hid_input_states[t] = [itf |-> i, report |-> NoReport]
  BY DEF Ready
<1>3. Mounted' = Mounted
  BY <1>1, <1>2 DEF Mounted, TypeOK
<1>4. HeldIsNotArmed'
  <2> SUFFICES ASSUME NEW s \in Slots, Pending(s)
               PROVE  ep'[hid_input_states[s].itf] = "idle"
    BY DEF HeldIsNotArmed, Pending, Active
  <2> DEFINE i == hid_input_states[s].itf
  <2>1. i \in Interfaces /\ ep[i] = "idle"
    BY DEF SlotInv, HeldIsNotArmed, Pending, Active, TypeOK
  <2>2. i \notin armed
    <3> SUFFICES ASSUME i \in armed PROVE FALSE
      OBVIOUS
    <3>1. PICK t \in Slots : hid_input_states[t] = [itf |-> i, report |-> NoReport]
      BY <1>2
    <3>2. t = s
      BY <3>1 DEF SlotInv, SlotPerInput, Pending, Active
    <3>3. QED
      BY <3>1, <3>2 DEF Pending
  <2>3. QED
    BY <1>1, <2>1, <2>2
<1>5. SlotPerInput'
  BY <1>3 DEF SlotInv, SlotPerInput, Active
<1>6. QED
  BY <1>4, <1>5 DEF SlotInv

LEMMA SlotInvStep == TypeOK /\ SlotInv /\ [Next]_vars => SlotInv'
<1> SUFFICES ASSUME TypeOK, SlotInv, [Next]_vars PROVE SlotInv'
  OBVIOUS
<1> USE BridgeAssumption
<1> USE DEF inputs, uart, history
<1>1. CASE SerialRead
  BY <1>1, SlotInvFrame DEF SerialRead, serial_read
<1>2. CASE FlushSend
  <2> DEFINE c == Current
             i == hid_input_states[c].itf
  <2>1. c \in Slots /\ Pending(c) /\ i \in Interfaces /\ ep[i] = "idle"
    BY <1>2, CurrentIsPending DEF FlushSend, SlotInv, HeldIsNotArmed, Pending, Active, TypeOK
  <2>2. hid_input_states' = [hid_input_states EXCEPT ![c] = [itf |-> i, report |-> NoReport]]
    BY <1>2, <2>1, Clear DEF FlushSend
  <2>3. PICK e \in {"idle", "armed"} : ep' = [ep EXCEPT ![i] = e]
    BY <1>2, <2>1 DEF FlushSend, ArmResults
  <2> HIDE DEF c, i
  <2>4. Mounted' = Mounted
    BY <2>1, <2>3 DEF Mounted, TypeOK
  <2>5. \A s \in Slots : hid_input_states'[s].itf = hid_input_states[s].itf
    <3>1. \A s \in Slots : hid_input_states'[s] =
            IF s = c THEN [itf |-> i, report |-> NoReport] ELSE hid_input_states[s]
      BY <2>1, <2>2 DEF TypeOK
    <3>2. QED
      BY <3>1 DEF i
  <2>6. SlotPerInput'
    BY <2>4, <2>5 DEF SlotInv, SlotPerInput, Active
  <2>7. HeldIsNotArmed'
    <3> SUFFICES ASSUME NEW s \in Slots, Pending(s)'
                 PROVE  ep'[hid_input_states'[s].itf] = "idle"
      BY DEF HeldIsNotArmed
    <3>1. s # c
      BY <2>1, <2>2 DEF Pending, TypeOK
    <3>2. hid_input_states'[s] = hid_input_states[s] /\ Pending(s)
      BY <2>2, <3>1 DEF TypeOK, Pending, Active
    <3>3. hid_input_states[s].itf # i
      BY <2>1, <3>1, <3>2 DEF SlotInv, SlotPerInput, Pending, i
    <3>4. ep[hid_input_states[s].itf] = "idle" /\ hid_input_states[s].itf \in Interfaces
      BY <3>2 DEF SlotInv, HeldIsNotArmed, Pending, Active, TypeOK
    <3>5. QED
      BY <2>3, <3>2, <3>3, <3>4 DEF TypeOK
  <2>8. QED
    BY <2>6, <2>7 DEF SlotInv
<1>3. CASE FlushBlocked
  BY <1>3, SlotInvFrame DEF FlushBlocked
<1>4. CASE FlushDone
  BY <1>4, SlotInvFrame DEF FlushDone
<1>5. ASSUME NEW i \in Interfaces, ReceiveSend(i) PROVE SlotInv'
  <2>1. /\ ep[i] = "done"
        /\ hid_input_states' = register_hid_input(i)
        /\ \A s \in Slots : ~Pending(s)
    BY <1>5 DEF ReceiveSend, has_pending_hid_reports
  <2>2. PICK e \in {"idle", "armed"} : ep' = [ep EXCEPT ![i] = e]
    BY <1>5 DEF ReceiveSend
  <2>3. Mounted' = Mounted
    BY <2>1, <2>2 DEF Mounted, TypeOK
  <2>4. SlotPerInput
    BY DEF SlotInv
  <2>5. /\ \A s \in Slots : Active(s) => hid_input_states'[s] = hid_input_states[s]
        /\ \A s \in Slots : ~Active(s) =>
             \/ hid_input_states'[s] = hid_input_states[s]
             \/ hid_input_states'[s] = [itf |-> i, report |-> NoReport]
        /\ \A s, t \in Slots : hid_input_states'[s].itf # NoInterface
                              /\ hid_input_states'[s].itf = hid_input_states'[t].itf => s = t
    BY <2>1, <2>4, RegisterKeeps
  <2>6. \A s \in Slots : ~Pending(s)'
    BY <2>1, <2>5 DEF Pending, Active
  <2>7. SlotPerInput'
    <3>1. i \in Mounted
      BY <2>1 DEF Mounted
    <3>2. QED
      BY <2>3, <2>4, <2>5, <3>1 DEF SlotPerInput, Active
  <2>8. QED
    BY <2>6, <2>7 DEF SlotInv, HeldIsNotArmed
<1>6. ASSUME NEW i \in Interfaces, ReceiveHold(i) PROVE SlotInv'
  <2> DEFINE r == register_hid_input(i)
  <2>1. /\ ep[i] = "done"
        /\ ep' = [ep EXCEPT ![i] = "idle"]
        /\ \A s \in Slots : hid_input_states'[s] =
             IF r[s].itf = i THEN [itf |-> i, report |-> taken[i]] ELSE r[s]
    BY <1>6 DEF ReceiveHold
  <2>2. Mounted' = Mounted
    BY <2>1 DEF Mounted, TypeOK
  <2>3. \A s \in Slots : hid_input_states'[s].itf = r[s].itf
    BY <2>1
  <2>4. /\ \A j \in Mounted \cap HasInput : \E s \in Slots : r[s].itf = j
        /\ \A s \in Slots : r[s].itf # NoInterface => r[s].itf \in Mounted
        /\ \A s, t \in Slots : r[s].itf # NoInterface /\ r[s].itf = r[t].itf => s = t
        /\ \A s \in Slots : r[s].itf # i => r[s] = hid_input_states[s]
    <3>1. i \in Mounted /\ i \in Interfaces /\ SlotPerInput
      BY <2>1 DEF Mounted, SlotInv
    <3>2. /\ \A s \in Slots : Active(s) => r[s] = hid_input_states[s]
          /\ \A s \in Slots : ~Active(s) =>
               r[s] = hid_input_states[s] \/ r[s] = [itf |-> i, report |-> NoReport]
          /\ \A s, t \in Slots : r[s].itf # NoInterface /\ r[s].itf = r[t].itf => s = t
      BY <3>1, RegisterKeeps
    <3> HIDE DEF r
    <3>3. QED
      BY <3>1, <3>2 DEF SlotPerInput, Active
  <2>5. SlotPerInput'
    BY <2>2, <2>3, <2>4 DEF SlotPerInput, Active
  <2>6. HeldIsNotArmed'
    <3> SUFFICES ASSUME NEW s \in Slots, Pending(s)'
                 PROVE  ep'[hid_input_states'[s].itf] = "idle"
      BY DEF HeldIsNotArmed
    <3>1. CASE r[s].itf = i
      BY <2>1, <3>1 DEF TypeOK
    <3>2. CASE r[s].itf # i
      <4>1. hid_input_states'[s] = hid_input_states[s] /\ Pending(s)
        BY <2>1, <2>4, <3>2 DEF Pending, Active
      <4>2. ep[hid_input_states[s].itf] = "idle" /\ hid_input_states[s].itf \in Interfaces
        BY <4>1 DEF SlotInv, HeldIsNotArmed, Pending, Active, TypeOK
      <4>3. QED
        BY <2>1, <4>1, <4>2 DEF TypeOK
    <3>3. QED
      BY <3>1, <3>2
  <2>7. QED
    BY <2>5, <2>6 DEF SlotInv
<1>7. ASSUME NEW i \in Interfaces, tuh_hid_mount_cb(i) PROVE SlotInv'
  <2>1. i \notin Mounted /\ ep[i] = "closed"
    BY <1>7 DEF tuh_hid_mount_cb, Mounted
  <2>2. \E s \in Slots : ~Active(s)
    BY <1>7, SlotLeft DEF tuh_hid_mount_cb
  <2>3. \A s \in Slots : hid_input_states[s].itf # i
    BY <2>1 DEF SlotInv, SlotPerInput, Active
  <2>4. CASE i \in HasInput
    <3>1. PICK f \in Slots :
            /\ ~Active(f)
            /\ hid_input_states' = [hid_input_states EXCEPT ![f] = [itf |-> i, report |-> NoReport]]
      BY <1>7, <2>2, <2>3, <2>4, Register DEF tuh_hid_mount_cb
    <3>2. PICK armed \in SUBSET Ready(hid_input_states', [ep EXCEPT ![i] = "idle"]) :
            ep' = [j \in Interfaces |-> IF j \in armed THEN "armed"
                                        ELSE [ep EXCEPT ![i] = "idle"][j]]
      BY <1>7, <2>4 DEF tuh_hid_mount_cb, arm_ready_hid_inputs
    <3>3. \A j \in armed :
            /\ j \in Interfaces
            /\ j = i \/ ep[j] = "idle"
            /\ \E t \in Slots : hid_input_states'[t] = [itf |-> j, report |-> NoReport]
      BY <3>2 DEF Ready, TypeOK
    <3>4. Mounted' = Mounted \cup {i}
      <4>1. \A j \in Interfaces : ep'[j] # "closed" <=> (ep[j] # "closed" \/ j = i)
        BY <3>2, <3>3 DEF TypeOK
      <4>2. QED
        BY <4>1 DEF Mounted
    <3>5. SlotPerInput'
      <4>1. \A s \in Slots : hid_input_states'[s] =
              IF s = f THEN [itf |-> i, report |-> NoReport] ELSE hid_input_states[s]
        BY <3>1 DEF TypeOK
      <4>2. QED
        BY <2>3, <3>1, <3>4, <4>1, BridgeAssumption DEF SlotInv, SlotPerInput, Active
    <3>6. HeldIsNotArmed'
      <4> SUFFICES ASSUME NEW s \in Slots, Pending(s)'
                   PROVE  ep'[hid_input_states'[s].itf] = "idle"
        BY DEF HeldIsNotArmed
      <4> DEFINE j == hid_input_states'[s].itf
      <4>1. s # f /\ hid_input_states'[s] = hid_input_states[s] /\ Pending(s)
        BY <3>1 DEF Pending, Active, TypeOK
      <4>2. j \in Interfaces /\ j # i /\ ep[j] = "idle"
        BY <2>3, <4>1 DEF SlotInv, HeldIsNotArmed, Pending, Active, TypeOK
      <4>3. j \notin armed
        <5> SUFFICES ASSUME j \in armed PROVE FALSE
          OBVIOUS
        <5>1. PICK t \in Slots : hid_input_states'[t] = [itf |-> j, report |-> NoReport]
          BY <3>3
        <5>2. t = s
          BY <3>5, <5>1 DEF SlotPerInput, Pending, Active
        <5>3. QED
          BY <5>1, <5>2 DEF Pending
      <4>4. QED
        BY <3>2, <4>2, <4>3 DEF TypeOK
    <3>7. QED
      BY <3>5, <3>6 DEF SlotInv
  <2>5. CASE i \notin HasInput
    <3>1. ep' = [ep EXCEPT ![i] = "idle"] /\ UNCHANGED hid_input_states
      BY <1>7, <2>5 DEF tuh_hid_mount_cb
    <3>2. Mounted' = Mounted \cup {i}
      BY <3>1 DEF Mounted, TypeOK
    <3>3. SlotPerInput'
      BY <2>5, <3>1, <3>2 DEF SlotInv, SlotPerInput, Active
    <3>4. HeldIsNotArmed'
      BY <2>3, <3>1 DEF SlotInv, HeldIsNotArmed, Pending, Active, TypeOK
    <3>5. QED
      BY <3>3, <3>4 DEF SlotInv
  <2>6. QED
    BY <2>4, <2>5
<1>8. ASSUME NEW i \in Interfaces, tuh_hid_umount_cb(i) PROVE SlotInv'
  <2>1. /\ ep' = [ep EXCEPT ![i] = "closed"]
        /\ hid_input_states' = [s \in Slots |-> IF hid_input_states[s].itf = i
                                                THEN FreeSlot ELSE hid_input_states[s]]
    BY <1>8 DEF tuh_hid_umount_cb, unregister_hid_input
  <2>2. Mounted' = Mounted \ {i}
    BY <2>1 DEF Mounted, TypeOK
  <2>3. \A s \in Slots : Active(s)' => /\ hid_input_states'[s] = hid_input_states[s]
                                       /\ hid_input_states[s].itf # i
    BY <2>1 DEF Active, FreeSlot
  <2>4. SlotPerInput'
    BY <2>1, <2>2, <2>3 DEF SlotInv, SlotPerInput, Active
  <2>5. HeldIsNotArmed'
    BY <2>1, <2>3 DEF SlotInv, HeldIsNotArmed, Pending, Active, TypeOK
  <2>6. QED
    BY <2>4, <2>5 DEF SlotInv
<1>9. CASE tuh_sof_cb
  BY <1>9, SlotInvFrame DEF tuh_sof_cb
<1>10. CASE ArmInputs
  BY <1>10, SlotInvArm DEF ArmInputs
<1>11. ASSUME NEW i \in Interfaces, Complete(i) PROVE SlotInv'
  <2>1. ep[i] = "armed" /\ ep' = [ep EXCEPT ![i] = "done"] /\ UNCHANGED hid_input_states
    BY <1>11 DEF Complete
  <2>2. Mounted' = Mounted
    BY <2>1 DEF Mounted, TypeOK
  <2>3. SlotPerInput'
    BY <2>1, <2>2 DEF SlotInv, SlotPerInput, Active
  <2>4. HeldIsNotArmed'
    BY <2>1 DEF SlotInv, HeldIsNotArmed, Pending, Active, TypeOK
  <2>5. QED
    BY <2>3, <2>4 DEF SlotInv
<1>12. CASE AHandle
  BY <1>12, SlotInvFrame DEF AHandle
<1>13. CASE UNCHANGED vars
  BY <1>13, SlotInvFrame DEF vars
<1>14. QED
  BY <1>1, <1>2, <1>3, <1>4, <1>5, <1>6, <1>7, <1>8, <1>9, <1>10, <1>11, <1>12, <1>13
  DEF Next, Callback

LEMMA InitSlotInv == Init => SlotInv
  BY BridgeAssumption
  DEF Init, SlotInv, HeldIsNotArmed, SlotPerInput, Mounted, Pending, Active, FreeSlot

\* A held report is never overwritten: its endpoint has no transfer under way.
THEOREM HeldNeverArmed == Spec => []HeldIsNotArmed
<1>1. TypeOK /\ SlotInv => HeldIsNotArmed
  BY DEF SlotInv
<1>2. QED
  BY InitType, TypeStep, InitSlotInv, SlotInvStep, <1>1, PTL DEF Spec

\* The table always has room for another mounted interface, and its slots and
\* the mounted input interfaces stay in one-to-one correspondence.
THEOREM SlotForEveryInput == Spec => []SlotPerInput
<1>1. TypeOK /\ SlotInv => SlotPerInput
  BY DEF SlotInv
<1>2. QED
  BY InitType, TypeStep, InitSlotInv, SlotInvStep, <1>1, PTL DEF Spec
-----------------------------------------------------------------------------
(* Reports in order.  On the line, consecutive frames of an interface are   *)
(* consecutive reports of it; the first one continues what A has, and the   *)
(* last one is what B has sent.  A disconnect frame, with which A drops the *)
(* whole device, has no report of the device behind it but after a new      *)
(* connect frame.  On B, an interface's newest report is the one sent last, *)
(* or the next one if it is held or in a completed transfer.                *)

At(p, i) == line[p].itf = i

FramesFollow ==
  \A i \in Interfaces : \A p, q \in 1 .. Len(line) :
    /\ p < q /\ At(p, i) /\ At(q, i)
    /\ \A r \in 1 .. Len(line) : p < r /\ r < q => ~At(r, i)
    /\ line[q].type = "report"
    => line[p].type # "disconnected" /\ line[q].n = (line[p].n + 1) % ReportNumbers

FirstIsNext ==
  \A i \in Interfaces : \A p \in 1 .. Len(line) :
    /\ At(p, i)
    /\ \A r \in 1 .. Len(line) : r < p => ~At(r, i)
    /\ line[p].type = "report"
    => i \in a_connected /\ line[p].n = (got[i] + 1) % ReportNumbers

\* The interfaces whose device is not being removed.
Present == Mounted \ leaving

LastIsSent ==
  \A i \in Present :
    /\ \A p \in 1 .. Len(line) :
         At(p, i) /\ (\A r \in 1 .. Len(line) : p < r => ~At(r, i))
         => line[p].type # "disconnected" /\ line[p].n = sent[i]
    /\ (\A p \in 1 .. Len(line) : ~At(p, i)) => i \in a_connected /\ got[i] = sent[i]

SameDevice(p, i) == DeviceOf[line[p].itf] = DeviceOf[i]

DisconnectTakesDevice ==
  \A p \in 1 .. Len(line) : line[p].type = "disconnected" =>
    \A i \in Interfaces : SameDevice(p, i) =>
      /\ \A q \in 1 .. Len(line) :
           /\ p < q /\ At(q, i)
           /\ \A r \in 1 .. Len(line) : p < r /\ r < q => ~At(r, i)
           => line[q].type # "report"
      /\ (\A q \in 1 .. Len(line) : p < q => ~At(q, i)) => i \notin Present

LineInv == FramesFollow /\ FirstIsNext /\ LastIsSent /\ DisconnectTakesDevice

Outstanding(i) == ep[i] = "done" \/ Holds(i)

HostInv ==
  /\ \A i \in Interfaces :
       taken[i] = IF Outstanding(i) THEN (sent[i] + 1) % ReportNumbers ELSE sent[i]
  /\ \A s \in Slots : Pending(s) => hid_input_states[s].report = taken[hid_input_states[s].itf]
  /\ \A i \in Interfaces : i \notin Mounted => taken[i] = 0 /\ sent[i] = 0
  /\ \A i \in Interfaces : ep[i] \in {"armed", "done"}
                             => \E s \in Slots : hid_input_states[s].itf = i

LEMMA LineSame ==
  ASSUME LineInv, UNCHANGED <<line, a_connected, got>>,
         \A i \in Present' : i \in Present /\ sent'[i] = sent[i]
  PROVE  LineInv'
  BY DEF LineInv, FramesFollow, FirstIsNext, LastIsSent, DisconnectTakesDevice, At, SameDevice

\* A frame is written: a report must be the next one of a mounted interface,
\* and the frame is now the last one of its interface.
LEMMA LineAppend ==
  ASSUME TypeOK, LineInv, NEW f \in Frames, line' = Append(line, f),
         UNCHANGED <<a_connected, got>>,
         f.type = "report" => f.itf \in Present /\ f.n = (sent[f.itf] + 1) % ReportNumbers,
         f.type = "disconnected" =>
           \A i \in Interfaces : DeviceOf[i] = DeviceOf[f.itf] => i \notin Present',
         \A i \in Present' : IF i = f.itf
                             THEN f.type # "disconnected" /\ f.n = sent'[i]
                             ELSE i \in Present /\ sent'[i] = sent[i]
  PROVE  LineInv'
<1> DEFINE n == Len(line)
<1>1. /\ line \in Seq(Frames) /\ n \in Nat /\ Len(line') = n + 1
      /\ \A p \in 1 .. n : line'[p] = line[p] /\ p \in 1 .. n + 1
      /\ line'[n + 1] = f
  BY DEF TypeOK
<1> HIDE DEF n
<1>2. \A p \in 1 .. Len(line') : p = n + 1 \/ (p \in 1 .. n /\ line'[p] = line[p])
  BY <1>1
<1>3. FramesFollow'
  <2> SUFFICES ASSUME NEW i \in Interfaces,
                      NEW p \in 1 .. Len(line'), NEW q \in 1 .. Len(line'),
                      p < q, At(p, i)', At(q, i)',
                      \A r \in 1 .. Len(line') : p < r /\ r < q => ~At(r, i)',
                      line'[q].type = "report"
               PROVE  line'[p].type # "disconnected"
                      /\ line'[q].n = (line'[p].n + 1) % ReportNumbers
    BY DEF FramesFollow
  <2>1. p \in 1 .. n /\ line'[p] = line[p] /\ At(p, i)
    BY <1>1, <1>2 DEF At
  <2>2. CASE q = n + 1
    <3>1. f.itf = i /\ f.type = "report" /\ line'[q] = f
      BY <1>1, <2>2 DEF At
    <3>2. \A r \in 1 .. n : p < r => ~At(r, i)
      BY <1>1, <2>2 DEF At
    <3>3. line[p].type # "disconnected" /\ line[p].n = sent[i]
      BY <2>1, <3>1, <3>2 DEF LineInv, LastIsSent, n
    <3>4. QED
      BY <2>1, <3>1, <3>3
  <2>3. CASE q # n + 1
    <3>1. q \in 1 .. n /\ line'[q] = line[q] /\ At(q, i)
      BY <1>2, <2>3 DEF At
    <3>2. \A r \in 1 .. n : p < r /\ r < q => ~At(r, i)
      BY <1>1 DEF At
    <3>3. QED
      BY <2>1, <3>1, <3>2 DEF LineInv, FramesFollow, n
  <2>4. QED
    BY <2>2, <2>3
<1>4. FirstIsNext'
  <2> SUFFICES ASSUME NEW i \in Interfaces, NEW p \in 1 .. Len(line'), At(p, i)',
                      \A r \in 1 .. Len(line') : r < p => ~At(r, i)',
                      line'[p].type = "report"
               PROVE  i \in a_connected /\ line'[p].n = (got[i] + 1) % ReportNumbers
    BY DEF FirstIsNext
  <2>1. CASE p = n + 1
    <3>1. f.itf = i /\ f.type = "report" /\ line'[p] = f
      BY <1>1, <2>1 DEF At
    <3>2. \A r \in 1 .. n : ~At(r, i)
      BY <1>1, <2>1 DEF At
    <3>3. i \in a_connected /\ got[i] = sent[i]
      BY <3>1, <3>2 DEF LineInv, LastIsSent, n
    <3>4. QED
      BY <3>1, <3>3
  <2>2. CASE p # n + 1
    <3>1. p \in 1 .. n /\ line'[p] = line[p] /\ At(p, i)
      BY <1>2, <2>2 DEF At
    <3>2. \A r \in 1 .. n : r < p => ~At(r, i)
      BY <1>1 DEF At
    <3>3. QED
      BY <3>1, <3>2 DEF LineInv, FirstIsNext, n
  <2>3. QED
    BY <2>1, <2>2
<1>5. LastIsSent'
  <2> SUFFICES ASSUME NEW i \in Present'
               PROVE  /\ \A p \in 1 .. Len(line') :
                           At(p, i)' /\ (\A r \in 1 .. Len(line') : p < r => ~At(r, i)')
                           => line'[p].type # "disconnected" /\ line'[p].n = sent'[i]
                      /\ (\A p \in 1 .. Len(line') : ~At(p, i)')
                           => i \in a_connected /\ got[i] = sent'[i]
    BY DEF LastIsSent
  <2>1. CASE i = f.itf
    <3>1. line'[n + 1].itf = i /\ n + 1 \in 1 .. Len(line')
      BY <1>1, <2>1
    <3>2. ASSUME NEW p \in 1 .. Len(line'),
                 \A r \in 1 .. Len(line') : p < r => ~At(r, i)'
          PROVE  p = n + 1
      BY <1>1, <1>2, <3>1, <3>2 DEF At
    <3>3. f.type # "disconnected" /\ f.n = sent'[i]
      BY <2>1
    <3>4. ~\A p \in 1 .. Len(line') : ~At(p, i)'
      BY <3>1 DEF At
    <3>5. QED
      BY <1>1, <3>2, <3>3, <3>4
  <2>2. CASE i # f.itf
    <3>1. i \in Present /\ sent'[i] = sent[i] /\ line'[n + 1].itf # i
      BY <1>1, <2>2
    <3>2. ASSUME NEW p \in 1 .. Len(line'), At(p, i)',
                 \A r \in 1 .. Len(line') : p < r => ~At(r, i)'
          PROVE  line'[p].type # "disconnected" /\ line'[p].n = sent'[i]
      <4>1. p \in 1 .. n /\ line'[p] = line[p] /\ At(p, i)
        BY <1>2, <3>1, <3>2 DEF At
      <4>2. \A r \in 1 .. n : p < r => ~At(r, i)
        BY <1>1, <3>2 DEF At
      <4>3. QED
        BY <3>1, <4>1, <4>2 DEF LineInv, LastIsSent, n
    <3>3. ASSUME \A p \in 1 .. Len(line') : ~At(p, i)'
          PROVE  i \in a_connected /\ got[i] = sent'[i]
      <4>1. \A p \in 1 .. n : ~At(p, i)
        BY <1>1, <3>3 DEF At
      <4>2. QED
        BY <3>1, <4>1 DEF LineInv, LastIsSent, n
    <3>4. QED
      BY <3>2, <3>3
  <2>3. QED
    BY <2>1, <2>2
<1>6. DisconnectTakesDevice'
  <2> SUFFICES ASSUME NEW p \in 1 .. Len(line'), line'[p].type = "disconnected",
                      NEW i \in Interfaces, SameDevice(p, i)'
               PROVE  /\ \A q \in 1 .. Len(line') :
                           /\ p < q /\ At(q, i)'
                           /\ \A r \in 1 .. Len(line') : p < r /\ r < q => ~At(r, i)'
                           => line'[q].type # "report"
                      /\ (\A q \in 1 .. Len(line') : p < q => ~At(q, i)')
                           => i \notin Present'
    BY DEF DisconnectTakesDevice
  <2>1. CASE p = n + 1
    <3>1. \A q \in 1 .. Len(line') : ~(p < q)
      BY <1>1, <2>1
    <3>2. i \notin Present'
      BY <1>1, <2>1 DEF SameDevice
    <3>3. QED
      BY <3>1, <3>2
  <2>2. CASE p # n + 1
    <3>1. p \in 1 .. n /\ line[p].type = "disconnected" /\ SameDevice(p, i)
      BY <1>2, <2>2 DEF SameDevice
    <3>2. ASSUME NEW q \in 1 .. Len(line'), p < q, At(q, i)',
                 \A r \in 1 .. Len(line') : p < r /\ r < q => ~At(r, i)',
                 line'[q].type = "report"
          PROVE  FALSE
      <4>1. CASE q = n + 1
        <5>1. f.itf = i /\ f.type = "report"
          BY <1>1, <3>2, <4>1 DEF At
        <5>2. i \in Present
          BY <5>1
        <5>3. \A r \in 1 .. n : p < r => ~At(r, i)
          BY <1>1, <3>2, <4>1 DEF At
        <5>4. QED
          BY <3>1, <5>2, <5>3 DEF LineInv, DisconnectTakesDevice, n
      <4>2. CASE q # n + 1
        <5>1. q \in 1 .. n /\ line'[q] = line[q] /\ At(q, i)
          BY <1>2, <3>2, <4>2 DEF At
        <5>2. \A r \in 1 .. n : p < r /\ r < q => ~At(r, i)
          BY <1>1, <3>2 DEF At
        <5>3. QED
          BY <3>1, <3>2, <5>1, <5>2 DEF LineInv, DisconnectTakesDevice, n
      <4>3. QED
        BY <4>1, <4>2
    <3>3. ASSUME \A q \in 1 .. Len(line') : p < q => ~At(q, i)', i \in Present'
          PROVE  FALSE
      <4>1. \A q \in 1 .. n : p < q => ~At(q, i)
        BY <1>1, <3>3 DEF At
      <4>2. line'[n + 1].itf # i
        BY <1>1, <3>1, <3>3 DEF At
      <4>3. i \in Present
        BY <1>1, <3>3, <4>2
      <4>4. QED
        BY <3>1, <4>1, <4>3 DEF LineInv, DisconnectTakesDevice, n
    <3>4. QED
      BY <3>2, <3>3
  <2>3. QED
    BY <2>1, <2>2
<1>7. QED
  BY <1>3, <1>4, <1>5, <1>6 DEF LineInv

\* A handles the first frame.
LEMMA LineTail ==
  ASSUME TypeOK, LineInv, AHandle
  PROVE  LineInv'
<1> DEFINE n == Len(line)
           h == line[1]
<1>1. /\ n \in Nat /\ 1 \in 1 .. n /\ h \in Frames /\ h = Head(line)
      /\ Len(line') = n - 1
      /\ \A p \in 1 .. n - 1 : line'[p] = line[p + 1] /\ p + 1 \in 1 .. n
      /\ \A p \in 1 .. n : p # 1 => p - 1 \in 1 .. n - 1 /\ line'[p - 1] = line[p]
  BY DEF TypeOK, AHandle
<1>2. /\ UNCHANGED <<ep, sent>> /\ Present' = Present
      /\ a_connected' = CASE h.type = "connected"    -> a_connected \cup {h.itf}
                          [] h.type = "disconnected" ->
                               {j \in a_connected : DeviceOf[j] # DeviceOf[h.itf]}
                          [] OTHER                   -> a_connected
      /\ got' = IF h.type = "sof" THEN got ELSE [got EXCEPT ![h.itf] = h.n]
  BY <1>1 DEF AHandle, Present, Mounted, inputs, history
\* What is true of another interface stays so; for the head's own interface A
\* now has the head.
<1>3. \A i \in Interfaces :
        i # h.itf => /\ got'[i] = got[i]
                     /\ (h.type = "disconnected" /\ SameDevice(1, i))
                        \/ (i \in a_connected' <=> i \in a_connected)
  BY <1>1, <1>2 DEF TypeOK, SameDevice
<1>4. \A i \in Interfaces : i = h.itf /\ h.type # "disconnected" =>
        /\ got'[i] = h.n
        /\ h.type = "connected" \/ h.type = "report"
        /\ h.type = "report" => i \in a_connected
        /\ i \in a_connected'
  <2> SUFFICES ASSUME NEW i \in Interfaces, i = h.itf, h.type # "disconnected"
               PROVE  /\ got'[i] = h.n
                      /\ h.type = "connected" \/ h.type = "report"
                      /\ h.type = "report" => i \in a_connected
                      /\ i \in a_connected'
    OBVIOUS
  <2>1. h.type = "connected" \/ h.type = "report"
    BY <1>1, BridgeAssumption DEF Frames
  <2>2. h.type = "report" => i \in a_connected
    BY <1>1 DEF LineInv, FirstIsNext, At
  <2>3. got'[i] = h.n
    BY <1>2, <2>1 DEF TypeOK
  <2>4. QED
    BY <1>2, <2>1, <2>2, <2>3
<1> HIDE DEF n, h
<1>5. FramesFollow'
  <2> SUFFICES ASSUME NEW i \in Interfaces,
                      NEW p \in 1 .. Len(line'), NEW q \in 1 .. Len(line'),
                      p < q, At(p, i)', At(q, i)',
                      \A r \in 1 .. Len(line') : p < r /\ r < q => ~At(r, i)',
                      line'[q].type = "report"
               PROVE  line'[p].type # "disconnected"
                      /\ line'[q].n = (line'[p].n + 1) % ReportNumbers
    BY DEF FramesFollow
  <2>1. /\ p + 1 \in 1 .. n /\ q + 1 \in 1 .. n /\ p + 1 < q + 1
        /\ line'[p] = line[p + 1] /\ line'[q] = line[q + 1]
        /\ At(p + 1, i) /\ At(q + 1, i)
    <3>1. p \in 1 .. n - 1 /\ q \in 1 .. n - 1
      BY <1>1
    <3>2. line'[p] = line[p + 1] /\ line'[q] = line[q + 1]
          /\ p + 1 \in 1 .. n /\ q + 1 \in 1 .. n
      BY <1>1, <3>1
    <3>3. QED
      BY <3>1, <3>2 DEF At
  <2>2. ASSUME NEW r \in 1 .. n, p + 1 < r, r < q + 1 PROVE ~At(r, i)
    <3>1. r - 1 \in 1 .. Len(line') /\ p < r - 1 /\ r - 1 < q /\ line'[r - 1] = line[r]
      BY <1>1, <2>2
    <3>2. QED
      BY <3>1 DEF At
  <2>3. QED
    BY <2>1, <2>2 DEF LineInv, FramesFollow, n
<1>6. FirstIsNext'
  <2> SUFFICES ASSUME NEW i \in Interfaces, NEW p \in 1 .. Len(line'), At(p, i)',
                      \A r \in 1 .. Len(line') : r < p => ~At(r, i)',
                      line'[p].type = "report"
               PROVE  i \in a_connected' /\ line'[p].n = (got'[i] + 1) % ReportNumbers
    BY DEF FirstIsNext
  <2>1. p + 1 \in 1 .. n /\ line'[p] = line[p + 1] /\ At(p + 1, i) /\ 1 < p + 1
    BY <1>1 DEF At
  <2>2. ASSUME NEW r \in 1 .. n, 1 < r, r < p + 1 PROVE ~At(r, i)
    <3>1. r - 1 \in 1 .. Len(line') /\ r - 1 < p /\ line'[r - 1] = line[r]
      BY <1>1, <2>2
    <3>2. QED
      BY <3>1 DEF At
  <2>3. CASE i = h.itf
    <3>1. At(1, i) /\ h = line[1]
      BY <2>3 DEF At, h
    <3>2. h.type # "disconnected" /\ line[p + 1].n = (h.n + 1) % ReportNumbers
      <4> DEFINE q == p + 1
      <4>1. /\ 1 \in 1 .. Len(line) /\ q \in 1 .. Len(line) /\ 1 < q
            /\ At(1, i) /\ At(q, i) /\ line[q].type = "report"
            /\ \A r \in 1 .. Len(line) : 1 < r /\ r < q => ~At(r, i)
        BY <1>1, <2>1, <2>2, <3>1 DEF n
      <4> HIDE DEF q
      <4>2. line[1].type # "disconnected" /\ line[q].n = (line[1].n + 1) % ReportNumbers
        BY <4>1 DEF LineInv, FramesFollow
      <4>3. QED
        BY <3>1, <4>2 DEF q
    <3>3. QED
      BY <1>4, <2>1, <2>3, <3>2
  <2>4. CASE i # h.itf
    <3>1. ~At(1, i)
      BY <2>4 DEF At, h
    <3>2. \A r \in 1 .. n : r < p + 1 => ~At(r, i)
      BY <2>2, <3>1
    <3>3. i \in a_connected /\ line[p + 1].n = (got[i] + 1) % ReportNumbers
      BY <2>1, <3>2 DEF LineInv, FirstIsNext, n
    <3>4. ~(line[1].type = "disconnected" /\ SameDevice(1, i))
      <4> DEFINE q == p + 1
      <4>1. /\ 1 \in 1 .. Len(line) /\ q \in 1 .. Len(line) /\ 1 < q
            /\ At(q, i) /\ line[q].type = "report"
            /\ \A r \in 1 .. Len(line) : 1 < r /\ r < q => ~At(r, i)
        BY <1>1, <2>1, <2>2 DEF n
      <4> HIDE DEF q
      <4>2. QED
        BY <4>1 DEF LineInv, DisconnectTakesDevice
    <3>5. QED
      BY <1>3, <2>1, <2>4, <3>3, <3>4 DEF h
  <2>5. QED
    BY <2>3, <2>4
<1>7. LastIsSent'
  <2> SUFFICES ASSUME NEW i \in Present
               PROVE  /\ \A p \in 1 .. Len(line') :
                           At(p, i)' /\ (\A r \in 1 .. Len(line') : p < r => ~At(r, i)')
                           => line'[p].type # "disconnected" /\ line'[p].n = sent[i]
                      /\ (\A p \in 1 .. Len(line') : ~At(p, i)')
                           => i \in a_connected' /\ got'[i] = sent[i]
    BY <1>2 DEF LastIsSent
  <2>1. ASSUME NEW p \in 1 .. Len(line'), At(p, i)',
               \A r \in 1 .. Len(line') : p < r => ~At(r, i)'
        PROVE  line'[p].type # "disconnected" /\ line'[p].n = sent[i]
    <3>1. p + 1 \in 1 .. n /\ line'[p] = line[p + 1] /\ At(p + 1, i)
      BY <1>1, <2>1 DEF At
    <3>2. ASSUME NEW r \in 1 .. n, p + 1 < r PROVE ~At(r, i)
      <4>1. r - 1 \in 1 .. Len(line') /\ p < r - 1 /\ line'[r - 1] = line[r]
        BY <1>1, <3>2, SMTT(30)
      <4>2. QED
        BY <2>1, <4>1 DEF At
    <3>3. QED
      BY <3>1, <3>2 DEF LineInv, LastIsSent, n
  <2>2. ASSUME \A p \in 1 .. Len(line') : ~At(p, i)'
        PROVE  i \in a_connected' /\ got'[i] = sent[i]
    <3>1. \A r \in 1 .. n : r # 1 => ~At(r, i)
      BY <1>1, <2>2 DEF At
    <3>2. i \in Interfaces
      BY DEF Present, Mounted
    <3>3. CASE i = h.itf
      <4>1. At(1, i) /\ h = line[1] /\ \A r \in 1 .. n : 1 < r => ~At(r, i)
        BY <3>1, <3>3 DEF At, h
      <4>2. h.type # "disconnected" /\ h.n = sent[i]
        BY <1>1, <4>1 DEF LineInv, LastIsSent, n
      <4>3. QED
        BY <1>4, <3>2, <3>3, <4>2
    <3>4. CASE i # h.itf
      <4>1. \A r \in 1 .. n : ~At(r, i)
        BY <3>1, <3>4 DEF At, h
      <4>2. i \in a_connected /\ got[i] = sent[i]
        BY <4>1 DEF LineInv, LastIsSent, n
      <4>3. ~(line[1].type = "disconnected" /\ SameDevice(1, i))
        BY <1>1, <3>2, <4>1 DEF LineInv, DisconnectTakesDevice, n
      <4>4. QED
        BY <1>3, <3>2, <3>4, <4>2, <4>3 DEF h
    <3>5. QED
      BY <3>3, <3>4
  <2>3. QED
    BY <2>1, <2>2
<1>8. DisconnectTakesDevice'
  <2> SUFFICES ASSUME NEW p \in 1 .. Len(line'), line'[p].type = "disconnected",
                      NEW i \in Interfaces, SameDevice(p, i)'
               PROVE  /\ \A q \in 1 .. Len(line') :
                           /\ p < q /\ At(q, i)'
                           /\ \A r \in 1 .. Len(line') : p < r /\ r < q => ~At(r, i)'
                           => line'[q].type # "report"
                      /\ (\A q \in 1 .. Len(line') : p < q => ~At(q, i)')
                           => i \notin Present
    BY <1>2 DEF DisconnectTakesDevice
  <2> DEFINE p1 == p + 1
  <2>1. /\ p1 \in 1 .. n /\ line'[p] = line[p1] /\ line[p1].type = "disconnected"
        /\ SameDevice(p1, i)
    BY <1>1 DEF SameDevice
  <2>2. ASSUME NEW q \in 1 .. Len(line'), p < q, At(q, i)',
               \A r \in 1 .. Len(line') : p < r /\ r < q => ~At(r, i)'
        PROVE  line'[q].type # "report"
    <3> DEFINE q1 == q + 1
    <3>1. q1 \in 1 .. n /\ p1 < q1 /\ line'[q] = line[q1] /\ At(q1, i)
      BY <1>1, <2>2 DEF At
    <3>2. ASSUME NEW r \in 1 .. n, p1 < r, r < q1 PROVE ~At(r, i)
      <4>1. r \in Int /\ p + 1 < r /\ r < q + 1
        BY <3>2
      <4>2. r - 1 \in 1 .. Len(line') /\ p < r - 1 /\ r - 1 < q
        BY <1>1, <4>1
      <4>3. line'[r - 1] = line[r]
        BY <1>1, <4>1, <3>2
      <4>4. QED
        BY <2>2, <4>2, <4>3 DEF At
    <3> HIDE DEF p1, q1
    <3>3. QED
      BY <2>1, <3>1, <3>2 DEF LineInv, DisconnectTakesDevice, n
  <2>3. ASSUME \A q \in 1 .. Len(line') : p < q => ~At(q, i)'
        PROVE  i \notin Present
    <3>1. ASSUME NEW r \in 1 .. n, p1 < r PROVE ~At(r, i)
      <4>1. r - 1 \in 1 .. Len(line') /\ p < r - 1 /\ line'[r - 1] = line[r]
        BY <1>1, <3>1
      <4>2. QED
        BY <2>3, <4>1 DEF At
    <3> HIDE DEF p1
    <3>2. QED
      BY <2>1, <3>1 DEF LineInv, DisconnectTakesDevice, n
  <2>4. QED
    BY <2>2, <2>3
<1>9. QED
  BY <1>5, <1>6, <1>7, <1>8 DEF LineInv

\* Nothing an interface's newest report depends on changes.
LEMMA HostSame ==
  ASSUME HostInv, UNCHANGED <<hid_input_states, ep, taken, sent>>
  PROVE  HostInv'
  BY DEF HostInv, Outstanding, Holds, Pending, Active, Mounted

\* Endpoints are armed, no transfer completes, no slot changes.
LEMMA HostArm ==
  ASSUME TypeOK, HostInv, UNCHANGED <<hid_input_states, taken, sent>>,
         arm_ready_hid_inputs(hid_input_states, ep)
  PROVE  HostInv'
<1>1. PICK armed \in SUBSET Ready(hid_input_states, ep) :
        ep' = [i \in Interfaces |-> IF i \in armed THEN "armed" ELSE ep[i]]
  BY DEF arm_ready_hid_inputs
<1>2. \A i \in armed : /\ i \in Interfaces /\ ep[i] = "idle"
                       /\ \E t \in Slots : hid_input_states[t].itf = i
  <2>1. \A i \in armed :
          i \in Interfaces /\ ep[i] = "idle"
          /\ \E t \in Slots : hid_input_states[t] = [itf |-> i, report |-> NoReport]
    BY DEF Ready
  <2>2. \A i : [itf |-> i, report |-> NoReport].itf = i
    OBVIOUS
  <2>3. QED
    BY <2>1, <2>2
<1>3. \A i \in Interfaces : /\ ep'[i] = "done" <=> ep[i] = "done"
                            /\ ep'[i] # "closed" <=> ep[i] # "closed"
                            /\ ep'[i] = "armed" => i \in armed \/ ep[i] = "armed"
  BY <1>1, <1>2
<1>4. \A i \in Interfaces : Outstanding(i)' <=> Outstanding(i)
  BY <1>3 DEF Outstanding, Holds, Pending, Active
<1>5. \A i \in Interfaces :
        taken'[i] = IF Outstanding(i)' THEN (sent'[i] + 1) % ReportNumbers ELSE sent'[i]
  BY <1>4 DEF HostInv
<1>6. \A s \in Slots : Pending(s)' =>
        hid_input_states'[s].report = taken'[hid_input_states'[s].itf]
  BY DEF HostInv, Pending, Active
<1>7. \A i \in Interfaces : i \notin Mounted' => taken'[i] = 0 /\ sent'[i] = 0
  BY <1>3 DEF HostInv, Mounted
<1>8. \A i \in Interfaces : ep'[i] \in {"armed", "done"}
                               => \E s \in Slots : hid_input_states'[s].itf = i
  BY <1>2, <1>3 DEF HostInv
<1>9. QED
  BY <1>5, <1>6, <1>7, <1>8 DEF HostInv

LEMMA HostInvStep == TypeOK /\ SlotInv /\ HostInv /\ [Next]_vars => HostInv'
<1> SUFFICES ASSUME TypeOK, SlotInv, HostInv, [Next]_vars PROVE HostInv'
  OBVIOUS
<1> USE BridgeAssumption
<1> USE DEF inputs, uart, history
<1>1. CASE SerialRead
  BY <1>1, HostSame DEF SerialRead, serial_read
<1>2. CASE FlushSend
  <2>a. Current \in Slots /\ Pending(Current) /\ hid_input_states[Current].itf \in Interfaces
    BY <1>2, CurrentIsPending DEF FlushSend, Pending, Active, TypeOK
  <2>b. PICK c \in Slots, i \in Interfaces : c = Current /\ i = hid_input_states[c].itf
    BY <2>a
  <2>1. Pending(c) /\ ep[i] = "idle" /\ Holds(i)
    BY <2>a, <2>b DEF SlotInv, HeldIsNotArmed, Holds
  <2>2. hid_input_states' = [hid_input_states EXCEPT ![c] = [itf |-> i, report |-> NoReport]]
    BY <1>2, <2>a, <2>b, Clear DEF FlushSend
  <2>3. PICK e \in {"idle", "armed"} : ep' = [ep EXCEPT ![i] = e]
    BY <1>2, <2>1, <2>b DEF FlushSend, ArmResults
  <2>4. sent' = [sent EXCEPT ![i] = taken[i]] /\ taken' = taken
    BY <1>2, <2>b DEF FlushSend, RecordSent
  <2>5. hid_input_states[c].itf = i /\ i # NoInterface
    BY <2>b
  <2>6. \A s \in Slots : hid_input_states'[s] =
          IF s = c THEN [itf |-> i, report |-> NoReport] ELSE hid_input_states[s]
    BY <2>1, <2>2 DEF TypeOK
  <2>7. \A s \in Slots : /\ hid_input_states'[s].itf = hid_input_states[s].itf
                         /\ Pending(s)' <=> Pending(s) /\ s # c
                         /\ s # c => hid_input_states[s].itf # i
    BY <2>1, <2>5, <2>6 DEF Pending, Active, SlotInv, SlotPerInput
  <2>8. ~Outstanding(i)' /\ \A j \in Interfaces : j # i => (Outstanding(j)' <=> Outstanding(j))
    <3>1. ep'[i] # "done" /\ \A j \in Interfaces : j # i => ep'[j] = ep[j]
      BY <2>1, <2>3 DEF TypeOK
    <3>2. ~Holds(i)'
      BY <2>7 DEF Holds
    <3>3. \A j \in Interfaces : j # i => (Holds(j)' <=> Holds(j))
      BY <2>5, <2>7 DEF Holds
    <3>4. QED
      BY <3>1, <3>2, <3>3 DEF Outstanding
  <2>9. \A j \in Interfaces : /\ j \in Mounted' <=> j \in Mounted
                              /\ j # i => ep'[j] = ep[j] /\ sent'[j] = sent[j]
    BY <2>1, <2>3, <2>4 DEF Mounted, TypeOK
  <2>10. i \in Mounted /\ sent'[i] = taken[i]
    BY <2>1, <2>4 DEF Mounted, TypeOK
  <2>11. \A j \in Interfaces :
           taken'[j] = IF Outstanding(j)' THEN (sent'[j] + 1) % ReportNumbers ELSE sent'[j]
    <3>1. \A j \in Interfaces :
            taken[j] = IF Outstanding(j) THEN (sent[j] + 1) % ReportNumbers ELSE sent[j]
      BY DEF HostInv
    <3>2. QED
      BY <2>4, <2>8, <2>9, <2>10, <3>1
  <2>12. \A s \in Slots : Pending(s)' =>
           hid_input_states'[s].report = taken'[hid_input_states'[s].itf]
    BY <2>4, <2>6, <2>7 DEF HostInv
  <2>13. \A j \in Interfaces : j \notin Mounted' => taken'[j] = 0 /\ sent'[j] = 0
    BY <2>4, <2>9, <2>10 DEF HostInv
  <2>14. \A j \in Interfaces : ep'[j] \in {"armed", "done"}
                                 => \E s \in Slots : hid_input_states'[s].itf = j
    BY <2>1, <2>5, <2>7, <2>9 DEF HostInv
  <2>15. QED
    BY <2>11, <2>12, <2>13, <2>14 DEF HostInv
<1>3. CASE FlushBlocked
  BY <1>3, HostSame DEF FlushBlocked
<1>4. CASE FlushDone
  BY <1>4, HostSame DEF FlushDone
<1>5. ASSUME NEW i \in Interfaces, ReceiveSend(i) PROVE HostInv'
  <2>1. ep[i] = "done" /\ \A s \in Slots : ~Pending(s)
    BY <1>5 DEF ReceiveSend, has_pending_hid_reports
  <2>2. PICK e \in {"idle", "armed"} : ep' = [ep EXCEPT ![i] = e]
    BY <1>5 DEF ReceiveSend
  <2>3. PICK t \in Slots : hid_input_states[t].itf = i
    BY <2>1 DEF HostInv
  <2>4. UNCHANGED hid_input_states
    BY <1>5, <2>3 DEF ReceiveSend, register_hid_input
  <2>5. sent' = [sent EXCEPT ![i] = taken[i]] /\ taken' = taken
    BY <1>5 DEF ReceiveSend, RecordSent
  <2>6. \A j \in Interfaces : /\ j \in Mounted' <=> j \in Mounted
                              /\ j # i => ep'[j] = ep[j] /\ sent'[j] = sent[j]
    BY <2>1, <2>2, <2>5 DEF Mounted, TypeOK
  <2>7. i \in Mounted /\ sent'[i] = taken[i] /\ ep'[i] # "done"
    BY <2>1, <2>2, <2>5 DEF Mounted, TypeOK
  <2>8. \A s \in Slots : ~Pending(s)'
    BY <2>1, <2>4 DEF Pending, Active
  <2>9. QED
    BY <2>1, <2>3, <2>4, <2>5, <2>6, <2>7, <2>8 DEF HostInv, Outstanding, Holds
<1>6. ASSUME NEW i \in Interfaces, ReceiveHold(i) PROVE HostInv'
  <2>1. ep[i] = "done" /\ ep' = [ep EXCEPT ![i] = "idle"] /\ UNCHANGED <<taken, sent>>
    BY <1>6 DEF ReceiveHold
  <2>2. PICK t \in Slots : hid_input_states[t].itf = i
    BY <2>1 DEF HostInv
  <2>3. \A s \in Slots : hid_input_states'[s] =
          IF hid_input_states[s].itf = i THEN [itf |-> i, report |-> taken[i]]
                                         ELSE hid_input_states[s]
    BY <1>6, <2>2 DEF ReceiveHold, register_hid_input
  <2>4. i # NoInterface /\ taken[i] # NoReport
    BY DEF TypeOK
  <2>5. \A s \in Slots :
          /\ hid_input_states'[s].itf = hid_input_states[s].itf
          /\ Pending(s)' <=> Pending(s) \/ hid_input_states[s].itf = i
    BY <2>3, <2>4 DEF Pending, Active
  <2>6. \A j \in Interfaces : /\ j \in Mounted' <=> j \in Mounted
                              /\ j # i => ep'[j] = ep[j]
    BY <2>1 DEF Mounted, TypeOK
  <2>7. ep'[i] = "idle"
    BY <2>1 DEF TypeOK
  <2>8. \A j \in Interfaces : Outstanding(j)' <=> Outstanding(j)
    BY <2>1, <2>2, <2>5, <2>6, <2>7 DEF Outstanding, Holds
  <2>9. \A s \in Slots : Pending(s)' =>
           hid_input_states'[s].report = taken'[hid_input_states'[s].itf]
    BY <2>1, <2>3, <2>5 DEF HostInv
  <2>10. QED
    BY <2>1, <2>5, <2>6, <2>7, <2>8, <2>9 DEF HostInv
<1>7. ASSUME NEW i \in Interfaces, tuh_hid_mount_cb(i) PROVE HostInv'
  <2>1. ep[i] = "closed" /\ i \notin Mounted /\ UNCHANGED <<taken, sent>>
    BY <1>7 DEF tuh_hid_mount_cb, Mounted
  <2>2. taken[i] = 0 /\ sent[i] = 0
    BY <2>1 DEF HostInv
  <2>3. \A s \in Slots : hid_input_states[s].itf # i
    BY <2>1 DEF SlotInv, SlotPerInput, Active
  <2>4. /\ SlotPerInput
        /\ \A s \in Slots : Active(s) => hid_input_states'[s] = hid_input_states[s]
        /\ \A s \in Slots : ~Active(s) =>
             \/ hid_input_states'[s] = hid_input_states[s]
             \/ hid_input_states'[s] = [itf |-> i, report |-> NoReport]
    BY <1>7, RegisterKeeps DEF tuh_hid_mount_cb, SlotInv
  <2>5. \A s \in Slots : Pending(s)' <=> Pending(s)
    BY <2>4 DEF Pending, Active
  <2>6. \A j \in Interfaces : /\ ep'[j] = "done" <=> ep[j] = "done"
                              /\ j # i => (ep'[j] # "closed" <=> ep[j] # "closed")
                              /\ ep'[i] # "closed"
                              /\ ep'[j] = "armed" => \/ ep[j] = "armed"
                                                     \/ \E s \in Slots : hid_input_states'[s].itf = j
    <3>1. CASE i \in HasInput
      <4>1. PICK armed \in SUBSET Ready(hid_input_states', [ep EXCEPT ![i] = "idle"]) :
              ep' = [j \in Interfaces |-> IF j \in armed THEN "armed"
                                          ELSE [ep EXCEPT ![i] = "idle"][j]]
        BY <1>7, <3>1 DEF tuh_hid_mount_cb, arm_ready_hid_inputs
      <4>2. \A j \in armed :
              /\ j \in Interfaces
              /\ j = i \/ ep[j] = "idle"
              /\ \E s \in Slots : hid_input_states'[s].itf = j
        <5>1. \A j \in Interfaces :
                [ep EXCEPT ![i] = "idle"][j] = IF j = i THEN "idle" ELSE ep[j]
          BY DEF TypeOK
        <5>2. \A j \in armed :
                /\ j \in Interfaces
                /\ [ep EXCEPT ![i] = "idle"][j] = "idle"
                /\ \E s \in Slots : hid_input_states'[s] = [itf |-> j, report |-> NoReport]
          BY <4>1 DEF Ready
        <5>3. QED
          <6>1. \A j : [itf |-> j, report |-> NoReport].itf = j
            OBVIOUS
          <6>2. QED
            BY <5>1, <5>2, <6>1, ZenonT(40)
      <4>3. \A j \in Interfaces : ep'[j] = IF j \in armed THEN "armed"
                                           ELSE IF j = i THEN "idle" ELSE ep[j]
        BY <4>1 DEF TypeOK
      <4>4. QED
        BY <2>1, <4>2, <4>3
    <3>2. CASE i \notin HasInput
      <4>1. \A j \in Interfaces : ep'[j] = IF j = i THEN "idle" ELSE ep[j]
        BY <1>7, <3>2 DEF tuh_hid_mount_cb, TypeOK
      <4>2. QED
        BY <2>1, <4>1
    <3>3. QED
      BY <3>1, <3>2
  <2>7. \A s \in Slots : Pending(s) => hid_input_states'[s] = hid_input_states[s]
    BY <2>4 DEF Pending
  <2>8. \A j \in Interfaces : Outstanding(j)' <=> Outstanding(j)
    BY <2>5, <2>6, <2>7 DEF Outstanding, Holds
  <2>9. \A s \in Slots : Pending(s)' =>
           hid_input_states'[s].report = taken'[hid_input_states'[s].itf]
    BY <2>1, <2>5, <2>7 DEF HostInv
  <2>10. \A j \in Interfaces : j \notin Mounted' => taken'[j] = 0 /\ sent'[j] = 0
    BY <2>1, <2>6 DEF HostInv, Mounted
  <2>11. \A j \in Interfaces : ep'[j] \in {"armed", "done"}
                                 => \E s \in Slots : hid_input_states'[s].itf = j
    <3>1. \A j \in Interfaces, s \in Slots :
            hid_input_states[s].itf = j => hid_input_states'[s].itf = j
      BY <2>4 DEF Active
    <3>2. QED
      BY <2>6, <3>1 DEF HostInv
  <2>12. QED
    BY <2>1, <2>8, <2>9, <2>10, <2>11 DEF HostInv
<1>8. ASSUME NEW i \in Interfaces, tuh_hid_umount_cb(i) PROVE HostInv'
  <2>1. /\ ep' = [ep EXCEPT ![i] = "closed"]
        /\ taken' = [taken EXCEPT ![i] = 0] /\ sent' = [sent EXCEPT ![i] = 0]
        /\ hid_input_states' = [s \in Slots |-> IF hid_input_states[s].itf = i
                                                THEN FreeSlot ELSE hid_input_states[s]]
    BY <1>8 DEF tuh_hid_umount_cb, unregister_hid_input
  <2>2. \A j \in Interfaces : IF j = i THEN ep'[j] = "closed" /\ taken'[j] = 0 /\ sent'[j] = 0
                              ELSE ep'[j] = ep[j] /\ taken'[j] = taken[j] /\ sent'[j] = sent[j]
    BY <2>1 DEF TypeOK
  <2>3. \A s \in Slots : /\ Pending(s)' <=> Pending(s) /\ hid_input_states[s].itf # i
                         /\ hid_input_states[s].itf # i => hid_input_states'[s] = hid_input_states[s]
                         /\ hid_input_states[s].itf = i => hid_input_states'[s].itf # i
    BY <2>1 DEF Pending, Active, FreeSlot
  <2>4. ~Outstanding(i)' /\ \A j \in Interfaces : j # i => (Outstanding(j)' <=> Outstanding(j))
    BY <2>2, <2>3 DEF Outstanding, Holds, Pending, Active
  <2>5. \A s \in Slots : Pending(s)' =>
           hid_input_states'[s].report = taken'[hid_input_states'[s].itf]
    <3>1. \A s \in Slots : Pending(s) => hid_input_states[s].itf \in Interfaces
      BY DEF Pending, Active, TypeOK
    <3>2. QED
      BY <2>2, <2>3, <3>1 DEF HostInv
  <2>6. \A j \in Interfaces : j \notin Mounted' => taken'[j] = 0 /\ sent'[j] = 0
    BY <2>2 DEF HostInv, Mounted
  <2>7. \A j \in Interfaces : ep'[j] \in {"armed", "done"}
                                 => \E s \in Slots : hid_input_states'[s].itf = j
    BY <2>2, <2>3 DEF HostInv
  <2>8. QED
    BY <2>2, <2>4, <2>5, <2>6, <2>7 DEF HostInv
<1>9. CASE tuh_sof_cb
  BY <1>9, HostSame DEF tuh_sof_cb
<1>10. CASE ArmInputs
  BY <1>10, HostArm DEF ArmInputs
<1>11. ASSUME NEW i \in Interfaces, Complete(i) PROVE HostInv'
  <2>1. /\ ep[i] = "armed" /\ ep' = [ep EXCEPT ![i] = "done"]
        /\ taken' = [taken EXCEPT ![i] = (@ + 1) % ReportNumbers]
        /\ UNCHANGED <<hid_input_states, sent>>
    BY <1>11 DEF Complete
  <2>2. \A s \in Slots : Pending(s) => hid_input_states[s].itf # i
    BY <2>1 DEF SlotInv, HeldIsNotArmed
  <2>3. ~Outstanding(i) /\ taken[i] = sent[i]
    BY <2>1, <2>2 DEF HostInv, Outstanding, Holds
  <2>4. \A j \in Interfaces :
          IF j = i THEN ep'[j] = "done" /\ taken'[j] = (sent[j] + 1) % ReportNumbers
          ELSE ep'[j] = ep[j] /\ taken'[j] = taken[j]
    BY <2>1, <2>3 DEF TypeOK
  <2>5. Outstanding(i)' /\ \A j \in Interfaces : j # i => (Outstanding(j)' <=> Outstanding(j))
    BY <2>1, <2>4 DEF Outstanding, Holds, Pending, Active
  <2>6. \A s \in Slots : Pending(s)' =>
           hid_input_states'[s].report = taken'[hid_input_states'[s].itf]
    <3>1. \A s \in Slots : Pending(s)' => Pending(s) /\ hid_input_states[s].itf \in Interfaces
      BY <2>1 DEF Pending, Active, TypeOK
    <3>2. QED
      BY <2>1, <2>2, <2>4, <3>1 DEF HostInv
  <2>7. \A j \in Interfaces : j \notin Mounted' => taken'[j] = 0 /\ sent'[j] = 0
    BY <2>1, <2>4 DEF HostInv, Mounted
  <2>8. \A j \in Interfaces :
          taken'[j] = IF Outstanding(j)' THEN (sent'[j] + 1) % ReportNumbers ELSE sent'[j]
    <3>1. \A j \in Interfaces :
            taken[j] = IF Outstanding(j) THEN (sent[j] + 1) % ReportNumbers ELSE sent[j]
      BY DEF HostInv
    <3>2. QED
      BY <2>1, <2>4, <2>5, <3>1
  <2>9. \A j \in Interfaces : ep'[j] \in {"armed", "done"}
                                 => \E s \in Slots : hid_input_states'[s].itf = j
    BY <2>1, <2>4 DEF HostInv
  <2>10. QED
    BY <2>6, <2>7, <2>8, <2>9 DEF HostInv
<1>12. CASE AHandle
  BY <1>12, HostSame DEF AHandle
<1>13. CASE UNCHANGED vars
  BY <1>13, HostSame DEF vars
<1>14. QED
  BY <1>1, <1>2, <1>3, <1>4, <1>5, <1>6, <1>7, <1>8, <1>9, <1>10, <1>11, <1>12, <1>13
  DEF Next, Callback

LEMMA InitHostLine == Init => HostInv /\ LineInv
<1> SUFFICES ASSUME Init PROVE HostInv /\ LineInv
  OBVIOUS
<1> USE BridgeAssumption DEF Init
<1>1. \A s \in Slots : ~Pending(s)
  BY DEF Pending, Active, FreeSlot
<1>2. HostInv
  BY <1>1 DEF HostInv, Outstanding, Holds
<1>3. Present = {} /\ Len(line) = 0
  BY DEF Present, Mounted
<1>4. LineInv
  BY <1>3 DEF LineInv, FramesFollow, FirstIsNext, LastIsSent, DisconnectTakesDevice
<1>5. QED
  BY <1>2, <1>4

\* Devices are removed one at a time.
OneDeviceLeaves == \A i, j \in leaving : DeviceOf[i] = DeviceOf[j]

LEMMA InitLeaves == Init => OneDeviceLeaves
  BY DEF Init, OneDeviceLeaves

LEMMA LeavesStep == OneDeviceLeaves /\ [Next]_vars => OneDeviceLeaves'
<1> SUFFICES ASSUME OneDeviceLeaves, [Next]_vars PROVE OneDeviceLeaves'
  OBVIOUS
<1>1. \/ UNCHANGED leaving
      \/ \E i \in Interfaces : leaving' = {j \in Mounted \ {i} : DeviceOf[j] = DeviceOf[i]}
  BY DEF Next, vars, SerialRead, serial_read, FlushSend, FlushBlocked, FlushDone, Callback,
         ReceiveSend, ReceiveHold, tuh_hid_mount_cb, tuh_hid_umount_cb, tuh_sof_cb,
         ArmInputs, Complete, AHandle
<1>2. QED
  BY <1>1 DEF OneDeviceLeaves

LEMMA LineInvStep ==
  TypeOK /\ SlotInv /\ HostInv /\ OneDeviceLeaves /\ LineInv /\ [Next]_vars => LineInv'
<1> SUFFICES ASSUME TypeOK, SlotInv, HostInv, OneDeviceLeaves, LineInv, [Next]_vars
             PROVE  LineInv'
  OBVIOUS
<1> USE BridgeAssumption
<1> USE DEF inputs, uart, history
<1>1. CASE SerialRead
  BY <1>1, LineSame DEF SerialRead, serial_read, Present, Mounted
<1>2. CASE FlushSend
  <2>1. Current \in Slots /\ Pending(Current) /\ hid_input_states[Current].itf \in Interfaces
    BY <1>2, CurrentIsPending DEF FlushSend, Pending, Active, TypeOK
  <2>2. PICK c \in Slots, i \in Interfaces : c = Current /\ i = hid_input_states[c].itf
    BY <2>1
  <2>3. Holds(i) /\ ep[i] = "idle" /\ hid_input_states[c].report = taken[i]
    BY <2>1, <2>2 DEF Holds, SlotInv, HeldIsNotArmed, HostInv
  <2>4. taken[i] = (sent[i] + 1) % ReportNumbers /\ taken[i] \in Numbers
    BY <2>3 DEF HostInv, Outstanding, TypeOK
  <2> DEFINE f == [type |-> "report", itf |-> i, n |-> taken[i]]
  <2>5. /\ line' = Append(line, f)
        /\ UNCHANGED <<a_connected, got>>
        /\ sent' = [sent EXCEPT ![i] = taken[i]]
        /\ ep' \in ArmResults(i)
        /\ leaving' = leaving /\ leaving = {}
    BY <1>2, <2>2, <2>3 DEF FlushSend, WriteFrame, Frame, RecordSent, TypeOK
  <2>6. f \in Frames /\ f.itf = i /\ f.type = "report" /\ f.n = taken[i]
    BY <2>4 DEF Frames
  <2>7. \A j \in Present' : /\ j \in Present
                            /\ sent'[j] = IF j = i THEN taken[i] ELSE sent[j]
    BY <2>3, <2>5 DEF Present, Mounted, ArmResults, TypeOK
  <2>8. i \in Present
    BY <2>3, <2>5 DEF Present, Mounted
  <2> HIDE DEF f
  <2>9. QED
    BY <2>4, <2>5, <2>6, <2>7, <2>8, LineAppend
<1>3. CASE FlushBlocked
  BY <1>3, LineSame DEF FlushBlocked, Present, Mounted
<1>4. CASE FlushDone
  BY <1>4, LineSame DEF FlushDone, Present, Mounted
<1>5. ASSUME NEW i \in Interfaces, ReceiveSend(i) PROVE LineInv'
  <2>1. taken[i] = (sent[i] + 1) % ReportNumbers /\ taken[i] \in Numbers /\ ep[i] = "done"
    BY <1>5 DEF ReceiveSend, HostInv, Outstanding, TypeOK
  <2> DEFINE f == [type |-> "report", itf |-> i, n |-> taken[i]]
  <2>2. /\ line' = Append(line, f)
        /\ UNCHANGED <<a_connected, got>>
        /\ sent' = [sent EXCEPT ![i] = taken[i]]
        /\ \E e \in {"idle", "armed"} : ep' = [ep EXCEPT ![i] = e]
        /\ leaving' = leaving /\ leaving = {}
    BY <1>5 DEF ReceiveSend, InTask, WriteFrame, Frame, RecordSent
  <2>3. f \in Frames /\ f.itf = i /\ f.type = "report" /\ f.n = taken[i]
    BY <2>1 DEF Frames
  <2>4. \A j \in Present' : /\ j \in Present
                            /\ sent'[j] = IF j = i THEN taken[i] ELSE sent[j]
    BY <2>1, <2>2 DEF Present, Mounted, TypeOK
  <2>5. i \in Present
    BY <2>1, <2>2 DEF Present, Mounted
  <2> HIDE DEF f
  <2>6. QED
    BY <2>1, <2>2, <2>3, <2>4, <2>5, LineAppend
<1>6. ASSUME NEW i \in Interfaces, ReceiveHold(i) PROVE LineInv'
  BY <1>6, LineSame DEF ReceiveHold, Present, Mounted, TypeOK
<1>7. ASSUME NEW i \in Interfaces, tuh_hid_mount_cb(i) PROVE LineInv'
  <2> DEFINE f == [type |-> "connected", itf |-> i, n |-> 0]
  <2>1. /\ line' = Append(line, f) /\ UNCHANGED <<a_connected, got, sent, leaving>>
        /\ leaving = {}
    BY <1>7 DEF tuh_hid_mount_cb, InTask, WriteFrame, Frame
  <2>2. f \in Frames /\ f.itf = i /\ f.type = "connected" /\ f.n = 0
    BY DEF Frames, Numbers
  <2>3. sent[i] = 0
    BY <1>7 DEF tuh_hid_mount_cb, HostInv
  <2>4. ASSUME NEW j \in Mounted', j # i PROVE j \in Mounted
    <3>1. CASE i \in HasInput
      <4>1. PICK armed \in SUBSET Ready(register_hid_input(i), [ep EXCEPT ![i] = "idle"]) :
              ep' = [k \in Interfaces |-> IF k \in armed THEN "armed"
                                          ELSE [ep EXCEPT ![i] = "idle"][k]]
        BY <1>7, <3>1 DEF tuh_hid_mount_cb, arm_ready_hid_inputs
      <4>2. \A k \in armed : [ep EXCEPT ![i] = "idle"][k] = "idle"
        BY <4>1 DEF Ready
      <4>3. \A k \in Interfaces : k # i => [ep EXCEPT ![i] = "idle"][k] = ep[k]
        BY DEF TypeOK
      <4>4. QED
        BY <2>4, <4>1, <4>2, <4>3 DEF Mounted
    <3>2. CASE i \notin HasInput
      BY <1>7, <2>4, <3>2 DEF tuh_hid_mount_cb, Mounted, TypeOK
    <3>3. QED
      BY <3>1, <3>2
  <2> HIDE DEF f
  <2>5. \A j \in Present' : j # i => j \in Present
    BY <2>1, <2>4 DEF Present
  <2>6. QED
    BY <2>1, <2>2, <2>3, <2>5, LineAppend
<1>8. ASSUME NEW i \in Interfaces, tuh_hid_umount_cb(i) PROVE LineInv'
  <2> DEFINE f == [type |-> "disconnected", itf |-> i, n |-> 0]
  <2>1. /\ line' = Append(line, f) /\ UNCHANGED <<a_connected, got>>
        /\ sent' = [sent EXCEPT ![i] = 0] /\ ep' = [ep EXCEPT ![i] = "closed"]
        /\ leaving' = {j \in Mounted \ {i} : DeviceOf[j] = DeviceOf[i]}
        /\ i \in IF leaving = {} THEN Mounted ELSE leaving
    BY <1>8 DEF tuh_hid_umount_cb, WriteFrame, Frame
  <2>2. f \in Frames /\ f.itf = i /\ f.type = "disconnected"
    BY DEF Frames, Numbers
  <2>3. \A j \in Mounted' : j # i /\ j \in Mounted /\ sent'[j] = sent[j]
    BY <2>1 DEF Mounted, TypeOK
  <2>4. \A j \in Present' : j # i /\ j \in Present /\ sent'[j] = sent[j]
    BY <2>1, <2>3 DEF Present, OneDeviceLeaves
  <2>5. \A j \in Interfaces : DeviceOf[j] = DeviceOf[i] => j \notin Present'
    BY <2>1, <2>3 DEF Present
  <2> HIDE DEF f
  <2>6. QED
    BY <2>1, <2>2, <2>4, <2>5, LineAppend
<1>9. CASE tuh_sof_cb
  <2> DEFINE f == [type |-> "sof", itf |-> NoInterface, n |-> 0]
  <2>1. line' = Append(line, f) /\ UNCHANGED <<a_connected, got, sent, ep, leaving>>
    BY <1>9 DEF tuh_sof_cb, WriteFrame, Frame
  <2>2. f \in Frames /\ f.itf = NoInterface /\ f.type = "sof"
    BY DEF Frames
  <2>3. \A j \in Present' : j # NoInterface /\ j \in Present /\ sent'[j] = sent[j]
    BY <2>1 DEF Present, Mounted
  <2> HIDE DEF f
  <2>4. QED
    BY <2>1, <2>2, <2>3, LineAppend
<1>10. CASE ArmInputs
  <2>1. /\ UNCHANGED <<line, a_connected, got, sent, leaving>>
        /\ arm_ready_hid_inputs(hid_input_states, ep)
    BY <1>10 DEF ArmInputs
  <2>2. \A j \in Present' : j \in Present
    BY <2>1 DEF arm_ready_hid_inputs, Ready, Present, Mounted
  <2>3. QED
    BY <2>1, <2>2, LineSame
<1>11. ASSUME NEW i \in Interfaces, Complete(i) PROVE LineInv'
  BY <1>11, LineSame DEF Complete, Present, Mounted, TypeOK
<1>12. CASE AHandle
  BY <1>12, LineTail
<1>13. CASE UNCHANGED vars
  BY <1>13, LineSame DEF vars, Present, Mounted
<1>14. QED
  BY <1>1, <1>2, <1>3, <1>4, <1>5, <1>6, <1>7, <1>8, <1>9, <1>10, <1>11, <1>12, <1>13
  DEF Next, Callback

\* The report A is about to handle is the next one of a connected interface:
\* none is lost, repeated or reordered between a device and A, for any number
\* of interfaces and slots and any sizes of the ring and the wire.
THEOREM ReportsInOrder == Spec => []NextReportInOrder
<1>1. TypeOK /\ LineInv => NextReportInOrder
  <2> SUFFICES ASSUME TypeOK, LineInv, line # << >>, Head(line).type = "report"
               PROVE  /\ Head(line).itf \in a_connected
                      /\ Head(line).n = (got[Head(line).itf] + 1) % ReportNumbers
    BY DEF NextReportInOrder
  <2>1. /\ 1 \in 1 .. Len(line) /\ Head(line) = line[1] /\ line[1] \in Frames
        /\ \A r \in 1 .. Len(line) : ~(r < 1)
    BY DEF TypeOK
  <2>2. line[1].itf \in Interfaces /\ At(1, line[1].itf)
    BY <2>1 DEF Frames, At
  <2>3. QED
    BY <2>1, <2>2 DEF LineInv, FirstIsNext
<1>2. QED
  BY InitType, TypeStep, InitSlotInv, SlotInvStep, InitHostLine, HostInvStep,
     InitLeaves, LeavesStep, LineInvStep, <1>1, PTL DEF Spec
-----------------------------------------------------------------------------
(* Agreement.  An interface that is gone from B, and that A knows or is     *)
(* about to hear of, has a disconnect frame of its device on the line, and  *)
(* no connect frame of its own behind that one.                             *)

Connects(p, i) == At(p, i) /\ line[p].type = "connected"
DropComing(i) ==
  \E p \in 1 .. Len(line) : /\ line[p].type = "disconnected" /\ SameDevice(p, i)
                            /\ \A q \in 1 .. Len(line) : p < q => ~Connects(q, i)
Heard(i) == i \in a_connected \/ \E p \in 1 .. Len(line) : Connects(p, i)
GoneIsDropped == \A i \in Interfaces : i \notin Present /\ Heard(i) => DropComing(i)

\* It stays so when the line does and no interface goes, ...
LEMMA GoneSame ==
  ASSUME GoneIsDropped, UNCHANGED <<line, a_connected>>, Present \subseteq Present'
  PROVE  GoneIsDropped'
  BY DEF GoneIsDropped, Heard, DropComing, Connects, At, SameDevice

\* ... when a frame is written, a connect frame for an interface that comes and a disconnect
\* frame for one that goes, ...
LEMMA GoneAppend ==
  ASSUME TypeOK, GoneIsDropped, NEW f \in Frames, line' = Append(line, f), UNCHANGED a_connected,
         f.type = "connected" => f.itf \in Present',
         \A i \in Present : \/ i \in Present'
                            \/ f.type = "disconnected" /\ DeviceOf[f.itf] = DeviceOf[i]
  PROVE  GoneIsDropped'
<1> DEFINE n == Len(line)
<1>1. /\ line \in Seq(Frames) /\ n \in Nat /\ Len(line') = n + 1
      /\ \A p \in 1 .. n : line'[p] = line[p] /\ p \in 1 .. n + 1
      /\ line'[n + 1] = f /\ n + 1 \in 1 .. n + 1
      /\ \A p \in 1 .. n + 1 : p = n + 1 \/ p \in 1 .. n
  BY DEF TypeOK
<1> HIDE DEF n
<1> SUFFICES ASSUME NEW i \in Interfaces, i \notin Present', Heard(i)'
             PROVE  \E p \in 1 .. Len(line') :
                      /\ line'[p].type = "disconnected" /\ DeviceOf[line'[p].itf] = DeviceOf[i]
                      /\ \A q \in 1 .. Len(line') : p < q => ~(line'[q].itf = i /\ line'[q].type = "connected")
  BY DEF GoneIsDropped, DropComing, SameDevice, Connects, At
<1>2. CASE f.type = "disconnected" /\ DeviceOf[f.itf] = DeviceOf[i]
  <2>1. \A q \in 1 .. n + 1 : ~(n + 1 < q)
    BY <1>1
  <2> QED
    BY <1>1, <1>2, <2>1
<1>3. CASE ~(f.type = "disconnected" /\ DeviceOf[f.itf] = DeviceOf[i])
  <2>1. i \notin Present /\ ~(f.itf = i /\ f.type = "connected")
    BY <1>3
  <2>2. Heard(i)
    BY <1>1, <2>1 DEF Heard, Connects, At, n
  <2>3. PICK p \in 1 .. n : /\ line[p].type = "disconnected" /\ DeviceOf[line[p].itf] = DeviceOf[i]
                            /\ \A q \in 1 .. n : p < q => ~(line[q].itf = i /\ line[q].type = "connected")
    BY <2>1, <2>2 DEF GoneIsDropped, DropComing, SameDevice, Connects, At, n
  <2>4. \A q \in 1 .. n + 1 : p < q => ~(line'[q].itf = i /\ line'[q].type = "connected")
    BY <1>1, <2>1, <2>3
  <2> QED
    BY <1>1, <2>3, <2>4, SMTT(30)
<1> QED
  BY <1>2, <1>3

\* ... and when A handles the first frame.
LEMMA GoneTail ==
  ASSUME TypeOK, GoneIsDropped, AHandle
  PROVE  GoneIsDropped'
<1> DEFINE n == Len(line)
           h == line[1]
<1>1. /\ n \in Nat /\ 1 \in 1 .. n /\ h \in Frames /\ h = Head(line)
      /\ Len(line') = n - 1
      /\ \A p \in 1 .. n - 1 : line'[p] = line[p + 1] /\ p + 1 \in 1 .. n
      /\ \A p \in 1 .. n : p # 1 => p - 1 \in 1 .. n - 1 /\ line'[p - 1] = line[p]
  BY DEF TypeOK, AHandle
<1>2. /\ Present' = Present
      /\ a_connected' = CASE h.type = "connected"    -> a_connected \cup {h.itf}
                          [] h.type = "disconnected" ->
                               {j \in a_connected : DeviceOf[j] # DeviceOf[h.itf]}
                          [] OTHER                   -> a_connected
  BY <1>1 DEF AHandle, Present, Mounted
<1> HIDE DEF n
<1> SUFFICES ASSUME NEW i \in Interfaces, i \notin Present, Heard(i)'
             PROVE  \E p \in 1 .. Len(line') :
                      /\ line'[p].type = "disconnected" /\ DeviceOf[line'[p].itf] = DeviceOf[i]
                      /\ \A q \in 1 .. Len(line') : p < q => ~(line'[q].itf = i /\ line'[q].type = "connected")
  BY <1>2 DEF GoneIsDropped, DropComing, SameDevice, Connects, At
\* A hears nothing that was not on the line, and the head itself has not taken it away.
<1>3. \/ \E q \in 1 .. n : q # 1 /\ line[q].itf = i /\ line[q].type = "connected"
      \/ /\ i \in a_connected \/ (h.itf = i /\ h.type = "connected")
         /\ h.type = "disconnected" => DeviceOf[h.itf] # DeviceOf[i]
  <2>1. CASE i \in a_connected'
    BY <1>1, <1>2, <2>1 DEF Frames
  <2>2. CASE \E p \in 1 .. n - 1 : line'[p].itf = i /\ line'[p].type = "connected"
    <3>1. PICK p \in 1 .. n - 1 : line'[p].itf = i /\ line'[p].type = "connected"
      BY <2>2
    <3>2. p + 1 \in 1 .. n /\ p + 1 # 1 /\ line'[p] = line[p + 1]
      BY <1>1
    <3> QED
      BY <3>1, <3>2
  <2> QED
    BY <1>1, <2>1, <2>2 DEF Heard, Connects, At
<1>4. Heard(i)
  BY <1>1, <1>3 DEF Heard, Connects, At, n
<1>5. PICK p \in 1 .. n : /\ line[p].type = "disconnected" /\ DeviceOf[line[p].itf] = DeviceOf[i]
                          /\ \A q \in 1 .. n : p < q => ~(line[q].itf = i /\ line[q].type = "connected")
  BY <1>4 DEF GoneIsDropped, DropComing, SameDevice, Connects, At, n
<1>6. p # 1
  <2> SUFFICES ASSUME p = 1 PROVE FALSE
    OBVIOUS
  <2>1. \A q \in 1 .. n : q # 1 => 1 < q
    BY <1>1
  <2> QED
    BY <1>3, <1>5, <2>1
<1>7. p - 1 \in 1 .. n - 1 /\ line'[p - 1] = line[p]
  BY <1>1, <1>6
<1>8. ASSUME NEW q \in 1 .. n - 1, p - 1 < q
      PROVE  ~(line'[q].itf = i /\ line'[q].type = "connected")
  <2>1. q + 1 \in 1 .. n /\ p < q + 1 /\ line'[q] = line[q + 1]
    BY <1>1, <1>8
  <2> QED
    BY <1>5, <2>1
<1> QED
  BY <1>1, <1>5, <1>7, <1>8

\* Every step.
LEMMA GoneStep == TypeOK /\ GoneIsDropped /\ [Next]_vars => GoneIsDropped'
<1> SUFFICES ASSUME TypeOK, GoneIsDropped, [Next]_vars PROVE GoneIsDropped'
  OBVIOUS
<1> USE BridgeAssumption
<1> USE DEF inputs, uart, history
<1>1. CASE SerialRead \/ FlushBlocked \/ FlushDone \/ UNCHANGED vars
  <2>1. UNCHANGED <<line, a_connected, ep, leaving>>
    BY <1>1 DEF SerialRead, serial_read, FlushBlocked, FlushDone, vars
  <2> QED
    BY <2>1, GoneSame DEF Present, Mounted
<1>2. CASE FlushSend
  <2>1. Current \in Slots /\ Pending(Current) /\ hid_input_states[Current].itf \in Interfaces
        /\ hid_input_states[Current].report \in Numbers
    BY <1>2, CurrentIsPending DEF FlushSend, Pending, Active, TypeOK
  <2>2. PICK i \in Interfaces, m \in Numbers :
          /\ line' = Append(line, [type |-> "report", itf |-> i, n |-> m])
          /\ ep' \in ArmResults(i) /\ UNCHANGED <<a_connected, leaving>>
    BY <1>2, <2>1 DEF FlushSend, WriteFrame, Frame
  <2> DEFINE f == [type |-> "report", itf |-> i, n |-> m]
  <2>3. f \in Frames /\ f.type = "report"
    BY DEF Frames
  <2>4. Present \subseteq Present'
    BY <2>2 DEF Present, Mounted, ArmResults, TypeOK
  <2> HIDE DEF f
  <2> QED
    BY <2>2, <2>3, <2>4, GoneAppend DEF f
<1>3. ASSUME NEW i \in Interfaces, ReceiveSend(i) PROVE GoneIsDropped'
  <2> DEFINE f == [type |-> "report", itf |-> i, n |-> taken[i]]
  <2>1. line' = Append(line, f) /\ UNCHANGED <<a_connected, leaving>>
        /\ \E e \in {"idle", "armed"} : ep' = [ep EXCEPT ![i] = e]
    BY <1>3 DEF ReceiveSend, WriteFrame, Frame
  <2>2. f \in Frames /\ f.type = "report"
    BY DEF Frames, TypeOK
  <2>3. Present \subseteq Present'
    BY <2>1 DEF Present, Mounted, TypeOK
  <2> HIDE DEF f
  <2> QED
    BY <2>1, <2>2, <2>3, GoneAppend
<1>4. ASSUME NEW i \in Interfaces, ReceiveHold(i) PROVE GoneIsDropped'
  BY <1>4, GoneSame DEF ReceiveHold, Present, Mounted, TypeOK
<1>5. ASSUME NEW i \in Interfaces, tuh_hid_mount_cb(i) PROVE GoneIsDropped'
  <2> DEFINE f == [type |-> "connected", itf |-> i, n |-> 0]
  <2>1. line' = Append(line, f) /\ UNCHANGED <<a_connected, leaving>> /\ leaving = {}
    BY <1>5 DEF tuh_hid_mount_cb, InTask, WriteFrame, Frame
  <2>2. f \in Frames /\ f.type = "connected" /\ f.itf = i
    BY DEF Frames, Numbers
  <2>3. \A j \in Interfaces : j = i \/ ep[j] # "closed" => ep'[j] # "closed"
    <3>1. \A j \in Interfaces : [ep EXCEPT ![i] = "idle"][j] = IF j = i THEN "idle" ELSE ep[j]
      BY DEF TypeOK
    <3>2. CASE i \in HasInput
      <4>1. PICK armed \in SUBSET Ready(register_hid_input(i), [ep EXCEPT ![i] = "idle"]) :
              ep' = [k \in Interfaces |-> IF k \in armed THEN "armed"
                                          ELSE [ep EXCEPT ![i] = "idle"][k]]
        BY <1>5, <3>2 DEF tuh_hid_mount_cb, arm_ready_hid_inputs
      <4> QED
        BY <3>1, <4>1
    <3>3. CASE i \notin HasInput
      <4>1. ep' = [ep EXCEPT ![i] = "idle"]
        BY <1>5, <3>3 DEF tuh_hid_mount_cb
      <4> QED
        BY <3>1, <4>1
    <3> QED
      BY <3>2, <3>3
  <2> HIDE DEF f
  <2>4. i \in Present' /\ Present \subseteq Present'
    BY <2>1, <2>3 DEF Present, Mounted
  <2> QED
    BY <2>1, <2>2, <2>4, GoneAppend
<1>6. ASSUME NEW i \in Interfaces, tuh_hid_umount_cb(i) PROVE GoneIsDropped'
  <2> DEFINE f == [type |-> "disconnected", itf |-> i, n |-> 0]
  <2>1. /\ line' = Append(line, f) /\ UNCHANGED a_connected
        /\ ep' = [ep EXCEPT ![i] = "closed"]
        /\ leaving' = {j \in Mounted \ {i} : DeviceOf[j] = DeviceOf[i]}
    BY <1>6 DEF tuh_hid_umount_cb, WriteFrame, Frame
  <2>2. f \in Frames /\ f.type = "disconnected" /\ f.itf = i
    BY DEF Frames, Numbers
  <2>3. \A j \in Present : j \in Present' \/ DeviceOf[i] = DeviceOf[j]
    BY <2>1 DEF Present, Mounted, TypeOK
  <2> HIDE DEF f
  <2> QED
    BY <2>1, <2>2, <2>3, GoneAppend
<1>7. CASE tuh_sof_cb
  <2> DEFINE f == [type |-> "sof", itf |-> NoInterface, n |-> 0]
  <2>1. line' = Append(line, f) /\ UNCHANGED <<a_connected, ep, leaving>>
    BY <1>7 DEF tuh_sof_cb, WriteFrame, Frame
  <2>2. f \in Frames /\ f.type = "sof"
    BY DEF Frames
  <2>3. Present \subseteq Present'
    BY <2>1 DEF Present, Mounted
  <2> HIDE DEF f
  <2> QED
    BY <2>1, <2>2, <2>3, GoneAppend
<1>8. CASE ArmInputs
  <2>1. UNCHANGED <<line, a_connected, leaving>> /\ arm_ready_hid_inputs(hid_input_states, ep)
    BY <1>8 DEF ArmInputs
  <2>2. Present \subseteq Present'
    BY <2>1 DEF arm_ready_hid_inputs, Present, Mounted
  <2> QED
    BY <2>1, <2>2, GoneSame
<1>9. ASSUME NEW i \in Interfaces, Complete(i) PROVE GoneIsDropped'
  BY <1>9, GoneSame DEF Complete, Present, Mounted, TypeOK
<1>10. CASE AHandle
  BY <1>10, GoneTail
<1> QED
  BY <1>1, <1>2, <1>3, <1>4, <1>5, <1>6, <1>7, <1>8, <1>9, <1>10 DEF Next, Callback

\* When the line is empty and no device is being removed, the interfaces A knows are those
\* mounted at B, though one disconnect frame makes A drop a whole device and others of its
\* interfaces may have come back: for any devices, coming and going in any order.
THEOREM BothSidesAgree == Spec => []AgreeOnInterfaces
<1>1. TypeOK /\ LineInv /\ GoneIsDropped => AgreeOnInterfaces
  <2> SUFFICES ASSUME TypeOK, LineInv, GoneIsDropped, line = << >>, leaving = {}
               PROVE  a_connected = Mounted
    BY DEF AgreeOnInterfaces
  <2>1. Len(line) = 0 /\ Present = Mounted
    BY DEF Present
  <2>2. Mounted \subseteq a_connected
    BY <2>1 DEF LineInv, LastIsSent
  <2>3. a_connected \subseteq Mounted
    BY <2>1 DEF GoneIsDropped, Heard, DropComing, TypeOK
  <2> QED
    BY <2>2, <2>3
<1>2. Init => GoneIsDropped
  <2> SUFFICES ASSUME Init PROVE GoneIsDropped
    OBVIOUS
  <2>1. Len(line) = 0 /\ a_connected = {}
    BY DEF Init
  <2> QED
    BY <2>1 DEF GoneIsDropped, Heard
<1>3. QED
  BY InitType, TypeStep, InitSlotInv, SlotInvStep, InitHostLine, HostInvStep,
     InitLeaves, LeavesStep, LineInvStep, GoneStep, <1>1, <1>2, PTL DEF Spec
-----------------------------------------------------------------------------
(* Overtaking.  The cursor reaches an interface whose report is held before *)
(* it comes again to one that was sent in the meantime.                     *)

\* Slots the cursor at a goes past before it reaches s.
Turns(a, s) == IF s >= a THEN s - a ELSE s - a + CFG_TUH_HID

PassedHasSlot ==
  \A i \in Interfaces : \A j \in passed[i] :
    j # i /\ Holds(i) /\ \E t \in Slots : hid_input_states[t].itf = j
HeldComesFirst ==
  \A i \in Interfaces : \A j \in passed[i] : \A s, t \in Slots :
    hid_input_states[s].itf = i /\ hid_input_states[t].itf = j
      => Turns(next_pending_hid_input, s) < Turns(next_pending_hid_input, t)
OvertakeInv == PassedHasSlot /\ HeldComesFirst

\* Every slot is so many turns away that adding them to the cursor names it.
LEMMA TurnsReach ==
  ASSUME NEW a \in Slots, NEW s \in Slots
  PROVE  Turns(a, s) \in Slots /\ (a + Turns(a, s)) % CFG_TUH_HID = s
<1> USE BridgeAssumption DEF Slots
<1>1. CASE s >= a
  <2>1. Turns(a, s) = s - a /\ s - a \in 0 .. CFG_TUH_HID - 1 /\ a + (s - a) = s
    BY <1>1 DEF Turns
  <2> QED
    BY <2>1, ModBelow
<1>2. CASE s < a
  <2>1. /\ Turns(a, s) = s - a + CFG_TUH_HID /\ s - a + CFG_TUH_HID \in 0 .. CFG_TUH_HID - 1
        /\ a + (s - a + CFG_TUH_HID) = s + CFG_TUH_HID
        /\ s + CFG_TUH_HID \in CFG_TUH_HID .. 2 * CFG_TUH_HID - 1
        /\ s + CFG_TUH_HID - CFG_TUH_HID = s
    BY <1>2 DEF Turns
  <2> DEFINE w == s + CFG_TUH_HID
  <2>2. w \in CFG_TUH_HID .. 2 * CFG_TUH_HID - 1 /\ w - CFG_TUH_HID = s
    BY <2>1
  <2> HIDE DEF w
  <2>3. w % CFG_TUH_HID = s
    BY <2>2, ModAbove
  <2> QED
    BY <2>1, <2>3 DEF w
<1> QED
  BY <1>1, <1>2

\* The slot the flush acts on is the first pending one from the cursor on.
LEMMA CurrentIsFirst ==
  ASSUME TypeOK, has_pending_hid_reports, NEW s \in Slots, Pending(s)
  PROVE  Turns(next_pending_hid_input, Current) <= Turns(next_pending_hid_input, s)
<1> DEFINE a == next_pending_hid_input
           after(k) == (a + k) % CFG_TUH_HID
           IsFirst(x) == Pending(after(x)) /\ \A n \in Slots : n < x => ~Pending(after(n))
           first == CHOOSE x \in Slots : IsFirst(x)
<1> USE BridgeAssumption
<1>1. a \in Slots /\ Slots \in SUBSET Nat /\ Current = after(first)
  BY DEF TypeOK, Slots, Current
<1> HIDE DEF a
<1>2. \A t \in Slots : Turns(a, t) \in Slots /\ after(Turns(a, t)) = t
  BY <1>1, TurnsReach
<1>3. PICK m \in {k \in Slots : Pending(after(k))} :
        \A n \in {k \in Slots : Pending(after(k))} : m <= n
  <2> DEFINE T == {k \in Slots : Pending(after(k))}
  <2>1. Turns(a, s) \in T /\ T \in SUBSET Nat
    BY <1>1, <1>2
  <2> HIDE DEF T
  <2>2. \E m \in T : \A n \in T : m <= n
    BY <2>1, LeastElement
  <2> QED
    BY <2>2 DEF T
<1>4. m \in Slots /\ IsFirst(m)
  <2>1. \A n \in Slots : n < m => ~(m <= n)
    BY <1>1
  <2> QED
    BY <1>3, <2>1
<1>5. first \in Slots /\ IsFirst(first)
  <2> HIDE DEF IsFirst
  <2> QED
    BY <1>4
<1>6. first <= Turns(a, s)
  <2> HIDE DEF first
  <2>1. ~(Turns(a, s) < first)
    BY <1>2, <1>5
  <2> DEFINE t == Turns(a, s)
  <2>2. t \in Nat /\ first \in Nat /\ ~(t < first)
    BY <1>1, <1>2, <1>5, <2>1
  <2> HIDE DEF t
  <2>3. first <= t
    BY <2>2
  <2> QED
    BY <2>3 DEF t
<1>7. \A k, n \in Slots : after(k) = after(n) => k = n
  <2> SUFFICES ASSUME NEW k \in Slots, NEW n \in Slots, after(k) = after(n) PROVE k = n
    OBVIOUS
  <2>1. \A x \in Slots : after(x) = IF a + x < CFG_TUH_HID THEN a + x ELSE a + x - CFG_TUH_HID
    BY <1>1, ModOfSum DEF Slots
  <2> HIDE DEF after
  <2> QED
    BY <1>1, <2>1 DEF Slots
<1>8. Turns(a, Current) = first
  <2>1. after(first) \in Slots
    <3> DEFINE w == a + first
    <3>1. w \in Nat
      <4> HIDE DEF first
      <4> QED
        BY <1>1, <1>5
    <3> HIDE DEF w
    <3>2. w % CFG_TUH_HID \in Slots
      BY <3>1, ModRange DEF Slots
    <3> QED
      BY <3>2 DEF w
  <2>2. Turns(a, Current) \in Slots /\ after(Turns(a, Current)) = after(first)
    BY <1>1, <1>2, <2>1
  <2> HIDE DEF after, first
  <2> QED
    BY <1>5, <1>7, <2>2
<1> QED
  <2> HIDE DEF first, after
  <2> QED
    BY <1>6, <1>8 DEF a

\* The slot after the last one is the first.
LEMMA NextSlotIs ==
  ASSUME NEW c \in Slots
  PROVE  NextSlot(c) = IF c + 1 < CFG_TUH_HID THEN c + 1 ELSE 0
<1> USE BridgeAssumption DEF Slots
<1>1. CASE c + 1 < CFG_TUH_HID
  <2>1. c + 1 \in 0 .. CFG_TUH_HID - 1
    BY <1>1
  <2> QED
    BY <1>1, <2>1, ModBelow DEF NextSlot
<1>2. CASE ~(c + 1 < CFG_TUH_HID)
  <2>1. c + 1 = CFG_TUH_HID /\ CFG_TUH_HID \in CFG_TUH_HID .. 2 * CFG_TUH_HID - 1
    BY <1>2
  <2> QED
    BY <1>2, <2>1, ModAbove DEF NextSlot
<1> QED
  BY <1>1, <1>2

\* Past slot c, which neither s nor t comes before, the order of the two is the same.
LEMMA TurnsKept ==
  ASSUME NEW a \in Slots, NEW c \in Slots, NEW s \in Slots, NEW t \in Slots,
         Turns(a, c) <= Turns(a, s), Turns(a, s) < Turns(a, t)
  PROVE  /\ Turns(c, s) < Turns(c, t)
         /\ s # c => Turns(NextSlot(c), s) < Turns(NextSlot(c), t)
<1> USE BridgeAssumption DEF Slots, Turns
<1>1. Turns(c, s) < Turns(c, t)
  OBVIOUS
<1>2. NextSlot(c) = IF c + 1 < CFG_TUH_HID THEN c + 1 ELSE 0
  BY NextSlotIs
<1>3. s # c => Turns(NextSlot(c), s) < Turns(NextSlot(c), t)
  BY <1>2
<1> QED
  BY <1>1, <1>3

\* A slot that has just had its turn is the last to have one.
LEMMA TurnsLast ==
  ASSUME NEW c \in Slots, NEW s \in Slots, s # c
  PROVE  Turns(NextSlot(c), s) < Turns(NextSlot(c), c)
<1> USE BridgeAssumption DEF Slots, Turns
<1> QED
  BY NextSlotIs
\* OvertakeInv stays true when the cursor and the history do, and every slot in use keeps its
\* interface and the report it may hold.
LEMMA OvertakeSame ==
  ASSUME TypeOK, OvertakeInv, SlotPerInput', UNCHANGED <<next_pending_hid_input, passed>>,
         \A s \in Slots : Active(s) => /\ hid_input_states'[s].itf = hid_input_states[s].itf
                                       /\ Pending(s) => Pending(s)'
  PROVE  OvertakeInv'
<1>1. PassedHasSlot'
  <2> SUFFICES ASSUME NEW i \in Interfaces, NEW j \in passed[i]
               PROVE  /\ j # i
                      /\ \E s \in Slots : hid_input_states'[s].itf = i /\ Pending(s)'
                      /\ \E t \in Slots : hid_input_states'[t].itf = j
    BY DEF PassedHasSlot, Holds
  <2>1. j \in Interfaces /\ j # NoInterface
    BY BridgeAssumption DEF TypeOK
  <2>2. PICK s \in Slots, t \in Slots : /\ hid_input_states[s].itf = i /\ Pending(s) /\ j # i
                                       /\ hid_input_states[t].itf = j
    BY DEF OvertakeInv, PassedHasSlot, Holds
  <2> QED
    BY <2>1, <2>2 DEF Pending, Active
<1>2. HeldComesFirst'
  <2> SUFFICES ASSUME NEW i \in Interfaces, NEW j \in passed[i], NEW s \in Slots, NEW t \in Slots,
                      hid_input_states'[s].itf = i, hid_input_states'[t].itf = j
               PROVE  Turns(next_pending_hid_input, s) < Turns(next_pending_hid_input, t)
    BY DEF HeldComesFirst
  <2>1. j \in Interfaces /\ j # NoInterface /\ i # NoInterface
    BY BridgeAssumption DEF TypeOK
  <2>2. PICK u \in Slots, v \in Slots : hid_input_states[u].itf = i /\ hid_input_states[v].itf = j
    BY DEF OvertakeInv, PassedHasSlot, Holds
  <2>3. u = s /\ v = t
    BY <2>1, <2>2 DEF SlotPerInput, Active
  <2> QED
    BY <2>2, <2>3 DEF OvertakeInv, HeldComesFirst
<1> QED
  BY <1>1, <1>2 DEF OvertakeInv

\* An interface that has a slot is not registered again, and the others keep theirs.
LEMMA RegisteredKeep ==
  ASSUME TypeOK, SlotPerInput, NEW i \in Interfaces, NEW s \in Slots, Active(s)
  PROVE  register_hid_input(i)[s] = hid_input_states[s]
  BY RegisterKeeps

\* The flush sends the report of one interface; every other one that waits comes before it now.
LEMMA OvertakeSend ==
  ASSUME TypeOK, SlotPerInput, OvertakeInv, FlushSend
  PROVE  OvertakeInv'
<1> DEFINE a == next_pending_hid_input
           c == Current
           k == hid_input_states[c].itf
<1> USE BridgeAssumption
<1>1. a \in Slots /\ c \in Slots /\ Pending(c) /\ k \in Interfaces
  BY CurrentIsPending DEF FlushSend, Pending, Active, TypeOK
<1>2. \A s \in Slots : Pending(s) => Turns(a, c) <= Turns(a, s)
  BY CurrentIsFirst DEF FlushSend
<1>3. \A s \in Slots : hid_input_states'[s] = IF s = c THEN [itf |-> k, report |-> NoReport]
                                              ELSE hid_input_states[s]
  BY <1>1, Clear DEF FlushSend, TypeOK
<1>4. /\ next_pending_hid_input' = NextSlot(c)
      /\ passed' = [j \in Interfaces |-> IF j = k THEN {}
                                         ELSE IF Holds(j) THEN passed[j] \cup {k} ELSE {}]
  BY DEF FlushSend, RecordSent
<1> HIDE DEF a, c, k
<1>5. hid_input_states[c].itf = k /\ k # NoInterface
  BY <1>1 DEF k
<1>6. \A s \in Slots : hid_input_states'[s].itf = hid_input_states[s].itf
  BY <1>3, <1>5
<1> SUFFICES ASSUME NEW i \in Interfaces, NEW j \in passed'[i]
             PROVE  /\ j # i
                    /\ \E s \in Slots : hid_input_states'[s].itf = i /\ Pending(s)'
                    /\ \E t \in Slots : hid_input_states'[t].itf = j
                    /\ \A s, t \in Slots : hid_input_states'[s].itf = i /\ hid_input_states'[t].itf = j
                         => Turns(next_pending_hid_input', s) < Turns(next_pending_hid_input', t)
  BY DEF OvertakeInv, PassedHasSlot, HeldComesFirst, Holds
<1>7. i # k /\ Holds(i) /\ (j = k \/ j \in passed[i])
  BY <1>4
<1>8. PICK u \in Slots : hid_input_states[u].itf = i /\ Pending(u) /\ u # c
  BY <1>5, <1>7 DEF Holds
<1>9. hid_input_states'[u].itf = i /\ Pending(u)' /\ i # NoInterface
  BY <1>3, <1>8 DEF Pending, Active
<1>10. \A s \in Slots : hid_input_states[s].itf = i => s = u
  BY <1>8, <1>9 DEF SlotPerInput, Active
<1>11. CASE j = k
  <2>1. \A t \in Slots : hid_input_states[t].itf = k => t = c
    BY <1>1, <1>5 DEF SlotPerInput, Active
  <2>2. Turns(NextSlot(c), u) < Turns(NextSlot(c), c)
    BY <1>1, <1>8, TurnsLast
  <2> QED
    BY <1>1, <1>4, <1>5, <1>6, <1>7, <1>9, <1>10, <1>11, <2>1, <2>2
<1>12. CASE j \in passed[i]
  <2>1. j # i /\ \E t \in Slots : hid_input_states[t].itf = j
    BY <1>12 DEF OvertakeInv, PassedHasSlot
  <2>2. ASSUME NEW t \in Slots, hid_input_states[t].itf = j
        PROVE  Turns(NextSlot(c), u) < Turns(NextSlot(c), t)
    <3>1. Turns(a, u) < Turns(a, t)
      BY <1>8, <1>12, <2>2 DEF OvertakeInv, HeldComesFirst, a
    <3>2. Turns(a, c) <= Turns(a, u)
      BY <1>2, <1>8
    <3> QED
      BY <1>1, <1>8, <3>1, <3>2, TurnsKept
  <2> QED
    BY <1>4, <1>6, <1>9, <1>10, <2>1, <2>2
<1> QED
  BY <1>7, <1>11, <1>12

\* A blocked flush leaves the cursor at the first slot that waits.
LEMMA OvertakeBlocked ==
  ASSUME TypeOK, SlotPerInput, OvertakeInv, FlushBlocked
  PROVE  OvertakeInv'
<1> DEFINE a == next_pending_hid_input
           c == Current
<1> USE BridgeAssumption
<1>1. a \in Slots /\ c \in Slots
  BY CurrentIsPending DEF FlushBlocked, TypeOK
<1>2. \A s \in Slots : Pending(s) => Turns(a, c) <= Turns(a, s)
  BY CurrentIsFirst DEF FlushBlocked
<1>3. UNCHANGED <<hid_input_states, passed>> /\ next_pending_hid_input' = c
  BY DEF FlushBlocked, history
<1> HIDE DEF c
<1>4. PassedHasSlot'
  BY <1>3 DEF OvertakeInv, PassedHasSlot, Holds, Pending, Active
<1>5. ASSUME NEW i \in Interfaces, NEW j \in passed[i], NEW s \in Slots, NEW t \in Slots,
             hid_input_states[s].itf = i, hid_input_states[t].itf = j
      PROVE  Turns(c, s) < Turns(c, t)
  <2>1. PICK u \in Slots : hid_input_states[u].itf = i /\ Pending(u)
    BY DEF OvertakeInv, PassedHasSlot, Holds
  <2>2. u = s
    BY <1>5, <2>1 DEF SlotPerInput, Pending, Active
  <2>3. Turns(a, c) <= Turns(a, s)
    BY <1>2, <2>1, <2>2
  <2>4. Turns(a, s) < Turns(a, t)
    BY <1>5 DEF OvertakeInv, HeldComesFirst
  <2> QED
    BY <1>1, <2>3, <2>4, TurnsKept
<1> QED
  BY <1>3, <1>4, <1>5 DEF OvertakeInv, HeldComesFirst
\* Every step.
LEMMA OvertakeStep == TypeOK /\ SlotInv /\ OvertakeInv /\ [Next]_vars => OvertakeInv'
<1> SUFFICES ASSUME TypeOK, SlotInv, OvertakeInv, [Next]_vars PROVE OvertakeInv'
  OBVIOUS
<1> USE DEF inputs, uart, history
<1>0. SlotPerInput /\ SlotPerInput'
  BY SlotInvStep DEF SlotInv
<1>1. ASSUME UNCHANGED <<next_pending_hid_input, passed, hid_input_states>> PROVE OvertakeInv'
  BY <1>0, <1>1, OvertakeSame DEF Pending, Active
<1>2. CASE SerialRead \/ FlushDone \/ tuh_sof_cb \/ ArmInputs \/ AHandle \/ UNCHANGED vars
  BY <1>1, <1>2 DEF SerialRead, serial_read, FlushDone, tuh_sof_cb, ArmInputs, AHandle, vars
<1>3. CASE FlushSend
  BY <1>0, <1>3, OvertakeSend
<1>4. CASE FlushBlocked
  BY <1>0, <1>4, OvertakeBlocked
<1>5. ASSUME NEW i \in Interfaces, ReceiveSend(i) PROVE OvertakeInv'
  <2>1. \A j \in Interfaces : ~Holds(j)
    BY <1>5 DEF ReceiveSend, has_pending_hid_reports, Holds
  <2>2. passed' = [j \in Interfaces |-> {}]
    BY <1>5, <2>1 DEF ReceiveSend, RecordSent
  <2> QED
    BY <2>2 DEF OvertakeInv, PassedHasSlot, HeldComesFirst
<1>6. ASSUME NEW i \in Interfaces, ReceiveHold(i) PROVE OvertakeInv'
  <2>1. /\ UNCHANGED <<next_pending_hid_input, passed>>
        /\ hid_input_states' = [s \in Slots |-> IF register_hid_input(i)[s].itf = i
                                                THEN [itf |-> i, report |-> taken[i]]
                                                ELSE register_hid_input(i)[s]]
    BY <1>6 DEF ReceiveHold
  <2>2. taken[i] # NoReport
    BY BridgeAssumption DEF TypeOK
  <2>3. ASSUME NEW s \in Slots, Active(s)
        PROVE  /\ hid_input_states'[s].itf = hid_input_states[s].itf
               /\ Pending(s) => Pending(s)'
    <3>1. register_hid_input(i)[s] = hid_input_states[s]
      BY <1>0, <2>3, RegisteredKeep
    <3> QED
      BY <2>1, <2>2, <2>3, <3>1 DEF Pending, Active
  <2> QED
    BY <1>0, <2>1, <2>3, OvertakeSame
<1>7. ASSUME NEW i \in Interfaces, tuh_hid_mount_cb(i) PROVE OvertakeInv'
  <2>1. /\ UNCHANGED <<next_pending_hid_input, passed>>
        /\ hid_input_states' = register_hid_input(i) \/ UNCHANGED hid_input_states
    BY <1>7 DEF tuh_hid_mount_cb
  <2>2. ASSUME NEW s \in Slots, Active(s) PROVE hid_input_states'[s] = hid_input_states[s]
    BY <1>0, <2>1, <2>2, RegisteredKeep
  <2> QED
    BY <1>0, <2>1, <2>2, OvertakeSame DEF Pending, Active
<1>8. ASSUME NEW i \in Interfaces, tuh_hid_umount_cb(i) PROVE OvertakeInv'
  <2>1. /\ UNCHANGED next_pending_hid_input
        /\ passed' = [j \in Interfaces |-> IF j = i THEN {} ELSE passed[j] \ {i}]
        /\ \A s \in Slots : hid_input_states'[s] = IF hid_input_states[s].itf = i
                                                   THEN FreeSlot ELSE hid_input_states[s]
    BY <1>8 DEF tuh_hid_umount_cb, unregister_hid_input
  <2> SUFFICES ASSUME NEW h \in Interfaces, NEW j \in passed'[h]
               PROVE  /\ j # h
                      /\ \E s \in Slots : hid_input_states'[s].itf = h /\ Pending(s)'
                      /\ \E t \in Slots : hid_input_states'[t].itf = j
                      /\ \A s, t \in Slots :
                           hid_input_states'[s].itf = h /\ hid_input_states'[t].itf = j
                           => Turns(next_pending_hid_input', s) < Turns(next_pending_hid_input', t)
    BY DEF OvertakeInv, PassedHasSlot, HeldComesFirst, Holds
  <2>2. h # i /\ j \in passed[h] /\ j # i /\ j \in Interfaces
    BY <2>1 DEF TypeOK
  <2>3. \A s \in Slots : hid_input_states'[s].itf \in {h, j} => hid_input_states'[s] = hid_input_states[s]
    BY <2>1, <2>2, BridgeAssumption DEF FreeSlot
  <2>4. \A s \in Slots : hid_input_states[s].itf \in {h, j} => hid_input_states'[s] = hid_input_states[s]
    BY <2>1, <2>2
  <2> QED
    BY <2>1, <2>2, <2>3, <2>4 DEF OvertakeInv, PassedHasSlot, HeldComesFirst, Holds, Pending, Active
<1>9. ASSUME NEW i \in Interfaces, Complete(i) PROVE OvertakeInv'
  BY <1>1, <1>9 DEF Complete
<1> QED
  BY <1>2, <1>3, <1>4, <1>5, <1>6, <1>7, <1>8, <1>9 DEF Next, Callback

\* While an interface's report is held no other interface is sent twice, whatever the number of
\* interfaces, the free space in the ring and the order of USB events: the cursor of the flush
\* starves none, and no report is sent from the callback past one that waits.
THEOREM NoneOvertakesTwice == Spec => NoSecondOvertake
<1>1. Init => OvertakeInv
  BY DEF Init, OvertakeInv, PassedHasSlot, HeldComesFirst
<1>2. TypeOK /\ SlotInv /\ OvertakeInv
      => \A i, j \in Interfaces :
           Holds(i) /\ j \in passed[i] => ~(FlushSend /\ hid_input_states[Current].itf = j)
                                          /\ ~ReceiveSend(j)
  <2> SUFFICES ASSUME TypeOK, SlotInv, OvertakeInv, NEW i \in Interfaces, NEW j \in passed[i]
               PROVE  /\ ~(FlushSend /\ hid_input_states[Current].itf = j)
                      /\ ~ReceiveSend(j)
    OBVIOUS
  <2>1. PICK s \in Slots : hid_input_states[s].itf = i /\ Pending(s)
    BY DEF OvertakeInv, PassedHasSlot, Holds
  <2>2. has_pending_hid_reports /\ ~ReceiveSend(j)
    BY <2>1 DEF ReceiveSend, has_pending_hid_reports
  <2>3. hid_input_states[Current].itf # j
    <3>1. /\ Current \in Slots /\ next_pending_hid_input \in Slots
          /\ Turns(next_pending_hid_input, Current) <= Turns(next_pending_hid_input, s)
      BY <2>1, <2>2, CurrentIsPending, CurrentIsFirst DEF TypeOK
    <3>2. /\ Turns(next_pending_hid_input, Current) \in Nat
          /\ Turns(next_pending_hid_input, s) \in Nat
      BY <3>1, TurnsReach, BridgeAssumption DEF Slots
    <3> QED
      BY <2>1, <3>1, <3>2 DEF OvertakeInv, HeldComesFirst
  <2> QED
    BY <2>2, <2>3
<1> QED
  BY InitType, TypeStep, InitSlotInv, SlotInvStep, OvertakeStep, <1>1, <1>2, PTL
  DEF Spec, NoSecondOvertake

-----------------------------------------------------------------------------
(* The streams.  The frames of an interface on the line are defined by      *)
(* recursion on the length of the line, which is unfolded here for a frame  *)
(* that is appended and for one that is taken off.                          *)

\* A set with 0 and with the successor of each of its members below N has every number up to N.
LEMMA UpTo ==
  ASSUME NEW N \in Nat, NEW T, 0 \in T, \A n \in 0 .. N - 1 : n \in T => n + 1 \in T
  PROVE  \A n \in 0 .. N : n \in T
<1> SUFFICES ASSUME NEW m \in 0 .. N, m \notin T PROVE FALSE
  OBVIOUS
<1> DEFINE U == {n \in 0 .. N : n \notin T}
<1>1. PICK x \in U : \A y \in U : x <= y
  <2>1. U \in SUBSET Nat /\ U # {}
    OBVIOUS
  <2> HIDE DEF U
  <2> QED
    BY <2>1, LeastElement
<1>2. x \in 0 .. N /\ x \notin T /\ x # 0 /\ x - 1 \in 0 .. N - 1
  BY <1>1
<1>3. x - 1 \notin U
  <2>1. ~(x <= x - 1)
    BY <1>2
  <2> QED
    BY <1>1, <2>1
<1>4. x - 1 \in T
  BY <1>2, <1>3
<1>5. x - 1 + 1 = x
  BY <1>2
<1> QED
  BY <1>2, <1>4, <1>5

\* f starts from base and goes on step by step.
Follows(f, Acc, base, N, step) ==
  /\ f \in [0 .. N -> Acc]
  /\ f[0] = base
  /\ \A n \in 0 .. N - 1 : f[n + 1] = step[n + 1][f[n]]

LEMMA FollowsExists ==
  ASSUME NEW Acc, NEW base \in Acc, NEW N \in Nat, NEW step \in [1 .. N -> [Acc -> Acc]]
  PROVE  \E f : Follows(f, Acc, base, N, step)
<1> DEFINE T == {n \in 0 .. N : \E f : Follows(f, Acc, base, n, step)}
<1>1. 0 \in T
  <2> DEFINE f == [n \in 0 .. 0 |-> base]
  <2>1. Follows(f, Acc, base, 0, step)
    BY DEF Follows
  <2> HIDE DEF f
  <2> QED
    BY <2>1
<1>2. ASSUME NEW n \in 0 .. N - 1, n \in T PROVE n + 1 \in T
  <2>1. PICK f : Follows(f, Acc, base, n, step)
    BY <1>2
  <2> DEFINE g == [m \in 0 .. n + 1 |-> IF m = n + 1 THEN step[n + 1][f[n]] ELSE f[m]]
  <2>2. f \in [0 .. n -> Acc] /\ n \in 0 .. n /\ f[n] \in Acc /\ n + 1 \in 1 .. N
    BY <2>1 DEF Follows
  <2>3. step[n + 1][f[n]] \in Acc
    BY <2>2
  <2>4. g \in [0 .. n + 1 -> Acc]
    BY <2>2, <2>3
  <2>5. g[0] = base
    BY <2>1 DEF Follows
  <2>6. ASSUME NEW m \in 0 .. (n + 1) - 1 PROVE g[m + 1] = step[m + 1][g[m]]
    <3>1. CASE m = n
      BY <3>1
    <3>2. CASE m # n
      <4>1. m \in 0 .. n - 1 /\ m + 1 \in 0 .. n + 1 /\ m + 1 # n + 1 /\ m # n + 1 /\ m \in 0 .. n + 1
        BY <3>2
      <4>2. f[m + 1] = step[m + 1][f[m]]
        BY <2>1, <4>1 DEF Follows
      <4> QED
        BY <4>1, <4>2
    <3> QED
      BY <3>1, <3>2
  <2>7. Follows(g, Acc, base, n + 1, step) /\ n + 1 \in 0 .. N
    <3> HIDE DEF g
    <3> QED
      BY <2>4, <2>5, <2>6 DEF Follows
  <2> HIDE DEF g
  <2> QED
    BY <2>7
<1>3. \A n \in 0 .. N : n \in T
  <2> HIDE DEF T
  <2> QED
    BY <1>1, <1>2, UpTo
<1> QED
  BY <1>3

Items == [type : {"report", "connected", "disconnected", "sof"}, n : Numbers]
ItemOf(f) == [type |-> f.type, n |-> f.n]

\* The frames of i among the first ones of l.
FramesSoFar(f, i, l) ==
  /\ f \in [0 .. Len(l) -> Seq(Items)]
  /\ f[0] = << >>
  /\ \A n \in 0 .. Len(l) - 1 :
       f[n + 1] = IF l[n + 1].itf = i THEN Append(f[n], ItemOf(l[n + 1])) ELSE f[n]

LEMMA ItemType == ASSUME NEW f \in Frames PROVE ItemOf(f) \in Items
  BY BridgeAssumption DEF Frames, Items, ItemOf, Numbers

LEMMA FramesOfSteps ==
  ASSUME NEW i, NEW l \in Seq(Frames)
  PROVE  \E f : FramesSoFar(f, i, l) /\ f[Len(l)] = FramesOf(i, l)
<1> DEFINE N == Len(l)
           step == [n \in 1 .. N |-> [s \in Seq(Items) |->
                      IF l[n].itf = i THEN Append(s, ItemOf(l[n])) ELSE s]]
           Is(g) == g = [n \in 0 .. Len(l) |->
                      IF n = 0 THEN << >>
                      ELSE IF l[n].itf = i THEN Append(g[n - 1], [type |-> l[n].type, n |-> l[n].n])
                      ELSE g[n - 1]]
           of == CHOOSE g : Is(g)
<1>1. FramesOf(i, l) = of[Len(l)]
  BY DEF FramesOf
<1>2. N \in Nat /\ \A n \in 1 .. N : l[n] \in Frames /\ ItemOf(l[n]) \in Items
  BY ItemType, ElementOfSeq, LenProperties
<1>3. step \in [1 .. N -> [Seq(Items) -> Seq(Items)]] /\ << >> \in Seq(Items)
  BY <1>2, AppendProperties, EmptySeq
<1>4. PICK f : Follows(f, Seq(Items), << >>, N, step)
  <2> HIDE DEF N, step
  <2> QED
    BY <1>2, <1>3, FollowsExists
<1>5. Is(f)
  <2>1. f = [n \in 0 .. N |-> f[n]]
    BY <1>4 DEF Follows
  <2>2. ASSUME NEW n \in 0 .. N
        PROVE  f[n] = IF n = 0 THEN << >>
                      ELSE IF l[n].itf = i THEN Append(f[n - 1], [type |-> l[n].type, n |-> l[n].n])
                      ELSE f[n - 1]
    <3>1. CASE n = 0
      BY <1>4, <3>1 DEF Follows
    <3>2. CASE n # 0
      <4>1. n - 1 \in 0 .. N - 1 /\ (n - 1) + 1 = n /\ n \in 1 .. N /\ n - 1 \in 0 .. N
        BY <1>2, <3>2
      <4>2. f[n] = step[n][f[n - 1]] /\ f[n - 1] \in Seq(Items)
        BY <1>4, <4>1 DEF Follows
      <4> QED
        BY <3>2, <4>1, <4>2 DEF ItemOf
    <3> QED
      BY <3>1, <3>2
  <2> QED
    BY <2>1, <2>2
<1>6. Is(of)
  <2> HIDE DEF Is
  <2> QED
    BY <1>5
<1> HIDE DEF of
<1>7. FramesSoFar(of, i, l)
  <2>1. of[0] = << >>
    BY <1>2, <1>6
  <2>2. ASSUME NEW n \in 0 .. N - 1
        PROVE  of[n + 1] = IF l[n + 1].itf = i THEN Append(of[n], ItemOf(l[n + 1])) ELSE of[n]
    <3>1. n + 1 \in 0 .. N /\ n + 1 # 0 /\ (n + 1) - 1 = n
      BY <1>2
    <3> QED
      BY <1>6, <3>1 DEF ItemOf
  <2>3. \A n \in 0 .. N : of[n] \in Seq(Items)
    <3> DEFINE T == {n \in 0 .. N : of[n] \in Seq(Items)}
    <3>1. 0 \in T
      <4>1. << >> \in Seq(Items) /\ 0 \in 0 .. N
        BY <1>2, EmptySeq
      <4> QED
        BY <2>1, <4>1
    <3>2. ASSUME NEW n \in 0 .. N - 1, n \in T PROVE n + 1 \in T
      <4>1. n + 1 \in 0 .. N /\ ItemOf(l[n + 1]) \in Items
        BY <1>2
      <4>2. of[n] \in Seq(Items)
        BY <3>2
      <4>3. Append(of[n], ItemOf(l[n + 1])) \in Seq(Items)
        BY <4>1, <4>2, AppendProperties
      <4>4. of[n + 1] \in Seq(Items)
        BY <2>2, <4>2, <4>3
      <4> QED
        BY <4>1, <4>4
    <3>3. \A n \in 0 .. N : n \in T
      <4> HIDE DEF T
      <4> QED
        BY <1>2, <3>1, <3>2, UpTo
    <3> QED
      BY <3>3
  <2>4. of \in [0 .. N -> Seq(Items)]
    <3>1. of = [n \in 0 .. N |-> of[n]]
      BY <1>6
    <3> QED
      BY <2>3, <3>1
  <2> QED
    BY <2>1, <2>2, <2>4 DEF FramesSoFar
<1> QED
  BY <1>1, <1>7 DEF of

\* A frame appended to the line is the last of its interface, ...
LEMMA FramesOfAppend ==
  ASSUME NEW i, NEW l \in Seq(Frames), NEW x \in Frames
  PROVE  FramesOf(i, Append(l, x)) = IF x.itf = i THEN Append(FramesOf(i, l), ItemOf(x)) ELSE FramesOf(i, l)
<1> DEFINE N == Len(l)
           m == Append(l, x)
<1>1. PICK f : FramesSoFar(f, i, l) /\ f[N] = FramesOf(i, l)
  BY FramesOfSteps
<1>2. /\ m \in Seq(Frames) /\ N \in Nat /\ Len(m) = N + 1 /\ m[N + 1] = x
      /\ \A n \in 1 .. N : m[n] = l[n]
  BY AppendProperties, LenProperties
<1>3. PICK g : FramesSoFar(g, i, m) /\ g[Len(m)] = FramesOf(i, m)
  <2> HIDE DEF m
  <2> QED
    BY <1>2, FramesOfSteps
<1> HIDE DEF m
<1>4. \A n \in 0 .. N : g[n] = f[n]
  <2> DEFINE T == {n \in 0 .. N : g[n] = f[n]}
  <2>1. 0 \in T
    BY <1>1, <1>2, <1>3 DEF FramesSoFar
  <2>2. ASSUME NEW n \in 0 .. N - 1, n \in T PROVE n + 1 \in T
    <3>1. n + 1 \in 1 .. N /\ n + 1 \in 0 .. N /\ n \in 0 .. Len(m) - 1
      BY <1>2
    <3>2. f[n + 1] = IF l[n + 1].itf = i THEN Append(f[n], ItemOf(l[n + 1])) ELSE f[n]
      BY <1>1 DEF FramesSoFar
    <3>3. g[n + 1] = IF m[n + 1].itf = i THEN Append(g[n], ItemOf(m[n + 1])) ELSE g[n]
      BY <1>3, <3>1 DEF FramesSoFar
    <3> QED
      BY <1>2, <2>2, <3>1, <3>2, <3>3
  <2>3. \A n \in 0 .. N : n \in T
    <3> HIDE DEF T
    <3> QED
      BY <1>2, <2>1, <2>2, UpTo
  <2> QED
    BY <2>3
<1>5. g[N + 1] = IF m[N + 1].itf = i THEN Append(g[N], ItemOf(m[N + 1])) ELSE g[N]
  <2>1. N \in 0 .. Len(m) - 1
    BY <1>2
  <2> QED
    BY <1>3, <2>1 DEF FramesSoFar
<1>6. FramesOf(i, m) = IF x.itf = i THEN Append(FramesOf(i, l), ItemOf(x)) ELSE FramesOf(i, l)
  <2>1. N \in 0 .. N
    BY <1>2
  <2>2. g[N + 1] = FramesOf(i, m) /\ g[N] = FramesOf(i, l) /\ m[N + 1] = x
    BY <1>1, <1>2, <1>3, <1>4, <2>1
  <2> QED
    BY <1>5, <2>2
<1> QED
  BY <1>6 DEF m

\* ... and the first frame on the line the first of its interface.
LEMMA FramesOfTail ==
  ASSUME NEW i, NEW l \in Seq(Frames), l # << >>
  PROVE  FramesOf(i, l) = IF Head(l).itf = i THEN <<ItemOf(Head(l))>> \o FramesOf(i, Tail(l))
                          ELSE FramesOf(i, Tail(l))
<1> DEFINE N == Len(l)
           m == Tail(l)
           h == Head(l)
           first == IF h.itf = i THEN <<ItemOf(h)>> ELSE << >>
<1>1. PICK f : FramesSoFar(f, i, l) /\ f[N] = FramesOf(i, l)
  BY FramesOfSteps
<1>2. /\ m \in Seq(Frames) /\ N \in Nat \ {0} /\ Len(m) = N - 1 /\ h = l[1] /\ h \in Frames
      /\ \A n \in 1 .. N - 1 : m[n] = l[n + 1] /\ m[n] \in Frames
  <2>1. m \in Seq(Frames) /\ N \in Nat \ {0} /\ Len(m) = N - 1 /\ h = l[1] /\ h \in Frames
    BY HeadTailProperties, EmptySeq
  <2>2. \A n \in 1 .. N - 1 : m[n] = l[n + 1]
    BY <2>1, HeadTailProperties
  <2>3. \A n \in 1 .. N - 1 : m[n] \in Frames
    BY <2>1, ElementOfSeq
  <2> QED
    BY <2>1, <2>2, <2>3
<1>3. PICK g : FramesSoFar(g, i, m) /\ g[Len(m)] = FramesOf(i, m)
  <2> HIDE DEF m
  <2> QED
    BY <1>2, FramesOfSteps
<1> HIDE DEF m, h
<1>4. first \in Seq(Items) /\ ItemOf(h) \in Items
  BY <1>2, ItemType
<1>5. f[1] = first
  <2>1. f[0] = << >> /\ f[1] = IF l[1].itf = i THEN Append(f[0], ItemOf(l[1])) ELSE f[0]
    <3>1. 0 \in 0 .. Len(l) - 1 /\ 0 + 1 = 1
      BY <1>2
    <3> QED
      BY <1>1, <3>1 DEF FramesSoFar
  <2>2. Append(<< >>, ItemOf(h)) = <<ItemOf(h)>>
    BY <1>4, AppendIsConcat, ConcatEmptySeq, EmptySeq
  <2> QED
    BY <1>2, <2>1, <2>2
<1> HIDE DEF first
<1>6. \A n \in 0 .. N - 1 : f[n + 1] = first \o g[n]
  <2> DEFINE T == {n \in 0 .. N - 1 : f[n + 1] = first \o g[n]}
  <2>1. 0 \in T
    <3>1. g[0] = << >> /\ first \o << >> = first /\ 0 \in 0 .. N - 1 /\ 0 + 1 = 1
      BY <1>2, <1>3, <1>4, ConcatEmptySeq DEF FramesSoFar
    <3> QED
      BY <1>5, <3>1
  <2>2. ASSUME NEW n \in 0 .. (N - 1) - 1, n \in T PROVE n + 1 \in T
    <3>1. /\ n + 1 \in 1 .. N - 1 /\ n + 1 \in 0 .. N - 1 /\ n \in 0 .. Len(m) - 1 /\ n \in 0 .. Len(m)
          /\ n + 1 \in 0 .. Len(l) - 1 /\ ItemOf(m[n + 1]) \in Items
      BY <1>2, ItemType
    <3>2. f[(n + 1) + 1] = IF l[(n + 1) + 1].itf = i THEN Append(f[n + 1], ItemOf(l[(n + 1) + 1])) ELSE f[n + 1]
      BY <1>1, <3>1 DEF FramesSoFar
    <3>3. /\ g[n + 1] = IF m[n + 1].itf = i THEN Append(g[n], ItemOf(m[n + 1])) ELSE g[n]
          /\ g[n] \in Seq(Items)
      BY <1>3, <3>1 DEF FramesSoFar
    <3>4. Append(first \o g[n], ItemOf(m[n + 1])) = first \o Append(g[n], ItemOf(m[n + 1]))
      <4> DEFINE s == g[n]
                 e == ItemOf(m[n + 1])
      <4>1. s \in Seq(Items) /\ e \in Items
        BY <3>1, <3>3
      <4> HIDE DEF s, e
      <4>2. Append(first \o s, e) = (first \o s) \o <<e>> /\ Append(s, e) = s \o <<e>> /\ <<e>> \in Seq(Items)
        BY <1>4, <4>1, AppendIsConcat, ConcatProperties, SMTT(30)
      <4>3. (first \o s) \o <<e>> = first \o (s \o <<e>>)
        BY <1>4, <4>1, <4>2, ConcatAssociative, SMTT(30)
      <4>4. Append(first \o s, e) = first \o Append(s, e)
        BY <4>2, <4>3
      <4> QED
        BY <4>4 DEF s, e
    <3>5. m[n + 1] = l[(n + 1) + 1]
      BY <1>2, <3>1
    <3>6. f[n + 1] = first \o g[n]
      BY <2>2
    <3> QED
      BY <3>1, <3>2, <3>3, <3>4, <3>5, <3>6
  <2>3. \A n \in 0 .. N - 1 : n \in T
    <3> HIDE DEF T
    <3>1. N - 1 \in Nat
      BY <1>2
    <3> QED
      BY <2>1, <2>2, <3>1, UpTo
  <2> QED
    BY <2>3
<1>7. FramesOf(i, l) = first \o FramesOf(i, m)
  <2>1. N - 1 \in 0 .. N - 1 /\ (N - 1) + 1 = N
    BY <1>2
  <2> QED
    BY <1>1, <1>2, <1>3, <1>6, <2>1
<1>8. FramesOf(i, m) \in Seq(Items)
  <2>1. Len(m) \in 0 .. Len(m)
    BY <1>2
  <2> QED
    BY <1>3, <2>1 DEF FramesSoFar
<1>9. << >> \o FramesOf(i, m) = FramesOf(i, m)
  BY <1>8, ConcatEmptySeq
<1>10. FramesOf(i, l) = IF h.itf = i THEN <<ItemOf(h)>> \o FramesOf(i, m) ELSE FramesOf(i, m)
  BY <1>7, <1>9 DEF first
<1> QED
  BY <1>10 DEF m, h

LEMMA FramesOfType == ASSUME NEW i, NEW l \in Seq(Frames) PROVE FramesOf(i, l) \in Seq(Items)
<1>1. PICK f : FramesSoFar(f, i, l) /\ f[Len(l)] = FramesOf(i, l)
  BY FramesOfSteps
<1>2. Len(l) \in 0 .. Len(l)
  BY LenProperties
<1> QED
  BY <1>1, <1>2 DEF FramesSoFar

\* A report waits behind the frames of its interface.
Streams == [i \in Interfaces |-> StreamOf(i)]

LEMMA WaitingType ==
  ASSUME TypeOK, NEW i \in Interfaces
  PROVE  /\ Waiting(i) = IF Outstanding(i) THEN <<[type |-> "report", n |-> taken[i]]>> ELSE << >>
         /\ Waiting(i) \in Seq(Items) /\ FramesOf(i, line) \in Seq(Items)
<1>1. [type |-> "report", n |-> taken[i]] \in Items
  BY DEF TypeOK, Items
<1>2. Waiting(i) = IF Outstanding(i) THEN <<[type |-> "report", n |-> taken[i]]>> ELSE << >>
  BY DEF Waiting, Outstanding
<1>3. \A item \in Items : <<item>> \in Seq(Items)
  OBVIOUS
<1>4. << >> \in Seq(Items)
  BY EmptySeq
<1>5. Waiting(i) \in Seq(Items)
  BY <1>1, <1>2, <1>3, <1>4
<1>6. FramesOf(i, line) \in Seq(Items)
  BY FramesOfType DEF TypeOK
<1> QED
  BY <1>2, <1>5, <1>6

\* Nothing is put in or taken out, ...
LEMMA StreamSame ==
  ASSUME NEW i \in Interfaces, FramesOf(i, line') = FramesOf(i, line),
         Outstanding(i)' <=> Outstanding(i), taken'[i] = taken[i]
  PROVE  StreamOf(i)' = StreamOf(i)
  BY DEF StreamOf, Waiting, Outstanding

\* ... a frame of another interface is written, ...
LEMMA StreamOther ==
  ASSUME TypeOK, NEW i \in Interfaces, NEW f \in Frames, line' = Append(line, f), f.itf # i,
         Outstanding(i)' <=> Outstanding(i), taken'[i] = taken[i]
  PROVE  StreamOf(i)' = StreamOf(i)
<1>1. FramesOf(i, line') = FramesOf(i, line)
  BY FramesOfAppend DEF TypeOK
<1> QED
  BY <1>1, StreamSame

\* ... a report that waits is written, ...
LEMMA StreamSent ==
  ASSUME TypeOK, NEW i \in Interfaces, NEW f \in Frames, line' = Append(line, f),
         f.itf = i, f.type = "report", f.n = taken[i], Outstanding(i), ~Outstanding(i)'
  PROVE  StreamOf(i)' = StreamOf(i)
<1> DEFINE s == FramesOf(i, line)
           item == [type |-> "report", n |-> taken[i]]
<1>1. ItemOf(f) = item /\ item \in Items
  BY ItemType DEF ItemOf
<1>2. FramesOf(i, line') = Append(s, item)
  BY <1>1, FramesOfAppend DEF TypeOK
<1>3. Waiting(i) = <<item>> /\ Waiting(i)' = << >> /\ s \in Seq(Items)
  BY WaitingType DEF Waiting, Outstanding
<1>4. StreamOf(i) = s \o <<item>> /\ StreamOf(i)' = Append(s, item) \o << >>
  BY <1>2, <1>3 DEF StreamOf
<1> HIDE DEF s, item
<1>5. Append(s, item) \o << >> = Append(s, item) /\ Append(s, item) = s \o <<item>>
  BY <1>1, <1>3, AppendProperties, AppendIsConcat, ConcatEmptySeq
<1> QED
  BY <1>4, <1>5

\* ... a frame of an interface for which nothing waits any more is written behind those it has, ...
LEMMA StreamWritten ==
  ASSUME TypeOK, NEW i \in Interfaces, NEW f \in Frames, line' = Append(line, f), f.itf = i,
         ~Outstanding(i)'
  PROVE  StreamOf(i)' = Append(FramesOf(i, line), ItemOf(f))
<1>1. FramesOf(i, line') = Append(FramesOf(i, line), ItemOf(f))
  BY FramesOfAppend DEF TypeOK
<1>2. Waiting(i)' = << >>
  BY DEF Waiting, Outstanding
<1>3. Append(FramesOf(i, line), ItemOf(f)) \in Seq(Items)
  BY WaitingType, ItemType, AppendProperties
<1>4. StreamOf(i)' = Append(FramesOf(i, line), ItemOf(f)) \o << >>
  BY <1>1, <1>2 DEF StreamOf
<1> QED
  BY <1>3, <1>4, ConcatEmptySeq

\* ... and a transfer completes.
LEMMA StreamTaken ==
  ASSUME TypeOK, TypeOK', NEW i \in Interfaces, UNCHANGED line, ~Outstanding(i), Outstanding(i)'
  PROVE  StreamOf(i)' = Append(StreamOf(i), [type |-> "report", n |-> taken'[i]])
<1> DEFINE s == FramesOf(i, line)
           item == [type |-> "report", n |-> taken'[i]]
<1>1. item \in Items /\ s \in Seq(Items)
  BY WaitingType DEF TypeOK, Items
<1>2. Waiting(i) = << >> /\ Waiting(i)' = <<item>>
  BY DEF Waiting, Outstanding
<1>3. StreamOf(i) = s \o << >> /\ StreamOf(i)' = s \o <<item>>
  BY <1>2 DEF StreamOf
<1> HIDE DEF s, item
<1>4. s \o << >> = s /\ Append(s, item) = s \o <<item>>
  BY <1>1, AppendIsConcat, ConcatEmptySeq
<1>5. StreamOf(i)' = Append(StreamOf(i), item)
  BY <1>3, <1>4
<1> QED
  BY <1>5 DEF item

\* The other interfaces' streams stay as they are.
LEMMA StreamsOfOne ==
  ASSUME NEW i \in Interfaces, NEW s, StreamOf(i)' = s,
         \A j \in Interfaces : j # i => StreamOf(j)' = StreamOf(j)
  PROVE  Streams' = [Streams EXCEPT ![i] = s]
<1>1. \A j \in Interfaces : StreamOf(j)' = [Streams EXCEPT ![i] = s][j]
  BY DEF Streams
<1> QED
  BY <1>1 DEF Streams

\* A step of B that moves a report on, or moves nothing.
LEMMA StreamsStutter ==
  ASSUME \A i \in Interfaces : StreamOf(i)' = StreamOf(i), Mounted' = Mounted, taken' = taken
  PROVE  UNCHANGED Stream!svars
<1>1. Streams' = Streams
  BY DEF Streams
<1> QED
  BY <1>1 DEF Stream!svars, Streams

\* Slots change what waits only for the interface they name.
LEMMA FlushStreams ==
  ASSUME TypeOK, TypeOK', SlotInv, HostInv, FlushSend
  PROVE  UNCHANGED Stream!svars
<1> USE BridgeAssumption
<1>01. PICK c \in Slots : c = Current /\ Pending(c)
  BY CurrentIsPending DEF FlushSend
<1>02. PICK i \in Interfaces : i = hid_input_states[c].itf
  <2>1. hid_input_states[c] \in [itf : Interfaces \cup {NoInterface}, report : Numbers \cup {NoReport}]
    BY DEF TypeOK
  <2> QED
    BY <1>01, <2>1 DEF Pending, Active
<1>03. PICK n \in Numbers : n = hid_input_states[c].report
  <2>1. hid_input_states[c] \in [itf : Interfaces \cup {NoInterface}, report : Numbers \cup {NoReport}]
    BY DEF TypeOK
  <2> QED
    BY <1>01, <2>1 DEF Pending
<1> DEFINE f == Frame("report", i, n)
<1>1. ep[i] = "idle" /\ f \in Frames
  BY <1>01, <1>02, <1>03 DEF SlotInv, HeldIsNotArmed, Frame, Frames
<1>2. /\ line' = Append(line, f) /\ ep' \in ArmResults(i) /\ taken' = taken
      /\ hid_input_states' = [hid_input_states EXCEPT ![c].report = NoReport]
  BY <1>01, <1>02, <1>03 DEF FlushSend, WriteFrame
<1>3. n = taken[i]
  BY <1>01, <1>02, <1>03 DEF HostInv
<1>4. f.itf = i /\ f.type = "report" /\ f.n = taken[i]
  BY <1>3 DEF Frame
<1>5. /\ \A s \in Slots : s # c => hid_input_states'[s] = hid_input_states[s]
      /\ hid_input_states'[c] = [itf |-> i, report |-> NoReport]
  BY <1>02, <1>2, Clear DEF TypeOK
<1>6. \E e \in {"idle", "armed"} : ep' = [ep EXCEPT ![i] = e]
  BY <1>1, <1>2 DEF ArmResults
<1>7. /\ ep'[i] \in {"idle", "armed"} /\ \A j \in Interfaces : j # i => ep'[j] = ep[j]
  BY <1>1, <1>6 DEF TypeOK
<1>8. Outstanding(i) /\ ~Outstanding(i)'
  <2>1. Holds(i)
    BY <1>01, <1>02 DEF Holds
  <2>2. \A s \in Slots : hid_input_states[s].itf = i => s = c
    BY <1>01, <1>02 DEF SlotInv, SlotPerInput, Pending
  <2>3. ~Holds(i)'
    BY <1>5, <2>2 DEF Holds, Pending, Active
  <2> QED
    BY <1>7, <2>1, <2>3 DEF Outstanding
<1>9. \A j \in Interfaces : j # i => (Outstanding(j)' <=> Outstanding(j))
  BY <1>02, <1>5, <1>7 DEF Outstanding, Holds, Pending, Active
<1>10. Mounted' = Mounted
  BY <1>1, <1>7 DEF Mounted
<1> HIDE DEF f
<1>11. StreamOf(i)' = StreamOf(i)
  BY <1>1, <1>2, <1>4, <1>8, StreamSent
<1>12. \A j \in Interfaces : j # i => StreamOf(j)' = StreamOf(j)
  BY <1>1, <1>2, <1>4, <1>9, StreamOther
<1> QED
  BY <1>2, <1>10, <1>11, <1>12, StreamsStutter

LEMMA ReceiveStreams ==
  ASSUME TypeOK, TypeOK', SlotInv, HostInv, NEW i \in Interfaces, ReceiveSend(i) \/ ReceiveHold(i)
  PROVE  UNCHANGED Stream!svars
<1> USE BridgeAssumption
<1>1. PICK s \in Slots : hid_input_states[s].itf = i
  BY DEF HostInv, ReceiveSend, ReceiveHold
<1>2. register_hid_input(i) = hid_input_states
  BY <1>1 DEF register_hid_input
<1>3. Outstanding(i) /\ i \in Mounted /\ taken' = taken
  BY DEF Outstanding, Mounted, ReceiveSend, ReceiveHold, history
<1>4. CASE ReceiveSend(i)
  <2> DEFINE f == Frame("report", i, taken[i])
  <2>1. line' = Append(line, f) /\ f \in Frames /\ f.itf = i /\ f.type = "report" /\ f.n = taken[i]
    BY <1>4 DEF ReceiveSend, WriteFrame, Frame, Frames, TypeOK
  <2>2. hid_input_states' = hid_input_states /\ \A j \in Interfaces : ~Holds(j) /\ ~Holds(j)'
    BY <1>2, <1>4 DEF ReceiveSend, has_pending_hid_reports, Holds, Pending, Active
  <2>3. ep'[i] \in {"idle", "armed"} /\ \A j \in Interfaces : j # i => ep'[j] = ep[j]
    BY <1>4 DEF ReceiveSend, TypeOK
  <2>4. ~Outstanding(i)' /\ \A j \in Interfaces : j # i => (Outstanding(j)' <=> Outstanding(j))
    BY <2>2, <2>3 DEF Outstanding
  <2>5. Mounted' = Mounted
    BY <1>3, <2>3 DEF Mounted
  <2> HIDE DEF f
  <2>6. StreamOf(i)' = StreamOf(i)
    BY <1>3, <2>1, <2>4, StreamSent
  <2>7. \A j \in Interfaces : j # i => StreamOf(j)' = StreamOf(j)
    BY <1>3, <2>1, <2>4, StreamOther
  <2> QED
    BY <1>3, <2>5, <2>6, <2>7, StreamsStutter
<1>5. CASE ReceiveHold(i)
  <2>1. /\ hid_input_states' = [t \in Slots |-> IF hid_input_states[t].itf = i
                                                THEN [itf |-> i, report |-> taken[i]] ELSE hid_input_states[t]]
        /\ line' = line
    BY <1>2, <1>5 DEF ReceiveHold, uart
  <2>2. ep'[i] = "idle" /\ \A j \in Interfaces : j # i => ep'[j] = ep[j]
    BY <1>5 DEF ReceiveHold, TypeOK
  <2>3. taken[i] \in Numbers /\ taken[i] # NoReport /\ i # NoInterface
    BY DEF TypeOK
  <2>4. Holds(i)'
    BY <1>1, <2>1, <2>3 DEF Holds, Pending, Active
  <2>5. \A j \in Interfaces : j # i => (Holds(j)' <=> Holds(j))
    BY <2>1 DEF Holds, Pending, Active
  <2>6. \A j \in Interfaces : Outstanding(j)' <=> Outstanding(j)
    BY <1>3, <2>2, <2>4, <2>5 DEF Outstanding
  <2>7. Mounted' = Mounted
    BY <1>3, <2>2 DEF Mounted
  <2>8. \A j \in Interfaces : StreamOf(j)' = StreamOf(j)
    BY <1>3, <2>1, <2>6, StreamSame
  <2> QED
    BY <1>3, <2>7, <2>8, StreamsStutter
<1> QED
  BY <1>4, <1>5

LEMMA MountStreams ==
  ASSUME TypeOK, TypeOK', SlotInv, SlotInv', NEW i \in Interfaces, tuh_hid_mount_cb(i)
  PROVE  Stream!Plug(i)
<1> DEFINE f == Frame("connected", i, 0)
<1> USE BridgeAssumption
<1>1. /\ line' = Append(line, f) /\ f \in Frames /\ f.itf = i /\ ItemOf(f) = [type |-> "connected", n |-> 0]
      /\ i \notin Mounted /\ taken' = taken
  BY DEF tuh_hid_mount_cb, WriteFrame, Frame, Frames, ItemOf, history, Numbers
<1> HIDE DEF f
<1>2. \A j \in Interfaces : j # i => \/ ep'[j] = ep[j]
                                     \/ ep[j] = "idle" /\ ep'[j] = "armed"
  <2>1. CASE i \in HasInput
    <3> DEFINE e == [ep EXCEPT ![i] = "idle"]
    <3>1. arm_ready_hid_inputs(register_hid_input(i), e)
      BY <2>1 DEF tuh_hid_mount_cb
    <3>2. \A j \in Interfaces : j # i => e[j] = ep[j]
      BY DEF TypeOK
    <3> HIDE DEF e
    <3> QED
      BY <3>1, <3>2 DEF arm_ready_hid_inputs, Ready
  <2>2. CASE i \notin HasInput
    BY <2>2 DEF tuh_hid_mount_cb, TypeOK
  <2> QED
    BY <2>1, <2>2
<1>3. ep'[i] \in {"idle", "armed"}
  BY DEF tuh_hid_mount_cb, arm_ready_hid_inputs, Ready, TypeOK
<1>4. \A s \in Slots :
        \/ hid_input_states'[s] = hid_input_states[s]
        \/ ~Active(s) /\ hid_input_states'[s] = [itf |-> i, report |-> NoReport]
  BY RegisterKeeps DEF tuh_hid_mount_cb, SlotInv
<1>5. \A j \in Interfaces : Holds(j)' <=> Holds(j)
  BY <1>4 DEF Holds, Pending, Active
<1>6. ~Outstanding(i)
  BY <1>1 DEF Outstanding, Holds, Pending, SlotInv, SlotPerInput, Mounted
<1>7. ~Outstanding(i)' /\ \A j \in Interfaces : j # i => (Outstanding(j)' <=> Outstanding(j))
  BY <1>2, <1>3, <1>5, <1>6 DEF Outstanding
<1>8. Mounted' = Mounted \cup {i}
  BY <1>2, <1>3 DEF Mounted
<1>9. StreamOf(i)' = Append(StreamOf(i), [type |-> "connected", n |-> 0])
  <2>1. StreamOf(i) = FramesOf(i, line)
    BY <1>6, WaitingType, ConcatEmptySeq DEF StreamOf
  <2> QED
    BY <1>1, <1>7, <2>1, StreamWritten
<1>10. \A j \in Interfaces : j # i => StreamOf(j)' = StreamOf(j)
  BY <1>1, <1>7, StreamOther
<1>11. Streams' = [Streams EXCEPT ![i] = Append(StreamOf(i), [type |-> "connected", n |-> 0])]
  BY <1>9, <1>10, StreamsOfOne
<1>12. Streams[i] = StreamOf(i)
  BY DEF Streams
<1>13. Streams' = [Streams EXCEPT ![i] = Append(@, [type |-> "connected", n |-> 0])]
  BY <1>11, <1>12
<1> QED
  BY <1>1, <1>8, <1>13 DEF Stream!Plug, Stream!Put, Stream!Item, Streams

LEMMA UmountStreams ==
  ASSUME TypeOK, TypeOK', SlotInv, leaving \subseteq Mounted, NEW i \in Interfaces, tuh_hid_umount_cb(i)
  PROVE  Stream!Unplug(i)
<1> DEFINE f == Frame("disconnected", i, 0)
           item == [type |-> "disconnected", n |-> 0]
           kept == FramesOf(i, line)
<1> USE BridgeAssumption
<1>1. /\ line' = Append(line, f) /\ f \in Frames /\ f.itf = i /\ ItemOf(f) = item
      /\ taken' = [taken EXCEPT ![i] = 0]
  BY DEF tuh_hid_umount_cb, WriteFrame, Frame, Frames, ItemOf, Numbers
<1>2. ep'[i] = "closed" /\ \A j \in Interfaces : j # i => ep'[j] = ep[j] /\ taken'[j] = taken[j]
  BY <1>1 DEF tuh_hid_umount_cb, TypeOK
<1>3. i \in Mounted /\ Mounted' = Mounted \ {i}
  <2>1. ep[i] # "closed"
    BY DEF tuh_hid_umount_cb, Mounted
  <2> QED
    BY <1>2, <2>1 DEF Mounted
<1>4. hid_input_states' = unregister_hid_input(i)
  BY DEF tuh_hid_umount_cb
<1>5. ~Holds(i)' /\ \A j \in Interfaces : j # i => (Holds(j)' <=> Holds(j))
  BY <1>4 DEF unregister_hid_input, FreeSlot, Holds, Pending, Active
<1>6. ~Outstanding(i)' /\ \A j \in Interfaces : j # i => (Outstanding(j)' <=> Outstanding(j))
  BY <1>2, <1>5 DEF Outstanding
<1> HIDE DEF f
<1>7. StreamOf(i)' = Append(kept, item)
  BY <1>1, <1>6, StreamWritten
<1>8. \A j \in Interfaces : j # i => StreamOf(j)' = StreamOf(j)
  BY <1>1, <1>2, <1>6, StreamOther
<1>9. Streams' = [Streams EXCEPT ![i] = Append(kept, item)]
  BY <1>7, <1>8, StreamsOfOne
<1> DEFINE s == Streams[i]
           keep == {s} \cup IF s # << >> /\ s[Len(s)].type = "report" THEN {SubSeq(s, 1, Len(s) - 1)} ELSE {}
<1>10. kept \in keep
  <2> DEFINE last == [type |-> "report", n |-> taken[i]]
  <2>1. kept \in Seq(Items) /\ s = kept \o Waiting(i)
    BY WaitingType DEF Streams, StreamOf
  <2>2. CASE ~Outstanding(i)
    <3>1. s = kept
      BY <2>1, <2>2, WaitingType, ConcatEmptySeq
    <3> QED
      BY <3>1
  <2>3. CASE Outstanding(i)
    <3>1. last \in Items /\ s = kept \o <<last>>
      BY <2>1, <2>3, WaitingType DEF Items, TypeOK
    <3> HIDE DEF s, kept
    <3>2. s = Append(kept, last)
      BY <2>1, <3>1, AppendIsConcat
    <3>3. /\ s \in Seq(Items) /\ s # << >> /\ Len(s) = Len(kept) + 1 /\ s[Len(s)] = last
          /\ Len(kept) \in Nat /\ \A n \in 1 .. Len(kept) : s[n] = kept[n]
      <4> HIDE DEF last
      <4> QED
        BY <2>1, <3>1, <3>2, AppendProperties, LenProperties
    <3>4. SubSeq(s, 1, Len(s) - 1) = kept
      BY <2>1, <3>3
    <3>5. s[Len(s)].type = "report"
      BY <3>3
    <3> QED
      BY <3>3, <3>4, <3>5
  <2> QED
    BY <2>2, <2>3
<1>11. \E k \in keep : Streams' = [Streams EXCEPT ![i] = Append(k, item)]
  BY <1>9, <1>10
<1> QED
  BY <1>1, <1>3, <1>11 DEF Stream!Unplug, Stream!Item, Streams

LEMMA CompleteStreams ==
  ASSUME TypeOK, TypeOK', SlotInv, NEW i \in Interfaces, Complete(i)
  PROVE  Stream!Take(i)
<1> USE BridgeAssumption
<1>1. /\ ep[i] = "armed" /\ ep'[i] = "done" /\ \A j \in Interfaces : j # i => ep'[j] = ep[j]
      /\ taken' = [taken EXCEPT ![i] = (@ + 1) % ReportNumbers]
      /\ line' = line /\ hid_input_states' = hid_input_states
  BY DEF Complete, TypeOK, inputs, uart
<1>2. \A j \in Interfaces : Holds(j)' <=> Holds(j)
  BY <1>1 DEF Holds, Pending, Active
<1>3. ~Holds(i)
  BY <1>1 DEF SlotInv, HeldIsNotArmed, Holds
<1>4. ~Outstanding(i) /\ Outstanding(i)' /\ \A j \in Interfaces : j # i => (Outstanding(j)' <=> Outstanding(j))
  BY <1>1, <1>2, <1>3 DEF Outstanding
<1>5. i \in Mounted /\ Mounted' = Mounted
  BY <1>1 DEF Mounted
<1>6. \A j \in Interfaces : j # i => taken'[j] = taken[j]
  BY <1>1 DEF TypeOK
<1>7. StreamOf(i)' = Append(StreamOf(i), [type |-> "report", n |-> taken'[i]])
  BY <1>1, <1>4, StreamTaken
<1>8. \A j \in Interfaces : j # i => StreamOf(j)' = StreamOf(j)
  BY <1>1, <1>4, <1>6, StreamSame
<1>9. Streams' = [Streams EXCEPT ![i] = Append(StreamOf(i), [type |-> "report", n |-> taken'[i]])]
  BY <1>7, <1>8, StreamsOfOne
<1>10. Streams[i] = StreamOf(i)
  BY DEF Streams
<1>11. Streams' = [Streams EXCEPT ![i] = Append(@, [type |-> "report", n |-> taken'[i]])]
  BY <1>9, <1>10
<1> QED
  BY <1>1, <1>5, <1>11 DEF Stream!Take, Stream!Put, Stream!Item, Streams

\* A takes the first item of one stream, unless the frame is of no interface.
LEMMA HandleStreams ==
  ASSUME TypeOK, AHandle
  PROVE  UNCHANGED Stream!svars \/ \E i \in Interfaces : Stream!Give(i)
<1> USE BridgeAssumption
<1>1. PICK f \in Frames : f = Head(line) /\ line \in Seq(Frames) /\ line # << >>
  BY HeadTailProperties DEF AHandle, TypeOK
<1>2. line' = Tail(line) /\ taken' = taken /\ ep' = ep /\ hid_input_states' = hid_input_states
  BY DEF AHandle, inputs
<1>3. \A j \in Interfaces : Outstanding(j)' <=> Outstanding(j)
  BY <1>2 DEF Outstanding, Holds, Pending, Active
<1>4. Mounted' = Mounted
  BY <1>2 DEF Mounted
<1>5. \A j \in Interfaces : FramesOf(j, line) = IF f.itf = j THEN <<ItemOf(f)>> \o FramesOf(j, line')
                                               ELSE FramesOf(j, line')
  BY <1>1, <1>2, FramesOfTail
<1>6. \A j \in Interfaces : j # f.itf => StreamOf(j)' = StreamOf(j)
  BY <1>2, <1>3, <1>5, StreamSame
<1>7. CASE f.itf \notin Interfaces
  BY <1>2, <1>4, <1>6, <1>7, StreamsStutter
<1>8. CASE f.itf \in Interfaces
  <2>1. PICK i \in Interfaces : i = f.itf
    BY <1>8
  <2> DEFINE rest == FramesOf(i, line')
             waits == Waiting(i)
             item == ItemOf(f)
  <2>2. rest \in Seq(Items) /\ waits \in Seq(Items) /\ item \in Items
    <3>1. line' \in Seq(Frames)
      BY <1>1, <1>2, HeadTailProperties
    <3> QED
      BY <3>1, WaitingType, FramesOfType, ItemType
  <2>3. StreamOf(i) = (<<item>> \o rest) \o waits
    BY <1>5, <2>1 DEF StreamOf
  <2>4. StreamOf(i)' = rest \o waits
    BY <1>2, <1>3 DEF StreamOf, Waiting, Outstanding
  <2> HIDE DEF rest, waits, item
  <2>5. StreamOf(i) # << >> /\ Tail(StreamOf(i)) = rest \o waits
    <3> DEFINE s == rest \o waits
    <3>1. s \in Seq(Items) /\ <<item>> \in Seq(Items)
      BY <2>2, ConcatProperties
    <3>2. StreamOf(i) = <<item>> \o s
      BY <2>2, <2>3, <3>1, ConcatAssociative
    <3> HIDE DEF s
    <3>3. /\ StreamOf(i) \in Seq(Items) /\ Len(StreamOf(i)) = 1 + Len(s)
          /\ \A n \in 1 .. 1 + Len(s) : StreamOf(i)[n] = IF n <= 1 THEN <<item>>[n] ELSE s[n - 1]
      BY <3>1, <3>2, ConcatProperties
    <3>4. StreamOf(i) # << >> /\ Len(s) \in Nat
      BY <3>1, <3>3, EmptySeq, LenProperties
    <3>5. /\ Tail(StreamOf(i)) \in Seq(Items) /\ Len(Tail(StreamOf(i))) = Len(s)
          /\ \A n \in 1 .. Len(s) : Tail(StreamOf(i))[n] = StreamOf(i)[n + 1]
      BY <3>3, <3>4, HeadTailProperties
    <3>6. \A n \in 1 .. Len(s) : Tail(StreamOf(i))[n] = s[n]
      BY <3>3, <3>4, <3>5
    <3>7. Tail(StreamOf(i)) = s
      BY <3>1, <3>5, <3>6, SeqEqual
    <3> QED
      BY <3>4, <3>7 DEF s
  <2>6. StreamOf(i)' = Tail(StreamOf(i))
    BY <2>4, <2>5
  <2>7. Streams' = [Streams EXCEPT ![i] = Tail(StreamOf(i))]
    BY <1>6, <2>1, <2>6, StreamsOfOne
  <2>8. Streams[i] = StreamOf(i)
    BY DEF Streams
  <2>9. Streams' = [Streams EXCEPT ![i] = Tail(@)] /\ Streams[i] # << >>
    BY <2>5, <2>7, <2>8
  <2>10. Stream!Give(i)
    BY <1>2, <1>4, <2>9 DEF Stream!Give, Streams
  <2> QED
    BY <2>10
<1> QED
  BY <1>7, <1>8

\* An interface that leaves is mounted as long as it does.
LEMMA InitLeaving == Init => leaving \subseteq Mounted
  BY DEF Init

LEMMA LeavingStep == TypeOK /\ leaving \subseteq Mounted /\ [Next]_vars => (leaving \subseteq Mounted)'
<1> SUFFICES ASSUME TypeOK, leaving \subseteq Mounted, [Next]_vars PROVE (leaving \subseteq Mounted)'
  OBVIOUS
<1>1. ASSUME NEW i \in Interfaces, tuh_hid_umount_cb(i) PROVE (leaving \subseteq Mounted)'
  BY <1>1 DEF tuh_hid_umount_cb, Mounted, TypeOK
<1>2. CASE leaving' = {}
  BY <1>2
<1>3. CASE UNCHANGED <<leaving, ep>>
  BY <1>3 DEF Mounted
<1>4. ASSUME NEW i \in Interfaces, Complete(i) PROVE (leaving \subseteq Mounted)'
  BY <1>4 DEF Complete, Mounted, TypeOK
<1> QED
  BY <1>1, <1>2, <1>3, <1>4
  DEF Next, vars, inputs, uart, history, SerialRead, serial_read, FlushSend, FlushBlocked, FlushDone, Callback,
      ReceiveSend, ReceiveHold, tuh_hid_mount_cb, tuh_sof_cb, ArmInputs, AHandle, InTask, TypeOK

LEMMA StreamStep ==
  ASSUME TypeOK, TypeOK', SlotInv, SlotInv', HostInv, leaving \subseteq Mounted, [Next]_vars
  PROVE  [Stream!SNext]_(Stream!svars)
<1> USE BridgeAssumption
<1>1. ASSUME UNCHANGED <<line, hid_input_states, ep, taken>> PROVE UNCHANGED Stream!svars
  <2>1. \A i \in Interfaces : StreamOf(i)' = StreamOf(i)
    BY <1>1 DEF StreamOf, Waiting, Holds, Pending, Active
  <2>2. Mounted' = Mounted
    BY <1>1 DEF Mounted
  <2> QED
    BY <1>1, <2>1, <2>2, StreamsStutter
<1>2. CASE SerialRead \/ FlushBlocked \/ FlushDone \/ UNCHANGED vars
  <2>1. UNCHANGED <<line, hid_input_states, ep, taken>>
    BY <1>2 DEF SerialRead, serial_read, FlushBlocked, FlushDone, vars, inputs, uart, history
  <2> QED
    BY <1>1, <2>1
<1>3. CASE FlushSend
  BY <1>3, FlushStreams
<1>4. ASSUME NEW i \in Interfaces, Callback(i) PROVE Stream!SNext \/ UNCHANGED Stream!svars
  BY <1>4, ReceiveStreams, MountStreams, UmountStreams DEF Callback, Stream!SNext
<1>5. CASE tuh_sof_cb
  <2> DEFINE f == Frame("sof", NoInterface, 0)
  <2>1. line' = Append(line, f) /\ f \in Frames /\ f.itf = NoInterface /\ UNCHANGED <<hid_input_states, ep, taken>>
    BY <1>5 DEF tuh_sof_cb, WriteFrame, Frame, Frames, inputs, history
  <2> HIDE DEF f
  <2>2. \A i \in Interfaces : (Outstanding(i)' <=> Outstanding(i)) /\ taken'[i] = taken[i] /\ i # f.itf
    BY <2>1 DEF Outstanding, Holds, Pending, Active
  <2>3. \A i \in Interfaces : StreamOf(i)' = StreamOf(i)
    BY <2>1, <2>2, StreamOther
  <2>4. Mounted' = Mounted
    BY <2>1 DEF Mounted
  <2> QED
    BY <2>1, <2>3, <2>4, StreamsStutter
<1>6. CASE ArmInputs
  <2>1. UNCHANGED <<line, hid_input_states, taken>> /\ arm_ready_hid_inputs(hid_input_states, ep)
    BY <1>6 DEF ArmInputs, inputs, uart, history
  <2>2. \A i \in Interfaces :
           \/ ep'[i] = ep[i]
           \/ ep[i] = "idle" /\ ep'[i] = "armed"
    <3>1. PICK armed \in SUBSET Ready(hid_input_states, ep) :
            ep' = [i \in Interfaces |-> IF i \in armed THEN "armed" ELSE ep[i]]
      BY <2>1 DEF arm_ready_hid_inputs
    <3>2. \A i \in Interfaces : i \in armed => ep[i] = "idle"
      BY DEF Ready
    <3> QED
      BY <3>1, <3>2
  <2>3. \A i \in Interfaces : Outstanding(i)' <=> Outstanding(i)
    BY <2>1, <2>2 DEF Outstanding, Holds, Pending, Active
  <2>4. \A i \in Interfaces : StreamOf(i)' = StreamOf(i)
    BY <2>1, <2>3, StreamSame
  <2>5. Mounted' = Mounted
    BY <2>2 DEF Mounted
  <2> QED
    BY <2>1, <2>4, <2>5, StreamsStutter
<1>7. ASSUME NEW i \in Interfaces, Complete(i) PROVE Stream!SNext
  BY <1>7, CompleteStreams DEF Stream!SNext
<1>8. CASE AHandle
  BY <1>8, HandleStreams DEF Stream!SNext
<1> QED
  BY <1>2, <1>3, <1>4, <1>5, <1>6, <1>7, <1>8 DEF Next

LEMMA InitStreams == Init => Stream!SInit
<1> SUFFICES ASSUME Init PROVE Stream!SInit
  OBVIOUS
<1>1. TypeOK /\ line = << >> /\ \A i \in Interfaces : taken[i] = 0
  BY InitType DEF Init
<1>2. \A i \in Interfaces : ~Outstanding(i)
  BY DEF Init, Outstanding, Holds, Pending, Active, FreeSlot
<1>3. \A i \in Interfaces : FramesOf(i, line) = << >>
  <2> TAKE i \in Interfaces
  <2>1. PICK f : FramesSoFar(f, i, << >>) /\ f[Len(<< >>)] = FramesOf(i, << >>)
    BY FramesOfSteps, EmptySeq
  <2>2. FramesOf(i, << >>) = << >>
    BY <2>1, EmptySeq DEF FramesSoFar
  <2> QED
    BY <1>1, <2>2
<1>4. \A i \in Interfaces : StreamOf(i) = << >>
  BY <1>1, <1>2, <1>3, WaitingType, ConcatEmptySeq DEF StreamOf
<1>5. Mounted = {}
  BY DEF Init, Mounted
<1>6. taken = [i \in Interfaces |-> 0]
  BY DEF Init
<1> QED
  BY <1>4, <1>5, <1>6 DEF Stream!SInit

\* The bridge is one FIFO stream per interface, as far as safety goes: every step of B, A, the
\* UART or a device puts one item into one stream, takes one out, or does nothing to any.
THEOREM StreamPerInterface == Spec => Stream!SSpec
<1>1. Init => Stream!SInit
  BY InitStreams
<1>2. TypeOK /\ TypeOK' /\ SlotInv /\ SlotInv' /\ HostInv /\ leaving \subseteq Mounted /\ [Next]_vars
      => [Stream!SNext]_(Stream!svars)
  BY StreamStep
<1>3. Init => HostInv
  BY InitHostLine
<1> QED
  BY InitType, TypeStep, InitSlotInv, SlotInvStep, <1>3, HostInvStep, InitLeaving, LeavingStep,
     <1>1, <1>2, PTL DEF Spec, Stream!SSpec

==============================================================================
