------------------------------- MODULE Bridge -------------------------------
(***************************************************************************)
(* Input-report forwarding from the USB host controller (B) to the device  *)
(* controller (A): remapper_dual_b.cc with the transmit ring of serial.cc. *)
(*                                                                         *)
(* B is one thread: its main loop reads and drains the UART, flushes the   *)
(* reports held back by UART backpressure, runs the USB host callbacks and *)
(* re-arms idle input endpoints.  USB transfers complete concurrently with *)
(* it, and A takes frames off the wire whenever its own loop reads.        *)
(* Report payloads are abstracted to a number per interface, reused modulo *)
(* ReportNumbers, so that a lost, repeated or reordered report is visible. *)
(***************************************************************************)
EXTENDS Naturals, Sequences, FiniteSets, SequencesExt

CONSTANTS
  Interfaces,   \* the (dev_addr, instance) pairs that can be mounted
  HasInput,     \* those with an input endpoint and an input report
  DeviceOf,     \* the device (dev_addr) of each interface
  NoInterface,  \* the content of an inactive slot, and of no frame's sender
  NoReport,     \* report_pending is false
  CFG_TUH_HID,  \* slots of hid_input_states, and interfaces TinyUSB mounts
  BUFFER_SIZE,  \* bytes of the transmit ring
  WIRE_SIZE,    \* bytes in the UART FIFOs and in A's deframing buffer
  FrameBytes,   \* bytes on the wire of a connect, disconnect or SOF frame
  ReportBytes,  \* bytes on the wire of a report of each interface
  ReportNumbers, \* report numbers are 0 .. ReportNumbers - 1
  MaxPlugs      \* bound: mounts in a behaviour

Slots == 0 .. CFG_TUH_HID - 1
Numbers == 0 .. ReportNumbers - 1
ControlFrames == {"connected", "disconnected", "sof"}
MaxFrame == BUFFER_SIZE + WIRE_SIZE

ASSUME BridgeAssumption ==
  /\ IsFiniteSet(Interfaces)
  /\ HasInput \subseteq Interfaces
  /\ NoInterface \notin Interfaces
  /\ NoReport \notin Numbers
  /\ CFG_TUH_HID \in Nat \ {0}
  /\ BUFFER_SIZE \in Nat \ {0}
  /\ WIRE_SIZE \in Nat \ {0}
  /\ ReportNumbers \in Nat \ {0}
  /\ MaxPlugs \in Nat
  /\ FrameBytes \in [ControlFrames -> 1 .. MaxFrame]
  \* send_hid_report refuses what no 64-byte endpoint can deliver, so that a
  \* report always fits an empty ring
  /\ ReportBytes \in [Interfaces -> 1 .. BUFFER_SIZE]

VARIABLES
  pc,                      \* where B's main loop is
  hid_input_states,        \* the slots: which interface, which report held
  next_pending_hid_input,  \* the round-robin cursor
  ep,                      \* TinyUSB: state of each input endpoint
  buf_items,               \* bytes in B's transmit ring
  line,                    \* frames B has written and A has not yet handled
  a_connected,             \* A: the interfaces it knows
  leaving,                 \* interfaces of the device being removed, still mounted
  plugs,                   \* mounts so far
  \* history, read by no guard
  taken,                   \* last report the USB host received since the mount
  sent,                    \* last report written to the UART since the mount
  got,                     \* last report A handled
  passed                   \* who was sent while an interface's report is held

inputs == <<hid_input_states, next_pending_hid_input>>
uart == <<buf_items, line>>
history == <<taken, sent, got, passed>>
vars == <<pc, inputs, ep, uart, a_connected, leaving, plugs, history>>

-----------------------------------------------------------------------------
(* The table of interfaces.                                                *)

FreeSlot == [itf |-> NoInterface, report |-> NoReport]

Active(s) == hid_input_states[s].itf # NoInterface
Pending(s) == Active(s) /\ hid_input_states[s].report # NoReport
Holds(i) == \E s \in Slots : hid_input_states[s].itf = i /\ Pending(s)

has_pending_hid_reports == \E s \in Slots : Pending(s)

\* The table after register_hid_input: the interface's own slot if it has one,
\* else the first inactive slot, else no change (the function returns nullptr).
register_hid_input(i) ==
  LET free == {s \in Slots : ~Active(s)} IN
  IF (\E s \in Slots : hid_input_states[s].itf = i) \/ free = {}
  THEN hid_input_states
  ELSE LET first == CHOOSE s \in free : \A t \in free : s <= t
       IN  [hid_input_states EXCEPT ![first] = [itf |-> i, report |-> NoReport]]

\* Mutated: the slot is left as it was.
UnregisterForgotten(i) == hid_input_states

unregister_hid_input(i) ==
  [s \in Slots |-> IF hid_input_states[s].itf = i
                   THEN FreeSlot ELSE hid_input_states[s]]

-----------------------------------------------------------------------------
(* The UART: a frame leaves the ring in order, and A handles it when its   *)
(* last byte is out.                                                       *)

Frame(type, i, n) == [type |-> type, itf |-> i, n |-> n]
Bytes(f) == IF f.type = "report" THEN ReportBytes[f.itf] ELSE FrameBytes[f.type]
Frames == [type : {"report", "connected", "disconnected"}, itf : Interfaces, n : Numbers]
            \cup [type : {"sof"}, itf : {NoInterface}, n : {0}]
LineBytes(l) == FoldLeft(LAMBDA sum, f : sum + Bytes(f), 0, l)

\* serial_write's test for a nonblocking frame.
Fits(bytes) == bytes <= BUFFER_SIZE - buf_items

\* A frame is written.  While the ring is empty bytes go straight to the UART
\* as long as it is writable; after that they go to the ring, and at a full
\* ring my_putc blocks until the UART has taken the oldest byte.
WriteFrame(f) ==
  LET all == LineBytes(line) + Bytes(f)
      most == buf_items + Bytes(f)
  IN  /\ line' = Append(line, f)
      /\ buf_items' \in 0 .. BUFFER_SIZE
      /\ all - buf_items' <= WIRE_SIZE
      /\ IF buf_items = 0
         THEN buf_items' <= most
         ELSE buf_items' = IF most > BUFFER_SIZE THEN BUFFER_SIZE ELSE most

-----------------------------------------------------------------------------
(* B's main loop.                                                          *)

\* tuh_hid_receive_report arms an idle endpoint, or fails and leaves it idle.
ArmResults(i) ==
  {[ep EXCEPT ![i] = e] : e \in IF ep[i] = "idle" THEN {"idle", "armed"} ELSE {ep[i]}}

\* arm_ready_hid_inputs over a table and endpoint states: every endpoint that
\* is ready and whose slot holds no report is armed, or fails and stays idle.
\* Mutated: a held report does not keep its endpoint from being armed.
ReadyWhileHeld(table, e) ==
  {i \in Interfaces : e[i] = "idle" /\ \E s \in Slots : table[s].itf = i}

Ready(table, e) ==
  {i \in Interfaces : /\ e[i] = "idle"
                      /\ \E s \in Slots : table[s] = [itf |-> i, report |-> NoReport]}
arm_ready_hid_inputs(table, e) ==
  \E armed \in SUBSET Ready(table, e) :
    ep' = [i \in Interfaces |-> IF i \in armed THEN "armed" ELSE e[i]]

\* The sending of a report, as the history sees it.
RecordSent(i) ==
  /\ sent' = [sent EXCEPT ![i] = taken[i]]
  /\ passed' = [j \in Interfaces |-> IF j = i THEN {}
                                     ELSE IF Holds(j) THEN passed[j] \cup {i}
                                     ELSE {}]

\* serial_read: the ring is drained while the UART is writable.
serial_read(n) ==
  /\ pc = "read"
  /\ n <= buf_items
  /\ LineBytes(line) - n <= WIRE_SIZE
  /\ buf_items' = n
  /\ pc' = "flush"
  /\ UNCHANGED <<inputs, ep, line, a_connected, leaving, plugs, history>>

\* flush_pending_hid_reports visits every slot once from the cursor on.  No
\* slot becomes pending during the flush and a sent one is pending no more, so
\* the slot it acts on next is the first pending one from the cursor on, and
\* the flush ends when there is none.
Current ==
  LET after(k) == (next_pending_hid_input + k) % CFG_TUH_HID
      first == CHOOSE k \in Slots :
                 Pending(after(k)) /\ \A m \in Slots : m < k => ~Pending(after(m))
  IN  after(first)

\* Mutated: the index is not wrapped.
NextSlotUnwrapped(s) == s + 1
NextSlot(s) == (s + 1) % CFG_TUH_HID

\* The iteration that sends a held report and re-arms its endpoint ...
FlushSend ==
  /\ pc = "flush"
  /\ has_pending_hid_reports
  /\ LET held == hid_input_states[Current] IN
     /\ Fits(ReportBytes[held.itf])
     /\ WriteFrame(Frame("report", held.itf, held.report))
     /\ hid_input_states' = [hid_input_states EXCEPT ![Current].report = NoReport]
     /\ ep' \in ArmResults(held.itf)
     /\ RecordSent(held.itf)
  /\ next_pending_hid_input' = NextSlot(Current)
  /\ UNCHANGED <<pc, a_connected, leaving, plugs, taken, got>>

\* ... that finds no room: the blocked slot goes first next time ...
\* Mutated: the cursor moves past the blocked slot.
FlushBlockedSkips ==
  /\ pc = "flush"
  /\ has_pending_hid_reports
  /\ ~Fits(ReportBytes[hid_input_states[Current].itf])
  /\ next_pending_hid_input' = NextSlot(Current)
  /\ pc' = "task"
  /\ UNCHANGED <<hid_input_states, ep, uart, a_connected, leaving, plugs, history>>

FlushBlocked ==
  /\ pc = "flush"
  /\ has_pending_hid_reports
  /\ ~Fits(ReportBytes[hid_input_states[Current].itf])
  /\ next_pending_hid_input' = Current
  /\ pc' = "task"
  /\ UNCHANGED <<hid_input_states, ep, uart, a_connected, leaving, plugs, history>>

\* ... and the end of the loop.
FlushDone ==
  /\ pc = "flush"
  /\ ~has_pending_hid_reports
  /\ pc' = "task"
  /\ UNCHANGED <<inputs, ep, uart, a_connected, leaving, plugs, history>>

-----------------------------------------------------------------------------
(* tuh_task: the USB host stack's callbacks.                               *)

InTask == pc = "task" /\ leaving = {}

\* tuh_hid_report_received_cb, nothing held and room in the ring: the report
\* is written and the endpoint re-armed.
ReceiveSend(i) ==
  /\ InTask
  /\ ep[i] = "done"
  /\ ~has_pending_hid_reports
  /\ Fits(ReportBytes[i])
  /\ \E s \in Slots : register_hid_input(i)[s].itf = i
  /\ hid_input_states' = register_hid_input(i)
  /\ WriteFrame(Frame("report", i, taken[i]))
  /\ \E e \in {"idle", "armed"} : ep' = [ep EXCEPT ![i] = e]
  /\ RecordSent(i)
  /\ UNCHANGED <<pc, next_pending_hid_input, a_connected, leaving, plugs, taken, got>>

\* tuh_hid_report_received_cb, backpressure: the report is held in the
\* interface's slot (with no slot it would be lost) and nothing is armed.
\* Mutated: the callback re-arms the endpoint of a report it holds.
ReceiveHoldArms(i) ==
  /\ InTask
  /\ ep[i] = "done"
  /\ has_pending_hid_reports \/ ~Fits(ReportBytes[i])
  /\ hid_input_states' = [s \in Slots |->
       IF register_hid_input(i)[s].itf = i
       THEN [itf |-> i, report |-> taken[i]]
       ELSE register_hid_input(i)[s]]
  /\ ep' = [ep EXCEPT ![i] = "armed"]
  /\ UNCHANGED <<pc, next_pending_hid_input, uart, a_connected, leaving, plugs, history>>

ReceiveHold(i) ==
  /\ InTask
  /\ ep[i] = "done"
  /\ has_pending_hid_reports \/ ~Fits(ReportBytes[i])
  /\ hid_input_states' = [s \in Slots |->
       IF register_hid_input(i)[s].itf = i
       THEN [itf |-> i, report |-> taken[i]]
       ELSE register_hid_input(i)[s]]
  /\ ep' = [ep EXCEPT ![i] = "idle"]
  /\ UNCHANGED <<pc, next_pending_hid_input, uart, a_connected, leaving, plugs, history>>

Mounted == {i \in Interfaces : ep[i] # "closed"}

\* The bytes a blocking serial_write needs before it returns.
Unblocked(bytes) == LineBytes(line) + bytes <= BUFFER_SIZE + WIRE_SIZE

\* Mutated: the descriptor is sent like a report, and dropped at a full ring.
MountNonblocking(i) ==
  /\ InTask
  /\ i \notin Mounted
  /\ Cardinality(Mounted) < CFG_TUH_HID
  /\ plugs < MaxPlugs
  /\ IF Fits(FrameBytes["connected"])
     THEN WriteFrame(Frame("connected", i, 0)) ELSE UNCHANGED uart
  /\ hid_input_states' = IF i \in HasInput THEN register_hid_input(i)
                                            ELSE hid_input_states
  /\ ep' = [ep EXCEPT ![i] = "idle"]
  /\ plugs' = plugs + 1
  /\ UNCHANGED <<pc, next_pending_hid_input, a_connected, leaving, history>>

\* tuh_hid_mount_cb: the descriptor goes to A, an input interface gets a slot,
\* and every ready endpoint is armed.
tuh_hid_mount_cb(i) ==
  /\ InTask
  /\ i \notin Mounted
  /\ Cardinality(Mounted) < CFG_TUH_HID
  /\ plugs < MaxPlugs
  /\ Unblocked(FrameBytes["connected"])
  /\ WriteFrame(Frame("connected", i, 0))
  /\ IF i \in HasInput
     THEN /\ hid_input_states' = register_hid_input(i)
          /\ arm_ready_hid_inputs(register_hid_input(i), [ep EXCEPT ![i] = "idle"])
     ELSE /\ ep' = [ep EXCEPT ![i] = "idle"]
          /\ UNCHANGED hid_input_states
  /\ plugs' = plugs + 1
  /\ UNCHANGED <<pc, next_pending_hid_input, a_connected, leaving, history>>

\* tuh_hid_umount_cb: the slot is cleared, with a report it may hold, and A is
\* told.  TinyUSB removes a device by calling it for each interface of the
\* device, one after the other and with nothing in between.
tuh_hid_umount_cb(i) ==
  /\ pc = "task"
  /\ i \in IF leaving = {} THEN Mounted ELSE leaving
  /\ leaving' = {j \in Mounted \ {i} : DeviceOf[j] = DeviceOf[i]}
  /\ Unblocked(FrameBytes["disconnected"])
  /\ hid_input_states' = unregister_hid_input(i)
  /\ ep' = [ep EXCEPT ![i] = "closed"]
  /\ WriteFrame(Frame("disconnected", i, 0))
  /\ passed' = [j \in Interfaces |-> IF j = i THEN {} ELSE passed[j] \ {i}]
  /\ taken' = [taken EXCEPT ![i] = 0]
  /\ sent' = [sent EXCEPT ![i] = 0]
  /\ UNCHANGED <<pc, next_pending_hid_input, a_connected, plugs, got>>

\* tuh_sof_cb: a nonblocking frame every millisecond.  The UART moves 400 bytes
\* in that time, so the previous one has left (OneSofInFlight, a bound).
OneSofInFlight == \A p \in 1 .. Len(line) : line[p].type # "sof"
tuh_sof_cb ==
  /\ InTask
  /\ OneSofInFlight
  /\ Fits(FrameBytes["sof"])
  /\ WriteFrame(Frame("sof", NoInterface, 0))
  /\ UNCHANGED <<pc, inputs, ep, a_connected, leaving, plugs, history>>

\* Mutated: the main loop has no arm_ready_hid_inputs of its own.
ArmInputsNone ==
  /\ InTask
  /\ pc' = "read"
  /\ UNCHANGED <<inputs, ep, uart, a_connected, leaving, plugs, history>>

\* tuh_task returns and the main loop arms every ready endpoint again.
ArmInputs ==
  /\ InTask
  /\ arm_ready_hid_inputs(hid_input_states, ep)
  /\ pc' = "read"
  /\ UNCHANGED <<inputs, uart, a_connected, leaving, plugs, history>>

-----------------------------------------------------------------------------
(* The environment: USB devices, and A's serial_read with its callback.    *)

Complete(i) ==
  /\ ep[i] = "armed"
  /\ i \notin leaving
  /\ ep' = [ep EXCEPT ![i] = "done"]
  /\ taken' = [taken EXCEPT ![i] = (@ + 1) % ReportNumbers]
  /\ UNCHANGED <<pc, inputs, uart, a_connected, leaving, plugs, sent, got, passed>>

\* A drops every interface of a disconnected frame's device.
AHandle ==
  /\ line # << >>
  /\ LineBytes(line) - buf_items >= Bytes(Head(line))
  /\ line' = Tail(line)
  /\ LET f == Head(line) IN
     /\ a_connected' = CASE f.type = "connected"    -> a_connected \cup {f.itf}
                         [] f.type = "disconnected" ->
                               {j \in a_connected : DeviceOf[j] # DeviceOf[f.itf]}
                         [] OTHER                   -> a_connected
     /\ got' = IF f.type = "sof" THEN got ELSE [got EXCEPT ![f.itf] = f.n]
  /\ UNCHANGED <<pc, inputs, ep, buf_items, leaving, plugs, taken, sent, passed>>

-----------------------------------------------------------------------------
Init ==
  /\ pc = "read"
  /\ hid_input_states = [s \in Slots |-> FreeSlot]
  /\ next_pending_hid_input = 0
  /\ ep = [i \in Interfaces |-> "closed"]
  /\ buf_items = 0
  /\ line = << >>
  /\ a_connected = {}
  /\ leaving = {}
  /\ plugs = 0
  /\ taken = [i \in Interfaces |-> 0]
  /\ sent = [i \in Interfaces |-> 0]
  /\ got = [i \in Interfaces |-> 0]
  /\ passed = [i \in Interfaces |-> {}]

SerialRead == \E n \in 0 .. BUFFER_SIZE : serial_read(n)

Callback(i) ==
  \/ ReceiveSend(i)
  \/ ReceiveHold(i)
  \/ tuh_hid_mount_cb(i)
  \/ tuh_hid_umount_cb(i)

Next ==
  \/ SerialRead
  \/ FlushSend
  \/ FlushBlocked
  \/ FlushDone
  \/ \E i \in Interfaces : Callback(i)
  \/ tuh_sof_cb
  \/ ArmInputs
  \/ \E i \in Interfaces : Complete(i)
  \/ AHandle

Spec == Init /\ [][Next]_vars

\* B's loop never stops and handles every USB event; the UART keeps moving, so
\* that now and then serial_read drains all the wire can take; A keeps
\* reading; an endpoint that may be armed is not refused for ever.
DrainAll == SerialRead /\ (buf_items' = 0 \/ LineBytes(line') - buf_items' = WIRE_SIZE)
ArmOf(i) == ArmInputs /\ ep'[i] = "armed"
Fairness ==
  /\ WF_vars(SerialRead) /\ WF_vars(FlushSend \/ FlushBlocked \/ FlushDone)
  /\ WF_vars(\E i \in leaving : tuh_hid_umount_cb(i))
  /\ WF_vars(ArmInputs) /\ WF_vars(AHandle)
  /\ SF_vars(DrainAll)
  /\ \A i \in HasInput :   /\ SF_vars(ReceiveSend(i) \/ ReceiveHold(i))
                           /\ SF_vars(ArmOf(i))

FairSpec == Spec /\ Fairness

-----------------------------------------------------------------------------
(* Properties.                                                             *)

TypeOK ==
  /\ pc \in {"read", "flush", "task"}
  /\ hid_input_states \in
       [Slots -> [itf : Interfaces \cup {NoInterface}, report : Numbers \cup {NoReport}]]
  /\ next_pending_hid_input \in Slots
  /\ ep \in [Interfaces -> {"closed", "idle", "armed", "done"}]
  /\ buf_items \in 0 .. BUFFER_SIZE
  /\ line \in Seq(Frames)
  /\ a_connected \subseteq Interfaces
  /\ leaving \subseteq Interfaces
  /\ pc = "task" \/ leaving = {}
  /\ plugs \in 0 .. MaxPlugs
  /\ taken \in [Interfaces -> Numbers]
  /\ sent \in [Interfaces -> Numbers]
  /\ got \in [Interfaces -> Numbers]
  /\ passed \in [Interfaces -> SUBSET Interfaces]

\* An interface whose report is held back has no transfer armed and none
\* completed: a second report would overwrite the first, the button release
\* the comment in report_received_callback says is never dropped.
HeldIsNotArmed ==
  \A s \in Slots : Pending(s) => ep[hid_input_states[s].itf] = "idle"

\* Every mounted input interface has exactly one slot and every slot belongs
\* to a mounted interface, however devices come and go: no report meets a full
\* table (register_hid_input's nullptr) or a removed interface's state.
SlotPerInput ==
  /\ \A i \in Mounted \cap HasInput : \E s \in Slots : hid_input_states[s].itf = i
  /\ \A s \in Slots : Active(s) => hid_input_states[s].itf \in Mounted
  /\ \A s, t \in Slots : Active(s) /\ hid_input_states[s].itf = hid_input_states[t].itf
                         => s = t

\* What A is about to handle is the very next report of a connected interface:
\* no report is lost, repeated or reordered between a device's transfer and
\* handle_received_report, and none arrives outside connect .. disconnect.
NextReportInOrder ==
  line # << >> /\ Head(line).type = "report"
    => LET f == Head(line) IN
       f.itf \in a_connected /\ f.n = (got[f.itf] + 1) % ReportNumbers

\* Once A has handled every frame, A and B agree on which interfaces there are,
\* whatever devices have come and gone: a disconnect frame names one interface
\* and A drops the whole device.
AgreeOnInterfaces == line = << >> /\ leaving = {} => a_connected = Mounted

\* The refinement mapping: an interface's stream is its frames on the line, then
\* the report held in its slot or waiting in a completed transfer.
FramesOf(i, l) ==
  LET of[n \in 0 .. Len(l)] ==
        IF n = 0 THEN << >>
        ELSE IF l[n].itf = i THEN Append(of[n - 1], [type |-> l[n].type, n |-> l[n].n])
        ELSE of[n - 1]
  IN  of[Len(l)]
Waiting(i) == IF Holds(i) \/ ep[i] = "done" THEN <<[type |-> "report", n |-> taken[i]]>> ELSE << >>
StreamOf(i) == FramesOf(i, line) \o Waiting(i)

Stream == INSTANCE ReportStream
  WITH stream  <- [i \in Interfaces |-> StreamOf(i)],
       plugged <- Mounted,
       number  <- taken

\* The bridge implements one FIFO stream per interface, each of which comes out
\* at A whatever the backpressure and the other interfaces do.
ImplementsStreams == Stream!SFairSpec

\* While a report is held, no other interface is sent twice: a high-rate source
\* cannot overtake an older pending one (report_received_callback's comment).
NoSecondOvertake ==
  [][\A i, j \in Interfaces :
       Holds(i) /\ j \in passed[i] => ~(FlushSend /\ hid_input_states[Current].itf = j)
                                      /\ ~ReceiveSend(j)]_vars

\* No mounted input endpoint stays idle for ever after a failed arm, which is
\* what the main loop's arm_ready_hid_inputs is for.
IdleIsArmed ==
  \A i \in HasInput : ep[i] = "idle" ~> ep[i] # "idle"
=============================================================================
