# A verification development for usb-hid-wireless-bridge

The repository is a firmware for two RP2040 microcontrollers in one housing. **B** is
the USB host: keyboards, mice and their wireless receivers plug into it. **A** is the
USB device: the PC sees one composite HID device. B forwards every input report over
a UART to A; A parses it, maps it and queues reports of its own for the PC. The code
modelled is `src/firmware/hid-remapper/firmware/src` (a fork of hid-remapper), built for
the WBT2 board with `WBT2_BOOT_INTERFACES`, with the tools and patches that prepare its
TinyUSB. TinyUSB and the Pico SDK are not in the repository: they are modelled from
how the code uses them and marked external in the map.

This directory holds TLA+ modules that model the firmware's own logic, TLC runs that
check them on small instances, and proofs that TLAPS checks for every value of the
constants.

## 1. Inventory

| Component | State | Operations | Interacts with |
|---|---|---|---|
| Input forwarding, B (`remapper_dual_b.cc`) | `hid_input_states` (a slot per interface, with a report held back), `next_pending_hid_input` | mount, unmount, report received, flush of held reports, arming of idle endpoints, SOF | TinyUSB host callbacks; writes the UART |
| UART (`serial.cc`, `crc.cc`) | transmit ring and its cursors, deframing buffer | `serial_write` (blocking or not), `serial_read`, SLIP escaping, CRC | B to A and A to B |
| A-side frames (`remapper_dual_a.cc`) | connected interfaces, the last report | `serial_callback`, `read_report`, `queue_*` towards B | input state, output reports |
| Input state (`remapper.cc`, `descriptor_parser.cc`) | `input_state` bits per usage and interface, `interface_index` | `handle_received_report`, `read_input`, `read_input_range`, `device_connected`, `device_disconnected` | read by the mapping once per frame |
| NumLock filter (`remapper.cc`) | `num_lock_sync_filters` | one step per report, one per frame, removal | sits between the reports and the input state |
| Keypad output while NumLock is off | inferred and host NumLock state, the chord's captured keys | rewrites a frame's keyboard report | NumLock filter, mapped reports |
| Mapping engine | layers, sticky and tap-hold state, macro queue, registers | `process_mapping`, once per tick | input state in, reports out |
| Mapped report queue | `reports`, `prev_reports`, `outgoing_reports` | build, compare, aggregate, queue, send | the PC's endpoints |
| Output and feature reports to devices (`out_report.cc`) | a queue of 8, `ready_to_send` | queue, send, completion | the PC, B's control pipe |
| PlayStation authentication (`ps_auth.cc`) | state, busy, chunk index, nonce | connect, disconnect, console and device reports, completions | output reports |
| Configuration protocol (`config.cc`) | `suspended`, the configuration under construction, flash | SUSPEND, RESUME, PERSIST, chunked set and get | mapping engine |
| USB host event queue (`src/tools/apply-host-completion-reserve.py`) | free places, reserve | enqueue from interrupt, dequeue | B's `tuh_task` |
| Interrupt polling (`src/patches`) | which endpoint is polled, suppression while EPX is in use | start of frame, control transfers | B's endpoints |
| Start-up NumLock double tap (`startup_numlock_sync.h`) | one-shot wait for a stable state | `update` | output of A |
| Expressions (`remapper.cc`) | programs, their validity, slots they keep, registers, ports | `is_expr_valid`, `eval_expr` | mapping engine, configuration |
| Diagnostics (`remapper_dual_a.cc`, `remapper_dual_b.cc`, `remapper.cc`) | contexts, a queue and a lane on B, a queue and a round of snapshots on A | record, forward when the UART allows, show to the PC | input forwarding, UART |
| Descriptor parser, our descriptors, peripherals, flashing, XInput | | | data, I/O, third-party protocols: see section 8 |

What is hard. Two controllers run without a common clock; the UART exerts backpressure
(B holds reports, A never refuses one); USB transfers complete while B's loop is
elsewhere; devices come and go in the middle of anything; A's frames (1 kHz) sample
what reports change; the PC polls each endpoint at its own rate; timeouts of the
NumLock filter race with the reports they wait for. `PROJECT.json` lists the hazards at
the lines where they bite.

What makes each part correct:

- **Forwarding**: no report is lost, duplicated or reordered between a completed
  transfer and A, whatever the backpressure; nobody starves; both sides agree on
  which devices there are.
- **Mapped reports**: every change and all motion reaches the PC, through aggregation
  and a full queue; the PC ends up with the input state.
- **NumLock filter**: NumLock toggles, so presses vanish only in pairs; NumLock is never
  left down; what is withheld comes out when the wrapper does not complete.
- **Input state**: one interface's releases do not clear another's keys; a bit belongs to
  one interface at a time, also across a replug; motion is taken once.
- **Layers**: a press is a tap or a hold, once; a toggled layer is on after an odd number of
  presses and a held one while its key is down, whatever the other layers do.
- **Mapping output**: every entry of a macro reaches the PC; taps of NumLock come in pairs;
  a layer key is never typed.
- **Expressions**: what runs unchecked stays on its stack; a kept pointer is of the right input.
- **Keypad output**: a keypad key is one thing while it is down, once, and takes nothing with it.
- **Output reports, authentication**: a request is answered once, in its own session, and the
  console gets the signature of its challenge.
- **Configuration**: what was saved is what the board starts with, whatever version wrote it and
  whenever the power fails; what is read in packets is whole; no frame runs on what was not
  compiled.
- **Diagnostics**: sets of counters stay whole under backpressure; one interface's end takes
  nothing from another; nothing starves the snapshots of a round.

## 2. Plan

Done in this order; each later item builds on the ones above it.

1. `Bridge`, `ReportStream`, `BridgeProofs`: input forwarding, and that it is a FIFO per interface. *(done)*
2. `OutQueue`, `OutQueueProofs`: the mapped report queue. *(done)*
3. `NumLockFilter`, `NumLockFilterProofs`. *(done)* `KeypadOutput` on top of it: the keyboard
   report from the inferred state. *(done)*
4. `InputState`, `InputStateProofs`: interface indices, per-interface bits, hub ports and
   ranges. *(done)*
5. `Layers`, `LayersProofs`: layers, sticky keys and tap-hold. *(done)* `Mapping` on top of it:
   passthrough, macros, the startup taps and the queue they meet. *(done)* `Expressions`,
   `ExpressionsProofs`. *(done)*
6. `PsAuth`: the relay, with the control transfers of both boards. *(done)*
7. `Config`, `ConfigProofs`: requests, compilation, saving, power failures, old versions. *(done)*
8. `Diagnostics`. *(done)* `LinkProofs`, about 6 and 8. *(done)*
9. Left: a damaged byte on the wire (SLIP resynchronisation), a sleeping bus in `OutQueue`.

The abstract specification that is stated is `ReportStream`: one FIFO per interface. A
signature as one atomic transaction would be another; `SignatureOfChallenge` says as much of
the outcome.

## 3. The modules

### Bridge: forwarding with backpressure

| TLA+ | Code |
|---|---|
| `hid_input_states`, `next_pending_hid_input` | the table and the cursor of `remapper_dual_b.cc` |
| `pc` | where B's `main` loop is: `serial_read`, `flush_pending_hid_reports`, `tuh_task` with its callbacks |
| `ep` | TinyUSB's state of an input endpoint: closed, idle, armed, transfer done and its callback due |
| `buf_items`, `line` | bytes in the transmit ring; the frames written and not yet handled by A, in order |
| `a_connected` | the interfaces A knows |
| `leaving` | the rest of a device whose interfaces TinyUSB is unmounting one by one |
| `taken`, `sent`, `got`, `passed` | history: what the device sent last, what B wrote last, what A handled last, who was sent while an interface waited |

`ReceiveSend` and `ReceiveHold` are the two ways through `report_received_callback`, with
the registration and the re-arming of `tuh_hid_report_received_cb`; `FlushSend`,
`FlushBlocked`, `FlushDone` are the iterations of the flush loop. The flush loop visits
each slot once; since no slot becomes pending during a flush, "the first pending slot
from the cursor on" is the next one it acts on. Arming may fail at any time (TinyUSB
refuses while a device is enumerated). `WriteFrame` keeps count of bytes: a frame goes
straight to the UART while the ring is empty and it is writable, and a blocking write
moves old bytes on; a connect frame that is larger than the free ring is enabled only
once A has taken enough (`Unblocked`), which is when `my_putc` would return. A report's
payload is a number modulo `ReportNumbers`.

`ReportStream` is the promise: for each interface a FIFO of connect, reports and disconnect,
independent of all others. `ImplementsStreams` is the refinement; the mapping takes an
interface's frames on the line, then the report held in its slot or waiting in a
completed transfer.

### OutQueue: reports for the PC

`pressed` and `moved` are the input state as a frame finds it; `reports` is what a frame
builds, `prev_reports` what was queued last, `outgoing_reports` the queue of `OR_BUFSIZE`,
`endpoint` what each interface of A has for the PC. `process_mapping` is the second half of
the function of that name: build (`Built`, `PutUsage`), then for each report in order:
compare, aggregate with the tail, or queue, up to the first report that does not fit
(`QueueReport`). `WrapField` is what `put_bits` and the sign extension do to a value that is
too large. `send_report` looks at the head of the queue only. The mapping itself is the
identity here.

Abstracted: a sleeping bus and the tool's SUSPEND only delay frames and sends. A frame's
motion larger than its field cannot happen in the model (`ReadReport` bounds it); the code
wraps it as it does a sum.

### NumLockFilter: keypad wrappers of wireless receivers

One record per interface is `num_lock_sync_filter_t`. `filter_num_lock_sync_report` is the
handling of a report up to the input state: deadlines first, then the automaton (`Observed`)
on the edges of the aggregate states of the interface's reports.
`apply_filtered_num_lock_states` is the once-a-frame part: deadlines, one pending state out,
and the bit of the interface in the input state. Time is counted down in units of which
`NUM_LOCK_SYNC_EDGE` make 20 ms; a deadline at 0 has passed.

Left out: the builds `STABLE_NUM_LOCK_INFERENCE` and `WBT2_SUPPRESS_23UB_NUM_LOCK`. The
inferred state is in the model; `KeypadOutput` has its readers. The check for equal neighbours in
`queue_num_lock_state` is modelled and never taken: `FilterInv` below says why.

### InputState: what all devices say

| TLA+ | Code |
|---|---|
| `pc`, `drained` | A's `main` loop: `read_report` (at most `DRAIN_LIMIT` input reports), the derivates, a frame if a tick is due, a new configuration |
| `interface_index`, `interface_index_in_use`, `hub_ports` | `globals.cc`, `descriptor_parser.cc` |
| `usage_state_ptr` | which (usage, hub port) have a state slot; port 0 is the slot for all ports |
| `input_state` | of a key's slot, the set of interface indices whose bit is set |
| `motion` | of the relative axis' slots, the sum |
| `derived` | the interfaces whose report descriptors `their_used_usages` was made from |
| `seen`, `owed`, `spoiled` | history: what an interface last said of a key, motion not yet taken, ports whose motion the code gives up |

`do_handle_received_report` with `Word` and `Added` is `read_input` and `read_input_range` for
all usages of a report: array ranges are cleared first, then bits and array elements are
read. `Word` keeps the difference between a slot for all ports and one for a single hub port,
where an array element *sets* the word: a press in one interface's array drops what another interface
of the port holds. `BitsFollowReports` is about all other slots (`KeepsApart`): the comment in
`read_input` that asks for independent bits is not about this function. `process_mapping` here is only what takes and clears motion.
`spoiled` names the two ways in which the code drops or keeps motion by construction (the
axis' last interface goes, the port becomes inactive); they are listed as hazards without
a property, and `MotionTakenOnce` is about everything else.

Left out: absolute axes, scaled and raw values, GPIO and ADC inputs, the limit on slots.

### Layers: layers, sticky keys, tap-hold

A mapping is a record of `map_source_t`'s flags with its target. `Compiled` is what
`set_mapping_from_config` makes of the layer masks; the four lists of usages it fills are
the operators `TapHoldKeys`, `StickyOn`, `TapStickyOn`, `HoldStickyOn`. A frame
(`process_mapping`) steps `tap_hold_state`, then `sticky_state` (`Toggled`), then goes
through the layer mappings. That last loop clears sticky bits as it goes; clearing them
twice changes nothing, so the state that the n-th mapping finds has a closed form
(`Sticky(k, n)`), and the order of the mappings, which the code takes from a hash map, still
matters. `age` is the time since the last press, up to the threshold. `settled`, `fired` and
`odd` are history.

`set_mapping_from_config` alone is a recompilation after devices come or go: it clears
sticky states but not the active layers. `SUSPEND` and `RESUME` bracket a user's change;
`RESUME` also goes back to layer 0. Left out: the eight-bit width of masks (there are four
layers), a change of the threshold itself.

### Mapping: what the layers make of the keys

`Mapping` extends `Layers`: its frame (`MapFrame`) is a frame of `Layers` together with the
second half of `process_mapping`. What a mapping, or the passthrough of a key that is not mapped on an
active layer (`unmapped_layers`), turns on goes into the array of the keyboard report, in the
order of `reverse_mapping` (`MappingOrder`, in which `Put` fills the array until it is full). Triggered
macros are appended to `macro_queue`, `should_start` may append the two NumLock taps of
`startup_numlock_sync.h`, the first entry is laid over the report, and `Executed` ends it when its time is over and the outgoing queue was empty. Then
each report that changed is queued and then cleared (`QueueReports`). The first without room ends the loop: it
stays as it is for the next frame, and so do those after it, changed or not (`QueueKeyboard`: an unchanged
keyboard report behind the mouse's keeps its keys, and the next frame puts them in again). `send_report` is the PC's side:
`num_lock` counts how often NumLock went down. A mouse report takes places in the queue before
or after the keyboard's.

A `build` fixes which of the configurations, keys, mouse and startup taps an instance has.
`crowded` remembers that an entry's usage found the array full, where the code drops it.
Left out: scaling, accumulated scroll, auto repeat, GPIO and DAC targets, the dpad, and other
reports than keyboard and mouse.

### KeypadOutput: the keyboard report while NumLock is off

`KeypadOutput` extends `NumLockFilter`. `pc` splits a frame into the filters' part and the
report's, so that the properties speak of the reports a frame may end with (`KeyboardReports`):
`Mapped` (the configuration's keypad-to-top-row mappings), then
`apply_num_lock_aware_keypad_output`, then `apply_alt_numpad_equals_chord`, which are functions of a
report here. The array is the set of its occupied places, each with its usage: a usage takes the first
free place and is lost when there is none, and clearing leaves gaps, as in the code. `ReportOrder` is
the order in which `reverse_mapping` comes to the usages. Which of several interfaces' inferred states is the newest is left open. `first`
is history: as what the press of a keypad key was first shown. A device that goes leaves its keys in the
input state, as the code does, until the configuration changes.

A frame starts from `uncleared`, the report as the last one left it: empty, unless the loop over the reports
ended at a full queue (`EndFrame` leaves it open whether it did, for the queue is not part of this module).
Then each key that is still down gets a second place, as in the code, and a Shift of the
chord stays. `DigitsNotDoubled` is about the places a frame adds, `ChordIsReplaced` and
`NumberRowIsKept` about reports with what was left in them.

`ReadReport` is a report that the input state reads as the filter does. `RolloverReport` is one of
RollOver: the filter takes it for a report without these keys, `read_input` is not called, and the keys
stay down in the input state. When they come again the filter infers NumLock anew, under a key that was
never released: `first` marks such a press "late", and `KeepsItsUsage` leaves it out, as it does presses during
the tap that ends a wrapper, in a chord, without a place, on a device that has gone, or while an uncleared
report still shows the key from the press before.

Left out: `STABLE_NUM_LOCK_INFERENCE`; the usages of macros in the same array (they are in `Mapping`);
a queue that is still full when the devices fall silent (`DevicesFallSilent`).

### Expressions: a stack machine checked once

`set_mapping_from_config` checks every program, element by element (`AcceptElement`,
`EndValidation`), and `CompileMappings` forgets the slots that elements kept and hands out new ones.
`process_mapping` runs the valid ones, an element per step. `Need` and `Effect` are the groups of
`is_expr_valid`; the actions of `eval_expr` are written from its own cases (what each reads, writes and
leaves), so that the two can disagree. Sums, times and states are any value. `STORE`, `RECALL` and
`PORT` are exact, with the division and the width of a port.

An element keeps the slot of its first evaluation; one whose usage is computed anew each time keeps
reading the first, which is how the code is and not a property.

### Config: requests, the loop, the flash

`pc` is where the main loop is: a frame, then at most one request, then pending changes
(`ApplyPending`), then a save. `config` is the five parts that the PC edits; `flash` is a sector:
version, settings, mappings, the bytes of macros and expressions one after the other, quirks.
The loaders of versions 3 to 18 read it back as they do in the code, with the number of macros and
the settings each version had. `SectorAssumption` says that what is in a sector of the start, and what
a client sends, makes a configuration (`Configs`), and that a blank sector is none. `EraseFlash` and `ProgramFlash` are two steps, between any two steps
power may fail (`Restart`). `MacroAnswer` and `ExprAnswer` are the packets a client reads with;
`download` is a client that puts them together. `stored` is history: what the flash is meant to
restore.

The lengths of macros and of their entries are bytes in the sector. `Body` writes them modulo
`LENGTHS` (256 in the code), and nothing in `APPEND_TO_MACRO` or in `persist_config` refuses a longer
one: `PersistedSize` counts the true lengths, and a macro of 256 empty entries, or an entry of 256 usages,
fits the 4096 bytes. The client is told SUCCESS, and at the next start the
loader takes usages for lengths and misreads all that follows in the sector. This is what the code does, and no document
or comment of the repository says otherwise. In the model `LengthsFit` tells the two cases apart, `lengths_fit` of
the sector remembers it, and `Loaded` is what may be read: what was saved, or settings and mappings
(which lie before the macros) with any of `Readings`. Which reading it is would take the bytes of the
usages, which are tokens here; a reading that ends outside the sector, or that makes usages 0 or unknown operations, is left out.
`RestoredAtStart` and `SuccessIsSaved` are about configurations whose lengths fit. The lengths of
expressions have two bytes, which no sector can exceed.

A request that edits is enabled between a client's SUSPEND and RESUME, as the clients in the repository
do. Left out: the CRC of requests, bootloader and pairing commands, the monitor, numbers in
settings beyond their defaults and the clamping of the emulated descriptor.

### PsAuth: a console's challenge

Board A's `state`, `busy` and the parts of nonce and signature are `ps_auth.cc`; `toB` and `toA` are the
UART as two lines that keep the order; `outgoing`, `ready_to_send` and `transfer` are
`out_report.cc` on B, which reports to other devices share. The controller and the console are
external: what they are asked, and what they answer. `lost` notes that a request was dropped by the
full queue or cut off by an unplugged device, `overlapped` that a challenge began while another was
under way; nothing in the code asks again in the first case.

### Diagnostics: what B tells A and A the PC

B: contexts by place, the ordinary records, pending snapshots and the lane of counter records, each
with when it is written to the UART. A: contexts with their places, the latest snapshots, the queue,
and the round: `SendHeartbeat` makes all snapshots pending again, `SendSnapshot`, `SendPorts` and
`SendQueued` are the parts of `send_hid_host_diagnostic_report` in its order, and `SendRefused` what it
has passed over when the interface takes nothing. Contents of records are left out; timers and
the room for a frame are open choices.

## 4. Runs

An invariant `...Inv` is the module's type invariant (but `KeyboardReportInv`, which has none) and
the named parts in brackets.

| Run | Checks | Shows |
|---|---|---|
| `bridge` | `TypeOK`, `HeldIsNotArmed`, `SlotPerInput`, `NextReportInOrder`, `AgreeOnInterfaces`, `IdleIsArmed`, `NoSecondOvertake`, `ImplementsStreams` | a held report is never overwritten; each input interface has a slot; what A gets is next in order; after all frames A and B agree; a failed arm is made up for; while a report waits nobody is sent twice; the bridge is one lossless FIFO per interface, liveness included |
| `out_safety` | `OutQueueInv` (`PrevIsNewestInFlight`), `MotionConserved` | what the comparison takes for sent is what is last on its way; no motion is lost or invented (modulo the field after an overflow) |
| `out_settles` | `HostSettles`, `PressIsShown` | the PC ends up with the input state; a press that met a full queue is shown all the same |
| `keypad` | `TypeOK`, `TogglesConserved`, `NoStuckNumLock`, `BacklogBounded`, `SettlesToKey`, `KeepsItsUsage`, `KeyboardReportInv` (`DigitsNotDoubled`, `NumberRowIsKept`, `ChordIsReplaced`) | presses of NumLock vanish in pairs only, it is never left down, the backlog is bounded, what was withheld comes out; a keypad key does not change while it is down, is not doubled, takes no number-row key with it; nothing of the Alt chord leaks |
| `input` | `TypeOK`, `BitsFollowReports`, `IndexPerInterface`, `MotionTakenOnce` | an interface's bits say what it last reported, through unplugging, re-used indices and new configurations; an index has one owner, except the last; motion is taken once |
| `mapping` | `TypeOK`, `TapHoldOnce`, `StickyToggles`, `HeldLayerStays`, `MappingInv` (`NumLockRestored`), `EntryIsShown`, `LayerKeyIsSilent` | a press is a tap or a hold once; toggled and held layers are on exactly when they should be; no entry of a macro is overtaken by the next; NumLock is as it was after macros and startup taps; a layer key is never typed |
| `expressions` | `ExpressionsInv` (`StackStays`, `KeptSlotIsOwn`), `SlotsAreFed` | no element reads or writes outside the stack; kept pointers are those of their usage and port after any recompilation; a frame finds every slot fed |
| `config` | `ConfigInv` (`DownloadIsWhole`, `FrameIsCompiled`), `SuccessIsSaved`, `RestoredAtStart` | macros and expressions read in packets are whole; no frame runs on what was not compiled; SUCCESS is of this save; the board starts with what was saved, or with defaults if power failed within a save; the last two where each length fits its byte |
| `psauth` | `PsAuthInv` (`OneRequest`), `SignatureOfChallenge`, `ChallengeIsAnswered` | one request at a time; the signature is of the challenge, whole and in order; a challenge is answered |
| `diagnostics` | `DiagnosticsInv` (`LaneIsOneSet`, `ConnectedHasContext`), `QueueIsShownInOrder` (`RoundIsOver`, `FragmentFollows`) | a set of counters is not mixed with the next; every connected interface keeps its context; a round shows all before the queue; fragments come without gaps |
| `out_wrap` | `NoWrapInField` (violated) | finding 1 |
| `numlock_held` | `HeldIsForwarded` (violated) | finding 2 |

Findings, both disagreements of a comment or document with the code:

1. `aggregate_relative`'s comment rules out that delayed relative reports wrap inside a
   field; behind a full queue they do, because motion is added to the uncleared report
   with `put_bits`.
2. A NumLock press that comes in one report with the keypad press `WAIT_KEYPAD` waits for
   is never forwarded, however long it is held; the document says that it is after 20 ms.

## 5. Bounds, and why they are enough

- **Bridge**: a device with two input interfaces and one without input, two slots (so that a
  leaked slot is missed at once), a ring of two units in which one report of two fits, and none beside
  a SOF frame; a connect frame that overruns the ring into the wire; three mounts (a replug of the
  whole device, or of an interface twice); report numbers modulo 2: a lost, repeated or swapped
  report is the first of its kind. One SOF frame in flight (`OneSofInFlight`): the UART moves
  about 400 bytes between two of them.
- **OutQueue**: a queue of two with two reports is full with one of each; motions of 1 in a
  field of -3..3 aggregate, refuse to aggregate and wrap to negative sums; one array element and one bit.
  `MaxOwed` bounds the motion in flight. The queue of the code has 8 places; nothing
  depends on the number. `out_settles` puts both reports on one endpoint and lets one unit
  of motion be under way at a time.
- **NumLockFilter, KeypadOutput**: one interface with two reports that both have NumLock, one of
  which has the keypad; an edge of two units, so that a deadline can be before, at and after a
  report; bursts of two reports per frame (`Burst`). The state per interface is independent of the
  other interfaces but for the device's removal. `Held` bounds what a report says is down: nothing, a
  keypad digit, it with another digit of the number row, both with a second keypad digit, the chord. One
  build has `NATIVE_KEYPAD_DEDUP`, with one digit mapped to the top row while the others pass through, which
  is where doubling is possible; the other has none and maps all. Three places hold all keys of a report, but not always
  beside what a full queue left in it (`Fits`); a report that is left has at most one occupied place (`MaxUncleared`), so that one key is
  put in a second time.
- **InputState**: three interfaces (two of one device) on one hub port, for two indices of which
  the last is shared (index 31 in the code). Two keys, one in bitmaps and one in arrays, in up to two
  reports, and an axis that two interfaces move. Two configurations, with all slots and with those of
  hub ports only. One unit of motion between frames (`MaxMotion`), one input report per pass
  (`DRAIN_LIMIT`).
- **Layers, Mapping**: three keys and the code's four layers; a threshold of two units, so that a
  release falls before, at and after it. `Builds` are four instances: five configurations with two
  mappings on one key, two keys for one layer, and tap, hold, sticky and plain mappings together,
  between which the user changes; a macro of five entries on a toggled layer with a mouse in the
  same queue of two; the startup taps with the user's own and a mouse; the user's own beside a key that is
  typed. `ReadyDelay` and `IdleDelay` are one unit of time (2 s
  and 200 ms), entries last a frame or two. `MaxEntries`: no key is pressed while more than one entry waits, so that
  the queue holds at most two macros and the startup taps.
- **Expressions**: a stack of four, so that each operation is at its least and at its greatest
  depth; two expressions of which the second may run after another port was selected; three sets of
  slots; a client extends programs of up to `MaxElements`. On the model's scale 1 is 2.
- **Config**: two macros, of which older versions have one, and an expression; packets of two usages
  and seven bytes; a sector for every version from 3 to 18, one of an unknown version, and a blank one; a
  sector size that some edits exceed; `MaxEdits` edits of the empty configuration, fewer of a full one.
  `LENGTHS` is 4, so that one edit of a macro of three entries, the last with three usages, makes the
  macro or the entry too long, and saving it succeeds; `Readings` are two, one of them empty.
- **PsAuth**: a challenge and a signature of two parts each, a queue of one report, two challenges,
  one unplugging, one report to another device: the least with which a part can be lost,
  repeated or mixed with another's. The bounds (`MaxChallenges`, `MaxPlugs`, `MaxOutputs`) end a behaviour,
  which is why this run alone does not check for deadlock.
- **Diagnostics**: two interfaces for two places and a lane of two, with a descriptor of three
  fragments for a queue of two; one frame on the line (`MaxLine`): B's choice of what to write next is what
  matters, and a full UART. `Scenarios` split what need not be together: a PC that does not read (so that
  A's queue and round rest), and each board's part with one or no device.

No symmetry is used. `CHECK_DEADLOCK` is on in all runs but `psauth`.

## 6. Fairness

- `Bridge`: B's loop has no exit and visits its parts in turn (weak fairness of each part);
  the UART shifts bytes out unless A stops reading, and A's loop reads on every pass (weak
  fairness of `AHandle`). `serial_read` drains as much as the wire takes, so a pass that
  drains to the full extent comes again and again (strong fairness of `DrainAll`). USB events
  are queued and `tuh_task` handles them (strong, since the loop leaves and re-enters the
  task phase). Arming fails only while TinyUSB enumerates (strong fairness of `ArmOf`).
- `OutQueue`: ticks keep coming, the loop calls `send_report` in every pass, the PC polls each
  endpoint. Nothing is assumed of the devices; `HostSettles` and `PressIsShown` speak of what
  follows once they fall silent, since under input that never pauses a queue may stay full.
- `NumLockFilter`, `KeypadOutput`: frames come and time passes. Nothing is assumed of reports. In
  `KeypadOutput` the two parts of a frame alone move `pc`, so fairness is stated of steps that do (`FrameMoves`).
- `PsAuth`: both main loops run, the line delivers, a transfer to a device that is there completes, the
  console sends the rest of a challenge that it began. Nothing is assumed of devices;
  `ChallengeIsAnswered` speaks of a controller that is there in the end and of requests that were not
  lost, because the code repeats none.
- The other runs check safety only.

## 7. What is proved

TLAPS checks the eight modules below. All theorems hold for every set of
interfaces and every size; the assumptions are those the modules name, which TLC evaluates on every run.
Besides, each of the inductive invariants was checked by TLC on its run before it was proved.

`BridgeProofs` (from `BridgeAssumption`: sizes are positive, a report fits an empty ring,
frames fit ring and wire together):

- `TypeCorrect`: `TypeOK`, by itself inductive.
- `HeldNeverArmed`, `SlotForEveryInput`: their conjunction `SlotInv` is inductive on top of
  `TypeOK`. The step that needs thought is the mount: TinyUSB mounts no more interfaces than
  there are slots, active slots name different mounted interfaces, so by the pigeonhole
  principle a slot is free (`SlotLeft`).
- `ReportsInOrder`: `NextReportInOrder` looks at the head of the line only. The strengthening
  says of the whole line that consecutive frames of an interface carry consecutive numbers
  (`FramesFollow`), that the first continues what A has (`FirstIsNext`), that the last is what
  B has sent (`LastIsSent`), and that behind a disconnect frame, with which A drops a whole
  device, no report of that device follows without a new connect (`DisconnectTakesDevice`,
  which needs that TinyUSB removes a device's interfaces without a step in between:
  `OneDeviceLeaves`). `HostInv` ties the newest report on B to what was sent.

- `BothSidesAgree`: `AgreeOnInterfaces` speaks of an empty line. `PresentIsHeard` and
  `GoneIsDropped` say it of every line: an interface that is mounted is known to A or has a connect
  frame coming behind which no disconnect frame of its device follows; one that is not mounted but
  that A knows, or will hear of, has a disconnect frame of its device coming after that.
- `NoneOvertakesTwice`: `OvertakeInv` counts the turns of the cursor. Whoever was sent while an
  interface's report was held has its slot behind the held one's, seen from the cursor, so that the
  flush comes to the held one first.
- `StreamPerInterface`: the safety half of `ImplementsStreams`, `Spec => Stream!SSpec`. The mapping
  takes a recursive function of the line (`FramesOf`), so the lemmas say what appending a frame and
  taking the first one do to it; with them each action puts one item into one interface's FIFO, takes one out of
  one, or leaves all alone. That all streams end up empty is left to TLC, being liveness.

`OutQueueProofs` (from `OutQueueAssumption`), for any set of reports, usages and interfaces, any field
and any length of the queue:

- `PrevIsWhatHostWillShow`: `PrevIsNewestInFlight` is about the newest report in flight. `Newest`
  says of every report that what lies beyond the queue is what the PC will show when the endpoint is idle
  again, and `IsNewest` looks for the last entry of the queue; aggregation with the tail, which replaces
  that entry, keeps its absolute part.
- `NoMotionLost`: `MotionConserved` is an equation between the motion that devices made and the sum of
  what the PC got, what an endpoint holds, what is queued, what a frame has built and what is pending.
  `FieldsFit` says that only one report has a relative field, `BlankBetween` that a frame leaves nothing
  in the reports until one meets a full queue; from then on the equation is modulo the field. The sums are
  folds, unfolded once and for all by an induction on the length (`UpTo`).

`NumLockFilterProofs` (from `FilterAssumption` and `NoFilterAssumption`, that a missing entry is not
an entry):

- `TypeCorrect`; `NeverStuck` (`NoStuckNumLock`), `TogglesPaired` (`TogglesConserved`),
  `ShortBacklog` (`BacklogBounded`). The core is one invariant per filter (`FilterInv`): pending
  states alternate, starting with the opposite of what is out; a stage that withholds or
  passes a press with the key down implies that the key is down; the last state queued is
  "down" exactly in `PASSTHROUGH_DOWN`. With it, the parity of presses withheld and pending
  is a function of stage, length and output, and the length plus what the stage may still
  queue grows by at most one per report and is not changed by a timeout.
- `KeypadIsFilter`: `KeypadSpec => Spec`, a step of `KeypadOutput` is one of the filter or leaves it alone (from
  `KeypadAssumption` too, as what follows). `FilterInKeypad` transfers the four theorems above.
- `ReportsAreSound`: `KeyboardReportInv`, for any digits, builds, order of usages and number of places. What the
  three functions do to the report is said of one usage or one digit first (`SetUsage`, `ClearUsages`,
  `RestoreOne`, `ChordShows`) and carried through the two loops by induction on their length (`MappedShows`,
  `RestoredShows`). The array has room by the pigeonhole principle: the targets are no more than the keys
  (`RoomLeft`), and a usage that is restored takes the place of its twin. What a full queue left (`uncleared`) is any
  report of the right type (`KeysInv`): places stay what they are until they are cleared, so what
  a frame adds is told from what was there.
- `KeysKeepTheirUsage`: `KeepsItsUsage`. `KeepInv` ties how a press was first shown to what the filter infers
  now: as the inferred state would show it again. The state does not change under a key
  (`ReportIsSteady`, `FrameIsSteady`), because a stage that waits for a key has none down and each other
  transition that infers anew needs an edge of the aggregate keypad state or the wrapper's last tap
  (`TRAILING_DOWN`), during which a press is not counted. `StillShown` says that a report left uncleared shows
  the key as it was first shown, and a new key not at all; a report of RollOver takes the keys it hides out of the
  invariant. The
  hypothesis `OneKeyboard` is that there is one interface and that its keys fit the array; the constants of
  run `keypad` satisfy it. With two keyboards the property is false, since what the one infers changes the
  other's keys.

`InputStateProofs` (from `InputAssumption`):

- `TypeCorrect`, with the bookkeeping that later proofs need (`BaseInv`): the derivates are those
  of the known interfaces whenever a report is read, because every connect and disconnect ends
  the pass of `read_report`; `hub_ports` has every known interface's port.
- `OwnIndex`: `IndexPerInterface` is inductive. The search ends at a free index or at the last
  (`NewIndex`); giving back the last while another interface has it is why the last is excepted.
- `BitsAreReports`: `BitsFollowReports` is inductive with `BaseInv` and `IndexPerInterface`: a
  report changes its own interface's bit only, which is nobody else's.
- `MotionOnce`: `MotionTakenOnce` needs that motion is pending only where a frame clears it
  (`MotionHasOwner`). `PortsArePlugged`: `ActivePortIsPlugged` from `BaseInv`.

`LayersProofs` (from `LayersAssumption` and, for `Mapping`, `MappingAssumption`), for any mappings whatever:

- `TypeCorrect`: above all, some layer is active after every frame.
- `OneTapOrHold`: the strengthening (`TapHoldOf`) says that a hold goes on until the release and
  is as old as the threshold, so its release is no tap, and that a press that was a hold already
  still is one, so it does not begin again.
- `HeldLayers`: from `WorksOnTarget`, that compiling put the mapping on the layer it holds.
- `StickyLayers`, `OddPresses`: `StickyInv` ties active layer, sticky key and odd number of
  triggers together; `TogglesAlone` and `LeavesAlone` say that the two loops see the same press of
  the one mapping and undo one another when the layer is on.
- `MappingIsLayers`: `MappingSpec => Spec`, for a frame of `Mapping` is one of `Layers` and its other steps leave
  the layers alone. `LayersInMapping` transfers the five theorems above.
- `LayerKeysAreSilent`: `LayerKeyIsSilent`. Since a sticky layer key is taken to be mapped on the layer it turns
  on (`WorksOnTarget`), a key that is a layer key everywhere is mapped on every layer, and nothing of it is left to
  pass through, whichever layers the frame ends with.
- `EntriesAreShown`: `EntryIsShown`. An entry leaves the macro queue only in a frame that found
  `outgoing_reports` empty; with room for two (`OR_BUFSIZE`), the keyboard's report is queued in that frame.
- `MacrosRestoreNumLock`: `MappingInv`, that no macro and no startup tap leaves NumLock pressed or switched. The
  strengthening follows the reports to the PC: some state of the PC's NumLock is where the waiting reports lead
  it, agrees with `prev_keys`, and is led back to where it was by the entries that still wait, unless an
  entry found the array full (`crowded`). The hypothesis `NumLockByMacros` is that NumLock is on no device and no
  mapping's target and that each macro taps it in pairs; the constants of run `mapping` satisfy it.

`ExpressionsProofs` (from `ExpressionsAssumption`), for programs of any length:

- `ExpressionsAreSafe`: `StackStays` needs the depths that validation found. `Checked` says of a
  program that every element is acceptable at the depth that the ones before it leave; `ValidationInv` is
  the part of it that `is_expr_valid` has come to, `ValidityInv` what stays of it until a client edits,
  and `DepthInv` that the stack is as deep as was noted, for `eval_expr` is written from cases of
  its own. `KeptSlotIsOwn` is inductive with the lengths of what elements keep (`ProgramsInv`).
- `FramesBeginFed`: `SlotsAreFed`, from `FedInv`: the derivates know every slot or are about to.

`ConfigProofs` (from `ConfigAssumption` and `SectorAssumption`), for any number of macros and expressions,
any size of packets, any settings, mappings and quirks:

- `SavedIsRead`: what `load_config` makes of the sector that `persist_config` wrote is what was saved, if no
  macro and no entry has `LENGTHS` (256) or more (`LengthsFit`; `FittingMacros` says that the lengths are then
  written as they are). A
  sector's macros and expressions lie one after the other, each after its length. Where each block begins is a sum of
  lengths (`FlattenIs`, `FlatOffsets`); a loader that starts there reads the block and ends at the next
  (`BlocksRead`, `MacrosRead`, `BodyIsRead`).
- `TypeCorrect`, `SuccessIsAlwaysSaved`, `StartsWithTheSaved` (`RestoredAtStart`) and `ConfigIsSafe`
  (`ConfigInv`) from one inductive invariant: `SaveInv` (the flash is blank or restores what was saved last if its
  lengths fit, what it restores is a configuration in any case, and a save
  that is asked for has not been answered yet), `LoopInv` (edits only while suspended, and what they changed is
  compiled before the next frame) and `DownloadInv` (what a client has is a prefix of what the board has, and a
  request to go on asks for the rest). `MacroAnswerIs` and `ExprAnswerIs` say that a packet is the next
  piece and that a short one is the last.
- These four have one hypothesis, `OldSectorsAreRead`: the sectors of older firmware that a board may find at its
  first start are read as what they mean. Whether the loaders of versions 3 to 17 do that is a
  question about constants; TLC answers it for sectors of every version, since the board of run `config`
  finds each of them at its start, and `RestoredAtStart` compares what it reads with what the sector means.

`LinkProofs` (from `PsAuthAssumption`), for any number of parts and any queue:

- `OneRequestAtATime`: `OneRequest` counts what is open on the line, in the queue and in the transfer
  (`OneOpen`); none is when the relay is not busy.
- `SignatureIsOfChallenge`: unless a request was lost or challenges overlapped (`Clean`), each of the places a
  request or an answer can be in fits what the controller has received and given (`AskedFits`,
  `AnswerFits`, `NothingOpenFits`), so the parts reach it in order; `ConsoleInv` is the console's view of the
  same, with the signature of what it sent once it polls successfully.

`LinkProofs` also extends `Diagnostics` (from `DiagnosticsAssumption`), for any number of interfaces, fragments,
ports and places:

- `LaneAndContexts`: `DiagnosticsInv`. The counters that fill the lane are of different interfaces since no interface
  has two contexts on B (`ContextsOnce`, `CountersOnce`), and the lane is only shortened until it is empty. On A
  an interface that has no place finds one that is free while there are places for all (`PlaceLeft`, a pigeonhole
  principle), so that none drops another's; that takes frames whose interface is one (`Frames`).
- `QueueComesAfterRound`: `QueueIsShownInOrder`. What is owed of the round is still pending and no port that is
  owed lies before the cursor (`RoundInv`); in the queue each fragment stands behind the one before it, and the
  first behind what was shown last (`QueueInv`), which dropping what does not fit leaves true.

Out of the prover's reach, left to TLC: liveness under fairness (`IdleIsArmed`, `HostSettles`,
`PressIsShown`, `SettlesToKey`, `ChallengeIsAnswered`, the fair part of `ImplementsStreams`). Every safety property
of the passing runs is proved. `ActivePortIsPlugged` and `StickyIsActive` are proved only: no run
checks them besides.

## 8. Not modelled

- What is not in the repository: TinyUSB, whose event queue and RP2040 driver the repository patches
  with text (`src/tools/apply-host-completion-reserve.py`, `src/patches`); only the changed lines can be read.
- A damaged byte on the wire: the CRC drops the frame and nothing repeats it, so that no promise is left to
  check. SLIP escaping is left out.
- A sleeping bus and remote wakeup: frames and sends are only delayed in the model.
- Report descriptors and quirks (tables and a pure function of bytes; their results are the
  constants), our descriptors and thin TinyUSB callbacks, peripherals, flashing B from A (a vendored SWD driver), XInput
  (a class driver of one device family), single-board variants, host-side tools, MIDI.
- Of the mapping: scaling, accumulated scroll, auto repeat, GPIO, DAC and dpad targets, the numbers
  expressions compute. Of the configuration: the CRC of requests, bootloader and pairing commands. Of the
  diagnostics: the contents of records and counters.

`PROJECT.json` has the reason for each component.
