------------------------------ MODULE Mapping ------------------------------
(***************************************************************************)
(* What the active layers make of the keys (remapper.cc): the second half  *)
(* of process_mapping.  On top of Layers, a frame puts every usage that a  *)
(* mapping or unmapped passthrough turns on into the keyboard report,      *)
(* queues the macros that were triggered, lays the first entry of the      *)
(* macro queue over the report, and queues the report for the PC.          *)
(*                                                                         *)
(* A build with STARTUP_NUMLOCK_SYNC types NumLock twice by the same macro *)
(* queue, once, when the keypad (a RealForce 23UB) and the PC have been    *)
(* there long enough and the keyboard is idle.                             *)
(*                                                                         *)
(* The report is one array of usages.  A mouse report takes places of the  *)
(* same queue.  A key is also the usage it has on our keyboard; durations  *)
(* of macro entries are in frames.                                         *)
(***************************************************************************)
EXTENDS Layers

CONSTANTS
  MappingOrder,        \* the usages of the report, in the order of reverse_mapping
  Macros,              \* the entries of each macro, sequences of usages
  PassthroughOf,       \* unmapped_passthrough_layer_mask of a configuration
  ArrayCount,          \* elements of the array field
  OR_BUFSIZE,          \* items of the outgoing queue
  macro_entry_duration,
  NUM_LOCK_USAGE,
  StartupDuration,     \* 199: frames of a startup entry after its first
  ReadyDelay,          \* 2 s
  IdleDelay,           \* 200 ms
  Builds,              \* a build, with its configurations and its input devices
  MaxEntries           \* bound: entries queued, beyond which no key is pressed

Usages == Range(MappingOrder)
Entries == [items : Seq(Usages), duration_left : Nat]

ASSUME MappingAssumption ==
  /\ MappingOrder \in Seq(Usages)
  /\ Usages \cap Layer = {}
  /\ Usages \cup DOMAIN Macros \subseteq OtherTargets
  /\ Macros \in [DOMAIN Macros -> Seq(Seq(Usages))]
  /\ PassthroughOf \in [Configs -> SUBSET Layer]
  /\ NUM_LOCK_USAGE \in Usages
  /\ {ArrayCount, ReadyDelay, IdleDelay} \subseteq Nat \ {0}
  /\ OR_BUFSIZE \in Nat \ {0, 1}  \* a frame makes two reports
  /\ {macro_entry_duration, StartupDuration, MaxEntries} \subseteq Nat
  /\ Builds \subseteq [configs : SUBSET Configs, keys : SUBSET Keys, startup : BOOLEAN, mouse : BOOLEAN]

VARIABLES
  build,
  passthrough,          \* unmapped_passthrough_layer_mask
  macro_queue,
  keys,                 \* the keyboard report being built, its array's elements in use
  prev_keys,            \* what was last queued of it
  outgoing_reports,
  startup_numlock_sync,
  present,              \* a 23UB is connected, the PC has A mounted and is awake
  \* history
  num_lock_down,        \* the PC last received NumLock as down
  num_lock,             \* how often NumLock went down for the PC, modulo 2
  crowded               \* an entry of a macro found no room in the array

output == <<build, passthrough, macro_queue, keys, prev_keys, outgoing_reports,
            startup_numlock_sync, present, num_lock_down, num_lock, crowded>>

-----------------------------------------------------------------------------
(* The reverse mapping.                                                    *)

\* The layers on which a usage is mapped.  A sticky layer key is not on the layer
\* it triggers, but for passthrough it is taken to be.
\* Mutated: it is not.
MappedOnLayersAsCompiled(u) == UNION {m.layers : m \in {n \in Range(mappings) : n.key = u}}
mapped_on_layers(u) ==
  UNION {m.layers \cup (IF m.sticky THEN {m.target} \cap Layer ELSE {}) :
           m \in {n \in Range(mappings) : n.key = u}}

unmapped_layers(u) == passthrough \ mapped_on_layers(u)

On(layers) == layers \cap layer_state_mask # {}

\* A source of a target is active.
SourceActive(m) ==
  IF m.sticky THEN sticky_state[m.key] \cap m.layers # {}
  ELSE /\ On(m.layers)
       /\ IF Plain(m) THEN input_state[m.key]
          ELSE \/ m.tap /\ tap_hold_state[m.key].tap
               \/ m.hold /\ tap_hold_state[m.key].hold

OutputActive(u) ==
  \/ \E m \in Range(mappings) : m.target = u /\ SourceActive(m)
  \/ u \in Keys /\ input_state[u] /\ On(unmapped_layers(u))

\* The usages of a set, in the order of reverse_mapping.
InOrder(active) ==
  LET on[n \in 0 .. Len(MappingOrder)] ==
        IF n = 0 THEN << >>
        ELSE IF MappingOrder[n] \in active THEN Append(on[n - 1], MappingOrder[n]) ELSE on[n - 1]
  IN  on[Len(MappingOrder)]

\* The entries of the macros a frame triggers, on the layers it has just activated.
Queued(macro) == [n \in DOMAIN Macros[macro] |->
                    [items |-> Macros[macro][n], duration_left |-> macro_entry_duration]]
Plays(m, layers) == m.target \in DOMAIN Macros /\ m.layers \cap layers # {} /\ Triggered(m)
TriggeredEntries(layers) ==
  LET queue[n \in 0 .. Len(mappings)] ==
        IF n = 0 THEN macro_queue
        ELSE IF Plays(mappings[n], layers) THEN queue[n - 1] \o Queued(mappings[n].target)
        ELSE queue[n - 1]
  IN  queue[Len(mappings)]

-----------------------------------------------------------------------------
(* StartupNumLockSync.                                                     *)

NotStarted ==
  [started |-> FALSE, ready_observed |-> FALSE, idle_observed |-> FALSE,
   ready |-> 0, idle |-> 0]  \* the times since ready_since_ and idle_since_
Started == [NotStarted EXCEPT !.started = TRUE]

should_start(s, keyboard_idle, queues_idle) ==
  LET seen == IF s.ready_observed THEN s
              ELSE [s EXCEPT !.ready_observed = TRUE, !.ready = 0]
      idle == IF seen.idle_observed THEN seen
              ELSE [seen EXCEPT !.idle_observed = TRUE, !.idle = 0]
  IN  IF s.started THEN s
      ELSE IF ~present THEN NotStarted
      ELSE IF ~keyboard_idle THEN [seen EXCEPT !.idle_observed = FALSE, !.idle = 0]
      ELSE IF queues_idle /\ idle.ready >= ReadyDelay /\ idle.idle >= IdleDelay
           THEN Started ELSE idle

Passed(s) ==
  IF s.started THEN s
  ELSE [s EXCEPT !.ready = IF s.ready_observed /\ @ < ReadyDelay THEN @ + 1 ELSE @,
                 !.idle = IF s.idle_observed /\ @ < IdleDelay THEN @ + 1 ELSE @]

\* Mutated: the two taps are one press, twice as long.
OneLongPress == [n \in 1 .. 4 |->
  [items |-> IF n <= 3 THEN <<NUM_LOCK_USAGE>> ELSE << >>, duration_left |-> StartupDuration]]
TwoTaps == [n \in 1 .. 4 |->
  [items |-> IF n \in {1, 3} THEN <<NUM_LOCK_USAGE>> ELSE << >>, duration_left |-> StartupDuration]]

-----------------------------------------------------------------------------
(* The report.                                                             *)

\* put_bits of each usage into the first element that is 0; there is no RollOver.
Put(array, usages) ==
  LET all == array \o usages
  IN  IF Len(all) <= ArrayCount THEN all ELSE SubSeq(all, 1, ArrayCount)

\* Mutated: an entry leaves when its time is up, wherever the reports are.
ExecutedInTime(queue) ==
  CASE queue = << >> -> << >>
    [] queue # << >> /\ Head(queue).duration_left > 0 ->
         [queue EXCEPT ![1].duration_left = @ - 1]
    [] OTHER -> Tail(queue)

\* The first entry is over when its time is, and all reports before are out.
Executed(queue) ==
  CASE queue = << >> -> << >>
    [] queue # << >> /\ Head(queue).duration_left > 0 ->
         [queue EXCEPT ![1].duration_left = @ - 1]
    [] OTHER -> IF outgoing_reports = << >> THEN Tail(queue) ELSE queue

KeyboardReport(array) == [id |-> "keyboard", keys |-> array]
MouseReport == [id |-> "mouse", keys |-> << >>]

\* The loop over report_ids: a report that changed is queued.  The first for which there
\* is no room ends the loop: it stays as it is for the next frame, and so do those after
\* it, changed or not.
Enqueue(queue, report) == IF Len(queue) < OR_BUFSIZE THEN Append(queue, report) ELSE queue

QueueKeyboard(queue, array, mouse) ==
  LET ended == \/ mouse = "before" /\ Len(outgoing_reports) = OR_BUFSIZE
               \/ array # prev_keys /\ Len(queue) = OR_BUFSIZE
  IN  IF ended THEN keys' = array /\ UNCHANGED prev_keys
      ELSE keys' = << >> /\ prev_keys' = array

\* The mouse has nothing to report, or its report comes before the keyboard's or after.
QueueReports(array, mouse) ==
  LET first == IF mouse = "before" THEN Enqueue(outgoing_reports, MouseReport)
               ELSE outgoing_reports
      second == IF array = prev_keys THEN first ELSE Enqueue(first, KeyboardReport(array))
  IN  /\ QueueKeyboard(first, array, mouse)
      /\ outgoing_reports' = IF mouse = "after" THEN Enqueue(second, MouseReport) ELSE second

\* The macro queue that a frame executes.
FrameQueue ==
  TriggeredEntries(layer_state_mask')
    \o IF startup_numlock_sync'.started /\ ~startup_numlock_sync.started THEN TwoTaps ELSE << >>

\* A frame.
MapFrame ==
  /\ process_mapping
  /\ UNCHANGED <<build, passthrough, present, num_lock_down, num_lock>>
  /\ \E mapped \in {Put(keys, InOrder({u \in Usages : OutputActive(u)'}))},
        endpoint_ready \in (IF build.startup THEN BOOLEAN ELSE {TRUE}) :
       /\ startup_numlock_sync' =
            IF build.startup
            THEN should_start(startup_numlock_sync, mapped = << >>,
                   /\ TriggeredEntries(layer_state_mask') = << >>
                   /\ outgoing_reports = << >> /\ endpoint_ready)
            ELSE startup_numlock_sync
       /\ \E queue \in {FrameQueue} :
            LET items == IF queue = << >> THEN << >> ELSE Head(queue).items
                full == Put(mapped, items)
            IN  /\ macro_queue' = Executed(queue)
                /\ \E mouse \in (IF build.mouse THEN {"none", "before", "after"} ELSE {"none"}) :
                     QueueReports(full, mouse)
                /\ crowded' = (crowded \/ ~(Range(items) \subseteq Range(full)))

-----------------------------------------------------------------------------
(* Around the frame.                                                       *)

\* send_report; the PC takes the reports in order.
send_report ==
  /\ ~suspended
  /\ outgoing_reports # << >>
  /\ outgoing_reports' = Tail(outgoing_reports)
  /\ IF Head(outgoing_reports).id = "keyboard"
     THEN LET down == NUM_LOCK_USAGE \in Range(Head(outgoing_reports).keys) IN
          /\ num_lock_down' = down
          /\ num_lock' = IF down /\ ~num_lock_down THEN 1 - num_lock ELSE num_lock
     ELSE UNCHANGED <<num_lock_down, num_lock>>
  /\ UNCHANGED <<vars, build, passthrough, macro_queue, keys, prev_keys,
                 startup_numlock_sync, present, crowded>>

ReadInput(k) ==
  /\ input_state[k] \/ Len(macro_queue) <= MaxEntries
  /\ read_input(k)
  /\ UNCHANGED output

LetTimePass ==
  /\ startup_numlock_sync' = Passed(startup_numlock_sync)
  /\ TimePasses \/ /\ \A k \in Keys : age[k] = tap_hold_threshold
                   /\ startup_numlock_sync' # startup_numlock_sync
                   /\ UNCHANGED vars
  /\ UNCHANGED <<build, passthrough, macro_queue, keys, prev_keys, outgoing_reports,
                 present, num_lock_down, num_lock, crowded>>

\* A 23UB connects or leaves (device_connected_callback), or the PC mounts A, unmounts
\* it, goes to sleep or wakes up.
KeypadOrHostChanges ==
  /\ build.startup
  /\ present' = ~present
  /\ UNCHANGED <<vars, build, passthrough, macro_queue, keys, prev_keys, outgoing_reports,
                 startup_numlock_sync, num_lock_down, num_lock, crowded>>

CompileAgain == set_mapping_from_config /\ UNCHANGED output

Suspend == ~suspended /\ SUSPEND /\ UNCHANGED output

Resume(config) ==
  /\ config \in build.configs
  /\ RESUME(config)
  /\ passthrough' = PassthroughOf[config]
  /\ UNCHANGED <<build, macro_queue, keys, prev_keys, outgoing_reports,
                 startup_numlock_sync, present, num_lock_down, num_lock, crowded>>

-----------------------------------------------------------------------------
MappingInit ==
  /\ Init
  /\ build \in Builds
  /\ \E config \in build.configs :
       mappings = Compiled(config) /\ passthrough = PassthroughOf[config]
  /\ macro_queue = << >>
  /\ keys = << >>
  /\ prev_keys = << >>
  /\ outgoing_reports = << >>
  /\ startup_numlock_sync = NotStarted
  /\ present = FALSE
  /\ num_lock_down = FALSE
  /\ num_lock = 0
  /\ crowded = FALSE

MappingNext ==
  \/ \E k \in build.keys : ReadInput(k)
  \/ LetTimePass
  \/ MapFrame
  \/ send_report
  \/ CompileAgain
  \/ Suspend
  \/ \E config \in Configs : Resume(config)
  \/ KeypadOrHostChanges

MappingSpec == MappingInit /\ [][MappingNext]_<<vars, output>>

-----------------------------------------------------------------------------
(* Properties.                                                             *)

MappingTypeOK ==
  /\ build \in Builds
  /\ passthrough \subseteq Layer
  /\ macro_queue \in Seq(Entries)
  /\ keys \in Seq(Usages) /\ Len(keys) <= ArrayCount
  /\ prev_keys \in Seq(Usages) /\ Len(prev_keys) <= ArrayCount
  /\ outgoing_reports \in Seq([id : {"keyboard", "mouse"}, keys : Seq(Usages)])
  /\ Len(outgoing_reports) <= OR_BUFSIZE
  /\ startup_numlock_sync \in
       [started : BOOLEAN, ready_observed : BOOLEAN, idle_observed : BOOLEAN,
        ready : 0 .. ReadyDelay, idle : 0 .. IdleDelay]
  /\ {present, num_lock_down, crowded} \subseteq BOOLEAN
  /\ num_lock \in {0, 1}

\* Every entry of a macro reaches the PC, however slow it is and whatever else is
\* typed or moved: an entry leaves the macro queue only in a frame whose report, with
\* all of the entry, is the newest that is queued, unless the array was full.
EntryIsShown ==
  [][process_mapping /\ Len(macro_queue') < Len(FrameQueue) =>
       \/ Range(Head(FrameQueue).items) \subseteq Range(prev_keys')
       \/ Len(prev_keys') = ArrayCount]_<<vars, output>>

\* NumLock taps come in pairs: when the macros are over and the reports are out,
\* the PC's NumLock is as it was, also when the startup taps and a user's macro are
\* asked for at once, devices come and go or the configuration changes meanwhile.
\* Only a key array without room for NumLock loses a tap.
NumLockRestored ==
  macro_queue = << >> /\ outgoing_reports = << >> /\ keys = << >> /\ ~crowded => num_lock = 0

\* The engine's queues and the PC's NumLock: the types, and taps that come in pairs.
MappingInv == MappingTypeOK /\ NumLockRestored

\* A key that is a layer key on every layer is never typed, on the layer it leaves
\* or on the one it turns on, with passthrough of what is unmapped on all layers.
LayerKey(k) ==
  \A layer \in Layer : \E m \in LayerMappings :
    m.key = k /\ (layer \in m.layers \/ m.target = layer)
LayerKeyIsSilent ==
  [][process_mapping =>
       \A k \in Keys \cap Usages :
         /\ LayerKey(k)
         /\ \A m \in Range(mappings) : m.target # k
         => ~OutputActive(k)']_<<vars, output>>
=============================================================================
