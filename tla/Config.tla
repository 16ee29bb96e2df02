------------------------------- MODULE Config -------------------------------
(***************************************************************************)
(* The configuration: how the PC reads and changes it with feature reports *)
(* (config.cc: handle_set_report1, handle_get_report1), how it is kept in  *)
(* flash (persist_config, load_config and the loaders of every version     *)
(* since 3), and when the main loop of main.cc takes it into use.          *)
(*                                                                         *)
(* One round of the main loop is a frame, at most one feature request (the *)
(* stages of a control transfer need more than one tud_task), the pending  *)
(* resume and compilation, and the pending save.  The power may fail       *)
(* anywhere, also between the erasing and the programming of the flash.    *)
(***************************************************************************)
EXTENDS Naturals, Sequences, SequencesExt

CONSTANTS
  NMACROS, NMACROS_8, NEXPRESSIONS, NOUR_DESCRIPTORS,
  MACRO_ITEMS_IN_PACKET,   \* usages in a request or an answer
  APPEND_BYTES, GET_BYTES, \* elem_data of append_to_expr_t and get_expr_response_t
  PERSISTED_CONFIG_SIZE,
  LENGTHS,                 \* values of the byte with the length of a macro or an entry: 256
  CONFIG_VERSION,
  Keys,                    \* usages of macros
  NewMappings, NewQuirks, NewSettings,  \* what the PC sends
  MacroPackets, ExprPackets,            \* likewise: usages, 0 between two entries; elements
  Images,                  \* what older firmware may have left in flash, and what it means now
  Readings,                \* what may be read where the length of a macro did not fit its byte
  Blank,                   \* flash without a valid checksum
  None,
  MaxEdits                 \* bound on the changes since the start

ASSUME ConfigAssumption ==
  /\ NMACROS_8 \in 1 .. NMACROS
  /\ {NMACROS, NEXPRESSIONS, NOUR_DESCRIPTORS, MACRO_ITEMS_IN_PACKET} \subseteq Nat \ {0}
  /\ APPEND_BYTES \in Nat
  /\ GET_BYTES \in Nat /\ GET_BYTES >= 5  \* an answer has room for any element
  /\ LENGTHS \in Nat \ {0}
  /\ CONFIG_VERSION \in Nat /\ CONFIG_VERSION >= 18  \* the last version that changed the sector
  /\ {PERSISTED_CONFIG_SIZE, MaxEdits} \subseteq Nat
  /\ Keys \subseteq Nat \ {0}
  /\ \A packet \in MacroPackets : packet \in Seq(Keys \cup {0}) /\ Len(packet) <= MACRO_ITEMS_IN_PACKET
  /\ \A packet \in ExprPackets : packet \in Seq(Range(packet))
  /\ \A image \in Images : image.edits \in 0 .. MaxEdits

VARIABLES
  config,                      \* settings, mappings, macros, expressions and quirks
  flash,                       \* the sector of the configuration
  last_config_command, requested_index, requested_secondary_index,
  suspended, resume_pending, config_updated,
  need_to_persist_config, persist_config_return_code,
  pc,                          \* where the main loop is
  \* history
  stored,                      \* what the flash is meant to restore
  uncompiled,                  \* changed since the mapping engine was last compiled
  editing,                     \* a client is between its SUSPEND and its RESUME
  download,                    \* what a client has read of a macro or an expression
  edits

commands == <<last_config_command, requested_index, requested_secondary_index>>
loop == <<suspended, resume_pending, config_updated>>
saving == <<need_to_persist_config, persist_config_return_code>>
history == <<uncompiled, editing, download, edits>>
vars == <<config, flash, commands, loop, saving, pc, stored, history>>

Macros == 0 .. NMACROS - 1
Expressions == 0 .. NEXPRESSIONS - 1

\* The settings of globals.cc; 0 stands for the default of a timeout or of the interval.
Fields == {"unmapped", "partial_scroll_timeout", "tap_hold_threshold", "gpio_debounce_time",
           "interval_override", "our_descriptor_number", "ignore_auth_dev_inputs",
           "macro_entry_duration", "gpio_output_mode", "normalize_gamepad_inputs"}
DefaultSettings == [f \in Fields |-> CASE f = "unmapped" -> 255
                                       [] f = "normalize_gamepad_inputs" -> 1
                                       [] OTHER -> 0]
Defaults == [settings |-> DefaultSettings, mappings |-> <<>>,
             macros |-> [i \in Macros |-> <<>>],
             expressions |-> [i \in Expressions |-> <<>>], quirks |-> <<>>]

\* What is configured: by the PC, or by an older firmware.
AllMappings == NewMappings \cup UNION {Range(image.means.mappings) : image \in Images}
RangesOf(exprs) == UNION {Range(exprs[i]) : i \in Expressions}
AllElements == UNION {Range(packet) : packet \in ExprPackets}
                 \cup UNION {RangesOf(image.means.expressions) : image \in Images}
                 \cup UNION {RangesOf(reading.expressions) : reading \in Readings}
AllQuirks == NewQuirks \cup UNION {Range(image.means.quirks) : image \in Images}
               \cup UNION {Range(reading.quirks) : reading \in Readings}
AllSettings == {s \in [Fields -> Nat] : s.our_descriptor_number < NOUR_DESCRIPTORS}
Configs == [settings : AllSettings, mappings : Seq(AllMappings), macros : [Macros -> Seq(Seq(Keys))],
            expressions : [Expressions -> Seq(AllElements)], quirks : Seq(AllQuirks)]

\* A sector without a valid checksum is not one of this version.  Old firmware has left what
\* fitted; whatever is read is a configuration.
ASSUME SectorAssumption ==
  /\ NewSettings \subseteq [Fields -> Nat]
  /\ \A image \in Images : image.means \in Configs
  /\ Blank \notin [version : {CONFIG_VERSION}, settings : AllSettings, mappings : Seq(AllMappings),
                  body : Seq(Nat \cup AllElements), quirks : Seq(AllQuirks), lengths_fit : BOOLEAN]
  /\ Readings \subseteq [macros : [Macros -> Seq(Seq(Keys))],
                         expressions : [Expressions -> Seq(AllElements)], quirks : Seq(AllQuirks)]

-----------------------------------------------------------------------------
(* The sector in flash.  Its body is the macros, then the expressions: a   *)
(* length, and what it counts; an element is a token of one byte, or of    *)
(* five.  The lengths of macros and of their entries are one byte each,    *)
(* and nothing refuses a longer one: its upper bits are lost, and the      *)
(* loader takes usages, expressions and quirks for something else.  Tokens *)
(* do not tell what it reads then: any of Readings.                        *)

HasValue(elem) == elem.op \in {"PUSH", "PUSH_USAGE"}
ElemBytes(elems) ==
  LET bytes[n \in 0 .. Len(elems)] ==
        IF n = 0 THEN 0 ELSE bytes[n - 1] + (IF HasValue(elems[n]) THEN 5 ELSE 1)
  IN  bytes[Len(elems)]

Clamped(n) == IF n >= NOUR_DESCRIPTORS THEN 0 ELSE n

\* Where n blocks of a length and its tokens end that begin after p.
End(body, p, n) ==
  LET after[i \in 0 .. n] == IF i = 0 THEN p ELSE after[i - 1] + 1 + body[after[i - 1] + 1]
  IN  after[n]
\* Block i of those that begin after p.
Block(body, p, i) ==
  LET q == End(body, p, i) IN SubSeq(body, q + 2, q + 1 + body[q + 1])

\* A macro is a length and that many blocks, its entries.
MacroEnd(body, n) ==
  LET after[i \in 0 .. n] ==
        IF i = 0 THEN 0 ELSE End(body, after[i - 1] + 1, body[after[i - 1] + 1])
  IN  after[n]
MacroAt(body, i) ==
  LET p == MacroEnd(body, i)
  IN  [j \in 1 .. body[p + 1] |-> Block(body, p + 1, j - 1)]

\* The loops of the loaders over n macros; the others stay as they were.
LoadMacros(c, image, n) ==
  [c EXCEPT !.macros = [i \in Macros |-> IF i < n THEN MacroAt(image.body, i) ELSE @[i]]]
\* ... over the expressions that follow n macros.
LoadExpressions(c, image, n) ==
  [c EXCEPT !.expressions =
     [i \in Expressions |-> Block(image.body, MacroEnd(image.body, n), i)]]
\* ... over the settings a version has, and the mappings.
LoadSettings(c, image, fields) ==
  [c EXCEPT !.settings = [f \in Fields |->
     IF f \notin fields THEN @[f]
     ELSE IF f = "our_descriptor_number" THEN Clamped(image.settings[f])
     ELSE image.settings[f]]]
mapping_config_10_to_11(m) == [m EXCEPT !.hub_ports = 0]
LoadMappings10(c, image) ==
  [c EXCEPT !.mappings = @ \o [i \in DOMAIN image.mappings |-> mapping_config_10_to_11(image.mappings[i])]]
LoadMappings11(c, image) == [c EXCEPT !.mappings = @ \o image.mappings]

SettingsV4 == {"unmapped", "partial_scroll_timeout", "interval_override"}
SettingsV5 == SettingsV4 \cup {"tap_hold_threshold"}
SettingsV7 == SettingsV5 \cup {"gpio_debounce_time"}
SettingsV9 == SettingsV7 \cup {"ignore_auth_dev_inputs", "our_descriptor_number"}
SettingsV10 == SettingsV9 \cup {"gpio_output_mode", "macro_entry_duration"}

\* A mapping of version 3 names one layer, and unmapped inputs pass on layer 0.
load_config_v3_v4(c, image) ==
  LET loaded == LoadMappings10(LoadSettings(c, image, SettingsV4), image)
  IN  IF image.version = 3
      THEN [loaded EXCEPT !.settings.unmapped = IF image.settings.unmapped # 0 THEN 1 ELSE 0,
                          !.mappings = [i \in DOMAIN @ |->
                             [@[i] EXCEPT !.layer_mask = 2 ^ @]]]
      ELSE LoadMacros(loaded, image, NMACROS_8)

load_config_v5(c, image) ==
  LoadMacros(LoadMappings10(LoadSettings(c, image, SettingsV5), image), image, NMACROS_8)

load_config_v6(c, image) ==
  LoadExpressions(
    LoadMacros(LoadMappings10(LoadSettings(c, image, SettingsV5), image), image, NMACROS_8),
    image, NMACROS_8)

load_config_v7_v8(c, image) ==
  LoadExpressions(
    LoadMacros(LoadMappings10(LoadSettings(c, image, SettingsV7), image), image, NMACROS),
    image, NMACROS)

load_config_v9(c, image) ==
  LoadExpressions(
    LoadMacros(LoadMappings10(LoadSettings(c, image, SettingsV9), image), image, NMACROS),
    image, NMACROS)

\* Mutated: what version 10 added is left out.
AsVersion9(c, image) == load_config_v9(c, image)

load_config_v10(c, image) ==
  LoadExpressions(
    LoadMacros(LoadMappings10(LoadSettings(c, image, SettingsV10), image), image, NMACROS),
    image, NMACROS)

load_config_v11(c, image) ==
  LoadExpressions(
    LoadMacros(LoadMappings11(LoadSettings(c, image, SettingsV10), image), image, NMACROS),
    image, NMACROS)

LoadQuirks(c, image) == [c EXCEPT !.quirks = @ \o image.quirks]

load_config_v12(c, image) == LoadQuirks(load_config_v11(c, image), image)
\* The lengths of expressions have two bytes since version 13.
load_config_v13(c, image) == LoadQuirks(load_config_v11(c, image), image)

load_config_v18(c, image) ==
  LoadQuirks(
    LoadExpressions(
      LoadMacros(LoadMappings11(LoadSettings(c, image, Fields), image), image, NMACROS),
      image, NMACROS),
    image)

\* What is in the sector, over the defaults; before version 18 inputs were not normalized.
load_config(image) ==
  LET before == [Defaults EXCEPT !.settings.normalize_gamepad_inputs = IF image.version < 18 THEN 0 ELSE @]
      v == image.version
  IN  CASE v \in {3, 4}    -> load_config_v3_v4(before, image)
        [] v = 5          -> load_config_v5(before, image)
        [] v = 6          -> load_config_v6(before, image)
        [] v \in {7, 8}    -> load_config_v7_v8(before, image)
        [] v = 9          -> load_config_v9(before, image)
        [] v = 10         -> load_config_v10(before, image)
        [] v = 11         -> load_config_v11(before, image)
        [] v = 12         -> load_config_v12(before, image)
        [] v \in 13 .. 17  -> load_config_v13(before, image)
        [] OTHER          -> load_config_v18(before, image)

\* Flash without a checksum, or of a version this firmware does not know, is not read.
Restored(sector) ==
  IF sector = Blank THEN Defaults
  ELSE IF sector.version \notin 3 .. CONFIG_VERSION THEN Defaults
  ELSE load_config(sector)

\* What load_config reads after the mappings, with lengths that are not the ones that were meant.
Misread(sector) ==
  LET read == LoadMappings11(LoadSettings(Defaults, sector, Fields), sector)
  IN  {[settings |-> read.settings, mappings |-> read.mappings, macros |-> r.macros,
        expressions |-> r.expressions, quirks |-> r.quirks] : r \in Readings}

Loaded(sector) ==
  IF sector = Blank THEN {Defaults}
  ELSE IF sector.lengths_fit THEN {Restored(sector)} ELSE Misread(sector)

MacroBody(entries) ==
  FlattenSeq([j \in DOMAIN entries |-> <<Len(entries[j]) % LENGTHS>> \o entries[j]])
Body(c) ==
  FlattenSeq([i \in 1 .. NMACROS |-> <<Len(c.macros[i - 1]) % LENGTHS>> \o MacroBody(c.macros[i - 1])])
  \o FlattenSeq([i \in 1 .. NEXPRESSIONS |-> <<Len(c.expressions[i - 1])>> \o c.expressions[i - 1]])

LengthsFit(c) ==
  \A i \in Macros : /\ Len(c.macros[i]) < LENGTHS
                    /\ \A j \in DOMAIN c.macros[i] : Len(c.macros[i][j]) < LENGTHS

\* The sector, and whether its lengths are the ones that were meant.
Image(c) ==
  [version |-> CONFIG_VERSION, settings |-> c.settings, mappings |-> c.mappings,
   body |-> Body(c), quirks |-> c.quirks, lengths_fit |-> LengthsFit(c)]

\* persist_config_t, mapping_config11_t, macro_item_t, quirk_t and the checksum, in bytes.
MacroBytes(entries) == 1 + FoldLeft(LAMBDA n, e : n + 1 + 4 * Len(e), 0, entries)
PersistedSize(c) ==
  19 + 15 * Len(c.mappings)
     + FoldLeft(LAMBDA n, m : n + MacroBytes(m), 0, [i \in 1 .. NMACROS |-> c.macros[i - 1]])
     + FoldLeft(LAMBDA n, e : n + 2 + ElemBytes(e), 0, [i \in 1 .. NEXPRESSIONS |-> c.expressions[i - 1]])
     + 13 * Len(c.quirks) + 4

-----------------------------------------------------------------------------
(* What the PC asks for.                                                   *)

\* The loop of GET_MACRO over the entries, each with a 0 behind it: at most a packet from
\* the index on.  The loop is exhausted when no entry was left; then the last 0 goes.
Separated(entries) == FlattenSeq([j \in DOMAIN entries |-> Append(entries[j], 0)])
MacroAnswer(entries, index) ==
  LET all == Separated(entries)
      full == index + MACRO_ITEMS_IN_PACKET <= Len(all)
      packet == SubSeq(all, index + 1, IF full THEN index + MACRO_ITEMS_IN_PACKET ELSE Len(all))
      lastEntry == Len(all) - Len(Separated(SubSeq(entries, Len(entries), Len(entries))))
      exhausted == entries = <<>> \/ lastEntry < index + MACRO_ITEMS_IN_PACKET
  IN  IF exhausted /\ packet # <<>> /\ Last(packet) = 0 THEN Front(packet) ELSE packet

\* The loop of GET_EXPRESSION: elements from the index on, as long as they fit.
ExprAnswer(elems, index) ==
  LET fits == {n \in index .. Len(elems) : ElemBytes(SubSeq(elems, index + 1, n)) <= GET_BYTES}
  IN  IF fits = {} THEN <<>> ELSE SubSeq(elems, index + 1, CHOOSE n \in fits : \A k \in fits : k <= n)

\* APPEND_TO_MACRO: a 0 begins the next entry, and a macro has one to begin with.
Appended(entries, usages) ==
  LET after[n \in 0 .. Len(usages)] ==
        IF n = 0 THEN IF entries = <<>> THEN << <<>> >> ELSE entries
        ELSE IF usages[n] = 0 THEN Append(after[n - 1], <<>>)
        ELSE [after[n - 1] EXCEPT ![Len(after[n - 1])] = Append(@, usages[n])]
  IN  after[Len(usages)]

\* After a frame: a request of the PC, and only one.
Request(command) ==
  /\ pc = "frame"
  /\ pc' = "apply"
  /\ last_config_command' = command

\* A change of the configuration, by a client that has suspended the mapping.
Edit(command, c) ==
  /\ Request(command)
  /\ editing /\ edits < MaxEdits
  /\ config' = c
  /\ edits' = edits + 1
  /\ uncompiled' = (uncompiled \/ c.mappings # config.mappings \/ c.expressions # config.expressions)
  /\ download' = None
  /\ UNCHANGED <<flash, requested_index, requested_secondary_index, loop, saving, stored, editing>>

SET_CONFIG(s) ==
  Edit("SET_CONFIG", [config EXCEPT !.settings =
                        [s EXCEPT !.our_descriptor_number = Clamped(@)]])
CLEAR_MAPPING == Edit("CLEAR_MAPPING", [config EXCEPT !.mappings = <<>>])
ADD_MAPPING(m) == Edit("ADD_MAPPING", [config EXCEPT !.mappings = Append(@, m)])
CLEAR_QUIRKS == Edit("CLEAR_QUIRKS", [config EXCEPT !.quirks = <<>>])
ADD_QUIRK(q) == Edit("ADD_QUIRK", [config EXCEPT !.quirks = Append(@, q)])
CLEAR_MACROS == Edit("CLEAR_MACROS", [config EXCEPT !.macros = [i \in Macros |-> <<>>]])
APPEND_TO_MACRO(i, usages) ==
  Edit("APPEND_TO_MACRO", [config EXCEPT !.macros[i] = Appended(@, usages)])
CLEAR_EXPRESSIONS == Edit("CLEAR_EXPRESSIONS", [config EXCEPT !.expressions = [i \in Expressions |-> <<>>]])
APPEND_TO_EXPRESSION(i, elems) ==
  /\ ElemBytes(elems) <= APPEND_BYTES
  /\ Edit("APPEND_TO_EXPRESSION", [config EXCEPT !.expressions[i] = @ \o elems])

\* GET_MACRO, GET_EXPRESSION: the client goes on where its last answer ended.
Continues(kind, i) ==
  download # None /\ download.kind = kind /\ download.index = i /\ ~download.done
GET_PART(command, kind, i) ==
  /\ Request(command)
  /\ download' = IF Continues(kind, i) THEN download
                 ELSE [kind |-> kind, index |-> i, items |-> <<>>, done |-> FALSE]
  /\ requested_index' = i
  /\ requested_secondary_index' = Len(download'.items)
  /\ UNCHANGED <<config, flash, loop, saving, stored, uncompiled, editing, edits>>

\* GET_CONFIG, GET_MAPPING, GET_QUIRK and the usage lists.
GET_INDEXED(i) ==
  /\ Request("GET_MAPPING")
  /\ requested_index' = i
  /\ UNCHANGED <<config, flash, requested_secondary_index, loop, saving, stored, history>>

\* What changes no configuration; a request of another version is INVALID_COMMAND.
OTHER_COMMAND(command) ==
  /\ Request(command)
  /\ UNCHANGED <<config, flash, requested_index, requested_secondary_index, loop, saving, stored, history>>

SUSPEND ==
  /\ Request("SUSPEND")
  /\ suspended' = TRUE
  /\ editing' = TRUE
  /\ UNCHANGED <<config, flash, requested_index, requested_secondary_index, resume_pending,
                 config_updated, saving, stored, uncompiled, download, edits>>

\* Mutated: the mappings are left to the next change of devices.
ResumeOnly ==
  /\ Request("RESUME")
  /\ resume_pending' = TRUE
  /\ editing' = FALSE
  /\ UNCHANGED <<config, flash, requested_index, requested_secondary_index, suspended,
                 config_updated, saving, stored, uncompiled, download, edits>>

RESUME ==
  /\ Request("RESUME")
  /\ resume_pending' = TRUE
  /\ config_updated' = TRUE
  /\ editing' = FALSE
  /\ UNCHANGED <<config, flash, requested_index, requested_secondary_index, suspended,
                 saving, stored, uncompiled, download, edits>>

\* Mutated: the answer to the last save is left.
PersistAgain ==
  /\ Request("PERSIST_CONFIG")
  /\ need_to_persist_config' = TRUE
  /\ UNCHANGED <<config, flash, requested_index, requested_secondary_index, loop,
                 persist_config_return_code, stored, history>>

PERSIST_CONFIG ==
  /\ Request("PERSIST_CONFIG")
  /\ need_to_persist_config' = TRUE
  /\ persist_config_return_code' = "UNKNOWN"
  /\ UNCHANGED <<config, flash, requested_index, requested_secondary_index, loop, stored, history>>

\* handle_get_report1: what was asked for last, once; there is none, and no answer, for most
\* commands, and none to PERSIST_CONFIG before the save.
Answerable ==
  \/ last_config_command \in {"INVALID_COMMAND", "GET_MAPPING", "GET_MACRO", "GET_EXPRESSION"}
  \/ last_config_command = "PERSIST_CONFIG" /\ persist_config_return_code # "UNKNOWN"

Answer ==
  IF last_config_command = "GET_MACRO" THEN MacroAnswer(config.macros[requested_index], requested_secondary_index)
  ELSE ExprAnswer(config.expressions[requested_index], requested_secondary_index)

\* A client has all of a macro after an answer that is not full, of an expression after an empty one.
Complete(answer) ==
  IF last_config_command = "GET_MACRO" THEN Len(answer) < MACRO_ITEMS_IN_PACKET ELSE answer = <<>>

handle_get_report1 ==
  /\ pc = "frame"
  /\ Answerable
  /\ pc' = "apply"
  /\ last_config_command' = "NO_COMMAND"
  /\ download' = IF last_config_command \in {"GET_MACRO", "GET_EXPRESSION"} /\ download # None
                 THEN [download EXCEPT !.items = @ \o Answer, !.done = Complete(Answer)]
                 ELSE download
  /\ UNCHANGED <<config, flash, requested_index, requested_secondary_index, loop, saving, stored,
                 uncompiled, editing, edits>>

-----------------------------------------------------------------------------
(* The main loop.                                                          *)

\* process_mapping, which changes nothing here (the property FrameIsCompiled is about it),
\* and tud_task without a request.
NoRequest ==
  /\ pc = "frame"
  /\ pc' = "apply"
  /\ UNCHANGED <<config, flash, commands, loop, saving, stored, history>>

\* resume_pending, then config_updated: set_mapping_from_config.
ApplyPending ==
  /\ pc = "apply"
  /\ pc' = IF need_to_persist_config THEN "save" ELSE "frame"
  /\ resume_pending' = FALSE
  /\ suspended' = (suspended /\ ~resume_pending)
  /\ config_updated' = FALSE
  /\ uncompiled' = (uncompiled /\ ~config_updated)
  /\ UNCHANGED <<config, flash, commands, saving, stored, editing, download, edits>>

\* A configuration that does not fit leaves the flash as it is.
RefuseToSave ==
  /\ pc = "save"
  /\ PersistedSize(config) > PERSISTED_CONFIG_SIZE
  /\ pc' = "frame"
  /\ persist_config_return_code' = "CONFIG_TOO_BIG"
  /\ need_to_persist_config' = FALSE
  /\ UNCHANGED <<config, flash, commands, loop, stored, history>>

\* do_persist_config, in two steps.
EraseFlash ==
  /\ pc = "save"
  /\ PersistedSize(config) <= PERSISTED_CONFIG_SIZE
  /\ pc' = "program"
  /\ flash' = Blank
  /\ stored' = config
  /\ UNCHANGED <<config, commands, loop, saving, history>>

ProgramFlash ==
  /\ pc = "program"
  /\ pc' = "frame"
  /\ flash' = Image(config)
  /\ persist_config_return_code' = "SUCCESS"
  /\ need_to_persist_config' = FALSE
  /\ UNCHANGED <<config, commands, loop, stored, history>>

\* Power fails and returns, in any step: load_config, and the first compilation.  A client
\* has lost the device.
Restart ==
  /\ config' \in Loaded(flash)
  /\ last_config_command' = "NO_COMMAND"
  /\ requested_index' = 0 /\ requested_secondary_index' = 0
  /\ suspended' = FALSE /\ resume_pending' = FALSE /\ config_updated' = FALSE
  /\ need_to_persist_config' = FALSE /\ persist_config_return_code' = "UNKNOWN"
  /\ pc' = "frame"
  /\ uncompiled' = FALSE /\ editing' = FALSE
  /\ download' = None
  /\ UNCHANGED <<flash, stored, edits>>

Init ==
  /\ \E image \in Images : flash = image.sector /\ stored = image.means /\ edits = image.edits
  /\ config \in Loaded(flash)
  /\ last_config_command = "NO_COMMAND"
  /\ requested_index = 0 /\ requested_secondary_index = 0
  /\ suspended = FALSE /\ resume_pending = FALSE /\ config_updated = FALSE
  /\ need_to_persist_config = FALSE /\ persist_config_return_code = "UNKNOWN"
  /\ pc = "frame"
  /\ uncompiled = FALSE /\ editing = FALSE
  /\ download = None

EditRequest ==
  \/ \E s \in NewSettings : SET_CONFIG(s)
  \/ CLEAR_MAPPING
  \/ \E m \in NewMappings : ADD_MAPPING(m)
  \/ CLEAR_QUIRKS
  \/ \E q \in NewQuirks : ADD_QUIRK(q)
  \/ CLEAR_MACROS
  \/ \E i \in Macros, usages \in MacroPackets : APPEND_TO_MACRO(i, usages)
  \/ CLEAR_EXPRESSIONS
  \/ \E i \in Expressions, elems \in ExprPackets : APPEND_TO_EXPRESSION(i, elems)

handle_set_report1 ==
  \/ EditRequest
  \/ \E i \in Macros : GET_PART("GET_MACRO", "macro", i)
  \/ \E i \in Expressions : GET_PART("GET_EXPRESSION", "expression", i)
  \/ \E i \in Macros : GET_INDEXED(i)
  \/ \E command \in {"INVALID_COMMAND", "SET_MONITOR_ENABLED"} : OTHER_COMMAND(command)
  \/ SUSPEND
  \/ RESUME
  \/ PERSIST_CONFIG

MainLoop ==
  \/ NoRequest
  \/ ApplyPending
  \/ RefuseToSave
  \/ EraseFlash
  \/ ProgramFlash

Next ==
  \/ handle_set_report1
  \/ handle_get_report1
  \/ MainLoop
  \/ Restart

Spec == Init /\ [][Next]_vars

-----------------------------------------------------------------------------
(* Properties.                                                             *)

Commands == {"NO_COMMAND", "INVALID_COMMAND", "SET_CONFIG", "CLEAR_MAPPING", "ADD_MAPPING",
  "GET_MAPPING", "PERSIST_CONFIG", "SUSPEND", "RESUME", "CLEAR_MACROS", "APPEND_TO_MACRO", "GET_MACRO",
  "CLEAR_EXPRESSIONS", "APPEND_TO_EXPRESSION", "GET_EXPRESSION", "SET_MONITOR_ENABLED",
  "CLEAR_QUIRKS", "ADD_QUIRK"}

TypeOK ==
  /\ config \in Configs
  /\ last_config_command \in Commands
  /\ requested_index \in Nat /\ requested_secondary_index \in Nat
  /\ {suspended, resume_pending, config_updated, need_to_persist_config, uncompiled, editing} \subseteq BOOLEAN
  /\ persist_config_return_code \in {"UNKNOWN", "SUCCESS", "CONFIG_TOO_BIG"}
  /\ pc \in {"frame", "apply", "save", "program"}
  /\ edits \in 0 .. MaxEdits

\* A macro with a 0 between two entries, as the packets of a client have it.
Joined(entries) ==
  FlattenSeq([j \in DOMAIN entries |-> IF j = 1 THEN entries[j] ELSE <<0>> \o entries[j]])

\* A macro or an expression read packet by packet is the one the board has, wherever the
\* packets end, and whatever else is asked for in between.
DownloadIsWhole ==
  download # None /\ download.done =>
    download.items = IF download.kind = "macro" THEN Joined(config.macros[download.index])
                     ELSE config.expressions[download.index]

\* The board starts with what was saved last, of whatever version, and only if power failed
\* within a save without any configuration: never with half of one.  The exception is the
\* code's own: a macro or an entry longer than its byte can say is saved and then misread.
RestoredAtStart ==
  [][Restart => IF flash = Blank THEN config' = Defaults
                ELSE LengthsFit(stored) => config' = stored]_vars

\* No frame is computed from mappings or expressions that were changed after the mapping
\* engine had been compiled (and its expressions validated).
FrameIsCompiled == pc = "frame" /\ ~suspended => ~uncompiled

\* What a client may rely on between its commands: the types, whole downloads, and frames
\* that run on what was compiled.
ConfigInv == TypeOK /\ DownloadIsWhole /\ FrameIsCompiled

\* A client that is told SUCCESS can pull the plug: what was saved is what the board had
\* when it was asked to save, and what it will start with, if no macro and no entry is longer
\* than its byte can say (then it is told SUCCESS all the same).
SuccessIsSaved ==
  /\ last_config_command = "PERSIST_CONFIG" /\ persist_config_return_code = "SUCCESS"
  /\ LengthsFit(config)
  => Loaded(flash) = {config}
=============================================================================
