------------------------------- MODULE PsAuth -------------------------------
(***************************************************************************)
(* A PlayStation console authenticates the controller it sees: board A     *)
(* passes its challenge to a licensed controller at board B and the        *)
(* signature back (ps_auth.cc), by way of B's queue of output and feature  *)
(* reports (out_report.cc), which the reports to other devices share.      *)
(*                                                                         *)
(* A's main loop sends one request at a time and waits for its answer      *)
(* (busy); the two boards talk over a line that keeps the order.  Devices  *)
(* come and go, and the console may give up and begin a new challenge.     *)
(***************************************************************************)
EXTENDS Naturals, Sequences, FiniteSets

CONSTANTS
  Pad, Keyboard,          \* the licensed controller, another device with output reports
  NoDevice, NoTransfer, NoData,
  NONCE_PARTS,            \* 5 of 56 bytes
  SIGNATURE_PARTS,        \* 19 of 56 bytes
  OOR_BUFSIZE,
  MaxChallenges, MaxPlugs, MaxOutputs  \* bounds

ASSUME PsAuthAssumption ==
  /\ Pad # Keyboard /\ NoDevice \notin {Pad, Keyboard}
  /\ {NONCE_PARTS, SIGNATURE_PARTS, OOR_BUFSIZE} \subseteq Nat \ {0}
  /\ {MaxChallenges, MaxPlugs, MaxOutputs} \subseteq Nat

VARIABLES
  \* board A, ps_auth.cc
  auth_dev, state, busy, nonce, nonce_part, signature, signature_part, signature_ready,
  \* the line
  toB, toA,
  \* board B, out_report.cc
  outgoing, ready_to_send, transfer,
  \* the devices: which are plugged in, and what the controller knows of a challenge
  plugged, received, given,
  \* the console: its challenge, what it is at, and the signature it has read
  challenge, doing, got,
  \* history
  overlapped,             \* a challenge began while the relay was at the one before
  lost,                   \* a request was dropped or cut off, or the controller went meanwhile
  plugs, outputs

relay == <<auth_dev, state, busy, nonce, nonce_part, signature, signature_part, signature_ready>>
boardB == <<outgoing, ready_to_send, transfer>>
pad == <<received, given>>
console == <<challenge, doing, got>>
counts == <<plugs, outputs>>
vars == <<relay, toB, toA, boardB, plugged, pad, console, overlapped, lost, counts>>

States == {"IDLE", "SENDING_RESET", "SENDING_NONCE", "WAITING_FOR_SIG", "RECEIVING_SIG"}
Devices == {Pad, Keyboard}

Request(device, type, report, data) ==
  [device |-> device, type |-> type, report |-> report, data |-> data]
\* What the console sends of challenge n, and the controller of its signature.
NoncePart(n, part) == <<n, part>>
NoNonce == [part \in 0 .. NONCE_PARTS - 1 |-> NoData]
NoSignature == [part \in 0 .. SIGNATURE_PARTS - 1 |-> NoData]

-----------------------------------------------------------------------------
(* Board A and the console.                                                *)

\* GET 0xF3: the console begins, or begins again.
BeginChallenge ==
  /\ challenge < MaxChallenges
  /\ challenge' = challenge + 1
  /\ doing' = [what |-> "sending", part |-> 0]
  /\ got' = <<>>
  /\ signature_ready' = FALSE
  /\ overlapped' = (overlapped \/ busy \/ state # "IDLE")
  /\ UNCHANGED <<auth_dev, state, busy, nonce, nonce_part, signature, signature_part,
                 toB, toA, boardB, plugged, pad, lost, counts>>

\* SET 0xF0, a part of the challenge.
ps4_handle_set_report ==
  /\ doing.what = "sending"
  /\ LET part == doing.part
         complete == part = NONCE_PARTS - 1
     IN  /\ nonce' = [nonce EXCEPT ![part] = NoncePart(challenge, part)]
         /\ state' = IF complete THEN "SENDING_RESET" ELSE state
         /\ nonce_part' = IF complete THEN 0 ELSE nonce_part
         /\ doing' = IF complete THEN [what |-> "polling", part |-> 0]
                     ELSE [doing EXCEPT !.part = part + 1]
  /\ UNCHANGED <<auth_dev, busy, signature, signature_part, signature_ready,
                 toB, toA, boardB, plugged, pad, challenge, got, overlapped, lost, counts>>

\* GET 0xF2 when the signature is there; before that it changes nothing.
SignatureIsReady ==
  /\ doing.what = "polling" /\ signature_ready
  /\ doing' = [what |-> "reading", part |-> 0]
  /\ UNCHANGED <<relay, toB, toA, boardB, plugged, pad, challenge, got, overlapped, lost, counts>>

\* GET 0xF1: a part of the signature, and the next one is next.
GetSignaturePart ==
  /\ doing.what = "reading"
  /\ got' = Append(got, signature[signature_part])
  /\ signature_part' = IF signature_part + 1 = SIGNATURE_PARTS THEN 0 ELSE signature_part + 1
  /\ doing' = IF Len(got') = SIGNATURE_PARTS THEN [what |-> "done", part |-> 0] ELSE doing
  /\ UNCHANGED <<auth_dev, state, busy, nonce, nonce_part, signature, signature_ready,
                 toB, toA, boardB, plugged, pad, challenge, overlapped, lost, counts>>

\* What the main loop asks the controller for in a state.
Asks(s) ==
  CASE s = "SENDING_RESET"   -> Request(auth_dev, "GET_FEATURE", "F3", NoData)
    [] s = "SENDING_NONCE"   -> Request(auth_dev, "SET_FEATURE", "F0", nonce[nonce_part])
    [] s = "WAITING_FOR_SIG" -> Request(auth_dev, "GET_FEATURE", "F2", NoData)
    [] s = "RECEIVING_SIG"   -> Request(auth_dev, "GET_FEATURE", "F1", NoData)

\* Mutated: the next request does not wait for the answer to the last one.
AskAgain ==
  /\ auth_dev # NoDevice /\ state # "IDLE" /\ Len(toB) < 2 /\ nonce_part < NONCE_PARTS
  /\ toB' = Append(toB, Asks(state))
  /\ busy' = TRUE
  /\ nonce_part' = IF state = "SENDING_NONCE" THEN nonce_part + 1 ELSE nonce_part
  /\ UNCHANGED <<auth_dev, state, nonce, signature, signature_part, signature_ready,
                 toA, boardB, plugged, pad, console, overlapped, lost, counts>>

ps4_main_loop_task ==
  /\ ~busy /\ auth_dev # NoDevice /\ state # "IDLE"
  /\ toB' = Append(toB, Asks(state))
  /\ busy' = TRUE
  /\ nonce_part' = IF state = "SENDING_NONCE" THEN nonce_part + 1 ELSE nonce_part
  /\ UNCHANGED <<auth_dev, state, nonce, signature, signature_part, signature_ready,
                 toA, boardB, plugged, pad, console, overlapped, lost, counts>>

\* A report for another device: its light, or its rumble.
queue_out_report ==
  /\ outputs < MaxOutputs
  /\ outputs' = outputs + 1
  /\ \E device \in Devices : toB' = Append(toB, Request(device, "OUTPUT", "other", NoData))
  /\ UNCHANGED <<relay, toA, boardB, plugged, pad, console, overlapped, lost, plugs>>

\* Answers and devices, as A's serial_callback takes them from the line.
AReceive ==
  /\ toA # <<>>
  /\ toA' = Tail(toA)
  /\ UNCHANGED <<nonce, toB, boardB, plugged, pad, console, overlapped, lost, counts>>

Event(kind) == toA # <<>> /\ Head(toA).kind = kind

ps4_device_connected ==
  /\ Event("connected") /\ AReceive
  /\ auth_dev' = IF auth_dev = NoDevice /\ Head(toA).device = Pad THEN Pad ELSE auth_dev
  /\ UNCHANGED <<state, busy, nonce_part, signature, signature_part, signature_ready>>

ps4_device_disconnected ==
  /\ Event("disconnected") /\ AReceive
  /\ auth_dev' = IF Head(toA).device = auth_dev THEN NoDevice ELSE auth_dev
  /\ UNCHANGED <<state, busy, nonce_part, signature, signature_part, signature_ready>>

\* The answer of another device, or to one that is not there any more.
OtherAnswer ==
  /\ Event("get") \/ Event("set")
  /\ Head(toA).device # auth_dev \/ Head(toA).report \notin {"F0", "F1", "F2", "F3"}
  /\ AReceive
  /\ UNCHANGED <<auth_dev, state, busy, nonce_part, signature, signature_part, signature_ready>>

ResetAnswered ==
  /\ Event("get") /\ Head(toA).device = auth_dev /\ Head(toA).report = "F3"
  /\ AReceive
  /\ busy' = FALSE
  /\ state' = "SENDING_NONCE"
  /\ UNCHANGED <<auth_dev, nonce_part, signature, signature_part, signature_ready>>

\* Mutated: the part of the signature that comes next is where the last challenge left it.
SigningAnsweredOnly ==
  /\ Event("get") /\ Head(toA).device = auth_dev /\ Head(toA).report = "F2"
  /\ AReceive
  /\ busy' = FALSE
  /\ state' = IF Head(toA).data = "ready" THEN "RECEIVING_SIG" ELSE state
  /\ UNCHANGED <<auth_dev, nonce_part, signature, signature_part, signature_ready>>

SigningAnswered ==
  /\ Event("get") /\ Head(toA).device = auth_dev /\ Head(toA).report = "F2"
  /\ AReceive
  /\ busy' = FALSE
  /\ IF Head(toA).data = "ready"
     THEN state' = "RECEIVING_SIG" /\ signature_part' = 0
     ELSE UNCHANGED <<state, signature_part>>
  /\ UNCHANGED <<auth_dev, nonce_part, signature, signature_ready>>

SignatureAnswered ==
  /\ Event("get") /\ Head(toA).device = auth_dev /\ Head(toA).report = "F1"
  /\ AReceive
  /\ busy' = FALSE
  /\ signature' = [signature EXCEPT ![signature_part] = Head(toA).data]
  /\ IF signature_part + 1 = SIGNATURE_PARTS
     THEN state' = "IDLE" /\ signature_ready' = TRUE /\ signature_part' = 0
     ELSE signature_part' = signature_part + 1 /\ UNCHANGED <<state, signature_ready>>
  /\ UNCHANGED <<auth_dev, nonce_part>>

\* Mutated: one part early.
CompleteEarly ==
  /\ Event("set") /\ Head(toA).device = auth_dev /\ Head(toA).report = "F0"
  /\ AReceive
  /\ busy' = FALSE
  /\ state' = IF nonce_part + 1 = NONCE_PARTS THEN "WAITING_FOR_SIG" ELSE state
  /\ UNCHANGED <<auth_dev, nonce_part, signature, signature_part, signature_ready>>

ps4_handle_set_report_complete ==
  /\ Event("set") /\ Head(toA).device = auth_dev /\ Head(toA).report = "F0"
  /\ AReceive
  /\ busy' = FALSE
  /\ state' = IF nonce_part = NONCE_PARTS THEN "WAITING_FOR_SIG" ELSE state
  /\ UNCHANGED <<auth_dev, nonce_part, signature, signature_part, signature_ready>>

-----------------------------------------------------------------------------
(* Board B.                                                                *)

\* do_queue_out_report and do_queue_get_report: a report too many is dropped.
QueueReport ==
  /\ toB # <<>>
  /\ toB' = Tail(toB)
  /\ IF Len(outgoing) = OOR_BUFSIZE
     THEN lost' = (lost \/ Head(toB).report # "other") /\ UNCHANGED outgoing
     ELSE outgoing' = Append(outgoing, Head(toB)) /\ UNCHANGED lost
  /\ UNCHANGED <<relay, toA, ready_to_send, transfer, plugged, pad, console, overlapped, counts>>

\* do_send_out_report; to a device that is gone it fails, and is tried again for ever.
do_send_out_report ==
  /\ outgoing # <<>> /\ ready_to_send
  /\ Head(outgoing).device \in plugged
  /\ ready_to_send' = FALSE
  /\ transfer' = Head(outgoing)
  /\ outgoing' = Tail(outgoing)
  /\ UNCHANGED <<relay, toB, toA, plugged, pad, console, overlapped, lost, counts>>

\* What the controller does with a request, and answers.
Signs == Len(received) = NONCE_PARTS
PadHandles(request) ==
  CASE request.report = "F3" -> received' = <<>> /\ given' = 0
    [] request.report = "F0" -> received' = Append(received, request.data) /\ UNCHANGED given
    [] request.report = "F1" -> given' = (given + 1) % SIGNATURE_PARTS /\ UNCHANGED received
    [] OTHER -> UNCHANGED pad

\* A signature is of the parts the controller was given.
Answers(request) ==
  CASE request.report = "F1" -> [of |-> received, part |-> given]
    [] request.report = "F2" -> IF Signs THEN "ready" ELSE "signing"
    [] OTHER -> NoData

\* tuh_hid_set_report_complete_cb and tuh_hid_get_report_complete_cb, with what they send to A.
TransferComplete ==
  /\ transfer # NoTransfer
  /\ IF transfer.device = Pad THEN PadHandles(transfer) ELSE UNCHANGED pad
  /\ toA' = Append(toA, [kind |-> IF transfer.type = "GET_FEATURE" THEN "get" ELSE "set",
                         device |-> transfer.device, report |-> transfer.report,
                         data |-> Answers(transfer)])
  /\ ready_to_send' = TRUE
  /\ transfer' = NoTransfer
  /\ UNCHANGED <<relay, toB, outgoing, plugged, console, overlapped, lost, counts>>

Plug(device) ==
  /\ device \notin plugged
  /\ plugged' = plugged \cup {device}
  /\ toA' = Append(toA, [kind |-> "connected", device |-> device, report |-> "none", data |-> NoData])
  /\ UNCHANGED <<relay, toB, boardB, pad, console, overlapped, lost, counts>>

\* The transfer that is under way is given up by the host stack without a callback.
Unplug(device) ==
  /\ device \in plugged /\ plugs < MaxPlugs
  /\ plugs' = plugs + 1
  /\ plugged' = plugged \ {device}
  /\ toA' = Append(toA, [kind |-> "disconnected", device |-> device, report |-> "none", data |-> NoData])
  /\ LET cut == transfer # NoTransfer /\ transfer.device = device
     IN  /\ transfer' = IF cut THEN NoTransfer ELSE transfer
         /\ lost' = (lost \/ cut \/ (device = Pad /\ (busy \/ state # "IDLE")))
  /\ IF device = Pad THEN received' = <<>> /\ given' = 0 ELSE UNCHANGED pad
  /\ UNCHANGED <<relay, toB, outgoing, ready_to_send, console, overlapped, outputs>>

-----------------------------------------------------------------------------

Init ==
  /\ auth_dev = NoDevice /\ state = "IDLE" /\ busy = FALSE
  /\ nonce = NoNonce /\ nonce_part = 0
  /\ signature = NoSignature /\ signature_part = 0 /\ signature_ready = FALSE
  /\ toB = <<>> /\ toA = <<>>
  /\ outgoing = <<>> /\ ready_to_send = TRUE /\ transfer = NoTransfer
  /\ plugged = {} /\ received = <<>> /\ given = 0
  /\ challenge = 0 /\ doing = [what |-> "done", part |-> 0] /\ got = <<>>
  /\ overlapped = FALSE /\ lost = FALSE
  /\ plugs = 0 /\ outputs = 0

Console == BeginChallenge \/ ps4_handle_set_report \/ SignatureIsReady \/ GetSignaturePart
ReceiveAtA ==
  \/ ps4_device_connected
  \/ ps4_device_disconnected
  \/ OtherAnswer
  \/ ResetAnswered
  \/ SigningAnswered
  \/ SignatureAnswered
  \/ ps4_handle_set_report_complete

Next ==
  \/ Console
  \/ ps4_main_loop_task
  \/ queue_out_report
  \/ ReceiveAtA
  \/ QueueReport
  \/ do_send_out_report
  \/ TransferComplete
  \/ \E device \in Devices : Plug(device) \/ Unplug(device)

Spec == Init /\ [][Next]_vars

\* The two main loops run, the line delivers, a controller answers; the console sends the
\* rest of a challenge it began.  Nothing else is sure to happen.
Fairness ==
  /\ WF_vars(ps4_handle_set_report)
  /\ WF_vars(ps4_main_loop_task)
  /\ WF_vars(ReceiveAtA)
  /\ WF_vars(QueueReport)
  /\ WF_vars(do_send_out_report)
  /\ WF_vars(TransferComplete)

FairSpec == Spec /\ Fairness

-----------------------------------------------------------------------------
(* Properties.                                                             *)

TypeOK ==
  /\ auth_dev \in {Pad, NoDevice}
  /\ state \in States
  /\ nonce_part \in 0 .. NONCE_PARTS
  /\ signature_part \in 0 .. SIGNATURE_PARTS - 1
  /\ {busy, signature_ready, ready_to_send, overlapped, lost} \subseteq BOOLEAN
  /\ Len(outgoing) <= OOR_BUFSIZE
  /\ plugged \subseteq Devices

\* The requests and answers of the relay on their way.
UnderWay(s) == {i \in DOMAIN s : s[i].device = Pad /\ s[i].report \in {"F0", "F1", "F2", "F3"}}
Outstanding ==
  Cardinality(UnderWay(toB)) + Cardinality(UnderWay(outgoing)) + Cardinality(UnderWay(toA))
  + (IF transfer # NoTransfer /\ transfer.report # "other" THEN 1 ELSE 0)

\* The relay has at most one request with the controller, and none when it is not busy,
\* whatever was given up, unplugged and plugged in meanwhile: an answer is to the question
\* that is open.
OneRequest == Outstanding <= (IF busy THEN 1 ELSE 0)

\* The relay between the two boards: the types, and one request at a time.
PsAuthInv == TypeOK /\ OneRequest

\* A console that waited for the end of a challenge before the next one, with a controller
\* that stays, gets the signature of what it sent, all of it, in order.
SignatureOfChallenge ==
  doing.what = "done" /\ challenge > 0 /\ ~overlapped /\ ~lost =>
    got = [i \in 1 .. SIGNATURE_PARTS |->
             [of |-> [j \in 1 .. NONCE_PARTS |-> NoncePart(challenge, j - 1)], part |-> i - 1]]

\* As long as no request was dropped from the full queue or cut off by an unplugged device,
\* and the controller is there, a challenge is answered, given up or not.
ChallengeIsAnswered ==
  []~lost /\ <>[](plugged = Devices) => (doing.what = "polling" ~> (signature_ready \/ doing.what = "sending"))
=============================================================================
