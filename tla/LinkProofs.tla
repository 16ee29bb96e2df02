------------------------------ MODULE LinkProofs ------------------------------
(***************************************************************************)
(* Proofs about what the boards exchange beside the input reports.         *)
(*                                                                         *)
(* PsAuth: the relay has one request with the controller at a time, and a  *)
(* console that lets a challenge end gets its signature; for any number of *)
(* parts and any size of B's queue.                                        *)
(*                                                                         *)
(* Diagnostics: B's lane of counters and A's contexts hold an interface    *)
(* once, and the PC is shown A's queue in order and after the round; for   *)
(* any number of interfaces, fragments, ports and places.                  *)
(***************************************************************************)
EXTENDS PsAuth, Diagnostics, SequenceTheorems, FiniteSetTheorems, WellFoundedInduction, TLAPS

-----------------------------------------------------------------------------
(* PsAuth: the data.                                                       *)

\* What the requests and answers carry.
NonceData == {NoData} \cup (Nat \X Nat)
AnswerData == {NoData, "ready", "signing"} \cup [of : Seq(NonceData), part : Nat]
Relayed == {"F0", "F1", "F2", "F3"}
Requests ==
  {r \in [device : Devices, type : {"GET_FEATURE", "SET_FEATURE", "OUTPUT"},
          report : Relayed \cup {"other"}, data : NonceData] :
     r.report \in Relayed => r.device = Pad}
Events ==
  [kind : {"get", "set", "connected", "disconnected"}, device : Devices,
   report : Relayed \cup {"other", "none"}, data : AnswerData]

DataTypes ==
  /\ nonce \in [0 .. NONCE_PARTS - 1 -> NonceData]
  /\ signature \in [0 .. SIGNATURE_PARTS - 1 -> AnswerData]
  /\ toB \in Seq(Requests) /\ outgoing \in Seq(Requests) /\ toA \in Seq(Events)
  /\ transfer # NoTransfer => transfer \in Requests
  /\ received \in Seq(NonceData) /\ given \in 0 .. SIGNATURE_PARTS - 1
  /\ challenge \in Nat /\ got \in Seq(AnswerData)
  /\ doing \in [what : {"sending", "polling", "reading", "done"}, part : 0 .. NONCE_PARTS - 1]

-----------------------------------------------------------------------------
(* The open request, wherever it is.                                       *)

Mine(r) == r.device = Pad /\ r.report \in Relayed
Open(s) == {s[i] : i \in UnderWay(s)}
Single(s) == \A i, j \in UnderWay(s) : i = j
OpenTransfer == IF transfer # NoTransfer /\ transfer.report # "other" THEN {transfer} ELSE {}
\* Before the controller has handled it, and after.
Asked == Open(toB) \cup Open(outgoing) \cup OpenTransfer
Answered == Open(toA)

One(S) == IF S = {} THEN 0 ELSE 1
OneOpen ==
  /\ Single(toB) /\ Single(outgoing) /\ Single(toA)
  /\ One(Open(toB)) + One(Open(outgoing)) + One(OpenTransfer) + One(Answered) <= IF busy THEN 1 ELSE 0

\* The parts are sent after a reset that the controller has answered, and all answered in turn.
PartsInv ==
  /\ state = "SENDING_RESET" => nonce_part = 0
  /\ \A r \in Asked \cup Answered : r.report = "F3" => state = "SENDING_RESET"
  /\ state = "SENDING_NONCE" => /\ \A r \in Asked \cup Answered : r.report = "F0"
                                /\ ~busy => nonce_part < NONCE_PARTS

RelayTypes == TypeOK /\ DataTypes /\ OneOpen /\ PartsInv

-----------------------------------------------------------------------------
(* The challenge on its way.                                               *)

Clean == ~overlapped /\ ~lost
Quiet == state = "IDLE" /\ ~busy

\* The first n parts of the challenge, and what the controller makes of it.
Parts(n) == [j \in 1 .. n |-> NoncePart(challenge, j - 1)]
Signed(part) == [of |-> Parts(NONCE_PARTS), part |-> part]
AllSigned == \A j \in 0 .. SIGNATURE_PARTS - 1 : signature[j] = Signed(j)

\* The relay is at a challenge only while the console waits for its signature.
ConsoleInv ==
  /\ doing.what # "polling" => Quiet
  /\ doing.what = "sending" =>
       /\ got = <<>> /\ ~signature_ready
       /\ \A j \in 0 .. doing.part - 1 : nonce[j] = NoncePart(challenge, j)
  /\ doing.what = "polling" =>
       /\ got = <<>>
       /\ \A j \in 0 .. NONCE_PARTS - 1 : nonce[j] = NoncePart(challenge, j)
       /\ signature_ready => Quiet /\ signature_part = 0 /\ AllSigned
  /\ doing.what = "reading" =>
       /\ AllSigned /\ signature_part = Len(got) /\ Len(got) < SIGNATURE_PARTS
       /\ \A i \in 1 .. Len(got) : got[i] = Signed(i - 1)
  /\ doing.what = "done" /\ challenge > 0 =>
       Len(got) = SIGNATURE_PARTS /\ \A i \in 1 .. SIGNATURE_PARTS : got[i] = Signed(i - 1)

\* What the controller knows when it gets a request, ...
AskedFits(r) ==
  /\ r.report = "F0" => /\ state = "SENDING_NONCE" /\ nonce_part > 0 /\ given = 0
                        /\ r.data = NoncePart(challenge, nonce_part - 1)
                        /\ received = Parts(nonce_part - 1)
  /\ r.report = "F2" => state = "WAITING_FOR_SIG" /\ received = Parts(NONCE_PARTS) /\ given = 0
  /\ r.report = "F1" => state = "RECEIVING_SIG" /\ received = Parts(NONCE_PARTS) /\ given = signature_part
\* ... when it has answered, ...
AnswerFits(a) ==
  /\ a.report = "F3" => received = Parts(0) /\ given = 0
  /\ a.report = "F0" => state = "SENDING_NONCE" /\ received = Parts(nonce_part) /\ given = 0
  /\ a.report = "F2" => state = "WAITING_FOR_SIG" /\ received = Parts(NONCE_PARTS) /\ given = 0
  /\ a.report = "F1" => /\ state = "RECEIVING_SIG" /\ received = Parts(NONCE_PARTS)
                        /\ given = (signature_part + 1) % SIGNATURE_PARTS
                        /\ a.data = Signed(signature_part)
\* ... and when A has taken the answer.
NothingOpenFits ==
  /\ state = "SENDING_NONCE" => received = Parts(nonce_part) /\ given = 0
  /\ state = "WAITING_FOR_SIG" => received = Parts(NONCE_PARTS) /\ given = 0
  /\ state = "RECEIVING_SIG" => received = Parts(NONCE_PARTS) /\ given = signature_part

RelayInv ==
  /\ \A r \in Asked : AskedFits(r)
  /\ \A a \in Answered : AnswerFits(a)
  /\ ~busy => NothingOpenFits
  /\ state = "RECEIVING_SIG" => \A j \in 0 .. signature_part - 1 : signature[j] = Signed(j)

IInv == RelayTypes /\ (Clean => ConsoleInv /\ RelayInv)

-----------------------------------------------------------------------------
(* Constants, numbers and sequences.                                       *)

\* The numbers of parts and reports, and that the devices differ.
LEMMA Numbers ==
  /\ NONCE_PARTS \in Nat \ {0} /\ SIGNATURE_PARTS \in Nat \ {0} /\ OOR_BUFSIZE \in Nat \ {0}
  /\ Pad # Keyboard /\ NoDevice \notin Devices
BY PsAuthAssumption DEF Devices

\* A counter of parts goes round.
LEMMA GoesRound ==
  ASSUME NEW n \in Nat \ {0}, NEW p \in 0 .. n - 1
  PROVE  (p + 1) % n = IF p + 1 = n THEN 0 ELSE p + 1
<1>1. CASE p + 1 = n
  BY <1>1
<1>2. CASE p + 1 < n
  BY <1>2
<1> QED
  BY <1>1, <1>2

\* An open request that is put at the end, ...
LEMMA OpenAppend ==
  ASSUME NEW S, NEW s \in Seq(S), NEW r \in S
  PROVE  /\ ~Mine(r) => Open(Append(s, r)) = Open(s) /\ (Single(s) => Single(Append(s, r)))
         /\ Mine(r) => Open(Append(s, r)) = Open(s) \cup {r}
         /\ Mine(r) /\ Open(s) = {} => Single(Append(s, r))
<1> DEFINE t == Append(s, r)
<1>1. /\ t \in Seq(S) /\ Len(t) = Len(s) + 1 /\ Len(s) \in Nat
      /\ \A i \in 1 .. Len(s) : t[i] = s[i]
      /\ t[Len(s) + 1] = r
      /\ DOMAIN s = 1 .. Len(s) /\ DOMAIN t = 1 .. Len(s) + 1
  BY AppendProperties, LenProperties
<1> HIDE DEF t
<1>2. UnderWay(t) = UnderWay(s) \cup (IF Mine(r) THEN {Len(s) + 1} ELSE {})
  <2>1. \A i : i \in UnderWay(s) <=> i \in 1 .. Len(s) /\ Mine(s[i])
    BY <1>1 DEF UnderWay, Mine, Relayed
  <2>2. \A i : i \in UnderWay(t) <=> i \in 1 .. Len(s) + 1 /\ Mine(t[i])
    BY <1>1 DEF UnderWay, Mine, Relayed
  <2> QED
    BY <1>1, <2>1, <2>2
<1>3. UnderWay(s) \subseteq 1 .. Len(s)
  BY <1>1 DEF UnderWay
<1>4. Open(t) = Open(s) \cup (IF Mine(r) THEN {r} ELSE {})
  BY <1>1, <1>2, <1>3 DEF Open
<1>5. ASSUME Single(s), Mine(r) => Open(s) = {}
      PROVE  Single(t)
  <2>1. CASE Mine(r)
    <3>1. UnderWay(s) = {}
      BY <1>5, <2>1 DEF Open
    <3> QED
      BY <1>2, <3>1 DEF Single
  <2>2. CASE ~Mine(r)
    BY <1>2, <1>5, <2>2 DEF Single
  <2> QED
    BY <2>1, <2>2
<1>6. Open(s) = {} => Single(s)
  BY DEF Open, Single
<1> QED
  BY <1>4, <1>5, <1>6 DEF t

\* ... and one that is taken from the front.
LEMMA OpenTail ==
  ASSUME NEW S, NEW s \in Seq(S), s # <<>>, Single(s)
  PROVE  /\ Open(Tail(s)) \subseteq Open(s) /\ Single(Tail(s))
         /\ Mine(Head(s)) => Open(Tail(s)) = {} /\ Open(s) = {Head(s)}
         /\ ~Mine(Head(s)) => Open(Tail(s)) = Open(s)
<1> DEFINE t == Tail(s)
<1>1. /\ t \in Seq(S) /\ Len(t) = Len(s) - 1 /\ Len(s) \in Nat \ {0}
      /\ \A i \in 1 .. Len(t) : t[i] = s[i + 1]
      /\ DOMAIN s = 1 .. Len(s) /\ DOMAIN t = 1 .. Len(s) - 1
  BY HeadTailProperties, LenProperties, EmptySeq
<1>2. Head(s) = s[1]
  OBVIOUS
<1> HIDE DEF t
<1>3. \A i : i \in UnderWay(s) <=> i \in 1 .. Len(s) /\ Mine(s[i])
  BY <1>1 DEF UnderWay, Mine, Relayed
<1>4. \A i : i \in UnderWay(t) <=> i \in 1 .. Len(s) - 1 /\ Mine(s[i + 1])
  BY <1>1 DEF UnderWay, Mine, Relayed
<1>5. \A i \in UnderWay(t) : i + 1 \in UnderWay(s) /\ t[i] = s[i + 1]
  BY <1>1, <1>3, <1>4
<1>6. Open(t) \subseteq Open(s)
  BY <1>5 DEF Open
<1>7. Single(t)
  <2> SUFFICES ASSUME NEW i \in UnderWay(t), NEW j \in UnderWay(t) PROVE i = j
    BY DEF Single
  <2>1. i + 1 = j + 1 /\ i \in Int /\ j \in Int
    BY <1>4, <1>5 DEF Single
  <2> QED
    BY <2>1
<1>8. ASSUME Mine(Head(s))
      PROVE  Open(t) = {} /\ Open(s) = {Head(s)}
  <2>1. 1 \in UnderWay(s)
    BY <1>1, <1>2, <1>3, <1>8
  <2>2. UnderWay(s) = {1}
    BY <2>1 DEF Single
  <2>3. UnderWay(t) = {}
    <3> SUFFICES ASSUME NEW i \in UnderWay(t) PROVE FALSE
      OBVIOUS
    <3>1. i + 1 = 1 /\ i \in 1 .. Len(s) - 1
      BY <1>4, <1>5, <2>2
    <3> QED
      BY <1>1, <3>1
  <2> QED
    BY <1>2, <2>2, <2>3 DEF Open
<1>9. ASSUME ~Mine(Head(s))
      PROVE  Open(s) \subseteq Open(t)
  <2> SUFFICES ASSUME NEW i \in UnderWay(s) PROVE i - 1 \in UnderWay(t) /\ t[i - 1] = s[i]
    BY DEF Open
  <2>1. i \in 1 .. Len(s) /\ Mine(s[i]) /\ i # 1
    BY <1>2, <1>3, <1>9
  <2>2. i - 1 \in 1 .. Len(s) - 1 /\ (i - 1) + 1 = i
    BY <1>1, <2>1
  <2> QED
    BY <1>1, <1>4, <2>1, <2>2
<1> QED
  BY <1>6, <1>7, <1>8, <1>9 DEF t

-----------------------------------------------------------------------------
(* Types.                                                                  *)

\* At the start every variable has its type.
LEMMA InitTypes == Init => TypeOK /\ DataTypes
<1> SUFFICES ASSUME Init PROVE TypeOK /\ DataTypes
  OBVIOUS
<1>1. nonce \in [0 .. NONCE_PARTS - 1 -> NonceData] /\ signature \in [0 .. SIGNATURE_PARTS - 1 -> AnswerData]
  BY DEF Init, NoNonce, NoSignature, NonceData, AnswerData
<1>2. /\ toB \in Seq(Requests) /\ outgoing \in Seq(Requests) /\ toA \in Seq(Events)
      /\ received \in Seq(NonceData) /\ got \in Seq(AnswerData) /\ Len(outgoing) = 0
  BY EmptySeq DEF Init
<1>3. doing \in [what : {"sending", "polling", "reading", "done"}, part : 0 .. NONCE_PARTS - 1]
  BY Numbers DEF Init
<1>4. DataTypes
  BY <1>1, <1>2, <1>3, Numbers DEF Init, DataTypes
<1>5. {busy, signature_ready, ready_to_send, overlapped, lost} \subseteq BOOLEAN
  BY Zenon DEF Init
<1> QED
  BY <1>2, <1>4, <1>5, Numbers DEF Init, TypeOK, States

\* What the main loop asks for is a request to the controller.
LEMMA AsksType ==
  ASSUME TypeOK, DataTypes, auth_dev # NoDevice, state # "IDLE",
         state = "SENDING_NONCE" => nonce_part < NONCE_PARTS
  PROVE  Asks(state) \in Requests /\ Mine(Asks(state))
<1>1. auth_dev = Pad /\ Pad \in Devices /\ NoData \in NonceData
  BY DEF TypeOK, Devices, NonceData
<1>2. CASE state = "SENDING_RESET"
  BY <1>1, <1>2 DEF Asks, Request, Requests, Mine, Relayed
<1>3. CASE state = "SENDING_NONCE"
  <2>1. nonce_part \in 0 .. NONCE_PARTS - 1
    BY <1>3, Numbers DEF TypeOK
  <2>2. nonce[nonce_part] \in NonceData
    BY <2>1 DEF DataTypes
  <2> QED
    BY <1>1, <1>3, <2>2 DEF Asks, Request, Requests, Mine, Relayed
<1>4. CASE state = "WAITING_FOR_SIG"
  BY <1>1, <1>4 DEF Asks, Request, Requests, Mine, Relayed
<1>5. CASE state = "RECEIVING_SIG"
  BY <1>1, <1>5 DEF Asks, Request, Requests, Mine, Relayed
<1> QED
  BY <1>2, <1>3, <1>4, <1>5 DEF TypeOK, States

\* What the controller answers is data of its type.
LEMMA AnswersType ==
  ASSUME DataTypes, NEW request \in Requests
  PROVE  /\ Answers(request) \in AnswerData
         /\ PadHandles(request) => received' \in Seq(NonceData) /\ given' \in 0 .. SIGNATURE_PARTS - 1
<1>1. /\ request.report \in Relayed \cup {"other"} /\ request.data \in NonceData
      /\ received \in Seq(NonceData) /\ given \in 0 .. SIGNATURE_PARTS - 1 /\ given \in Nat
  BY Numbers DEF DataTypes, Requests
<1>2. Answers(request) \in AnswerData
  BY <1>1 DEF Answers, AnswerData
<1>3. ASSUME PadHandles(request)
      PROVE  received' \in Seq(NonceData) /\ given' \in 0 .. SIGNATURE_PARTS - 1
  <2>1. CASE request.report = "F3"
    BY <1>3, <2>1, Numbers, EmptySeq DEF PadHandles
  <2>2. CASE request.report = "F0"
    BY <1>1, <1>3, <2>2, AppendProperties DEF PadHandles
  <2>3. CASE request.report = "F1"
    BY <1>1, <1>3, <2>3, Numbers, GoesRound DEF PadHandles
  <2>4. CASE request.report \notin {"F3", "F0", "F1"}
    BY <1>1, <1>3, <2>4 DEF PadHandles, pad
  <2> QED
    BY <2>1, <2>2, <2>3, <2>4
<1> QED
  BY <1>2, <1>3

\* An event that is taken off the line.
LEMMA ReceiveTypes ==
  ASSUME DataTypes, AReceive
  PROVE  /\ toA' \in Seq(Events) /\ Head(toA) \in Events
         /\ UNCHANGED <<nonce, toB, boardB, plugged, pad, console, overlapped, lost, counts>>
BY HeadTailProperties DEF AReceive, DataTypes

\* The console's steps keep the types, ...
LEMMA ConsoleTypes ==
  ASSUME TypeOK, DataTypes, Console
  PROVE  TypeOK' /\ DataTypes'
<1>1. CASE BeginChallenge
  <2>1. doing' \in [what : {"sending", "polling", "reading", "done"}, part : 0 .. NONCE_PARTS - 1]
        /\ got' \in Seq(AnswerData) /\ challenge' \in Nat
    BY <1>1, Numbers, EmptySeq DEF BeginChallenge, DataTypes
  <2>2. {busy, signature_ready, ready_to_send, overlapped, lost}' \subseteq BOOLEAN
    BY <1>1 DEF BeginChallenge, TypeOK, boardB
  <2> QED
    BY <1>1, <2>1, <2>2 DEF BeginChallenge, TypeOK, DataTypes, boardB, pad
<1>2. CASE ps4_handle_set_report
  <2>1. /\ doing \in [what : {"sending", "polling", "reading", "done"}, part : 0 .. NONCE_PARTS - 1]
        /\ nonce \in [0 .. NONCE_PARTS - 1 -> NonceData] /\ challenge \in Nat
    BY DEF DataTypes
  <2>2. NoncePart(challenge, doing.part) \in NonceData
    BY <2>1 DEF NoncePart, NonceData
  <2>3. nonce' \in [0 .. NONCE_PARTS - 1 -> NonceData]
    BY <1>2, <2>1, <2>2 DEF ps4_handle_set_report
  <2>4. doing' \in [what : {"sending", "polling", "reading", "done"}, part : 0 .. NONCE_PARTS - 1]
    BY <1>2, <2>1, Numbers DEF ps4_handle_set_report
  <2>5. state' \in States /\ nonce_part' \in 0 .. NONCE_PARTS
    BY <1>2, Numbers DEF ps4_handle_set_report, States, TypeOK
  <2> QED
    BY <1>2, <2>3, <2>4, <2>5 DEF ps4_handle_set_report, TypeOK, DataTypes, boardB, pad
<1>3. CASE SignatureIsReady
  <2>1. doing' \in [what : {"sending", "polling", "reading", "done"}, part : 0 .. NONCE_PARTS - 1]
    BY <1>3, Numbers DEF SignatureIsReady
  <2> QED
    BY <1>3, <2>1 DEF SignatureIsReady, TypeOK, DataTypes, relay, boardB, pad
<1>4. CASE GetSignaturePart
  <2>1. signature[signature_part] \in AnswerData
    BY DEF DataTypes, TypeOK
  <2>2. got' \in Seq(AnswerData)
    BY <1>4, <2>1, AppendProperties DEF GetSignaturePart, DataTypes
  <2>3. doing' \in [what : {"sending", "polling", "reading", "done"}, part : 0 .. NONCE_PARTS - 1]
    BY <1>4, Numbers DEF GetSignaturePart, DataTypes
  <2>4. signature_part' \in 0 .. SIGNATURE_PARTS - 1
    BY <1>4, Numbers DEF GetSignaturePart, TypeOK
  <2> QED
    BY <1>4, <2>2, <2>3, <2>4 DEF GetSignaturePart, TypeOK, DataTypes, boardB, pad
<1> QED
  BY <1>1, <1>2, <1>3, <1>4 DEF Console

\* ... A's steps when it takes an event keep them, ...
LEMMA ReceiveAtATypes ==
  ASSUME TypeOK, DataTypes, ReceiveAtA
  PROVE  TypeOK' /\ DataTypes'
<1>1. /\ toA' \in Seq(Events) /\ Head(toA).data \in AnswerData
      /\ UNCHANGED <<nonce, toB, boardB, plugged, pad, console, overlapped, lost, counts>>
  BY ReceiveTypes DEF ReceiveAtA, ps4_device_connected, ps4_device_disconnected, OtherAnswer, ResetAnswered,
     SigningAnswered, SignatureAnswered, ps4_handle_set_report_complete, Events
<1>2. /\ auth_dev' \in {Pad, NoDevice} /\ state' \in States /\ nonce_part' \in 0 .. NONCE_PARTS
      /\ signature_part' \in 0 .. SIGNATURE_PARTS - 1
      /\ signature' \in [0 .. SIGNATURE_PARTS - 1 -> AnswerData]
  <2>1. CASE ps4_device_connected \/ ps4_device_disconnected \/ OtherAnswer
    BY <2>1 DEF ps4_device_connected, ps4_device_disconnected, OtherAnswer, TypeOK, DataTypes
  <2>2. CASE ResetAnswered
    BY <2>2, Numbers DEF ResetAnswered, TypeOK, DataTypes, States
  <2>3. CASE SigningAnswered
    BY <2>3, Numbers DEF SigningAnswered, TypeOK, DataTypes, States
  <2>4. CASE ps4_handle_set_report_complete
    BY <2>4, Numbers DEF ps4_handle_set_report_complete, TypeOK, DataTypes, States
  <2>5. CASE SignatureAnswered
    BY <1>1, <2>5, Numbers DEF SignatureAnswered, TypeOK, DataTypes, States
  <2> QED
    BY <2>1, <2>2, <2>3, <2>4, <2>5 DEF ReceiveAtA
<1>3. busy' \in BOOLEAN /\ signature_ready' \in BOOLEAN
  BY DEF ReceiveAtA, ps4_device_connected, ps4_device_disconnected, OtherAnswer, ResetAnswered, TypeOK,
     SigningAnswered, SignatureAnswered, ps4_handle_set_report_complete
<1> QED
  BY <1>1, <1>2, <1>3 DEF TypeOK, DataTypes, boardB, pad, console

\* ... and so does every step.
LEMMA TypesStep ==
  ASSUME TypeOK, DataTypes, PartsInv, [Next]_vars
  PROVE  TypeOK' /\ DataTypes'
<1>1. CASE Console
  BY <1>1, ConsoleTypes
<1>2. CASE ReceiveAtA
  BY <1>2, ReceiveAtATypes
<1>3. CASE ps4_main_loop_task
  <2>1. Asks(state) \in Requests
    BY <1>3, AsksType DEF ps4_main_loop_task, PartsInv
  <2>2. toB' \in Seq(Requests) /\ nonce_part' \in 0 .. NONCE_PARTS
    BY <1>3, <2>1, AppendProperties, Numbers DEF ps4_main_loop_task, DataTypes, TypeOK, PartsInv
  <2> QED
    BY <1>3, <2>2 DEF ps4_main_loop_task, TypeOK, DataTypes, boardB, pad, console
<1>4. CASE queue_out_report
  <2>1. PICK device \in Devices : toB' = Append(toB, Request(device, "OUTPUT", "other", NoData))
    BY <1>4 DEF queue_out_report
  <2>2. Request(device, "OUTPUT", "other", NoData) \in Requests
    BY DEF Request, Requests, NonceData, Relayed
  <2>3. toB' \in Seq(Requests)
    BY <2>1, <2>2, AppendProperties DEF DataTypes
  <2> QED
    BY <1>4, <2>3 DEF queue_out_report, TypeOK, DataTypes, relay, boardB, pad, console
<1>5. CASE QueueReport
  <2>1. toB' \in Seq(Requests) /\ Head(toB) \in Requests
    BY <1>5, HeadTailProperties DEF QueueReport, DataTypes
  <2>2. outgoing' \in Seq(Requests) /\ Len(outgoing') <= OOR_BUFSIZE /\ lost' \in BOOLEAN
    <3>1. CASE Len(outgoing) = OOR_BUFSIZE
      BY <1>5, <3>1 DEF QueueReport, DataTypes, TypeOK
    <3>2. CASE Len(outgoing) # OOR_BUFSIZE
      <4>1. outgoing' = Append(outgoing, Head(toB)) /\ lost' = lost /\ outgoing \in Seq(Requests)
        BY <1>5, <3>2 DEF QueueReport, DataTypes
      <4>3. outgoing' \in Seq(Requests) /\ Len(outgoing') = Len(outgoing) + 1
        BY <2>1, <4>1, AppendProperties
      <4>2. Len(outgoing) \in Nat
        BY LenProperties DEF DataTypes
      <4> QED
        BY <3>2, <4>1, <4>2, <4>3, Numbers DEF TypeOK
    <3> QED
      BY <3>1, <3>2
  <2> QED
    BY <1>5, <2>1, <2>2 DEF QueueReport, TypeOK, DataTypes, relay, pad, console
<1>6. CASE do_send_out_report
  <2>1. /\ outgoing' \in Seq(Requests) /\ Head(outgoing) \in Requests
        /\ Len(outgoing') = Len(outgoing) - 1 /\ Len(outgoing) \in Nat
    BY <1>6, HeadTailProperties, LenProperties DEF do_send_out_report, DataTypes
  <2>2. Len(outgoing') <= OOR_BUFSIZE
    BY <2>1, Numbers DEF TypeOK
  <2> QED
    BY <1>6, <2>1, <2>2 DEF do_send_out_report, TypeOK, DataTypes, relay, pad, console
<1>7. CASE TransferComplete
  <2>1. transfer \in Requests
    BY <1>7 DEF TransferComplete, DataTypes
  <2>2. received' \in Seq(NonceData) /\ given' \in 0 .. SIGNATURE_PARTS - 1
    BY <1>7, <2>1, AnswersType DEF TransferComplete, DataTypes, pad
  <2> DEFINE answer == [kind |-> IF transfer.type = "GET_FEATURE" THEN "get" ELSE "set",
                        device |-> transfer.device, report |-> transfer.report,
                        data |-> Answers(transfer)]
  <2>3. answer \in Events
    BY <2>1, AnswersType DEF Events, Requests
  <2>4. toA' \in Seq(Events)
    BY <1>7, <2>3, AppendProperties DEF TransferComplete, DataTypes
  <2> QED
    BY <1>7, <2>2, <2>4 DEF TransferComplete, TypeOK, DataTypes, relay, console
<1>8. CASE \E device \in Devices : Plug(device)
  <2>1. PICK device \in Devices : Plug(device)
    BY <1>8
  <2>2. [kind |-> "connected", device |-> device, report |-> "none", data |-> NoData] \in Events
    BY DEF Events, AnswerData
  <2>3. toA' \in Seq(Events) /\ plugged' \subseteq Devices
    BY <2>1, <2>2, AppendProperties DEF Plug, DataTypes, TypeOK
  <2> QED
    BY <2>1, <2>3 DEF Plug, TypeOK, DataTypes, relay, boardB, pad, console
<1>9. CASE \E device \in Devices : Unplug(device)
  <2>1. PICK device \in Devices : Unplug(device)
    BY <1>9
  <2>2. [kind |-> "disconnected", device |-> device, report |-> "none", data |-> NoData] \in Events
    BY DEF Events, AnswerData
  <2>3. toA' \in Seq(Events) /\ plugged' \subseteq Devices
    BY <2>1, <2>2, AppendProperties DEF Unplug, DataTypes, TypeOK
  <2>4. received' \in Seq(NonceData) /\ given' \in 0 .. SIGNATURE_PARTS - 1
    <3>1. <<>> \in Seq(NonceData) /\ 0 \in 0 .. SIGNATURE_PARTS - 1
      BY Numbers
    <3>2. (received' = <<>> /\ given' = 0) \/ UNCHANGED pad
      BY <2>1 DEF Unplug
    <3> QED
      BY <3>1, <3>2 DEF DataTypes, pad
  <2>5. lost' \in BOOLEAN /\ (transfer' # NoTransfer => transfer' \in Requests)
    BY <2>1 DEF Unplug, DataTypes, TypeOK
  <2> QED
    BY <2>1, <2>3, <2>4, <2>5 DEF Unplug, TypeOK, DataTypes, relay, console
<1>10. CASE UNCHANGED vars
  BY <1>10 DEF vars, TypeOK, DataTypes, relay, boardB, pad, console
<1> QED
  BY <1>1, <1>2, <1>3, <1>4, <1>5, <1>6, <1>7, <1>8, <1>9, <1>10 DEF Next

-----------------------------------------------------------------------------
(* Where the open request goes.                                            *)

Kept == Asked' \subseteq Asked /\ Answered' \subseteq Answered /\ busy' = busy

\* Steps of the console and of devices move no request; at most they cut one off.
LEMMA ElsewhereKeeps ==
  ASSUME DataTypes, OneOpen, UNCHANGED <<toB, outgoing, busy>>,
         transfer' = transfer \/ transfer' = NoTransfer,
         \/ UNCHANGED toA
         \/ \E event \in Events : toA' = Append(toA, event) /\ ~Mine(event)
  PROVE  Kept /\ OneOpen'
<1>1. Open(toA') = Open(toA) /\ Single(toA')
  <2>1. CASE UNCHANGED toA
    BY <2>1 DEF OneOpen
  <2>2. CASE \E event \in Events : toA' = Append(toA, event) /\ ~Mine(event)
    <3>1. PICK event \in Events : toA' = Append(toA, event) /\ ~Mine(event)
      BY <2>2
    <3> QED
      BY <3>1, OpenAppend DEF OneOpen, DataTypes
  <2> QED
    BY <2>1, <2>2
<1>2. Open(toB)' = Open(toB) /\ Open(outgoing)' = Open(outgoing) /\ Single(toB)' /\ Single(outgoing)'
  BY DEF OneOpen
<1>3. OpenTransfer' \subseteq OpenTransfer /\ One(OpenTransfer') <= One(OpenTransfer)
  BY DEF OpenTransfer, One
<1>4. One(Open(toB)) \in Nat /\ One(Open(outgoing)) \in Nat /\ One(Open(toA)) \in Nat
      /\ One(OpenTransfer) \in Nat /\ One(OpenTransfer') \in Nat
  BY DEF One
<1>5. Kept
  BY <1>1, <1>2, <1>3 DEF Kept, Asked, Answered
<1>6. /\ One(Open(toB)') = One(Open(toB)) /\ One(Open(outgoing)') = One(Open(outgoing))
      /\ One(Answered') = One(Open(toA)) /\ One(Answered) = One(Open(toA))
  BY <1>1, <1>2 DEF Answered
<1> QED
  BY <1>1, <1>2, <1>3, <1>4, <1>5, <1>6 DEF OneOpen

\* One counts a set of at most one member.
LEMMA Ones == \A S : One(S) \in {0, 1} /\ (One(S) = 0 <=> S = {}) /\ (One(S) = 1 <=> S # {})
BY DEF One

\* The steps of the console and of the devices, one by one.
LEMMA KeptElsewhere ==
  ASSUME TypeOK, DataTypes, OneOpen,
         Console \/ UNCHANGED vars \/ (\E device \in Devices : Plug(device) \/ Unplug(device))
  PROVE  Kept /\ OneOpen'
<1>1. CASE Console \/ UNCHANGED vars
  BY <1>1, ElsewhereKeeps
     DEF Console, BeginChallenge, ps4_handle_set_report, SignatureIsReady, GetSignaturePart, vars, relay, boardB
<1>2. CASE \E device \in Devices : Plug(device) \/ Unplug(device)
  <2>1. PICK device \in Devices : Plug(device) \/ Unplug(device)
    BY <1>2
  <2> DEFINE event(kind) == [kind |-> kind, device |-> device, report |-> "none", data |-> NoData]
  <2>2. \A kind \in {"connected", "disconnected"} : event(kind) \in Events /\ ~Mine(event(kind))
    BY DEF Events, Mine, AnswerData, Relayed
  <2>3. \E kind \in {"connected", "disconnected"} : toA' = Append(toA, event(kind))
    BY <2>1 DEF Plug, Unplug
  <2>4. UNCHANGED <<toB, outgoing, busy>> /\ (transfer' = transfer \/ transfer' = NoTransfer)
    BY <2>1 DEF Plug, Unplug, relay, boardB
  <2> HIDE DEF event
  <2> QED
    BY <2>2, <2>3, <2>4, ElsewhereKeeps
<1> QED
  BY <1>1, <1>2

\* A report of another device joins the line; B queues a request, drops it, or starts it.
LEMMA KeptAtB ==
  ASSUME TypeOK, DataTypes, OneOpen, queue_out_report \/ QueueReport \/ do_send_out_report
  PROVE  Kept /\ OneOpen'
<1>1. /\ toB \in Seq(Requests) /\ outgoing \in Seq(Requests)
      /\ Single(toB) /\ Single(outgoing) /\ Single(toA)
  BY DEF DataTypes, OneOpen
<1>2. One(Open(toB)) + One(Open(outgoing)) + One(OpenTransfer) + One(Answered) <= IF busy THEN 1 ELSE 0
  BY DEF OneOpen
<1>3. CASE queue_out_report
  <2>1. PICK device \in Devices : toB' = Append(toB, Request(device, "OUTPUT", "other", NoData))
    BY <1>3 DEF queue_out_report
  <2>2. Request(device, "OUTPUT", "other", NoData) \in Requests
        /\ ~Mine(Request(device, "OUTPUT", "other", NoData))
    BY DEF Request, Requests, NonceData, Relayed, Mine
  <2>3. Open(toB') = Open(toB) /\ Single(toB')
    BY <1>1, <2>1, <2>2, OpenAppend
  <2>4. UNCHANGED <<toA, outgoing, transfer, busy>>
    BY <1>3 DEF queue_out_report, relay, boardB
  <2> QED
    BY <1>1, <1>2, <2>3, <2>4 DEF Kept, OneOpen, Asked, Answered, OpenTransfer
<1>4. CASE QueueReport
  <2>1. /\ toB # <<>> /\ toB' = Tail(toB) /\ UNCHANGED <<toA, transfer, busy>>
        /\ outgoing' = outgoing \/ outgoing' = Append(outgoing, Head(toB))
    BY <1>4 DEF QueueReport, relay
  <2>2. Head(toB) \in Requests
    BY <1>1, <2>1, HeadTailProperties
  <2>3. /\ Open(toB') \subseteq Open(toB) /\ Single(toB')
        /\ Mine(Head(toB)) => Open(toB') = {} /\ Open(toB) = {Head(toB)}
        /\ ~Mine(Head(toB)) => Open(toB') = Open(toB)
    BY <1>1, <2>1, OpenTail
  <2>4. Mine(Head(toB)) => Open(outgoing) = {} /\ OpenTransfer = {} /\ Answered = {} /\ busy
    <3> SUFFICES ASSUME Mine(Head(toB)) PROVE Open(outgoing) = {} /\ OpenTransfer = {} /\ Answered = {} /\ busy
      OBVIOUS
    <3>1. One(Open(toB)) = 1
      BY <2>3, Ones
    <3> QED
      BY <1>2, <3>1, Ones
  <2>5. /\ Single(outgoing')
        /\ \/ Open(outgoing') = Open(outgoing)
           \/ Mine(Head(toB)) /\ Open(outgoing') = Open(outgoing) \cup {Head(toB)}
    <3>1. CASE outgoing' = outgoing
      BY <1>1, <3>1
    <3>2. CASE outgoing' = Append(outgoing, Head(toB)) /\ Mine(Head(toB))
      BY <1>1, <2>2, <2>4, <3>2, OpenAppend
    <3>3. CASE outgoing' = Append(outgoing, Head(toB)) /\ ~Mine(Head(toB))
      BY <1>1, <2>2, <3>3, OpenAppend
    <3> QED
      BY <2>1, <3>1, <3>2, <3>3
  <2>6. UNCHANGED <<Answered, OpenTransfer, busy>>
    BY <2>1 DEF Answered, OpenTransfer
  <2>7. One(Open(toB')) + One(Open(outgoing')) + One(OpenTransfer) + One(Answered) <= IF busy THEN 1 ELSE 0
    <3>1. CASE Mine(Head(toB))
      BY <2>3, <2>4, <3>1 DEF One
    <3>2. CASE ~Mine(Head(toB))
      <4>1. Open(toB') = Open(toB) /\ Open(outgoing') = Open(outgoing)
        BY <2>3, <2>5, <3>2
      <4> QED
        BY <1>2, <4>1
    <3> QED
      BY <3>1, <3>2
  <2>8. Kept
    BY <2>3, <2>5, <2>6 DEF Kept, Asked
  <2> QED
    BY <1>1, <2>1, <2>3, <2>5, <2>6, <2>7, <2>8 DEF OneOpen
<1>5. CASE do_send_out_report
  <2>1. /\ outgoing # <<>> /\ outgoing' = Tail(outgoing) /\ transfer' = Head(outgoing)
        /\ UNCHANGED <<toA, toB, busy>>
    BY <1>5 DEF do_send_out_report, relay
  <2>2. Head(outgoing) \in Requests
    BY <1>1, <2>1, HeadTailProperties
  <2>3. /\ Open(outgoing') \subseteq Open(outgoing) /\ Single(outgoing')
        /\ Mine(Head(outgoing)) => Open(outgoing') = {} /\ Open(outgoing) = {Head(outgoing)}
        /\ ~Mine(Head(outgoing)) => Open(outgoing') = Open(outgoing)
    BY <1>1, <2>1, OpenTail
  <2>4. OpenTransfer' \subseteq IF Mine(Head(outgoing)) THEN {Head(outgoing)} ELSE {}
    BY <2>1, <2>2 DEF OpenTransfer, Mine, Requests
  <2>5. One(Open(toB)) + One(Open(outgoing')) + One(OpenTransfer') + One(Answered) <= IF busy THEN 1 ELSE 0
    <3>1. CASE Mine(Head(outgoing))
      BY <1>2, <2>3, <3>1 DEF One
    <3>2. CASE ~Mine(Head(outgoing))
      BY <1>2, <2>3, <2>4, <3>2 DEF One
    <3> QED
      BY <3>1, <3>2
  <2>6. Kept
    BY <2>1, <2>3, <2>4 DEF Kept, Asked, Answered
  <2> QED
    BY <1>1, <2>1, <2>3, <2>5, <2>6 DEF OneOpen, Answered
<1> QED
  BY <1>3, <1>4, <1>5

\* An event that is no answer to the relay leaves it as it is, and an answer that comes when
\* the controller has gone is dropped.
LEMMA KeptOnReceive ==
  ASSUME TypeOK, DataTypes, OneOpen, ps4_device_connected \/ ps4_device_disconnected \/ OtherAnswer
  PROVE  Kept /\ OneOpen'
<1>1. toA # <<>> /\ toA' = Tail(toA) /\ UNCHANGED <<toB, outgoing, transfer, busy>>
  BY DEF ps4_device_connected, ps4_device_disconnected, OtherAnswer, AReceive, boardB
<1>2. toA \in Seq(Events) /\ Single(toA)
  BY DEF DataTypes, OneOpen
<1>3. Open(toA') \subseteq Open(toA) /\ Single(toA')
  BY <1>1, <1>2, OpenTail
<1>4. One(Open(toA')) <= One(Open(toA))
  BY <1>3 DEF One
<1>5. Kept
  BY <1>1, <1>3 DEF Kept, Asked, Answered, OpenTransfer
<1>6. /\ One(Open(toB)') = One(Open(toB)) /\ One(Open(outgoing)') = One(Open(outgoing))
      /\ One(OpenTransfer') = One(OpenTransfer)
      /\ One(Open(toB)) \in Nat /\ One(Open(outgoing)) \in Nat /\ One(OpenTransfer) \in Nat
      /\ One(Open(toA')) \in Nat /\ One(Open(toA)) \in Nat
  BY <1>1 DEF OpenTransfer, One
<1>7. One(Open(toB)') + One(Open(outgoing)') + One(OpenTransfer') + One(Answered') <= IF busy' THEN 1 ELSE 0
  BY <1>1, <1>4, <1>6 DEF OneOpen, Answered
<1> QED
  BY <1>1, <1>2, <1>3, <1>5, <1>7 DEF OneOpen

\* The answer to the open request ends it.
Taken ==
  \/ ResetAnswered \/ SigningAnswered \/ SignatureAnswered
  \/ ps4_handle_set_report_complete

\* Then no request or answer is left, and the relay is not busy.
LEMMA TakenEnds ==
  ASSUME TypeOK, DataTypes, OneOpen, Taken
  PROVE  /\ Answered = {Head(toA)} /\ Asked = {} /\ busy
         /\ Answered' = {} /\ Asked' = {} /\ busy' = FALSE /\ OneOpen'
<1>1. /\ toA # <<>> /\ toA' = Tail(toA) /\ UNCHANGED <<toB, outgoing, transfer>> /\ busy' = FALSE
      /\ Head(toA).device = auth_dev /\ Head(toA).report \in Relayed
  BY DEF Taken, ResetAnswered, SigningAnswered, SignatureAnswered, ps4_handle_set_report_complete, AReceive,
         boardB, Relayed
<1>2. toA \in Seq(Events) /\ Single(toA) /\ Single(toB) /\ Single(outgoing)
  BY DEF DataTypes, OneOpen
<1>3. Head(toA) \in Events
  BY <1>1, <1>2, HeadTailProperties
<1>4. Mine(Head(toA))
  BY <1>1, <1>3, Numbers DEF TypeOK, Events, Mine
<1>5. Open(toA') = {} /\ Open(toA) = {Head(toA)} /\ Single(toA')
  BY <1>1, <1>2, <1>4, OpenTail
<1>6. One(Open(toB)) + One(Open(outgoing)) + One(OpenTransfer) + 1 <= IF busy THEN 1 ELSE 0
  BY <1>5, Ones DEF OneOpen, Answered
<1>7. Open(toB) = {} /\ Open(outgoing) = {} /\ OpenTransfer = {} /\ busy
  BY <1>6, Ones
<1>8. Open(toB)' = {} /\ Open(outgoing)' = {} /\ OpenTransfer' = {}
  BY <1>1, <1>7 DEF OpenTransfer
<1>9. OneOpen'
  BY <1>1, <1>2, <1>5, <1>8 DEF OneOpen, Answered, One
<1> QED
  BY <1>1, <1>5, <1>7, <1>8, <1>9 DEF Asked, Answered

\* The main loop opens one when none is open.
LEMMA AskOpens ==
  ASSUME TypeOK, DataTypes, OneOpen, PartsInv, ps4_main_loop_task
  PROVE  /\ Answered = {} /\ Asked = {} /\ ~busy
         /\ Answered' = {} /\ Asked' = {Asks(state)} /\ busy' = TRUE /\ OneOpen'
<1>1. /\ ~busy /\ toB' = Append(toB, Asks(state)) /\ UNCHANGED <<toA, outgoing, transfer>> /\ busy' = TRUE
  BY DEF ps4_main_loop_task, boardB
<1>2. One(Open(toB)) + One(Open(outgoing)) + One(OpenTransfer) + One(Answered) <= 0
  BY <1>1 DEF OneOpen
<1>3. Open(toB) = {} /\ Open(outgoing) = {} /\ OpenTransfer = {} /\ Answered = {}
  BY <1>2, Ones
<1>4. Asks(state) \in Requests /\ Mine(Asks(state))
  BY AsksType DEF ps4_main_loop_task, PartsInv
<1>5. toB \in Seq(Requests) /\ Single(outgoing) /\ Single(toA)
  BY DEF DataTypes, OneOpen
<1>6. Open(toB') = {Asks(state)} /\ Single(toB')
  BY <1>1, <1>3, <1>4, <1>5, OpenAppend
<1>7. Open(outgoing)' = {} /\ OpenTransfer' = {} /\ Answered' = {}
  BY <1>1, <1>3 DEF OpenTransfer, Answered
<1>8. OneOpen'
  BY <1>1, <1>5, <1>6, <1>7 DEF OneOpen, One
<1> QED
  BY <1>1, <1>3, <1>6, <1>7, <1>8 DEF Asked

\* A transfer that completes turns the request into its answer.
TransferAnswer ==
  [kind |-> IF transfer.type = "GET_FEATURE" THEN "get" ELSE "set", device |-> transfer.device,
   report |-> transfer.report, data |-> Answers(transfer)]

\* A report of another device leaves the relay alone; a request of the relay was the open one.
LEMMA TransferAnswers ==
  ASSUME TypeOK, DataTypes, OneOpen, TransferComplete
  PROVE  \/ transfer.report = "other" /\ Kept /\ OneOpen' /\ UNCHANGED pad
         \/ /\ Mine(transfer) /\ Asked = {transfer} /\ Answered = {} /\ busy /\ UNCHANGED busy
            /\ Asked' = {} /\ Answered' = {TransferAnswer} /\ OneOpen' /\ PadHandles(transfer)
<1>1. /\ transfer # NoTransfer /\ toA' = Append(toA, TransferAnswer) /\ transfer' = NoTransfer
      /\ UNCHANGED <<toB, outgoing, busy>>
      /\ IF transfer.device = Pad THEN PadHandles(transfer) ELSE UNCHANGED pad
  BY DEF TransferComplete, TransferAnswer, relay
<1>2. transfer \in Requests /\ toA \in Seq(Events)
  BY <1>1 DEF DataTypes
<1>3. TransferAnswer \in Events /\ (Mine(TransferAnswer) <=> Mine(transfer))
  BY <1>2, AnswersType DEF TransferAnswer, Events, Requests, Mine
<1>4. CASE transfer.report = "other"
  <2>1. ~Mine(TransferAnswer)
    BY <1>3, <1>4 DEF Mine, Relayed
  <2>2. Kept /\ OneOpen'
    BY <1>1, <1>3, <2>1, ElsewhereKeeps
  <2> QED
    BY <1>1, <1>4, <2>2 DEF PadHandles
<1>5. CASE transfer.report # "other"
  <2>1. Mine(transfer) /\ OpenTransfer = {transfer}
    BY <1>1, <1>2, <1>5 DEF Requests, Mine, OpenTransfer
  <2>2. One(OpenTransfer) = 1
    BY <2>1, Ones
  <2>3. One(Open(toB)) + One(Open(outgoing)) + 1 + One(Answered) <= IF busy THEN 1 ELSE 0
    BY <2>2 DEF OneOpen
  <2>4. Open(toB) = {} /\ Open(outgoing) = {} /\ Answered = {} /\ busy
    BY <2>3, Ones
  <2>5. Open(toA') = {TransferAnswer} /\ Single(toA')
    BY <1>1, <1>2, <1>3, <2>1, <2>4, OpenAppend DEF Answered
  <2>6. Open(toB)' = {} /\ Open(outgoing)' = {} /\ OpenTransfer' = {}
    BY <1>1, <2>4 DEF OpenTransfer
  <2>7. OneOpen'
    BY <1>1, <2>4, <2>5, <2>6 DEF OneOpen, Answered, One
  <2> QED
    BY <1>1, <2>1, <2>4, <2>5, <2>6, <2>7 DEF Asked, Answered, Mine
<1> QED
  BY <1>4, <1>5

\* The steps that move no request through the controller or the relay.
Aside ==
  \/ Console
  \/ queue_out_report \/ QueueReport \/ do_send_out_report
  \/ ps4_device_connected \/ ps4_device_disconnected \/ OtherAnswer
  \/ \E device \in Devices : Plug(device) \/ Unplug(device)
  \/ UNCHANGED vars

\* They open no request, and only the console's last part sets the relay going.
LEMMA AsideKeeps ==
  ASSUME TypeOK, DataTypes, OneOpen, Aside
  PROVE  /\ Kept /\ OneOpen'
         /\ ps4_handle_set_report \/ UNCHANGED <<state, nonce_part>>
<1>1. Kept /\ OneOpen'
  BY KeptElsewhere, KeptAtB, KeptOnReceive DEF Aside
<1>2. CASE Console
  BY <1>1, <1>2 DEF Console, BeginChallenge, SignatureIsReady, GetSignaturePart, relay
<1>3. CASE ~Console
  BY <1>1, <1>3
     DEF Aside, queue_out_report, QueueReport, do_send_out_report, ps4_device_connected,
         ps4_device_disconnected, OtherAnswer, Plug, Unplug, vars, relay
<1> QED
  BY <1>2, <1>3

\* A step is one of those, or a request is opened, handled, or ended.
LEMMA Steps ==
  ASSUME [Next]_vars
  PROVE  Aside \/ ps4_main_loop_task \/ TransferComplete \/ Taken
BY DEF Next, ReceiveAtA, Aside, Taken

\* Every step keeps one request open at most, and the order of the parts.
LEMMA PartsStep ==
  ASSUME RelayTypes, [Next]_vars
  PROVE  OneOpen' /\ PartsInv'
<1> USE DEF RelayTypes
<1>1. CASE Aside
  <2>1. Kept /\ OneOpen' /\ (ps4_handle_set_report \/ UNCHANGED <<state, nonce_part>>)
    BY <1>1, AsideKeeps
  <2>2. CASE UNCHANGED <<state, nonce_part>>
    BY <2>1, <2>2 DEF Kept, PartsInv
  <2>3. CASE ps4_handle_set_report
    <3>1. \/ state' = "SENDING_RESET" /\ nonce_part' = 0
          \/ UNCHANGED <<state, nonce_part>>
      BY <2>3 DEF ps4_handle_set_report
    <3> QED
      BY <2>1, <2>2, <3>1 DEF Kept, PartsInv
  <2> QED
    BY <2>1, <2>2, <2>3
<1>2. CASE ps4_main_loop_task
  <2>1. Answered' = {} /\ Asked' = {Asks(state)} /\ busy' = TRUE /\ OneOpen'
    BY <1>2, AskOpens
  <2>2. state' = state /\ nonce_part' = IF state = "SENDING_NONCE" THEN nonce_part + 1 ELSE nonce_part
    BY <1>2 DEF ps4_main_loop_task
  <2>3. state \in States \ {"IDLE"}
    BY <1>2 DEF ps4_main_loop_task, TypeOK
  <2>4. /\ Asks(state).report = "F3" => state = "SENDING_RESET"
        /\ state = "SENDING_NONCE" => Asks(state).report = "F0"
    BY <2>3 DEF States, Asks, Request
  <2> QED
    BY <2>1, <2>2, <2>4 DEF PartsInv
<1>3. CASE TransferComplete
  <2>1. state' = state /\ nonce_part' = nonce_part
    BY <1>3 DEF TransferComplete, relay
  <2>2. TransferAnswer.report = transfer.report
    BY DEF TransferAnswer
  <2> QED
    BY <1>3, <2>1, <2>2, TransferAnswers DEF Kept, PartsInv
<1>4. CASE Taken
  <2>1. /\ Answered = {Head(toA)} /\ Answered' = {} /\ Asked' = {} /\ busy' = FALSE /\ OneOpen'
    BY <1>4, TakenEnds
  <2>2. CASE ResetAnswered
    <3>1. state = "SENDING_RESET" /\ nonce_part = 0 /\ state' = "SENDING_NONCE" /\ nonce_part' = nonce_part
      BY <2>1, <2>2 DEF ResetAnswered, PartsInv
    <3> QED
      BY <2>1, <3>1, Numbers DEF PartsInv
  <2>3. CASE SigningAnswered \/ SignatureAnswered
    <3>1. /\ state # "SENDING_NONCE" /\ nonce_part' = nonce_part
          /\ state' \in {state, "RECEIVING_SIG", "IDLE"}
      BY <2>1, <2>3 DEF SigningAnswered, SignatureAnswered, PartsInv
    <3> QED
      BY <2>1, <3>1 DEF PartsInv
  <2>4. CASE ps4_handle_set_report_complete
    <3>1. /\ nonce_part' = nonce_part
          /\ state' = IF nonce_part = NONCE_PARTS THEN "WAITING_FOR_SIG" ELSE state
      BY <2>4 DEF ps4_handle_set_report_complete
    <3>2. nonce_part \in 0 .. NONCE_PARTS
      BY DEF TypeOK
    <3> QED
      BY <2>1, <3>1, <3>2, Numbers DEF PartsInv
  <2> QED
    BY <1>4, <2>1, <2>2, <2>3, <2>4 DEF Taken
<1> QED
  BY <1>1, <1>2, <1>3, <1>4, Steps

\* At the start no request is open.
LEMMA InitRelayTypes == Init => RelayTypes
<1> SUFFICES ASSUME Init PROVE RelayTypes
  OBVIOUS
<1>1. UnderWay(<<>>) = {}
  BY DEF UnderWay
<1>2. toB = <<>> /\ outgoing = <<>> /\ toA = <<>> /\ transfer = NoTransfer /\ state = "IDLE"
  BY DEF Init
<1>3. Open(toB) = {} /\ Open(outgoing) = {} /\ Open(toA) = {} /\ OpenTransfer = {}
  BY <1>1, <1>2 DEF Open, OpenTransfer
<1>4. OneOpen /\ PartsInv
  BY <1>1, <1>2, <1>3 DEF OneOpen, PartsInv, Asked, Answered, Single, One
<1> QED
  BY <1>4, InitTypes DEF RelayTypes

\* The relay's types, its one request and its order of parts are inductive.
LEMMA RelayTypesStep == RelayTypes /\ [Next]_vars => RelayTypes'
BY TypesStep, PartsStep DEF RelayTypes

\* What is in one place at most is one at most, however it is counted.
LEMMA CountSingle ==
  ASSUME NEW s, Single(s)
  PROVE  Cardinality(UnderWay(s)) = One(Open(s))
<1>1. CASE UnderWay(s) = {}
  BY <1>1, FS_EmptySet DEF Open, One
<1>2. CASE UnderWay(s) # {}
  <2>1. PICK i \in UnderWay(s) : TRUE
    BY <1>2
  <2>2. UnderWay(s) = {i}
    BY <2>1 DEF Single
  <2>3. Open(s) # {}
    BY <2>1 DEF Open
  <2> QED
    BY <2>2, <2>3, FS_Singleton DEF One
<1> QED
  BY <1>1, <1>2

-----------------------------------------------------------------------------
(* A challenge that nothing disturbs.                                      *)

\* One more part.
LEMMA PartsAppend ==
  ASSUME NEW n \in Nat, challenge \in Nat
  PROVE  /\ Len(Parts(n)) = n
         /\ Append(Parts(n), NoncePart(challenge, n)) = Parts(n + 1)
<1>1. \A k \in Nat : NoncePart(challenge, k) \in NonceData
  BY DEF NoncePart, NonceData
<1>2. ASSUME NEW k \in Nat
      PROVE  /\ Parts(k) \in Seq(NonceData) /\ Len(Parts(k)) = k
             /\ \A j \in 1 .. k : Parts(k)[j] = NoncePart(challenge, j - 1)
  <2>1. \A j \in 1 .. k : NoncePart(challenge, j - 1) \in NonceData
    BY <1>1
  <2> QED
    BY <2>1 DEF Parts
<1> DEFINE s == Append(Parts(n), NoncePart(challenge, n))
<1>3. n + 1 \in Nat /\ Parts(n) \in Seq(NonceData) /\ Len(Parts(n)) = n
      /\ NoncePart(challenge, n) \in NonceData
  BY <1>1, <1>2
<1>4. /\ s \in Seq(NonceData) /\ Len(s) = n + 1
      /\ \A j \in 1 .. n : s[j] = Parts(n)[j]
      /\ s[n + 1] = NoncePart(challenge, n)
  BY <1>3, AppendProperties
<1> HIDE DEF s
<1>5. ASSUME NEW j \in 1 .. n + 1
      PROVE  s[j] = Parts(n + 1)[j]
  <2>1. Parts(n + 1)[j] = NoncePart(challenge, j - 1)
    BY <1>2, <1>3
  <2>2. CASE j = n + 1
    <3>1. j - 1 = n
      BY <2>2
    <3> QED
      BY <1>4, <2>1, <2>2, <3>1
  <2>3. CASE j # n + 1
    <3>1. j \in 1 .. n
      BY <2>3
    <3> QED
      BY <1>2, <1>4, <2>1, <3>1
  <2> QED
    BY <2>2, <2>3
<1>6. Parts(n + 1) \in Seq(NonceData) /\ Len(Parts(n + 1)) = n + 1
  BY <1>2, <1>3
<1>7. s = Parts(n + 1)
  BY <1>4, <1>5, <1>6, SeqEqual
<1> QED
  BY <1>3, <1>7 DEF s

\* Between challenges no request is open.
LEMMA QuietIsEmpty ==
  ASSUME OneOpen, ~busy
  PROVE  Asked = {} /\ Answered = {}
<1>1. One(Open(toB)) + One(Open(outgoing)) + One(OpenTransfer) + One(Answered) <= 0
  BY DEF OneOpen
<1> QED
  BY <1>1, Ones DEF Asked

\* The console's steps.
LEMMA ConsoleStep ==
  ASSUME IInv, Console, Clean'
  PROVE  ConsoleInv' /\ RelayInv'
<1>1. TypeOK /\ DataTypes /\ OneOpen
  BY DEF IInv, RelayTypes
<1>2. Clean
  <2>1. CASE BeginChallenge
    BY <2>1 DEF BeginChallenge, Clean
  <2>2. CASE ps4_handle_set_report \/ SignatureIsReady \/ GetSignaturePart
    BY <2>2 DEF Clean, ps4_handle_set_report, SignatureIsReady, GetSignaturePart
  <2> QED
    BY <2>1, <2>2 DEF Console
<1>3. ConsoleInv /\ RelayInv
  BY <1>2 DEF IInv
<1>4. Quiet => Asked' = {} /\ Answered' = {}
  BY <1>1, AsideKeeps, QuietIsEmpty DEF Aside, Kept, Quiet
<1>5. CASE BeginChallenge
  <2>1. /\ Quiet /\ Quiet' /\ got' = <<>> /\ ~signature_ready'
        /\ doing' = [what |-> "sending", part |-> 0]
    BY <1>5 DEF BeginChallenge, Clean, Quiet
  <2>2. ConsoleInv'
    BY <2>1 DEF ConsoleInv
  <2>3. Asked' = {} /\ Answered' = {}
    BY <1>4, <2>1
  <2>4. RelayInv'
    BY <2>1, <2>3 DEF RelayInv, Quiet, NothingOpenFits
  <2> QED
    BY <2>2, <2>4
<1>6. CASE ps4_handle_set_report
  <2> DEFINE part == doing.part
  <2>1. /\ Quiet /\ got = <<>> /\ ~signature_ready /\ part \in 0 .. NONCE_PARTS - 1
        /\ \A j \in 0 .. part - 1 : nonce[j] = NoncePart(challenge, j)
    BY <1>1, <1>3, <1>6 DEF ps4_handle_set_report, ConsoleInv, DataTypes
  <2>2. /\ nonce' = [nonce EXCEPT ![part] = NoncePart(challenge, part)]
        /\ UNCHANGED <<busy, got, signature_ready, challenge>>
        /\ \/ part # NONCE_PARTS - 1 /\ state' = state /\ doing' = [doing EXCEPT !.part = part + 1]
           \/ part = NONCE_PARTS - 1 /\ state' = "SENDING_RESET" /\ doing' = [what |-> "polling", part |-> 0]
    BY <1>6 DEF ps4_handle_set_report
  <2> HIDE DEF part
  <2>3. \A j \in 0 .. part : nonce'[j] = NoncePart(challenge, j)
    BY <1>1, <2>1, <2>2, Numbers, SMTT(30) DEF DataTypes
  <2>4. Asked' = {} /\ Answered' = {}
    BY <1>4, <2>1
  <2>5. CASE part # NONCE_PARTS - 1
    <3>1. doing'.what = "sending" /\ doing'.part = part + 1 /\ state' = "IDLE" /\ ~busy'
      BY <1>1, <1>6, <2>1, <2>2, <2>5 DEF DataTypes, ps4_handle_set_report, Quiet
    <3>2. \A j \in 0 .. doing'.part - 1 : nonce'[j] = NoncePart(challenge, j)'
      BY <2>1, <2>2, <2>3, <3>1 DEF NoncePart
    <3>3. ConsoleInv'
      BY <2>1, <2>2, <3>1, <3>2 DEF ConsoleInv, Quiet
    <3> QED
      BY <2>4, <3>1, <3>3 DEF RelayInv, NothingOpenFits
  <2>6. CASE part = NONCE_PARTS - 1
    <3>1. doing'.what = "polling" /\ state' = "SENDING_RESET"
      BY <2>2, <2>6
    <3>2. \A j \in 0 .. NONCE_PARTS - 1 : nonce'[j] = NoncePart(challenge, j)'
      BY <2>2, <2>3, <2>6 DEF NoncePart
    <3>3. ConsoleInv'
      BY <2>1, <2>2, <3>1, <3>2 DEF ConsoleInv
    <3> QED
      BY <2>4, <3>1, <3>3 DEF RelayInv, NothingOpenFits
  <2> QED
    BY <2>5, <2>6
<1>7. CASE SignatureIsReady
  <2>1. /\ Quiet /\ signature_part = 0 /\ AllSigned /\ got = <<>>
        /\ doing' = [what |-> "reading", part |-> 0]
        /\ UNCHANGED <<relay, toB, toA, boardB, pad, challenge, got>>
    BY <1>3, <1>7 DEF SignatureIsReady, ConsoleInv
  <2>2. Len(got) = 0 /\ Quiet' /\ AllSigned'
    BY <2>1 DEF Quiet, relay, AllSigned, Signed, Parts, NoncePart
  <2>3. ConsoleInv'
    BY <2>1, <2>2, Numbers DEF ConsoleInv, relay
  <2>4. RelayInv'
    <3>1. Asked' = {} /\ Answered' = {}
      BY <1>4, <2>1
    <3> QED
      BY <2>2, <3>1 DEF RelayInv, NothingOpenFits, Quiet
  <2> QED
    BY <2>3, <2>4
<1>8. CASE GetSignaturePart
  <2>1. /\ Quiet /\ AllSigned /\ signature_part = Len(got) /\ Len(got) < SIGNATURE_PARTS
        /\ \A i \in 1 .. Len(got) : got[i] = Signed(i - 1)
    BY <1>3, <1>8 DEF GetSignaturePart, ConsoleInv
  <2>2. /\ got' = Append(got, signature[signature_part])
        /\ signature_part' = IF signature_part + 1 = SIGNATURE_PARTS THEN 0 ELSE signature_part + 1
        /\ doing' = IF Len(got') = SIGNATURE_PARTS THEN [what |-> "done", part |-> 0] ELSE doing
        /\ doing.what = "reading"
        /\ UNCHANGED <<state, busy, signature, challenge>>
    BY <1>8 DEF GetSignaturePart
  <2>3. signature_part \in 0 .. SIGNATURE_PARTS - 1 /\ got \in Seq(AnswerData)
        /\ signature[signature_part] \in AnswerData
    BY <1>1 DEF TypeOK, DataTypes
  <2>4. signature[signature_part] = Signed(Len(got))
    BY <2>1, <2>3 DEF AllSigned
  <2>5. /\ Len(got') = Len(got) + 1 /\ Len(got) \in Nat
        /\ \A i \in 1 .. Len(got) : got'[i] = got[i]
        /\ got'[Len(got) + 1] = Signed(Len(got))
    BY <2>2, <2>3, <2>4, AppendProperties, LenProperties
  <2>6. \A i \in 1 .. Len(got') : got'[i] = Signed(i - 1)
    <3> SUFFICES ASSUME NEW i \in 1 .. Len(got') PROVE got'[i] = Signed(i - 1)
      OBVIOUS
    <3>1. CASE i = Len(got) + 1
      <4>1. i - 1 = Len(got)
        BY <2>5, <3>1
      <4> QED
        BY <2>5, <3>1, <4>1
    <3>2. CASE i # Len(got) + 1
      BY <2>1, <2>5, <3>2
    <3> QED
      BY <3>1, <3>2
  <2>7. Quiet' /\ AllSigned' /\ \A i \in 1 .. Len(got') : got'[i] = Signed(i - 1)'
    BY <2>1, <2>2, <2>6 DEF Quiet, AllSigned, Signed, Parts, NoncePart
  <2>8. ConsoleInv'
    <3>1. CASE Len(got') = SIGNATURE_PARTS
      BY <2>2, <2>7, <3>1 DEF ConsoleInv
    <3>2. CASE Len(got') # SIGNATURE_PARTS
      <4>1. doing'.what = "reading" /\ signature_part' = Len(got') /\ Len(got') < SIGNATURE_PARTS
        BY <2>1, <2>2, <2>5, <3>2, Numbers
      <4> QED
        BY <2>7, <4>1 DEF ConsoleInv
    <3> QED
      BY <3>1, <3>2
  <2>9. RelayInv'
    <3>1. Asked' = {} /\ Answered' = {}
      BY <1>4, <2>1
    <3> QED
      BY <2>7, <3>1 DEF RelayInv, NothingOpenFits, Quiet
  <2> QED
    BY <2>8, <2>9
<1> QED
  BY <1>5, <1>6, <1>7, <1>8 DEF Console

\* What fits goes on to fit while the relay and the controller stand still.
LEMMA FitsSame ==
  ASSUME UNCHANGED <<state, nonce_part, signature_part, pad, challenge>>
  PROVE  /\ \A r : AskedFits(r) => AskedFits(r)'
         /\ \A a : AnswerFits(a) => AnswerFits(a)'
         /\ NothingOpenFits => NothingOpenFits'
         /\ \A j : NoncePart(challenge, j)' = NoncePart(challenge, j) /\ Signed(j)' = Signed(j)
         /\ \A n : Parts(n)' = Parts(n)
BY DEF AskedFits, AnswerFits, NothingOpenFits, Signed, Parts, NoncePart, pad

\* Other steps aside: of the line, of B's queue, and of devices.
LEMMA AsideStep ==
  ASSUME IInv, Aside, ~Console, Clean'
  PROVE  ConsoleInv' /\ RelayInv'
<1>1. TypeOK /\ DataTypes /\ OneOpen
  BY DEF IInv, RelayTypes
<1>2. /\ UNCHANGED <<state, nonce, nonce_part, busy, signature, signature_part, signature_ready>>
      /\ UNCHANGED <<console, overlapped>>
  BY DEF Aside, queue_out_report, QueueReport, do_send_out_report, ps4_device_connected, AReceive,
     ps4_device_disconnected, OtherAnswer, Plug, Unplug, vars, relay
<1>3. Clean
  <2>1. CASE QueueReport
    <3>1. lost' = lost \/ lost' = (lost \/ Head(toB).report # "other")
      BY <2>1 DEF QueueReport
    <3>2. lost => lost'
      BY <3>1, Zenon
    <3>3. overlapped' = overlapped
      BY <1>2
    <3> QED
      BY <3>2, <3>3, Zenon DEF Clean
  <2>2. CASE \E device \in Devices : Unplug(device)
    BY <1>2, <2>2 DEF Unplug, Clean
  <2>3. ASSUME ~QueueReport, ~\E device \in Devices : Unplug(device)
        PROVE  UNCHANGED lost
    BY <2>3 DEF Aside, queue_out_report, do_send_out_report, ps4_device_connected, AReceive,
       ps4_device_disconnected, OtherAnswer, Plug, vars
  <2>4. CASE UNCHANGED lost
    BY <1>2, <2>4 DEF Clean
  <2> QED
    BY <2>1, <2>2, <2>3, <2>4
<1>4. ConsoleInv /\ RelayInv
  BY <1>3 DEF IInv
<1>5. ConsoleInv'
  BY <1>2, <1>4 DEF ConsoleInv, Quiet, AllSigned, Signed, Parts, NoncePart, console
<1>6. Kept
  BY <1>1, AsideKeeps
<1>7. CASE UNCHANGED pad
  <2>1. UNCHANGED <<state, nonce_part, signature_part, pad, challenge>>
    BY <1>2, <1>7 DEF console
  <2>2. /\ \A r : AskedFits(r) => AskedFits(r)'
        /\ \A a : AnswerFits(a) => AnswerFits(a)'
        /\ NothingOpenFits => NothingOpenFits'
        /\ \A j : Signed(j)' = Signed(j)
    BY <2>1, FitsSame
  <2>3. \A r \in Asked' : AskedFits(r)'
    BY <1>4, <1>6, <2>2 DEF RelayInv, Kept
  <2>4. \A a \in Answered' : AnswerFits(a)'
    BY <1>4, <1>6, <2>2 DEF RelayInv, Kept
  <2>5. ~busy' => NothingOpenFits'
    BY <1>2, <1>4, <2>2 DEF RelayInv
  <2>6. state' = "RECEIVING_SIG" => \A j \in 0 .. signature_part' - 1 : signature'[j] = Signed(j)'
    BY <1>2, <1>4, <2>2 DEF RelayInv
  <2>7. RelayInv'
    BY <2>3, <2>4, <2>5, <2>6 DEF RelayInv
  <2> QED
    BY <1>5, <2>7
<1>8. CASE ~UNCHANGED pad
  <2>1. Unplug(Pad)
    BY <1>8 DEF Aside, queue_out_report, QueueReport, do_send_out_report, ps4_device_connected, AReceive,
       ps4_device_disconnected, OtherAnswer, Plug, Unplug, vars
  <2>2. Quiet
    BY <2>1 DEF Unplug, Clean, Quiet
  <2>3. Asked' = {} /\ Answered' = {}
    BY <1>1, <1>6, <2>2, QuietIsEmpty DEF Kept, Quiet
  <2> QED
    BY <1>2, <1>5, <2>2, <2>3 DEF RelayInv, NothingOpenFits, Quiet
<1> QED
  BY <1>7, <1>8

\* The main loop asks for what the controller is ready for.
LEMMA AskStep ==
  ASSUME IInv, ps4_main_loop_task, Clean'
  PROVE  ConsoleInv' /\ RelayInv'
<1>1. /\ ~busy /\ state # "IDLE"
      /\ nonce_part' = IF state = "SENDING_NONCE" THEN nonce_part + 1 ELSE nonce_part
      /\ UNCHANGED <<state, nonce, signature, signature_part, signature_ready, pad, console, overlapped, lost>>
  BY DEF ps4_main_loop_task
<1>2. TypeOK /\ DataTypes /\ OneOpen /\ PartsInv /\ ConsoleInv /\ RelayInv
  BY <1>1 DEF IInv, RelayTypes, Clean
<1>3. Answered' = {} /\ Asked' = {Asks(state)} /\ busy' = TRUE
  BY <1>2, AskOpens
<1>4. doing.what = "polling" /\ ~signature_ready /\ \A j \in 0 .. NONCE_PARTS - 1 : nonce[j] = NoncePart(challenge, j)
  BY <1>1, <1>2 DEF ConsoleInv, Quiet
<1>5. ConsoleInv'
  BY <1>1, <1>2, <1>4 DEF ConsoleInv, console, NoncePart
<1>6. NothingOpenFits
  BY <1>1, <1>2 DEF RelayInv
<1>7. /\ UNCHANGED <<state, signature, signature_part, received, given, challenge>>
      /\ \A j : Signed(j)' = Signed(j) /\ NoncePart(challenge, j)' = NoncePart(challenge, j)
      /\ \A n : [j \in 1 .. n |-> NoncePart(challenge', j - 1)] = Parts(n)
  BY <1>1 DEF pad, console, Signed, Parts, NoncePart
<1>8. ASSUME NEW r, r = Asks(state)
      PROVE  AskedFits(r)'
  <2>1. CASE state = "SENDING_NONCE"
    <3>1. nonce_part \in 0 .. NONCE_PARTS - 1
      BY <1>1, <1>2, <2>1, Numbers DEF TypeOK, PartsInv
    <3>2. r.report = "F0" /\ r.data = NoncePart(challenge, nonce_part)
      BY <1>4, <1>8, <2>1, <3>1 DEF Asks, Request
    <3>3. nonce_part' > 0 /\ nonce_part' - 1 = nonce_part
      BY <1>1, <2>1, <3>1
    <3>4. received = Parts(nonce_part) /\ given = 0
      BY <1>6, <2>1 DEF NothingOpenFits
    <3> QED
      BY <1>7, <2>1, <3>2, <3>3, <3>4 DEF AskedFits, NoncePart, Parts
  <2>2. CASE state = "WAITING_FOR_SIG"
    <3>1. r.report = "F2"
      BY <1>8, <2>2 DEF Asks, Request
    <3> QED
      BY <1>6, <1>7, <2>2, <3>1 DEF AskedFits, NothingOpenFits, Parts
  <2>3. CASE state = "RECEIVING_SIG"
    <3>1. r.report = "F1"
      BY <1>8, <2>3 DEF Asks, Request
    <3> QED
      BY <1>6, <1>7, <2>3, <3>1 DEF AskedFits, NothingOpenFits, Parts
  <2>4. CASE state = "SENDING_RESET"
    <3>1. r.report = "F3"
      BY <1>8, <2>4 DEF Asks, Request
    <3> QED
      BY <3>1 DEF AskedFits
  <2> QED
    BY <1>1, <1>2, <2>1, <2>2, <2>3, <2>4 DEF TypeOK, States
<1>9. RelayInv'
  <2>1. state' = "RECEIVING_SIG" => \A j \in 0 .. signature_part' - 1 : signature'[j] = Signed(j)'
    BY <1>2, <1>7 DEF RelayInv
  <2> QED
    BY <1>3, <1>8, <2>1 DEF RelayInv
<1> QED
  BY <1>5, <1>9

\* A controller that was reset knows no part.
LEMMA NoParts == ASSUME challenge \in Nat PROVE Parts(0) = <<>>
BY DEF Parts

\* The controller handles the request it is ready for, and its answer says what it knows now.
LEMMA TransferStep ==
  ASSUME IInv, TransferComplete, Clean'
  PROVE  ConsoleInv' /\ RelayInv'
<1>1. /\ UNCHANGED <<state, busy, nonce, nonce_part, signature, signature_part, signature_ready>>
      /\ UNCHANGED <<console, challenge, overlapped, lost>>
  BY DEF TransferComplete, relay, console
<1>2. TypeOK /\ DataTypes /\ OneOpen /\ PartsInv /\ ConsoleInv /\ RelayInv
  BY <1>1 DEF IInv, RelayTypes, Clean
<1>3. ConsoleInv'
  BY <1>1, <1>2 DEF ConsoleInv, Quiet, AllSigned, Signed, Parts, NoncePart, console
<1>4. /\ \A j : Signed(j)' = Signed(j)
      /\ \A n : [j \in 1 .. n |-> NoncePart(challenge', j - 1)] = Parts(n)
  BY <1>1 DEF Signed, Parts, NoncePart
<1>5. state' = "RECEIVING_SIG" => \A j \in 0 .. signature_part' - 1 : signature'[j] = Signed(j)'
  BY <1>1, <1>2, <1>4 DEF RelayInv
<1>6. CASE Kept /\ UNCHANGED pad
  <2>1. UNCHANGED <<state, nonce_part, signature_part, pad, challenge>>
    BY <1>1, <1>6
  <2>2. /\ \A r : AskedFits(r) => AskedFits(r)'
        /\ \A a : AnswerFits(a) => AnswerFits(a)'
        /\ NothingOpenFits => NothingOpenFits'
    BY <2>1, FitsSame
  <2>3. \A r \in Asked' : AskedFits(r)'
    BY <1>2, <1>6, <2>2 DEF RelayInv, Kept
  <2>4. \A a \in Answered' : AnswerFits(a)'
    BY <1>2, <1>6, <2>2 DEF RelayInv, Kept
  <2>5. ~busy' => NothingOpenFits'
    BY <1>1, <1>2, <2>2 DEF RelayInv
  <2> QED
    BY <1>3, <1>5, <2>3, <2>4, <2>5 DEF RelayInv
<1>7. CASE /\ Mine(transfer) /\ Asked = {transfer} /\ busy /\ PadHandles(transfer)
           /\ Asked' = {} /\ Answered' = {TransferAnswer}
  <2>1. AskedFits(transfer) /\ transfer.report \in Relayed
    BY <1>2, <1>7 DEF RelayInv, Mine
  <2>2. challenge \in Nat /\ nonce_part \in Nat /\ signature_part \in 0 .. SIGNATURE_PARTS - 1
    BY <1>2, Numbers DEF DataTypes, TypeOK
  <2>3. ASSUME NEW a, a = TransferAnswer
        PROVE  AnswerFits(a)'
    <3>1. a.report = transfer.report /\ a.data = Answers(transfer)
      BY <2>3 DEF TransferAnswer
    <3>2. CASE transfer.report = "F3"
      <4>1. received' = <<>> /\ given' = 0
        BY <1>7, <3>2 DEF PadHandles
      <4>2. <<>> = [j \in 1 .. 0 |-> NoncePart(challenge', j - 1)]
        BY <1>4, <2>2, NoParts
      <4> QED
        BY <3>1, <3>2, <4>1, <4>2 DEF AnswerFits, Parts
    <3>3. CASE transfer.report = "F0"
      <4>1. /\ state = "SENDING_NONCE" /\ nonce_part > 0 /\ given = 0
            /\ transfer.data = NoncePart(challenge, nonce_part - 1) /\ received = Parts(nonce_part - 1)
        BY <2>1, <3>3 DEF AskedFits
      <4>2. received' = Append(received, transfer.data) /\ given' = given
        BY <1>7, <3>3 DEF PadHandles
      <4>3. nonce_part - 1 \in Nat /\ (nonce_part - 1) + 1 = nonce_part
        BY <2>2, <4>1
      <4>4. received' = Parts(nonce_part)
        BY <2>2, <4>1, <4>2, <4>3, PartsAppend
      <4> QED
        BY <1>1, <1>4, <3>1, <3>3, <4>1, <4>2, <4>4 DEF AnswerFits, Parts
    <3>4. CASE transfer.report = "F2"
      <4>1. state = "WAITING_FOR_SIG" /\ received = Parts(NONCE_PARTS) /\ given = 0
        BY <2>1, <3>4 DEF AskedFits
      <4>2. UNCHANGED <<received, given>>
        BY <1>7, <3>4 DEF PadHandles, pad
      <4> QED
        BY <1>1, <1>4, <3>1, <3>4, <4>1, <4>2 DEF AnswerFits, Parts
    <3>5. CASE transfer.report = "F1"
      <4>1. state = "RECEIVING_SIG" /\ received = Parts(NONCE_PARTS) /\ given = signature_part
        BY <2>1, <3>5 DEF AskedFits
      <4>2. received' = received /\ given' = (given + 1) % SIGNATURE_PARTS
        BY <1>7, <3>5 DEF PadHandles
      <4>3. a.data = Signed(signature_part)
        BY <3>1, <3>5, <4>1 DEF Answers, Signed
      <4> QED
        BY <1>1, <1>4, <3>1, <3>5, <4>1, <4>2, <4>3 DEF AnswerFits, Parts
    <3> QED
      BY <2>1, <3>2, <3>3, <3>4, <3>5 DEF Relayed
  <2> QED
    BY <1>1, <1>3, <1>5, <1>7, <2>3 DEF RelayInv
<1> QED
  BY <1>2, <1>6, <1>7, TransferAnswers

\* A takes the answer it waits for, and goes on.
LEMMA TakenStep ==
  ASSUME IInv, Taken, Clean'
  PROVE  ConsoleInv' /\ RelayInv'
<1>1. UNCHANGED <<nonce, nonce_part, pad, console, overlapped, lost>>
  BY DEF Taken, ResetAnswered, SigningAnswered, SignatureAnswered, ps4_handle_set_report_complete, AReceive
<1>2. TypeOK /\ DataTypes /\ OneOpen /\ PartsInv /\ ConsoleInv /\ RelayInv
  BY <1>1 DEF IInv, RelayTypes, Clean
<1> DEFINE a == Head(toA)
<1>3. Answered = {a} /\ busy /\ Answered' = {} /\ Asked' = {} /\ busy' = FALSE
  BY <1>2, TakenEnds
<1>4. AnswerFits(a)
  BY <1>2, <1>3 DEF RelayInv
<1>5. doing.what = "polling" /\ ~signature_ready /\ got = <<>>
      /\ \A j \in 0 .. NONCE_PARTS - 1 : nonce[j] = NoncePart(challenge, j)
  BY <1>2, <1>3 DEF ConsoleInv, Quiet
<1>6. /\ UNCHANGED <<received, given, challenge, doing, got>>
      /\ \A j : Signed(j)' = Signed(j) /\ NoncePart(challenge, j)' = NoncePart(challenge, j)
      /\ \A n : [j \in 1 .. n |-> NoncePart(challenge', j - 1)] = Parts(n)
  BY <1>1 DEF pad, console, Signed, Parts, NoncePart
<1>7. /\ doing'.what = "polling" /\ got' = <<>>
      /\ \A j \in 0 .. NONCE_PARTS - 1 : nonce'[j] = NoncePart(challenge, j)'
  BY <1>1, <1>5, <1>6
<1>8. ~signature_ready' => ConsoleInv'
  BY <1>7 DEF ConsoleInv
<1>9. /\ NothingOpenFits'
      /\ state' = "RECEIVING_SIG" => \A j \in 0 .. signature_part' - 1 : signature'[j] = Signed(j)'
      => RelayInv'
  BY <1>3 DEF RelayInv
<1>10. /\ nonce_part \in 0 .. NONCE_PARTS /\ signature_part \in 0 .. SIGNATURE_PARTS - 1 /\ challenge \in Nat
       /\ signature \in [0 .. SIGNATURE_PARTS - 1 -> AnswerData]
  BY <1>2 DEF TypeOK, DataTypes
<1>11. CASE ResetAnswered
  <2>1. a.report = "F3" /\ state' = "SENDING_NONCE" /\ signature_ready' = signature_ready
    BY <1>11 DEF ResetAnswered
  <2>2. nonce_part = 0
    BY <1>2, <1>3, <2>1 DEF PartsInv
  <2>3. received = Parts(0) /\ given = 0
    BY <1>4, <2>1 DEF AnswerFits
  <2>4. NothingOpenFits'
    BY <1>1, <1>6, <2>1, <2>2, <2>3 DEF NothingOpenFits, Parts
  <2> QED
    BY <1>5, <1>8, <1>9, <2>1, <2>4
<1>12. CASE SigningAnswered
  <2>1. a.report = "F2" /\ signature_ready' = signature_ready
        /\ \/ state' = "RECEIVING_SIG" /\ signature_part' = 0
           \/ UNCHANGED <<state, signature_part>>
    BY <1>12 DEF SigningAnswered
  <2>2. state = "WAITING_FOR_SIG" /\ received = Parts(NONCE_PARTS) /\ given = 0
    BY <1>4, <2>1 DEF AnswerFits
  <2>3. NothingOpenFits'
    BY <1>6, <2>1, <2>2 DEF NothingOpenFits, Parts
  <2>4. state' = "RECEIVING_SIG" => \A j \in 0 .. signature_part' - 1 : signature'[j] = Signed(j)'
    BY <2>1, <2>2
  <2> QED
    BY <1>5, <1>8, <1>9, <2>1, <2>3, <2>4
<1>13. CASE SignatureAnswered
  <2>1. /\ a.report = "F1" /\ signature' = [signature EXCEPT ![signature_part] = a.data]
        /\ \/ /\ signature_part + 1 = SIGNATURE_PARTS
              /\ state' = "IDLE" /\ signature_ready' = TRUE /\ signature_part' = 0
           \/ /\ signature_part + 1 # SIGNATURE_PARTS
              /\ signature_part' = signature_part + 1 /\ UNCHANGED <<state, signature_ready>>
    BY <1>13 DEF SignatureAnswered
  <2>2. /\ state = "RECEIVING_SIG" /\ received = Parts(NONCE_PARTS)
        /\ given = (signature_part + 1) % SIGNATURE_PARTS /\ a.data = Signed(signature_part)
    BY <1>4, <2>1 DEF AnswerFits
  <2>3. \A j \in 0 .. signature_part - 1 : signature[j] = Signed(j)
    BY <1>2, <2>2 DEF RelayInv
  <2> HIDE DEF a
  <2>4. \A j \in 0 .. signature_part : signature'[j] = Signed(j)'
    BY <1>6, <1>10, <2>1, <2>2, <2>3, Numbers
  <2>5. CASE signature_part + 1 = SIGNATURE_PARTS
    <3>1. state' = "IDLE" /\ signature_part' = 0
      BY <2>1, <2>5
    <3>2. \A j \in 0 .. SIGNATURE_PARTS - 1 : signature'[j] = Signed(j)'
      BY <1>10, <2>4, <2>5, Numbers
    <3>3. Quiet' /\ AllSigned'
      BY <1>3, <3>1, <3>2 DEF Quiet, AllSigned
    <3>4. ConsoleInv'
      BY <1>7, <3>1, <3>3 DEF ConsoleInv
    <3>5. NothingOpenFits'
      BY <3>1 DEF NothingOpenFits
    <3> QED
      BY <1>9, <3>1, <3>4, <3>5
  <2>6. CASE signature_part + 1 # SIGNATURE_PARTS
    <3>1. signature_part' = signature_part + 1 /\ UNCHANGED <<state, signature_ready>>
      BY <2>1, <2>6
    <3>2. given = signature_part'
      BY <1>10, <2>2, <2>6, <3>1, GoesRound, Numbers
    <3>3. NothingOpenFits'
      BY <1>6, <2>2, <3>1, <3>2 DEF NothingOpenFits, Parts
    <3>4. \A j \in 0 .. signature_part' - 1 : signature'[j] = Signed(j)'
      BY <1>10, <2>4, <3>1, Numbers
    <3> QED
      BY <1>5, <1>8, <1>9, <3>1, <3>3, <3>4
  <2> QED
    BY <2>5, <2>6
<1>14. CASE ps4_handle_set_report_complete
  <2>1. /\ a.report = "F0" /\ signature_ready' = signature_ready
        /\ state' = IF nonce_part = NONCE_PARTS THEN "WAITING_FOR_SIG" ELSE state
    BY <1>14 DEF ps4_handle_set_report_complete
  <2>2. state = "SENDING_NONCE" /\ received = Parts(nonce_part) /\ given = 0
    BY <1>4, <2>1 DEF AnswerFits
  <2>3. NothingOpenFits'
    BY <1>1, <1>6, <2>1, <2>2 DEF NothingOpenFits, Parts
  <2> QED
    BY <1>5, <1>8, <1>9, <2>1, <2>2, <2>3
<1> QED
  BY <1>11, <1>12, <1>13, <1>14 DEF Taken

\* A challenge stays clean or it does not, and the invariant holds either way.
LEMMA IInvStep ==
  ASSUME IInv, [Next]_vars
  PROVE  IInv'
<1>1. RelayTypes'
  BY RelayTypesStep DEF IInv
<1>2. ASSUME Clean'
      PROVE  ConsoleInv' /\ RelayInv'
  BY <1>2, Steps, ConsoleStep, AsideStep, AskStep, TransferStep, TakenStep
<1> QED
  BY <1>1, <1>2 DEF IInv

\* At the start the console has no challenge and the relay is quiet.
LEMMA InitIInv == Init => IInv
<1> SUFFICES ASSUME Init PROVE IInv
  OBVIOUS
<1>1. RelayTypes
  BY InitRelayTypes
<1>2. ConsoleInv
  BY DEF Init, ConsoleInv, Quiet
<1>3. Asked = {} /\ Answered = {}
  BY <1>1, QuietIsEmpty DEF Init, RelayTypes
<1>4. RelayInv
  BY <1>3 DEF Init, RelayInv, NothingOpenFits
<1> QED
  BY <1>1, <1>2, <1>4 DEF IInv

-----------------------------------------------------------------------------
(* Theorems.                                                               *)

\* The relay types hold, and a request or answer of the relay is nowhere or in one place of the
\* two lines, B's queue and its transfer, and nowhere while the relay is not busy: for any
\* number of parts and reports, any size of the queue, and devices that come and go.
THEOREM OneRequestAtATime == Spec => []PsAuthInv
<1>1. RelayTypes => PsAuthInv
  <2> SUFFICES ASSUME RelayTypes PROVE PsAuthInv
    OBVIOUS
  <2>1. /\ Cardinality(UnderWay(toB)) = One(Open(toB)) /\ Cardinality(UnderWay(outgoing)) = One(Open(outgoing))
        /\ Cardinality(UnderWay(toA)) = One(Answered)
    BY CountSingle DEF RelayTypes, OneOpen, Answered
  <2>2. (IF transfer # NoTransfer /\ transfer.report # "other" THEN 1 ELSE 0) = One(OpenTransfer)
    BY DEF OpenTransfer, One
  <2>3. One(Open(toB)) \in Nat /\ One(Open(outgoing)) \in Nat /\ One(OpenTransfer) \in Nat /\ One(Answered) \in Nat
    BY DEF One
  <2>4. Outstanding <= (IF busy THEN 1 ELSE 0)
    BY <2>1, <2>2, <2>3 DEF Outstanding, RelayTypes, OneOpen
  <2> QED
    BY <2>4 DEF RelayTypes, PsAuthInv, OneRequest
<1>2. Spec => []RelayTypes
  BY InitRelayTypes, RelayTypesStep, PTL DEF Spec
<1> QED
  BY <1>1, <1>2, PTL

\* A console that waits for the end of a challenge before it begins the next, with a controller
\* that stays and no request dropped, has read the signature of exactly what it sent, every
\* part and in order, whatever other devices do: for any number of parts of either.
THEOREM SignatureIsOfChallenge == Spec => []SignatureOfChallenge
<1>1. IInv => SignatureOfChallenge
  <2> SUFFICES ASSUME IInv, doing.what = "done", challenge > 0, Clean
               PROVE  got = [i \in 1 .. SIGNATURE_PARTS |->
                               [of |-> [j \in 1 .. NONCE_PARTS |-> NoncePart(challenge, j - 1)], part |-> i - 1]]
    BY DEF SignatureOfChallenge, Clean
  <2> DEFINE whole == [i \in 1 .. SIGNATURE_PARTS |-> Signed(i - 1)]
  <2>1. Len(got) = SIGNATURE_PARTS /\ \A i \in 1 .. SIGNATURE_PARTS : got[i] = Signed(i - 1)
    BY DEF IInv, ConsoleInv
  <2>2. got \in Seq(AnswerData)
    BY DEF IInv, RelayTypes, DataTypes
  <2>3. got = [i \in 1 .. Len(got) |-> got[i]]
    BY <2>2, LenProperties
  <2>4. got = whole
    BY <2>1, <2>3
  <2> QED
    BY <2>4 DEF Signed, Parts
<1>2. Spec => []IInv
  BY InitIInv, IInvStep, PTL DEF Spec
<1> QED
  BY <1>1, <1>2, PTL

-----------------------------------------------------------------------------
(* Diagnostics: its sequences.                                             *)

LEMMA LeastElement ==
  ASSUME NEW T \in SUBSET Nat, T # {}
  PROVE  \E x \in T : \A y \in T : x <= y
<1>1. PICK x \in T : \A y \in T : <<y, x>> \notin OpToRel(<, Nat)
  BY NatLessThanWellFounded, WFMin
<1>2. \A y \in T : ~(y < x)
  BY <1>1 DEF OpToRel
<1>3. QED
  BY <1>2

LEMMA UpTo ==
  ASSUME NEW N \in Nat, NEW T, 0 \in T, \A n \in 0 .. N - 1 : n \in T => n + 1 \in T
  PROVE  \A n \in 0 .. N : n \in T
<1> SUFFICES ASSUME NEW m \in 0 .. N, m \notin T PROVE FALSE
  OBVIOUS
<1> DEFINE U == {n \in 0 .. N : n \notin T}
<1>1. PICK x \in U : \A y \in U : x <= y
  <2>1. U \in SUBSET Nat /\ U # {}
    OBVIOUS
  <2> HIDE DEF U
  <2> QED
    BY <2>1, LeastElement
<1>2. x \in 0 .. N /\ x \notin T /\ x # 0 /\ x - 1 \in 0 .. N - 1
  BY <1>1
<1>3. x - 1 \notin U
  <2>1. ~(x <= x - 1)
    BY <1>2
  <2> QED
    BY <1>1, <2>1
<1>4. x - 1 \in T
  BY <1>2, <1>3
<1>5. x - 1 + 1 = x
  BY <1>2
<1> QED
  BY <1>2, <1>4, <1>5

\* f starts from base and goes on step by step.
Follows(f, Acc, base, N, step) ==
  /\ f \in [0 .. N -> Acc]
  /\ f[0] = base
  /\ \A n \in 0 .. N - 1 : f[n + 1] = step[n + 1][f[n]]

LEMMA FollowsExists ==
  ASSUME NEW Acc, NEW base \in Acc, NEW N \in Nat, NEW step \in [1 .. N -> [Acc -> Acc]]
  PROVE  \E f : Follows(f, Acc, base, N, step)
<1> DEFINE T == {n \in 0 .. N : \E f : Follows(f, Acc, base, n, step)}
<1>1. 0 \in T
  <2> DEFINE f == [n \in 0 .. 0 |-> base]
  <2>1. Follows(f, Acc, base, 0, step)
    BY DEF Follows
  <2> HIDE DEF f
  <2> QED
    BY <2>1
<1>2. ASSUME NEW n \in 0 .. N - 1, n \in T PROVE n + 1 \in T
  <2>1. PICK f : Follows(f, Acc, base, n, step)
    BY <1>2
  <2> DEFINE g == [m \in 0 .. n + 1 |-> IF m = n + 1 THEN step[n + 1][f[n]] ELSE f[m]]
  <2>2. f \in [0 .. n -> Acc] /\ n \in 0 .. n /\ f[n] \in Acc /\ n + 1 \in 1 .. N
    BY <2>1 DEF Follows
  <2>3. step[n + 1][f[n]] \in Acc
    BY <2>2
  <2>4. g \in [0 .. n + 1 -> Acc]
    BY <2>2, <2>3
  <2>5. g[0] = base
    BY <2>1 DEF Follows
  <2>6. ASSUME NEW m \in 0 .. (n + 1) - 1 PROVE g[m + 1] = step[m + 1][g[m]]
    <3>1. CASE m = n
      BY <3>1
    <3>2. CASE m # n
      <4>1. m \in 0 .. n - 1 /\ m + 1 \in 0 .. n + 1 /\ m + 1 # n + 1 /\ m # n + 1 /\ m \in 0 .. n + 1
        BY <3>2
      <4>2. f[m + 1] = step[m + 1][f[m]]
        BY <2>1, <4>1 DEF Follows
      <4> QED
        BY <4>1, <4>2
    <3> QED
      BY <3>1, <3>2
  <2>7. Follows(g, Acc, base, n + 1, step) /\ n + 1 \in 0 .. N
    <3> HIDE DEF g
    <3> QED
      BY <2>4, <2>5, <2>6 DEF Follows
  <2> HIDE DEF g
  <2> QED
    BY <2>7
<1>3. \A n \in 0 .. N : n \in T
  <2> HIDE DEF T
  <2> QED
    BY <1>1, <1>2, UpTo
<1> QED
  BY <1>3

\* The first of a non-empty set of places is one of them.
LEMMA LowestPlace ==
  ASSUME NEW places \in SUBSET Nat, places # {}
  PROVE  /\ Lowest(places) \in places
         /\ \A q \in places : Lowest(places) <= q
<1>1. \E p \in places : \A q \in places : p <= q
  BY LeastElement
<1> QED
  BY <1>1 DEF Lowest

Once(s) == \A a, b \in 1 .. Len(s) : s[a] = s[b] => a = b

LEMMA PieceOfSequence ==
  ASSUME NEW S, NEW s \in Seq(S), NEW n \in 0 .. Len(s)
  PROVE  /\ SubSeq(s, 1, n) \in Seq(S) /\ Len(SubSeq(s, 1, n)) = n
         /\ \A k \in 1 .. n : SubSeq(s, 1, n)[k] = s[k]
         /\ Once(s) => Once(SubSeq(s, 1, n))
<1> DEFINE t == SubSeq(s, 1, n)
<1>1. t \in Seq(S) /\ Len(t) = n /\ \A k \in 1 .. n : t[k] = s[k]
  <2>1. n = 0 \/ n \in 1 .. Len(s)
    BY LenProperties
  <2>2. CASE n = 0
    BY <2>2, SubSeqProperties
  <2>3. CASE n \in 1 .. Len(s)
    BY <2>3, SubSeqProperties
  <2> QED
    BY <2>1, <2>2, <2>3
<1>2. Len(s) \in Nat
  BY LenProperties
<1> HIDE DEF t
<1>3. Once(s) => Once(t)
  BY <1>1, <1>2 DEF Once
<1> QED
  BY <1>1, <1>3 DEF t

LEMMA RestOfSequence ==
  ASSUME NEW S, NEW s \in Seq(S), s # << >>, NEW t, t = Tail(s)
  PROVE  /\ t \in Seq(S) /\ Len(t) = Len(s) - 1 /\ Head(s) \in S /\ Len(s) \in Nat \ {0}
         /\ Head(s) = s[1]
         /\ \A k \in 1 .. Len(t) : t[k] = s[k + 1]
         /\ Once(s) => Once(t)
<1>1. /\ t \in Seq(S) /\ Len(t) = Len(s) - 1 /\ Head(s) \in S /\ Len(s) \in Nat \ {0}
      /\ Head(s) = s[1]
      /\ \A k \in 1 .. Len(t) : t[k] = s[k + 1]
  BY HeadTailProperties, LenProperties, EmptySeq
<1>2. ASSUME Once(s), NEW a \in 1 .. Len(t), NEW b \in 1 .. Len(t), t[a] = t[b] PROVE a = b
  <2>1. a + 1 \in 1 .. Len(s) /\ b + 1 \in 1 .. Len(s) /\ t[a] = s[a + 1] /\ t[b] = s[b + 1]
    BY <1>1
  <2>2. a + 1 = b + 1
    BY <1>2, <2>1 DEF Once
  <2> QED
    BY <2>2
<1> QED
  BY <1>1, <1>2 DEF Once

-----------------------------------------------------------------------------
(* Board B: what is on the line, and the lane of counters.                 *)

FrameTypes == {"connected", "disconnected", "report", "counters", "transport", "hcd", "g700", "event"}
OfInterface == {"connected", "disconnected", "report", "counters"}
Frames ==
  {f \in [type : FrameTypes, itf : Interfaces \cup {NoInterface}] :
     f.type \in OfInterface => f.itf \in Interfaces}

\* No interface has two contexts on B.
ContextsOnce ==
  \A p, q \in BPlaces : contexts[p] = contexts[q] /\ contexts[p] # NoInterface => p = q

BInv ==
  /\ contexts \in [BPlaces -> Interfaces \cup {NoInterface}]
  /\ ContextsOnce
  /\ pending_diagnostics \in 0 .. PENDING_QUEUE_SIZE
  /\ snapshots \subseteq {"hcd", "transport"}
  /\ priority \in Seq(Interfaces) /\ Len(priority) <= MAX_REPORT_COUNTERS /\ Once(priority)
  /\ held \subseteq Mounted
  /\ scenario \in Scenarios
  /\ line \in Seq(Frames) /\ Len(line) <= MaxLine

LEMMA Sizes ==
  /\ CFG_TUH_HID \in Nat \ {0} /\ PENDING_QUEUE_SIZE \in Nat \ {0} /\ MAX_REPORT_COUNTERS \in Nat \ {0}
  /\ CONTEXT_COUNT \in Nat \ {0} /\ QUEUE_SIZE \in Nat \ {0} /\ MaxLine \in Nat \ {0} /\ PORTS \in Nat
  /\ Instance \in [Interfaces -> Nat] /\ Fragments \in [Interfaces -> Nat]
  /\ NoInterface \notin Interfaces /\ IsFiniteSet(Interfaces)
  /\ \A s \in Scenarios : s.devices \subseteq Interfaces /\ s.reports \in BOOLEAN /\ s.reads \in BOOLEAN
<1>1. {CFG_TUH_HID, PENDING_QUEUE_SIZE, MAX_REPORT_COUNTERS, CONTEXT_COUNT, QUEUE_SIZE, MaxLine}
      \subseteq Nat \ {0}
  BY DiagnosticsAssumption
<1>2. /\ PORTS \in Nat
      /\ Instance \in [Interfaces -> Nat] /\ Fragments \in [Interfaces -> Nat]
      /\ NoInterface \notin Interfaces /\ IsFiniteSet(Interfaces)
  BY DiagnosticsAssumption
<1>3. Scenarios \subseteq [devices : SUBSET Interfaces, reports : BOOLEAN, reads : BOOLEAN]
  BY DiagnosticsAssumption
<1> QED
  BY <1>1, <1>2, <1>3

\* The contexts of the first n places.
Gathers(s, n) ==
  /\ s \in Seq(Interfaces) /\ Once(s)
  /\ \A k \in 1 .. Len(s) : \E p \in 1 .. n : contexts[p] = s[k]

WithPlace(s, p) == IF contexts[p] = NoInterface THEN s ELSE Append(s, contexts[p])

LEMMA GatherOne ==
  ASSUME BInv, NEW n \in 0 .. CFG_TUH_HID - 1, NEW s, Gathers(s, n)
  PROVE  Gathers(WithPlace(s, n + 1), n + 1)
<1>1. /\ n + 1 \in BPlaces /\ n \in Nat
      /\ \A p \in 1 .. n : p \in BPlaces /\ p # n + 1 /\ p \in 1 .. n + 1
  BY Sizes DEF BPlaces
<1>2. CASE contexts[n + 1] = NoInterface
  BY <1>1, <1>2 DEF Gathers, WithPlace
<1>3. CASE contexts[n + 1] # NoInterface
  <2> DEFINE i == contexts[n + 1]
             t == Append(s, i)
  <2>1. i \in Interfaces
    BY <1>1, <1>3 DEF BInv
  <2>2. /\ t \in Seq(Interfaces) /\ Len(t) = Len(s) + 1 /\ Len(s) \in Nat
        /\ t[Len(s) + 1] = i /\ \A k \in 1 .. Len(s) : t[k] = s[k]
    BY <2>1, AppendProperties, LenProperties DEF Gathers
  <2>3. \A k \in 1 .. Len(s) : s[k] # i
    BY <1>1, <1>3 DEF Gathers, BInv, ContextsOnce
  <2> HIDE DEF i, t
  <2>4. \A k \in 1 .. Len(t) : k \in 1 .. Len(s) \/ k = Len(s) + 1
    BY <2>2
  <2>5. Once(t)
    <3> SUFFICES ASSUME NEW a \in 1 .. Len(t), NEW b \in 1 .. Len(t), t[a] = t[b] PROVE a = b
      BY DEF Once
    <3>1. CASE a \in 1 .. Len(s) /\ b \in 1 .. Len(s)
      BY <2>2, <3>1 DEF Gathers, Once
    <3>2. CASE a \in 1 .. Len(s) /\ b = Len(s) + 1
      BY <2>2, <2>3, <3>2
    <3>3. CASE a = Len(s) + 1 /\ b \in 1 .. Len(s)
      BY <2>2, <2>3, <3>3
    <3>4. CASE a = Len(s) + 1 /\ b = Len(s) + 1
      BY <3>4
    <3> QED
      BY <2>4, <3>1, <3>2, <3>3, <3>4
  <2>6. \A k \in 1 .. Len(t) : \E p \in 1 .. n + 1 : contexts[p] = t[k]
    <3>1. n + 1 \in 1 .. n + 1 /\ contexts[n + 1] = i
      BY <1>1 DEF i
    <3> QED
      BY <1>1, <2>2, <2>4, <3>1 DEF Gathers
  <2>7. WithPlace(s, n + 1) = t
    BY <1>3 DEF WithPlace, t, i
  <2> QED
    BY <2>2, <2>5, <2>6, <2>7 DEF Gathers
<1> QED
  BY <1>2, <1>3

\* The counters are of different interfaces.
LEMMA CountersOnce ==
  ASSUME BInv
  PROVE  /\ Counters \in Seq(Interfaces) /\ Once(Counters)
         /\ Len(Counters) <= MAX_REPORT_COUNTERS
<1> DEFINE N == CFG_TUH_HID
           Acc == Seq(Interfaces \cup {NoInterface})
           step == [n \in 1 .. N |-> [s \in Acc |-> WithPlace(s, n)]]
<1>1. N \in Nat /\ << >> \in Acc
  BY Sizes, EmptySeq
<1>2. ASSUME NEW s \in Acc, NEW n \in 1 .. N PROVE WithPlace(s, n) \in Acc
  <2>1. contexts[n] \in Interfaces \cup {NoInterface}
    BY DEF BInv, BPlaces
  <2> QED
    BY <2>1, AppendProperties DEF WithPlace
<1> HIDE DEF Acc, N
<1>3. step \in [1 .. N -> [Acc -> Acc]]
  BY <1>2
<1>4. PICK f : Follows(f, Acc, << >>, N, step)
  <2> HIDE DEF step
  <2> QED
    BY <1>1, <1>3, FollowsExists
<1>5. f \in [0 .. N -> Acc] /\ f[0] = << >>
  BY <1>4 DEF Follows
<1>6. ASSUME NEW n \in 0 .. N - 1 PROVE f[n + 1] = WithPlace(f[n], n + 1)
  <2>1. n + 1 \in 1 .. N /\ n \in 0 .. N /\ f[n] \in Acc
    BY <1>1, <1>5
  <2>2. f[n + 1] = step[n + 1][f[n]]
    BY <1>4 DEF Follows
  <2> QED
    BY <2>1, <2>2
<1> HIDE DEF step
<1> DEFINE Is(g) == g = [n \in 0 .. N |-> IF n = 0 THEN << >> ELSE WithPlace(g[n - 1], n)]
           own == [n \in 0 .. N |-> f[n]]
           g == CHOOSE h : Is(h)
<1>7. Is(own)
  <2> SUFFICES ASSUME NEW n \in 0 .. N PROVE f[n] = IF n = 0 THEN << >> ELSE WithPlace(own[n - 1], n)
    OBVIOUS
  <2>1. CASE n = 0
    BY <2>1, <1>5
  <2>2. CASE n # 0
    <3>1. n - 1 \in 0 .. N - 1 /\ n - 1 \in 0 .. N /\ n - 1 + 1 = n
      BY <2>2, <1>1
    <3>2. f[n] = WithPlace(f[n - 1], n)
      BY <3>1, <1>6
    <3> QED
      BY <3>1, <3>2, <2>2
  <2> QED
    BY <2>1, <2>2
<1> HIDE DEF own
<1>8. Is(g)
  <2> HIDE DEF Is
  <2> QED
    BY <1>7
<1>9. ActiveContexts = g[N]
  BY DEF N, ActiveContexts, WithPlace
<1> HIDE DEF g
<1>10. g[0] = << >>
  BY <1>1, <1>8
<1>11. ASSUME NEW n \in 0 .. N - 1 PROVE g[n + 1] = WithPlace(g[n], n + 1)
  <2>1. n + 1 \in 0 .. N /\ n + 1 # 0 /\ n + 1 - 1 = n
    BY <1>1
  <2> QED
    BY <1>1, <2>1, <1>8
<1>12. \A n \in 0 .. N : Gathers(g[n], n)
  <2> DEFINE U == {n \in 0 .. N : Gathers(g[n], n)}
  <2>1. 0 \in U
    <3> DEFINE t == g[0]
    <3>1. t = << >>
      BY <1>10
    <3> HIDE DEF t
    <3>2. t \in Seq(Interfaces) /\ Len(t) = 0
      BY <3>1, EmptySeq
    <3>3. Gathers(t, 0)
      BY <3>2 DEF Gathers, Once
    <3> QED
      BY <1>1, <3>3 DEF t
  <2>2. ASSUME NEW n \in 0 .. N - 1, n \in U PROVE n + 1 \in U
    <3>1. n + 1 \in 0 .. N
      BY <1>1
    <3>2. Gathers(WithPlace(g[n], n + 1), n + 1)
      BY <2>2, GatherOne DEF N
    <3> QED
      BY <3>1, <3>2, <1>11
  <2> HIDE DEF U
  <2>3. \A n \in 0 .. N : n \in U
    BY <1>1, <2>1, <2>2, UpTo
  <2> QED
    BY <2>3 DEF U
<1>13. ActiveContexts \in Seq(Interfaces) /\ Once(ActiveContexts)
  <2>1. N \in 0 .. N
    BY <1>1
  <2> QED
    BY <1>9, <1>12, <2>1 DEF Gathers
<1> DEFINE all == ActiveContexts
<1> DEFINE n == IF Len(all) < MAX_REPORT_COUNTERS THEN Len(all) ELSE MAX_REPORT_COUNTERS
<1>14. Counters = SubSeq(all, 1, n)
  BY DEF Counters
<1> HIDE DEF all
<1>15. n \in 0 .. Len(all) /\ n <= MAX_REPORT_COUNTERS
  <2>1. Len(all) \in Nat /\ MAX_REPORT_COUNTERS \in Nat
    BY <1>13, LenProperties, Sizes DEF all
  <2> QED
    BY <2>1
<1>16. all \in Seq(Interfaces) /\ Once(all)
  BY <1>13 DEF all
<1> DEFINE t == Counters
<1>17. t = SubSeq(all, 1, n)
  BY <1>14
<1> HIDE DEF t, n
<1>18. t \in Seq(Interfaces) /\ Len(t) = n /\ Once(t)
  <2>1. n \in 0 .. Len(all)
    BY <1>15
  <2> QED
    BY <1>16, <1>17, <2>1, PieceOfSequence
<1> QED
  <2>1. Len(t) <= MAX_REPORT_COUNTERS
    BY <1>15, <1>18
  <2> QED
    BY <1>18, <2>1 DEF t

LEMMA FrameIn ==
  ASSUME NEW type \in FrameTypes, NEW i \in Interfaces \cup {NoInterface},
         type \in OfInterface => i \in Interfaces
  PROVE  Frame(type, i) \in Frames
<1> DEFINE f == Frame(type, i)
<1>1. f = [type |-> type, itf |-> i]
  BY DEF Frame
<1>2. f \in [type : FrameTypes, itf : Interfaces \cup {NoInterface}] /\ f.type = type /\ f.itf = i
  BY <1>1
<1> HIDE DEF f
<1>3. f \in Frames
  BY <1>2 DEF Frames
<1> QED
  BY <1>3 DEF f

LEMMA OneMore ==
  ASSUME BInv, HasRoom(1), NEW f \in Frames
  PROVE  Append(line, f) \in Seq(Frames) /\ Len(Append(line, f)) <= MaxLine
<1>1. line \in Seq(Frames) /\ Len(line) \in Nat /\ Len(line) + 1 <= MaxLine
  BY LenProperties DEF BInv, HasRoom
<1> QED
  BY <1>1, AppendProperties

LEMMA OneLess ==
  ASSUME BInv, line # << >>
  PROVE  /\ Tail(line) \in Seq(Frames) /\ Len(Tail(line)) <= MaxLine
         /\ Head(line) \in Frames
<1>1. line \in Seq(Frames) /\ Len(line) <= MaxLine /\ MaxLine \in Nat
  BY Sizes DEF BInv
<1> DEFINE t == Tail(line)
<1>2. t \in Seq(Frames) /\ Len(t) = Len(line) - 1 /\ Head(line) \in Frames /\ Len(line) \in Nat
  BY <1>1, RestOfSequence
<1> HIDE DEF t
<1>3. Len(t) <= MaxLine
  BY <1>1, <1>2
<1> QED
  BY <1>2, <1>3 DEF t

LEMMA QueuedFits ==
  ASSUME BInv
  PROVE  Queued \in 0 .. PENDING_QUEUE_SIZE
BY Sizes DEF BInv, Queued

LEMMA MountedIn ==
  ASSUME BInv
  PROVE  /\ Mounted \subseteq Interfaces
         /\ \A p \in BPlaces : contexts[p] # NoInterface => contexts[p] \in Mounted
BY DEF BInv, Mounted

LEMMA MountKeepsB ==
  ASSUME BInv, tuh_hid_mount_cb
  PROVE  BInv'
<1>1. PICK i \in scenario.devices \ Mounted :
        /\ Free # {}
        /\ contexts' = [contexts EXCEPT ![Lowest(Free)] = i]
        /\ line' = Append(line, Frame("connected", i))
  BY DEF tuh_hid_mount_cb
<1>2. i \in Interfaces /\ i # NoInterface
  BY <1>1, Sizes DEF BInv
<1>3. Frame("connected", i) \in Frames
  BY <1>2, FrameIn DEF FrameTypes, OfInterface
<1>4. HasRoom(1) /\ pending_diagnostics' = Queued /\ UNCHANGED <<scenario, snapshots, priority, held>>
  BY DEF tuh_hid_mount_cb
<1>5. line' \in Seq(Frames) /\ Len(line') <= MaxLine
  BY <1>1, <1>3, <1>4, OneMore
<1> DEFINE new == Lowest(Free)
<1>6. new \in BPlaces /\ contexts[new] = NoInterface
  <2>1. Free \in SUBSET Nat
    BY DEF Free, BPlaces
  <2>2. new \in Free
    BY <1>1, <2>1, LowestPlace
  <2> HIDE DEF new
  <2> QED
    BY <2>2 DEF Free
<1> HIDE DEF new
<1>7. contexts' = [contexts EXCEPT ![new] = i]
  BY <1>1 DEF new
<1>8. contexts' \in [BPlaces -> Interfaces \cup {NoInterface}]
  BY <1>2, <1>7 DEF BInv
<1>9. \A p \in BPlaces : p # new => contexts'[p] = contexts[p]
  BY <1>7 DEF BInv
<1>10. contexts'[new] = i
  BY <1>6, <1>7 DEF BInv
<1>11. \A p \in BPlaces : contexts[p] # i
  BY <1>1, <1>2, MountedIn
<1>12. ContextsOnce'
  <2> SUFFICES ASSUME NEW p \in BPlaces, NEW q \in BPlaces, contexts'[p] = contexts'[q],
                      contexts'[p] # NoInterface
               PROVE  p = q
    BY DEF ContextsOnce, BPlaces
  <2>1. CASE p # new /\ q # new
    BY <1>9, <2>1 DEF BInv, ContextsOnce
  <2>2. CASE p = new \/ q = new
    BY <1>9, <1>10, <1>11, <2>2
  <2> QED
    BY <2>1, <2>2
<1>13. held' \subseteq Mounted'
  <2> SUFFICES ASSUME NEW j \in held PROVE j \in Mounted'
    BY <1>4
  <2>1. PICK p \in BPlaces : contexts[p] = j /\ j # NoInterface
    BY DEF BInv, Mounted
  <2>2. p # new /\ contexts'[p] = j
    BY <1>6, <1>9, <2>1
  <2> QED
    BY <2>1, <2>2 DEF Mounted, BPlaces
<1>14. Queued \in 0 .. PENDING_QUEUE_SIZE
  BY QueuedFits
<1> QED
  BY <1>4, <1>5, <1>8, <1>12, <1>13, <1>14 DEF BInv, BPlaces

LEMMA UnmountKeepsB ==
  ASSUME BInv, tuh_hid_umount_cb
  PROVE  BInv'
<1>1. PICK i \in Mounted :
        /\ contexts' = [p \in BPlaces |-> IF contexts[p] = i THEN NoInterface ELSE contexts[p]]
        /\ held' = held \ {i}
        /\ line' = Append(line, Frame("disconnected", i))
  BY DEF tuh_hid_umount_cb
<1>2. HasRoom(1) /\ pending_diagnostics' = Queued /\ UNCHANGED <<scenario, snapshots, priority>>
  BY DEF tuh_hid_umount_cb
<1>3. i \in Interfaces
  BY <1>1, MountedIn
<1>4. Frame("disconnected", i) \in Frames
  BY <1>3, FrameIn DEF FrameTypes, OfInterface
<1>5. line' \in Seq(Frames) /\ Len(line') <= MaxLine
  BY <1>1, <1>2, <1>4, OneMore
<1>6. contexts' \in [BPlaces -> Interfaces \cup {NoInterface}]
  BY <1>1 DEF BInv
<1>7. \A p \in BPlaces : contexts'[p] = NoInterface \/ contexts'[p] = contexts[p]
  BY <1>1
<1>8. ContextsOnce'
  BY <1>7 DEF BInv, ContextsOnce, BPlaces
<1>9. held' \subseteq Mounted'
  <2> SUFFICES ASSUME NEW j \in held, j # i PROVE j \in Mounted'
    BY <1>1
  <2>1. PICK p \in BPlaces : contexts[p] = j /\ j # NoInterface
    BY DEF BInv, Mounted
  <2>2. contexts'[p] = j
    BY <1>1, <2>1
  <2> QED
    BY <2>1, <2>2 DEF Mounted, BPlaces
<1>10. Queued \in 0 .. PENDING_QUEUE_SIZE
  BY QueuedFits
<1> QED
  BY <1>2, <1>5, <1>6, <1>8, <1>9, <1>10 DEF BInv, BPlaces

\* The frame of a report or of an event goes on the line, or none.
LineKept == line' \in Seq(Frames) /\ Len(line') <= MaxLine

LEMMA OneFrame ==
  ASSUME BInv, NEW f \in Frames,
         UNCHANGED line \/ (HasRoom(1) /\ line' = Append(line, f))
  PROVE  LineKept
<1>1. CASE UNCHANGED line
  BY <1>1 DEF BInv, LineKept
<1>2. CASE HasRoom(1) /\ line' = Append(line, f)
  BY <1>2, OneMore DEF LineKept
<1> QED
  BY <1>1, <1>2

\* What is not about the contexts.
LEMMA SameContexts ==
  ASSUME BInv, UNCHANGED <<scenario, contexts>>, LineKept,
         pending_diagnostics' \in 0 .. PENDING_QUEUE_SIZE, snapshots' \subseteq {"hcd", "transport"},
         priority' \in Seq(Interfaces) /\ Len(priority') <= MAX_REPORT_COUNTERS /\ Once(priority'),
         held' \subseteq Mounted
  PROVE  BInv'
<1>1. Mounted' = Mounted /\ (ContextsOnce' <=> ContextsOnce)
  BY DEF Mounted, ContextsOnce, BPlaces
<1>2. ContextsOnce'
  BY <1>1 DEF BInv
<1> QED
  BY <1>1, <1>2 DEF BInv, LineKept, BPlaces

LEMMA EventKeepsB ==
  ASSUME BInv, tuh_diagnostic_event_cb
  PROVE  BInv'
<1>1. UNCHANGED <<scenario, contexts, snapshots, priority, held, line>> /\ pending_diagnostics' = Queued
  BY DEF tuh_diagnostic_event_cb
<1>2. LineKept
  BY <1>1 DEF BInv, LineKept
<1> QED
  BY <1>1, <1>2, QueuedFits, SameContexts DEF BInv

LEMMA ReportFrame ==
  ASSUME BInv, NEW i \in Mounted
  PROVE  Frame("report", i) \in Frames
BY MountedIn, FrameIn DEF FrameTypes, OfInterface

LEMMA ReportKeepsB ==
  ASSUME BInv, tuh_hid_report_received_cb
  PROVE  BInv'
<1>1. PICK i \in Mounted \ held :
        \/ held = {} /\ HasRoom(1) /\ line' = Append(line, Frame("report", i)) /\ UNCHANGED held
        \/ held' = held \cup {i} /\ UNCHANGED line
  BY DEF tuh_hid_report_received_cb
<1>2. /\ UNCHANGED <<scenario, contexts, snapshots, priority>>
      /\ pending_diagnostics' \in {pending_diagnostics, Queued}
  BY DEF tuh_hid_report_received_cb
<1>3. LineKept
  BY <1>1, ReportFrame, OneFrame
<1>4. held' \subseteq Mounted /\ pending_diagnostics' \in 0 .. PENDING_QUEUE_SIZE
  BY <1>1, <1>2, QueuedFits DEF BInv
<1> QED
  BY <1>2, <1>3, <1>4, SameContexts DEF BInv

LEMMA FlushKeepsB ==
  ASSUME BInv, flush_pending_hid_reports
  PROVE  BInv'
<1>1. PICK i \in held : held' = held \ {i} /\ line' = Append(line, Frame("report", i))
  BY DEF flush_pending_hid_reports
<1>2. UNCHANGED <<scenario, contexts, pending_diagnostics, snapshots, priority>> /\ HasRoom(1)
  BY DEF flush_pending_hid_reports
<1>3. i \in Mounted
  BY DEF BInv
<1>4. LineKept
  BY <1>1, <1>2, <1>3, ReportFrame, OneFrame
<1>5. held' \subseteq Mounted
  BY <1>1 DEF BInv
<1> QED
  BY <1>2, <1>4, <1>5, SameContexts DEF BInv

LEMMA ProbeKeepsB ==
  ASSUME BInv,
         send_g700_health_probe \/ flush_pending_hid_host_diagnostics
  PROVE  BInv'
<1>1. CASE send_g700_health_probe
  <2>1. /\ UNCHANGED <<scenario, contexts, pending_diagnostics, snapshots, priority, held>>
        /\ HasRoom(1) /\ line' = Append(line, Frame("g700", NoInterface))
    BY <1>1 DEF send_g700_health_probe, b_vars
  <2>2. Frame("g700", NoInterface) \in Frames
    BY FrameIn DEF FrameTypes, OfInterface
  <2>3. LineKept
    BY <2>1, <2>2, OneFrame
  <2> QED
    BY <2>1, <2>3, SameContexts DEF BInv
<1>2. CASE flush_pending_hid_host_diagnostics
  <2>1. /\ UNCHANGED <<scenario, contexts, snapshots, priority, held>>
        /\ HasRoom(1) /\ line' = Append(line, Frame("event", NoInterface))
        /\ pending_diagnostics > 0 /\ pending_diagnostics' = pending_diagnostics - 1
    BY <1>2 DEF flush_pending_hid_host_diagnostics
  <2>2. Frame("event", NoInterface) \in Frames
    BY FrameIn DEF FrameTypes, OfInterface
  <2>3. LineKept
    BY <2>1, <2>2, OneFrame
  <2>4. pending_diagnostics' \in 0 .. PENDING_QUEUE_SIZE
    BY <2>1, Sizes DEF BInv
  <2> QED
    BY <2>1, <2>3, <2>4, SameContexts DEF BInv
<1> QED
  BY <1>1, <1>2

\* A takes a frame, or touches nothing of B.
LEMMA TakingKeepsB ==
  ASSUME BInv, UNCHANGED <<scenario, b_vars>>,
         UNCHANGED line \/ (line # << >> /\ line' = Tail(line))
  PROVE  BInv'
<1>1. UNCHANGED <<contexts, pending_diagnostics, snapshots, priority, held>>
  BY DEF b_vars
<1>2. LineKept
  BY OneLess DEF LineKept, BInv
<1> QED
  BY <1>1, <1>2, SameContexts DEF BInv

\* The lane, refilled or not.
LEMMA RefilledOnce ==
  ASSUME BInv, NEW due
  PROVE  /\ Refilled(due) \in Seq(Interfaces) /\ Len(Refilled(due)) <= MAX_REPORT_COUNTERS
         /\ Once(Refilled(due))
<1>1. Refilled(due) = Counters \/ Refilled(due) = priority
  BY DEF Refilled
<1> QED
  BY <1>1, CountersOnce DEF BInv

LEMMA FramesOfPass ==
  ASSUME BInv,
         NEW pend \in SUBSET {"hcd", "transport"}, NEW lane \in Seq(Interfaces)
  PROVE  SnapshotFrames(pend) \o CounterFrame(lane) \in Seq(Frames)
<1>1. ASSUME NEW type \in {"hcd", "transport"} PROVE SnapshotFrame(type, pend) \in Seq(Frames)
  <2>1. Frame(type, NoInterface) \in Frames
    BY FrameIn DEF FrameTypes, OfInterface
  <2> QED
    BY <2>1 DEF SnapshotFrame
<1>2. CounterFrame(lane) \in Seq(Frames)
  <2>1. CASE lane = << >>
    BY <2>1 DEF CounterFrame
  <2>2. CASE lane # << >>
    <3>1. Head(lane) \in Interfaces
      BY <2>2, RestOfSequence
    <3>2. Frame("counters", Head(lane)) \in Frames
      BY <3>1, FrameIn DEF FrameTypes, OfInterface
    <3> QED
      BY <2>2, <3>2 DEF CounterFrame
  <2> QED
    BY <2>1, <2>2
<1>3. SnapshotFrame("transport", pend) \in Seq(Frames) /\ SnapshotFrame("hcd", pend) \in Seq(Frames)
  BY <1>1
<1>4. SnapshotFrames(pend) \in Seq(Frames)
  BY <1>3, ConcatProperties DEF SnapshotFrames
<1> QED
  BY <1>2, <1>4, ConcatProperties

LEMMA ServiceKeepsB ==
  ASSUME BInv, service_hid_host_priority_diagnostics
  PROVE  BInv'
<1>1. PICK due \in SUBSET {"hcd", "counters", "transport"} :
        LET pend == snapshots \cup (due \ {"counters"})
            lane == Refilled(due)
            frames == SnapshotFrames(pend) \o CounterFrame(lane)
        IN  \E n \in 0 .. Len(frames) :
              /\ HasRoom(n)
              /\ line' = line \o SubSeq(frames, 1, n)
              /\ snapshots' = pend \ {frames[k].type : k \in 1 .. n}
              /\ priority' = IF n = Len(frames) /\ lane # << >> THEN Tail(lane) ELSE lane
              /\ UNCHANGED <<scenario, contexts, pending_diagnostics, held>>
  BY DEF service_hid_host_priority_diagnostics
<1> DEFINE pend == snapshots \cup (due \ {"counters"})
           lane == Refilled(due)
           frames == SnapshotFrames(pend) \o CounterFrame(lane)
<1>2. PICK n \in 0 .. Len(frames) :
        /\ HasRoom(n)
        /\ line' = line \o SubSeq(frames, 1, n)
        /\ snapshots' \subseteq pend
        /\ (priority' = Tail(lane) /\ lane # << >>) \/ priority' = lane
        /\ UNCHANGED <<scenario, contexts, pending_diagnostics, held>>
  BY <1>1
<1>3. pend \in SUBSET {"hcd", "transport"}
  BY DEF BInv
<1>4. lane \in Seq(Interfaces) /\ Len(lane) <= MAX_REPORT_COUNTERS /\ Once(lane)
  BY RefilledOnce
<1> HIDE DEF pend, lane
<1>5. frames \in Seq(Frames)
  BY <1>3, <1>4, FramesOfPass
<1> HIDE DEF frames
<1>6. LineKept
  <2>1. SubSeq(frames, 1, n) \in Seq(Frames) /\ Len(SubSeq(frames, 1, n)) = n
    BY <1>5, PieceOfSequence
  <2>2. line \in Seq(Frames) /\ Len(line) + n <= MaxLine
    BY <1>2 DEF BInv, HasRoom
  <2>3. line' \in Seq(Frames) /\ Len(line') = Len(line) + n
    BY <1>2, <2>1, <2>2, ConcatProperties
  <2> QED
    BY <2>2, <2>3 DEF LineKept
<1>7. priority' \in Seq(Interfaces) /\ Len(priority') <= MAX_REPORT_COUNTERS /\ Once(priority')
  <2>1. CASE priority' = lane
    BY <1>4, <2>1
  <2>2. CASE priority' = Tail(lane) /\ lane # << >>
    <3> DEFINE t == Tail(lane)
    <3>1. t \in Seq(Interfaces) /\ Len(t) = Len(lane) - 1 /\ Len(lane) \in Nat /\ Once(t)
      BY <1>4, <2>2, RestOfSequence
    <3>2. priority' = t
      BY <2>2
    <3> HIDE DEF t
    <3>3. Len(t) <= MAX_REPORT_COUNTERS
      BY <1>4, <3>1, Sizes
    <3> QED
      BY <3>1, <3>2, <3>3
  <2> QED
    BY <1>2, <2>1, <2>2
<1>8. snapshots' \subseteq {"hcd", "transport"}
  BY <1>2, <1>3
<1> QED
  BY <1>2, <1>6, <1>7, <1>8, SameContexts DEF BInv

LEMMA BKeepsB ==
  ASSUME BInv, B
  PROVE  BInv'
BY MountKeepsB, UnmountKeepsB, EventKeepsB, ReportKeepsB, FlushKeepsB, ServiceKeepsB, ProbeKeepsB DEF B

-----------------------------------------------------------------------------
(* Board A: the contexts.                                                  *)

Few == Cardinality(Interfaces) <= CONTEXT_COUNT

\* No interface has two contexts; if there are places for all, what A was told of has one.
AInv ==
  /\ a_contexts \in [APlaces -> Interfaces \cup {NoInterface}]
  /\ \A p, q \in APlaces : a_contexts[p] = a_contexts[q] /\ a_contexts[p] # NoInterface => p = q
  /\ a_connected \subseteq Interfaces
  /\ Few => \A i \in a_connected : \E p \in APlaces : a_contexts[p] = i
  /\ latest \subseteq {"hcd", "transport", "g700"}
  /\ usage_seen \subseteq 0 .. PORTS - 1

\* While the places are enough, an interface that has none finds one that is free.
LEMMA PlaceLeft ==
  ASSUME AInv, Few, NEW i \in Interfaces, \A p \in APlaces : a_contexts[p] # i
  PROVE  \E p \in APlaces : a_contexts[p] = NoInterface
<1> SUFFICES ASSUME \A p \in APlaces : a_contexts[p] # NoInterface PROVE FALSE
  OBVIOUS
<1> DEFINE S == APlaces
           T == Interfaces \ {i}
<1>1. IsFiniteSet(S) /\ Cardinality(S) = CONTEXT_COUNT
  <2> DEFINE b == CONTEXT_COUNT - 1
  <2>1. b \in Int /\ ~(0 > b) /\ b - 0 + 1 = CONTEXT_COUNT /\ S = 0 .. b
    BY Sizes DEF APlaces
  <2> HIDE DEF b, S
  <2> QED
    BY <2>1, FS_Interval
<1>2. IsFiniteSet(T) /\ Cardinality(T) = Cardinality(Interfaces) - 1
  BY FS_RemoveElement, Sizes
<1>3. Cardinality(Interfaces) \in Nat
  BY FS_CardinalityType, Sizes
<1>4. a_contexts \in [S -> T]
  BY DEF AInv
<1> HIDE DEF S, T
<1>5. Cardinality(T) < Cardinality(S)
  BY <1>1, <1>2, <1>3, Sizes DEF Few
<1>6. \E x, y \in S : x # y /\ a_contexts[x] = a_contexts[y]
  BY <1>1, <1>2, <1>4, <1>5, FS_PigeonHole
<1> QED
  BY <1>6 DEF AInv, S

LEMMA PlaceOf ==
  ASSUME AInv, NEW i \in Interfaces
  PROVE  /\ Place(i) \in APlaces
         /\ (\E p \in APlaces : a_contexts[p] = i) => a_contexts[Place(i)] = i
         /\ Few => a_contexts[Place(i)] \in {i, NoInterface}
<1> DEFINE own == {p \in APlaces : a_contexts[p] = i}
           free == {p \in APlaces : a_contexts[p] = NoInterface}
<1>1. own \in SUBSET Nat /\ free \in SUBSET Nat
  BY DEF APlaces
<1>2. Place(i) = IF own # {} THEN Lowest(own) ELSE IF free # {} THEN Lowest(free)
                      ELSE Instance[i] % CONTEXT_COUNT
  BY DEF Place
<1>3. CASE own # {}
  <2>1. Place(i) \in own
    <3> HIDE DEF own, free
    <3> QED
      BY <1>1, <1>2, <1>3, LowestPlace
  <2> QED
    BY <2>1
<1>4. CASE own = {} /\ free # {}
  <2>1. Place(i) \in free
    <3> HIDE DEF own, free
    <3> QED
      BY <1>1, <1>2, <1>4, LowestPlace
  <2> QED
    BY <1>4, <2>1
<1>5. CASE own = {} /\ free = {}
  <2>1. Place(i) = Instance[i] % CONTEXT_COUNT
    BY <1>2, <1>5
  <2>2. Instance[i] \in Nat /\ CONTEXT_COUNT \in Nat \ {0}
    BY Sizes
  <2>3. Place(i) \in 0 .. CONTEXT_COUNT - 1
    BY <2>1, <2>2
  <2>4. \A p \in APlaces : a_contexts[p] # i /\ a_contexts[p] # NoInterface
    BY <1>5
  <2> HIDE DEF own, free
  <2>5. ~Few
    BY <2>4, PlaceLeft
  <2> QED
    BY <2>3, <2>4, <2>5 DEF APlaces
<1> QED
  BY <1>3, <1>4, <1>5

\* A context for i: it keeps the others apart, and while the places are enough drops none.
LEMMA RegisteredKeeps ==
  ASSUME AInv, NEW i \in Interfaces, a_contexts' = Registered(i)
  PROVE  /\ a_contexts' \in [APlaces -> Interfaces \cup {NoInterface}]
         /\ \A p, q \in APlaces : a_contexts'[p] = a_contexts'[q] /\ a_contexts'[p] # NoInterface => p = q
         /\ \E p \in APlaces : a_contexts'[p] = i
         /\ Few => \A j \in Interfaces : (\E p \in APlaces : a_contexts[p] = j)
                                         => \E p \in APlaces : a_contexts'[p] = j
<1> DEFINE new == Place(i)
<1>1. /\ new \in APlaces
      /\ (\E p \in APlaces : a_contexts[p] = i) => a_contexts[new] = i
      /\ Few => a_contexts[new] \in {i, NoInterface}
  BY PlaceOf
<1>2. a_contexts' = [a_contexts EXCEPT ![new] = i]
  <2>1. Registered(i) = [a_contexts EXCEPT ![new] = i]
    BY DEF Registered
  <2> QED
    BY <2>1
<1> HIDE DEF new
<1>3. a_contexts' \in [APlaces -> Interfaces \cup {NoInterface}]
  <2>1. a_contexts \in [APlaces -> Interfaces \cup {NoInterface}] /\ i \in Interfaces \cup {NoInterface}
    BY DEF AInv
  <2> QED
    BY <1>1, <1>2, <2>1
<1>4. a_contexts'[new] = i /\ \A p \in APlaces : p # new => a_contexts'[p] = a_contexts[p]
  <2>1. DOMAIN a_contexts = APlaces
    BY DEF AInv
  <2> QED
    BY <1>1, <1>2, <2>1
<1>5. i # NoInterface
  BY Sizes
<1>6. ASSUME NEW p \in APlaces, a_contexts[p] = i PROVE p = new
  <2>1. a_contexts[new] = i
    BY <1>1, <1>6
  <2> QED
    BY <1>1, <1>5, <1>6, <2>1 DEF AInv
<1>7. \A p, q \in APlaces : a_contexts'[p] = a_contexts'[q] /\ a_contexts'[p] # NoInterface => p = q
  <2> SUFFICES ASSUME NEW p \in APlaces, NEW q \in APlaces, a_contexts'[p] = a_contexts'[q],
                      a_contexts'[p] # NoInterface
               PROVE  p = q
    OBVIOUS
  <2>1. CASE p # new /\ q # new
    BY <1>4, <2>1 DEF AInv
  <2>2. CASE p = new \/ q = new
    BY <1>4, <1>6, <2>2
  <2> QED
    BY <2>1, <2>2
<1>8. ASSUME Few, NEW j \in Interfaces, NEW p \in APlaces, a_contexts[p] = j
      PROVE  \E q \in APlaces : a_contexts'[q] = j
  <2>1. CASE p = new
    <3>1. j = i
      BY <1>1, <1>8, <2>1, Sizes
    <3> QED
      BY <1>1, <1>4, <3>1
  <2>2. CASE p # new
    BY <1>4, <1>8, <2>2
  <2> QED
    BY <2>1, <2>2
<1> QED
  BY <1>1, <1>3, <1>4, <1>7, <1>8

LEMMA HeadOfLine ==
  ASSUME BInv, NEW types \in SUBSET OfInterface, AHandles(types)
  PROVE  Head(line).itf \in Interfaces
<1>1. line # << >> /\ Head(line).type \in types
  BY DEF AHandles
<1>2. Head(line) \in Frames
  BY <1>1, OneLess
<1> QED
  BY <1>1, <1>2 DEF Frames

\* What A keeps, beside its queue.
LEMMA HandlingKeepsA ==
  ASSUME BInv, AInv, serial_callback
  PROVE  AInv'
<1> DEFINE i == Head(line).itf
<1>1. usage_seen' = usage_seen
  BY DEF serial_callback, DeviceConnected, DeviceDisconnected, ReportReceived,
         CountersReceived, SnapshotReceived, EventReceived, AHandles
<1>2. CASE DeviceConnected
  <2>1. /\ i \in Interfaces /\ a_contexts' = Registered(i) /\ a_connected' = a_connected \cup {i}
        /\ latest' = latest
    BY <1>2, HeadOfLine DEF DeviceConnected, OfInterface
  <2> HIDE DEF i
  <2>2. /\ a_contexts' \in [APlaces -> Interfaces \cup {NoInterface}]
        /\ \A p, q \in APlaces : a_contexts'[p] = a_contexts'[q] /\ a_contexts'[p] # NoInterface => p = q
        /\ \E p \in APlaces : a_contexts'[p] = i
        /\ Few => \A j \in Interfaces : (\E p \in APlaces : a_contexts[p] = j)
                                        => \E p \in APlaces : a_contexts'[p] = j
    BY <2>1, RegisteredKeeps
  <2>3. Few => \A j \in a_connected' : \E p \in APlaces : a_contexts'[p] = j
    BY <2>1, <2>2 DEF AInv
  <2> QED
    BY <1>1, <2>1, <2>2, <2>3 DEF AInv, APlaces, Few
<1>3. CASE ReportReceived \/ CountersReceived
  <2>1. i \in Interfaces /\ a_contexts' = Registered(i) /\ UNCHANGED <<a_connected, latest>>
    BY <1>3, HeadOfLine DEF ReportReceived, CountersReceived, OfInterface
  <2> HIDE DEF i
  <2>2. /\ a_contexts' \in [APlaces -> Interfaces \cup {NoInterface}]
        /\ \A p, q \in APlaces : a_contexts'[p] = a_contexts'[q] /\ a_contexts'[p] # NoInterface => p = q
        /\ Few => \A j \in Interfaces : (\E p \in APlaces : a_contexts[p] = j)
                                        => \E p \in APlaces : a_contexts'[p] = j
    BY <2>1, RegisteredKeeps
  <2>3. Few => \A j \in a_connected' : \E p \in APlaces : a_contexts'[p] = j
    BY <2>1, <2>2 DEF AInv
  <2> QED
    BY <1>1, <2>1, <2>2, <2>3 DEF AInv, APlaces, Few
<1>4. CASE DeviceDisconnected
  <2>1. /\ a_contexts' = [p \in APlaces |-> IF a_contexts[p] = i THEN NoInterface ELSE a_contexts[p]]
        /\ a_connected' = a_connected \ {i} /\ latest' = latest
    BY <1>4 DEF DeviceDisconnected
  <2> HIDE DEF i
  <2>2. a_contexts' \in [APlaces -> Interfaces \cup {NoInterface}]
    BY <2>1 DEF AInv
  <2>3. \A p \in APlaces : a_contexts'[p] = IF a_contexts[p] = i THEN NoInterface ELSE a_contexts[p]
    BY <2>1
  <2>4. \A p, q \in APlaces : a_contexts'[p] = a_contexts'[q] /\ a_contexts'[p] # NoInterface => p = q
    BY <2>3 DEF AInv
  <2>5. ASSUME Few, NEW j \in a_connected' PROVE \E p \in APlaces : a_contexts'[p] = j
    <3>1. PICK p \in APlaces : a_contexts[p] = j
      BY <2>1, <2>5 DEF AInv
    <3>2. a_contexts'[p] = j
      BY <2>1, <2>3, <2>5, <3>1
    <3> QED
      BY <3>2
  <2> QED
    BY <1>1, <2>1, <2>2, <2>4, <2>5 DEF AInv, APlaces, Few
<1>5. CASE SnapshotReceived
  <2>1. /\ UNCHANGED <<a_contexts, a_connected>>
        /\ Head(line).type \in {"hcd", "transport", "g700"} /\ latest' = latest \cup {Head(line).type}
    BY <1>5 DEF SnapshotReceived, AHandles
  <2> QED
    BY <1>1, <2>1 DEF AInv, APlaces, Few
<1>6. CASE EventReceived
  <2>1. UNCHANGED <<a_contexts, a_connected, latest>>
    BY <1>6 DEF EventReceived
  <2> QED
    BY <1>1, <2>1 DEF AInv, APlaces, Few
<1> QED
  BY <1>2, <1>3, <1>4, <1>5, <1>6 DEF serial_callback

LEMMA HandlingKeepsB ==
  ASSUME BInv, serial_callback
  PROVE  BInv'
<1>1. line # << >> /\ line' = Tail(line) /\ UNCHANGED <<scenario, b_vars>>
  BY DEF serial_callback, DeviceConnected, DeviceDisconnected, ReportReceived,
         CountersReceived, SnapshotReceived, EventReceived, AHandles
<1> QED
  BY <1>1, TakingKeepsB

-----------------------------------------------------------------------------
(* The round: what A owes the PC.                                          *)

RoundInv ==
  /\ pending \subseteq Range(Kinds)
  /\ cursor \in 0 .. PORTS + 1
  /\ heartbeat_due \in BOOLEAN
  /\ owed \subseteq pending
  /\ owed_ports \subseteq usage_seen \cup {PORTS} /\ \A p \in owed_ports : cursor <= p

LEMMA KindsAre ==
  /\ Len(Kinds) = 6
  /\ \A k \in Range(Kinds) : \E n \in 1 .. Len(Kinds) : Kinds[n] = k
BY DEF Kinds, Range

LEMMA PendingFromIn ==
  ASSUME NEW n \in Nat
  PROVE  PendingFrom(n) \subseteq pending
BY DEF PendingFrom

LEMMA ThereIn == There \in SUBSET Nat /\ There \subseteq 1 .. 6
BY KindsAre DEF There

\* A snapshot that is owed and there has its place among those that are.
LEMMA OwedIsThere ==
  ASSUME RoundInv, NEW k \in StillOwed
  PROVE  k \in pending /\ \E n \in There : Kinds[n] = k /\ n \in 1 .. Len(Kinds)
<1>1. k \in pending /\ k \in Range(Kinds) /\ Has(k)
  BY DEF RoundInv, StillOwed
<1>2. PICK n \in 1 .. Len(Kinds) : Kinds[n] = k
  BY <1>1, KindsAre
<1>3. n \in There
  BY <1>1, <1>2 DEF There
<1> QED
  BY <1>1, <1>2, <1>3

LEMMA NothingOwed ==
  ASSUME RoundInv, There = {}
  PROVE  StillOwed = {}
BY OwedIsThere

\* The next place is the first that is owed, or before it.
LEMMA NextPlaceIs ==
  ASSUME AInv, RoundInv
  PROVE  /\ cursor <= PORTS => NextPlace(cursor) \in cursor .. PORTS
         /\ cursor > PORTS => NextPlace(cursor) = cursor
         /\ \A p \in owed_ports : NextPlace(cursor) <= p
<1> DEFINE places == {p \in cursor .. PORTS : p \in usage_seen \cup {PORTS}}
<1>1. cursor \in Nat /\ PORTS \in Nat
  BY Sizes DEF RoundInv
<1>2. CASE cursor > PORTS
  <2>1. NextPlace(cursor) = cursor
    BY <1>2 DEF NextPlace
  <2> QED
    BY <1>1, <1>2, <2>1 DEF RoundInv
<1>3. CASE cursor <= PORTS
  <2>1. ~(cursor > PORTS)
    BY <1>1, <1>3
  <2>2. NextPlace(cursor) = Lowest(places)
    BY <2>1 DEF NextPlace
  <2>3. PORTS \in places /\ places \in SUBSET Nat
    BY <1>1, <1>3
  <2>4. \A p \in owed_ports : p \in places
    <3>1. usage_seen \subseteq 0 .. PORTS - 1 /\ owed_ports \subseteq usage_seen \cup {PORTS}
      BY DEF RoundInv, AInv
    <3>2. \A p \in owed_ports : p \in Nat /\ p <= PORTS
      BY <1>1, <3>1
    <3>3. \A p \in owed_ports : cursor <= p
      BY DEF RoundInv
    <3> QED
      BY <1>1, <3>1, <3>2, <3>3
  <2>5. Lowest(places) \in places /\ \A q \in places : Lowest(places) <= q
    <3> HIDE DEF places
    <3> QED
      BY <2>3, LowestPlace
  <2>6. Lowest(places) \in cursor .. PORTS
    BY <2>5
  <2> QED
    BY <2>1, <2>2, <2>4, <2>5, <2>6
<1> QED
  BY <1>1, <1>2, <1>3

\* What is sent of the round.
LEMMA SendingKeepsRound ==
  ASSUME AInv, RoundInv, UNCHANGED usage_seen,
         send_hid_host_diagnostic_report
  PROVE  RoundInv'
<1>1. cursor \in Nat /\ PORTS \in Nat
  BY Sizes DEF RoundInv
<1> DEFINE next == NextPlace(cursor)
<1>2. /\ cursor <= PORTS => next \in cursor .. PORTS
      /\ cursor > PORTS => next = cursor
      /\ \A p \in owed_ports : next <= p
  BY NextPlaceIs
<1> HIDE DEF next
<1>3. next \in 0 .. PORTS + 1
  BY <1>1, <1>2 DEF RoundInv
<1>4. \A p \in owed_ports : p \in Nat
  BY <1>1 DEF RoundInv, AInv
<1>5. CASE Tick
  <2>1. heartbeat_due' = TRUE /\ UNCHANGED <<pending, cursor, owed, owed_ports>>
    BY <1>5 DEF Tick
  <2> QED
    BY <2>1 DEF RoundInv, Range, Kinds
<1>6. CASE SendHeartbeat
  <2>1. /\ heartbeat_due' = FALSE /\ pending' = Range(Kinds) /\ cursor' = 0
        /\ owed' = {kind \in Range(Kinds) : Has(kind)} /\ owed_ports' = usage_seen \cup {PORTS}
    BY <1>6 DEF SendHeartbeat
  <2>2. \A p \in owed_ports' : cursor' <= p
    BY <1>1, <2>1 DEF AInv
  <2>3. 0 \in 0 .. PORTS + 1
    BY <1>1
  <2>4. owed' \subseteq pending'
    BY <2>1
  <2> QED
    BY <2>1, <2>2, <2>3, <2>4 DEF RoundInv, Range, Kinds
<1>7. CASE SendSnapshot
  <2> DEFINE n == Lowest(There)
  <2>1. /\ There # {} /\ pending' = PendingFrom(n + 1) /\ owed' = StillOwed \ {Kinds[n]}
        /\ UNCHANGED <<cursor, heartbeat_due, owed_ports>>
    BY <1>7 DEF SendSnapshot
  <2>2. n \in There /\ \A m \in There : n <= m
    BY <2>1, ThereIn, LowestPlace
  <2> HIDE DEF n
  <2>3. pending' \subseteq pending /\ n \in Nat
    BY <2>1, <2>2, ThereIn, PendingFromIn
  <2>4. ASSUME NEW k \in owed' PROVE k \in pending'
    <3>1. PICK m \in There : Kinds[m] = k /\ m \in 1 .. Len(Kinds) /\ k \in pending
      BY <2>1, OwedIsThere
    <3>2. m # n /\ n <= m
      BY <2>1, <2>2, <2>4, <3>1
    <3>3. m \in n + 1 .. Len(Kinds)
      BY <2>3, <3>1, <3>2, KindsAre
    <3> QED
      BY <2>1, <3>1, <3>3 DEF PendingFrom
  <2> QED
    BY <2>1, <2>3, <2>4 DEF RoundInv, Range, Kinds
<1>8. CASE SendPorts
  <2>1. /\ There = {} /\ cursor <= PORTS /\ pending' = {} /\ cursor' = next + 1
        /\ owed' = StillOwed /\ owed_ports' = owed_ports \ {next} /\ UNCHANGED heartbeat_due
    BY <1>8 DEF SendPorts, next
  <2>2. owed' = {}
    BY <2>1, NothingOwed
  <2>3. cursor' \in 0 .. PORTS + 1
    BY <1>1, <1>2, <2>1
  <2>4. next \in Nat
    BY <1>1, <1>3
  <2>5. \A p \in owed_ports' : cursor' <= p
    BY <1>2, <1>4, <2>1, <2>4
  <2> QED
    BY <2>1, <2>2, <2>3, <2>5 DEF RoundInv, Range, Kinds
<1>9. CASE SendQueued
  <2>1. /\ There = {} /\ pending' = {} /\ owed' = StillOwed
        /\ UNCHANGED <<cursor, heartbeat_due, owed_ports>>
    BY <1>9 DEF SendQueued
  <2>2. owed' = {}
    BY <2>1, NothingOwed
  <2> QED
    BY <2>1, <2>2 DEF RoundInv, Range, Kinds
<1>10. CASE SendRefused
  <2>1. /\ owed' = StillOwed /\ UNCHANGED <<heartbeat_due, owed_ports>>
        /\ cursor' = IF There = {} THEN next ELSE cursor
        /\ pending' = IF There = {} THEN {} ELSE PendingFrom(Lowest(There))
    BY <1>10 DEF SendRefused, next
  <2>2. CASE There = {}
    <3>1. owed' = {} /\ pending' = {} /\ cursor' = next
      BY <2>1, <2>2, NothingOwed
    <3> QED
      BY <1>2, <1>3, <2>1, <3>1 DEF RoundInv, Range, Kinds
  <2>3. CASE There # {}
    <3> DEFINE n == Lowest(There)
    <3>1. n \in There /\ \A m \in There : n <= m
      BY <2>3, ThereIn, LowestPlace
    <3>2. pending' = PendingFrom(n) /\ cursor' = cursor
      BY <2>1, <2>3
    <3> HIDE DEF n
    <3>3. pending' \subseteq pending /\ n \in Nat
      BY <3>1, <3>2, ThereIn, PendingFromIn
    <3>4. ASSUME NEW k \in owed' PROVE k \in pending'
      <4>1. PICK m \in There : Kinds[m] = k /\ m \in 1 .. Len(Kinds) /\ k \in pending
        BY <2>1, OwedIsThere
      <4>2. m \in n .. Len(Kinds)
        BY <3>1, <3>3, <4>1, KindsAre
      <4> QED
        BY <3>2, <4>1, <4>2 DEF PendingFrom
    <3> QED
      BY <2>1, <3>2, <3>3, <3>4 DEF RoundInv, Range, Kinds
  <2> QED
    BY <2>2, <2>3
<1> QED
  BY <1>5, <1>6, <1>7, <1>8, <1>9, <1>10 DEF send_hid_host_diagnostic_report

LEMMA RoundKept ==
  ASSUME RoundInv, UNCHANGED round, usage_seen \subseteq usage_seen'
  PROVE  RoundInv'
<1>1. UNCHANGED <<pending, cursor, heartbeat_due, owed, owed_ports>>
  BY DEF round
<1> QED
  BY <1>1 DEF RoundInv, Range, Kinds

\* Before a record of the queue is shown, all of the round was.
LEMMA QueuedAfterRound ==
  ASSUME AInv, RoundInv, SendQueued
  PROVE  RoundIsOver
<1>1. There = {} /\ cursor > PORTS
  BY DEF SendQueued
<1>2. StillOwed = {}
  BY <1>1, NothingOwed
<1>3. owed_ports = {}
  BY <1>1, Sizes DEF RoundInv, AInv
<1> QED
  BY <1>2, <1>3 DEF RoundIsOver

-----------------------------------------------------------------------------
(* The queue of A: the fragments of a descriptor follow each other.        *)

RecordType == [kind : {"event", "descriptor"}, itf : Interfaces \cup {NoInterface}, offset : Nat]

\* r may be shown when the fragment before it was.
Fits(shown, r) == r.kind = "descriptor" /\ r.offset > 1 => shown = [r EXCEPT !.offset = @ - 1]

Chained(s) == s \in Seq(RecordType) /\ \A k, m \in 1 .. Len(s) : m = k + 1 => Fits(s[k], s[m])
FollowsOn(shown, s) == s # << >> => Fits(shown, s[1])
QueueInv ==
  /\ Chained(queue) /\ Len(queue) <= QUEUE_SIZE
  /\ fragment \in RecordType /\ FollowsOn(fragment, queue)

LEMMA PieceChained ==
  ASSUME NEW s, Chained(s), NEW shown, FollowsOn(shown, s), NEW n \in 0 .. Len(s), NEW t, t = SubSeq(s, 1, n)
  PROVE  Chained(t) /\ Len(t) = n /\ FollowsOn(shown, t)
<1>1. s \in Seq(RecordType) /\ Len(s) \in Nat
  BY LenProperties DEF Chained
<1>2. t \in Seq(RecordType) /\ Len(t) = n /\ \A k \in 1 .. n : t[k] = s[k]
  BY <1>1, PieceOfSequence
<1>3. ASSUME NEW k \in 1 .. Len(t), NEW m \in 1 .. Len(t), m = k + 1 PROVE Fits(t[k], t[m])
  <2>1. k \in 1 .. n /\ m \in 1 .. n /\ k \in 1 .. Len(s) /\ m \in 1 .. Len(s)
    BY <1>1, <1>2
  <2>2. Fits(s[k], s[m])
    BY <1>3, <2>1 DEF Chained
  <2> QED
    BY <1>2, <2>1, <2>2
<1>4. FollowsOn(shown, t)
  <2>1. CASE n = 0
    BY <1>2, <2>1, EmptySeq DEF FollowsOn
  <2>2. CASE n # 0
    <3>1. 1 \in 1 .. n /\ s # << >>
      BY <1>1, <2>2, EmptySeq
    <3> QED
      BY <1>2, <3>1 DEF FollowsOn
  <2> QED
    BY <2>1, <2>2
<1>5. Chained(t)
  BY <1>2, <1>3 DEF Chained
<1> QED
  BY <1>2, <1>4, <1>5

\* When the first is shown, the rest follows on.
LEMMA RestChained ==
  ASSUME NEW s, Chained(s), s # << >>, NEW shown \in RecordType, FollowsOn(shown, s), NEW t, t = Tail(s),
         NEW now, now = IF Head(s).kind = "descriptor" THEN Head(s) ELSE shown
  PROVE  Chained(t) /\ Len(t) < Len(s) /\ now \in RecordType /\ FollowsOn(now, t)
<1>1. /\ t \in Seq(RecordType) /\ Len(t) = Len(s) - 1 /\ Head(s) \in RecordType /\ Len(s) \in Nat \ {0}
      /\ Head(s) = s[1]
      /\ \A k \in 1 .. Len(t) : t[k] = s[k + 1]
  BY RestOfSequence DEF Chained
<1>2. ASSUME NEW k \in 1 .. Len(t), NEW m \in 1 .. Len(t), m = k + 1 PROVE Fits(t[k], t[m])
  <2>1. k + 1 \in 1 .. Len(s) /\ m + 1 \in 1 .. Len(s) /\ m + 1 = (k + 1) + 1
    BY <1>1, <1>2
  <2>2. Fits(s[k + 1], s[m + 1])
    BY <2>1 DEF Chained
  <2> QED
    BY <1>1, <2>2
<1>3. ASSUME t # << >> PROVE Fits(now, t[1])
  <2>1. 1 \in 1 .. Len(t)
    BY <1>1, <1>3, EmptySeq, LenProperties
  <2> DEFINE two == 1 + 1
  <2>2. t[1] = s[two]
    BY <1>1, <2>1
  <2>3. two \in 1 .. Len(s) /\ 1 \in 1 .. Len(s) /\ two = 1 + 1
    BY <1>1, <2>1
  <2> HIDE DEF two
  <2>4. Fits(s[1], s[two]) /\ s[1] \in RecordType /\ s[two] \in RecordType
    BY <2>3 DEF Chained
  <2> DEFINE r == s[two]
             q == s[1]
  <2>5. CASE q.kind = "descriptor"
    BY <1>1, <2>2, <2>4, <2>5
  <2>6. CASE q.kind # "descriptor"
    <3>1. Fits(q, r) /\ r \in RecordType
      BY <2>4
    <3> HIDE DEF q, r
    <3>2. [r EXCEPT !.offset = @ - 1].kind = r.kind
      BY <3>1 DEF RecordType
    <3>3. ~(r.kind = "descriptor" /\ r.offset > 1)
      BY <2>6, <3>1, <3>2 DEF Fits
    <3>4. Fits(now, r)
      BY <3>3 DEF Fits
    <3> QED
      BY <2>2, <3>4 DEF r
  <2> QED
    BY <2>5, <2>6
<1> QED
  BY <1>1, <1>2, <1>3 DEF Chained, FollowsOn

\* What is put behind begins with no fragment that needs another.
LEMMA MoreChained ==
  ASSUME NEW s, Chained(s), NEW shown, FollowsOn(shown, s), NEW t, Chained(t), \A any : FollowsOn(any, t),
         NEW all, all = s \o t
  PROVE  Chained(all) /\ FollowsOn(shown, all)
<1> DEFINE L == Len(s)
<1>1. /\ s \in Seq(RecordType) /\ t \in Seq(RecordType) /\ L \in Nat /\ Len(t) \in Nat
      /\ all \in Seq(RecordType) /\ Len(all) = L + Len(t)
      /\ \A k \in 1 .. L : all[k] = s[k]
      /\ \A k \in L + 1 .. L + Len(t) : all[k] = t[k - L]
  BY ConcatProperties, LenProperties DEF Chained
<1> HIDE DEF L
<1>2. ASSUME NEW k \in 1 .. Len(t) PROVE all[L + k] = t[k]
  <2> DEFINE m == L + k
  <2>1. m \in L + 1 .. L + Len(t) /\ m - L = k
    BY <1>1
  <2> HIDE DEF m
  <2>2. all[m] = t[k]
    BY <1>1, <2>1
  <2> QED
    BY <2>2 DEF m
<1>3. ASSUME NEW k \in 1 .. Len(all), NEW m \in 1 .. Len(all), m = k + 1 PROVE Fits(all[k], all[m])
  <2>1. CASE m <= L
    <3>1. k \in 1 .. L /\ m \in 1 .. L
      BY <1>1, <1>3, <2>1
    <3> QED
      BY <1>1, <1>3, <3>1 DEF Chained, L
  <2>2. CASE k = L
    <3>1. 1 \in 1 .. Len(t) /\ t # << >>
      BY <1>1, <1>3, <2>2, EmptySeq
    <3>2. all[m] = t[1]
      BY <1>2, <1>3, <2>2, <3>1
    <3>3. FollowsOn(all[k], t)
      OBVIOUS
    <3> QED
      BY <3>1, <3>2, <3>3 DEF FollowsOn
  <2>3. CASE k > L
    <3>1. PICK i \in 1 .. Len(t) : L + i = k
      <4>1. k - L \in 1 .. Len(t) /\ L + (k - L) = k
        BY <1>1, <2>3
      <4> QED
        BY <4>1
    <3>2. PICK j \in 1 .. Len(t) : L + j = m
      <4>1. m - L \in 1 .. Len(t) /\ L + (m - L) = m
        BY <1>1, <1>3, <2>3
      <4> QED
        BY <4>1
    <3>3. j = i + 1
      BY <1>1, <1>3, <3>1, <3>2
    <3>4. all[k] = t[i] /\ all[m] = t[j]
      BY <1>2, <3>1, <3>2
    <3> QED
      BY <3>3, <3>4 DEF Chained
  <2> QED
    BY <1>1, <1>3, <2>1, <2>2, <2>3
<1>4. FollowsOn(shown, all)
  <2>1. CASE L = 0
    <3>1. s = << >>
      BY <1>1, <2>1, EmptySeq DEF L
    <3>2. all = t
      BY <1>1, <3>1, ConcatEmptySeq
    <3> QED
      BY <3>2
  <2>2. CASE L # 0
    <3>1. 1 \in 1 .. L /\ s # << >>
      BY <1>1, <2>2, EmptySeq DEF L
    <3> QED
      BY <1>1, <3>1 DEF FollowsOn
  <2> QED
    BY <2>1, <2>2
<1> QED
  BY <1>1, <1>3, <1>4 DEF Chained

LEMMA QueuedChained ==
  ASSUME QueueInv, NEW t, Chained(t), \A any : FollowsOn(any, t),
         NEW q, q = AQueued(t)
  PROVE  Chained(q) /\ Len(q) <= QUEUE_SIZE /\ FollowsOn(fragment, q)
<1> DEFINE all == queue \o t
<1>1. Chained(all) /\ FollowsOn(fragment, all)
  BY MoreChained DEF QueueInv
<1>2. q = IF Len(all) <= QUEUE_SIZE THEN all ELSE SubSeq(all, 1, QUEUE_SIZE)
  BY DEF AQueued
<1> HIDE DEF all
<1>3. Len(all) \in Nat /\ QUEUE_SIZE \in Nat
  BY <1>1, LenProperties, Sizes DEF Chained
<1>4. CASE Len(all) <= QUEUE_SIZE
  BY <1>1, <1>2, <1>4
<1>5. CASE ~(Len(all) <= QUEUE_SIZE)
  <2>1. QUEUE_SIZE \in 0 .. Len(all) /\ q = SubSeq(all, 1, QUEUE_SIZE)
    BY <1>2, <1>3, <1>5
  <2>2. Chained(q) /\ Len(q) = QUEUE_SIZE /\ FollowsOn(fragment, q)
    BY <1>1, <2>1, PieceChained
  <2> QED
    BY <1>3, <2>2
<1> QED
  BY <1>4, <1>5

LEMMA EventChained ==
  ASSUME NEW t, t = << EventRecord >>
  PROVE  Chained(t) /\ \A any : FollowsOn(any, t)
<1> DEFINE e == EventRecord
<1>1. e = [kind |-> "event", itf |-> NoInterface, offset |-> 0]
  BY DEF EventRecord, Record
<1>2. t = << e >>
  OBVIOUS
<1> HIDE DEF e
<1>3. e \in RecordType /\ e.kind = "event"
  BY <1>1 DEF RecordType
<1>4. t \in Seq(RecordType) /\ Len(t) = 1 /\ t[1] = e
  BY <1>2, <1>3
<1>5. ~(\E k, m \in 1 .. Len(t) : m = k + 1)
  BY <1>4
<1>6. \A any : Fits(any, t[1])
  BY <1>3, <1>4 DEF Fits
<1> QED
  BY <1>4, <1>5, <1>6 DEF Chained, FollowsOn

LEMMA FunctionIsSequence ==
  ASSUME NEW S, NEW n \in Nat, NEW f \in [1 .. n -> S]
  PROVE  f \in Seq(S) /\ Len(f) = n
OBVIOUS

LEMMA DescriptorChained ==
  ASSUME NEW i \in Interfaces,
         NEW t, t = [n \in 1 .. Fragments[i] |-> Record("descriptor", i, n)]
  PROVE  Chained(t) /\ \A any : FollowsOn(any, t)
<1> DEFINE N == Fragments[i]
<1>1. N \in Nat
  BY Sizes
<1> HIDE DEF N
<1> DEFINE D(n) == Record("descriptor", i, n)
<1>2. ASSUME NEW n \in Nat
      PROVE  D(n) \in RecordType /\ D(n).kind = "descriptor" /\ D(n).offset = n
  BY DEF Record, RecordType
<1>3. ASSUME NEW m \in Nat, NEW k \in Nat, m = k + 1 PROVE Fits(D(k), D(m))
  <2>1. [D(m) EXCEPT !.offset = @ - 1] = [kind |-> "descriptor", itf |-> i, offset |-> m - 1]
    BY DEF Record
  <2>2. m - 1 = k
    BY <1>3
  <2>3. D(k) = [kind |-> "descriptor", itf |-> i, offset |-> k]
    BY DEF Record
  <2>4. D(k) = [D(m) EXCEPT !.offset = @ - 1]
    BY <2>1, <2>2, <2>3
  <2> HIDE DEF D
  <2> QED
    BY <2>4 DEF Fits
<1>4. t = [n \in 1 .. N |-> D(n)]
  BY DEF N
<1> HIDE DEF D
<1>5. t \in [1 .. N -> RecordType] /\ \A n \in 1 .. N : n \in Nat /\ t[n] = D(n)
  <2>1. \A n \in 1 .. N : n \in Nat
    BY <1>1
  <2>2. \A n \in 1 .. N : D(n) \in RecordType
    BY <1>2, <2>1
  <2>3. \A n \in 1 .. N : t[n] = D(n)
    BY <1>4
  <2>4. t = [n \in 1 .. N |-> t[n]]
    BY <1>4
  <2>5. t \in [1 .. N -> RecordType]
    BY <2>2, <2>3, <2>4
  <2> QED
    BY <2>1, <2>3, <2>5
<1>6. t \in Seq(RecordType) /\ Len(t) = N
  BY <1>1, <1>5, FunctionIsSequence
<1>7. ASSUME NEW k \in 1 .. N, NEW m \in 1 .. N, m = k + 1 PROVE Fits(t[k], t[m])
  <2>1. k \in Nat /\ m \in Nat /\ t[k] = D(k) /\ t[m] = D(m)
    BY <1>5
  <2>2. Fits(D(k), D(m))
    BY <1>3, <1>7, <2>1
  <2> QED
    BY <2>1, <2>2
<1>8. ASSUME NEW any, t # << >> PROVE Fits(any, t[1])
  <2>1. PICK n \in 1 .. N : n = 1
    <3>1. t \in Seq(RecordType) /\ t # << >>
      BY <1>6, <1>8
    <3>2. Len(t) # 0
      BY <3>1, EmptySeq
    <3>3. N \in Nat /\ N # 0
      BY <1>1, <1>6, <3>2
    <3> QED
      BY <3>3
  <2>2. n \in Nat /\ t[n] = D(n)
    BY <1>5
  <2>3. t[n].offset = n
    BY <1>2, <2>2
  <2>4. ~(t[n].offset > 1)
    BY <2>1, <2>3
  <2>5. Fits(any, t[n])
    BY <2>4 DEF Fits
  <2> QED
    BY <2>1, <2>5
<1> QED
  BY <1>6, <1>7, <1>8 DEF Chained, FollowsOn

LEMMA NextQueue ==
  ASSUME Chained(queue'), Len(queue') <= QUEUE_SIZE, fragment' \in RecordType, FollowsOn(fragment', queue')
  PROVE  QueueInv'
BY DEF QueueInv, Chained, FollowsOn, Fits, RecordType

\* A queues one event, a descriptor, or nothing.
LEMMA QueueingKeeps ==
  ASSUME QueueInv, UNCHANGED fragment,
         \/ UNCHANGED queue
         \/ queue' = AQueued(<< EventRecord >>)
         \/ \E i \in Interfaces :
              queue' = AQueued([n \in 1 .. Fragments[i] |-> Record("descriptor", i, n)])
  PROVE  QueueInv'
<1> USE NextQueue DEF QueueInv
<1>1. CASE UNCHANGED queue
  BY <1>1
<1>2. CASE queue' = AQueued(<< EventRecord >>)
  <2>1. Chained(queue') /\ Len(queue') <= QUEUE_SIZE /\ FollowsOn(fragment, queue')
    BY <1>2, EventChained, QueuedChained
  <2> QED
    BY <2>1
<1>3. ASSUME NEW i \in Interfaces,
             queue' = AQueued([n \in 1 .. Fragments[i] |-> Record("descriptor", i, n)])
      PROVE  QueueInv'
  <2> DEFINE t == [n \in 1 .. Fragments[i] |-> Record("descriptor", i, n)]
  <2>1. Chained(t) /\ \A any : FollowsOn(any, t)
    BY DescriptorChained
  <2>2. queue' = AQueued(t)
    BY <1>3
  <2> HIDE DEF t
  <2>3. Chained(queue') /\ Len(queue') <= QUEUE_SIZE /\ FollowsOn(fragment, queue')
    BY <2>1, <2>2, QueuedChained
  <2> QED
    BY <2>3
<1> QED
  BY <1>1, <1>2, <1>3

LEMMA HandlingKeepsQueue ==
  ASSUME BInv, QueueInv, serial_callback
  PROVE  QueueInv'
<1>1. UNCHANGED fragment
  BY DEF serial_callback, DeviceConnected, DeviceDisconnected, ReportReceived,
         CountersReceived, SnapshotReceived, EventReceived, AHandles, round
<1>2. CASE DeviceConnected
  <2>1. AHandles({"connected"}) /\ {"connected"} \in SUBSET OfInterface
    BY <1>2 DEF DeviceConnected, OfInterface
  <2>2. Head(line).itf \in Interfaces
    BY <2>1, HeadOfLine
  <2>3. \E i \in Interfaces :
          queue' = AQueued([n \in 1 .. Fragments[i] |-> Record("descriptor", i, n)])
    BY <1>2, <2>2 DEF DeviceConnected
  <2> QED
    BY <1>1, <2>3, QueueingKeeps
<1>3. CASE DeviceDisconnected \/ SnapshotReceived
  <2>1. UNCHANGED queue
    BY <1>3 DEF DeviceDisconnected, SnapshotReceived
  <2> QED
    BY <1>1, <2>1, QueueingKeeps
<1>4. CASE ReportReceived \/ CountersReceived \/ EventReceived
  <2>1. UNCHANGED queue \/ queue' = AQueued(<< EventRecord >>)
    BY <1>4 DEF ReportReceived, CountersReceived, EventReceived
  <2> QED
    BY <1>1, <2>1, QueueingKeeps
<1> QED
  BY <1>2, <1>3, <1>4 DEF serial_callback

LEMMA SendingKeepsQueue ==
  ASSUME QueueInv, send_hid_host_diagnostic_report
  PROVE  QueueInv'
<1>1. CASE SendQueued
  <2>1. /\ queue # << >> /\ queue' = Tail(queue)
        /\ fragment' = IF Head(queue).kind = "descriptor" THEN Head(queue) ELSE fragment
    BY <1>1 DEF SendQueued
  <2>2. /\ Chained(queue') /\ Len(queue') < Len(queue)
        /\ fragment' \in RecordType /\ FollowsOn(fragment', queue')
    BY <2>1, RestChained DEF QueueInv
  <2>3. Len(queue') \in Nat /\ Len(queue) \in Nat /\ Len(queue) <= QUEUE_SIZE /\ QUEUE_SIZE \in Nat
    BY <2>2, LenProperties, Sizes DEF QueueInv, Chained
  <2>4. Len(queue') <= QUEUE_SIZE
    BY <2>2, <2>3
  <2> QED
    BY <2>2, <2>4, NextQueue
<1>2. CASE ~SendQueued
  <2>1. UNCHANGED <<queue, fragment>>
    BY <1>2 DEF send_hid_host_diagnostic_report, Tick, SendHeartbeat, SendSnapshot,
                SendPorts, SendRefused, Unsent, a_stores
  <2> QED
    BY <2>1, QueueingKeeps
<1> QED
  BY <1>1, <1>2

\* The first of the queue fits what was shown before it.
LEMMA FirstFits ==
  ASSUME QueueInv, queue # << >>
  PROVE  FragmentFollows
<1>1. Head(queue) = queue[1]
  BY RestOfSequence DEF QueueInv, Chained
<1>2. Fits(fragment, queue[1])
  BY DEF QueueInv, FollowsOn
<1> QED
  BY <1>1, <1>2 DEF Fits, FragmentFollows

-----------------------------------------------------------------------------
(* Diagnostics: the theorems.                                              *)

DiagInv == BInv /\ AInv /\ RoundInv /\ QueueInv

LEMMA DiagInit ==
  ASSUME DiagnosticsInit
  PROVE  DiagInv
<1>1. BInv
  <2>1. contexts = [p \in BPlaces |-> NoInterface] /\ held = {} /\ scenario \in Scenarios
    BY DEF DiagnosticsInit
  <2>2. ContextsOnce
    BY <2>1 DEF ContextsOnce
  <2>3. pending_diagnostics = 0 /\ snapshots = {} /\ priority = << >> /\ line = << >>
    BY DEF DiagnosticsInit
  <2>4. priority \in Seq(Interfaces) /\ Len(priority) = 0 /\ line \in Seq(Frames) /\ Len(line) = 0
    BY <2>3, EmptySeq
  <2>5. Once(priority)
    BY <2>4 DEF Once
  <2> QED
    BY <2>1, <2>2, <2>3, <2>4, <2>5, Sizes DEF BInv
<1>2. AInv
  <2>1. a_contexts = [p \in APlaces |-> NoInterface] /\ latest = {} /\ usage_seen = {} /\ a_connected = {}
    BY DEF DiagnosticsInit
  <2> QED
    BY <2>1 DEF AInv
<1>3. RoundInv
  <2>1. pending = {} /\ cursor = PORTS + 1 /\ heartbeat_due = TRUE /\ owed = {} /\ owed_ports = {}
    BY DEF DiagnosticsInit
  <2> QED
    BY <2>1, Sizes DEF RoundInv
<1>4. QueueInv
  <2>1. queue = << >> /\ fragment = EventRecord
    BY DEF DiagnosticsInit
  <2>2. queue \in Seq(RecordType) /\ Len(queue) = 0
    BY <2>1, EmptySeq
  <2>3. fragment \in RecordType
    BY <2>1 DEF EventRecord, Record, RecordType
  <2> QED
    BY <2>1, <2>2, <2>3, Sizes DEF QueueInv, Chained, FollowsOn
<1> QED
  BY <1>1, <1>2, <1>3, <1>4 DEF DiagInv

\* What an action of B, or of the PC's side, leaves of A.
LEMMA SameA ==
  ASSUME AInv, UNCHANGED <<a_contexts, a_connected, latest, usage_seen>>
  PROVE  AInv'
BY DEF AInv, APlaces, Few

LEMMA ByB ==
  ASSUME DiagInv, B
  PROVE  DiagInv'
<1>1. UNCHANGED <<a_stores, usage_seen, round>>
  BY DEF B, tuh_hid_mount_cb, tuh_hid_umount_cb, tuh_diagnostic_event_cb,
         tuh_hid_report_received_cb, flush_pending_hid_reports,
         service_hid_host_priority_diagnostics, send_g700_health_probe,
         flush_pending_hid_host_diagnostics
<1>2. UNCHANGED <<a_contexts, latest, queue, a_connected, fragment>>
  BY <1>1 DEF a_stores, round
<1>3. BInv'
  BY BKeepsB DEF DiagInv
<1>4. AInv' /\ RoundInv'
  BY <1>1, <1>2, SameA, RoundKept DEF DiagInv
<1>5. QueueInv'
  BY <1>2, QueueingKeeps DEF DiagInv
<1> QED
  BY <1>3, <1>4, <1>5 DEF DiagInv

LEMMA ByLine ==
  ASSUME DiagInv, serial_callback
  PROVE  DiagInv'
<1>1. UNCHANGED <<usage_seen, round>>
  BY DEF serial_callback, DeviceConnected, DeviceDisconnected, ReportReceived,
         CountersReceived, SnapshotReceived, EventReceived, AHandles
<1>2. BInv' /\ AInv' /\ QueueInv'
  BY HandlingKeepsB, HandlingKeepsA, HandlingKeepsQueue DEF DiagInv
<1>3. RoundInv'
  BY <1>1, RoundKept DEF DiagInv
<1> QED
  BY <1>2, <1>3 DEF DiagInv

LEMMA ByUsage ==
  ASSUME DiagInv, ParsedUsage
  PROVE  DiagInv'
<1>1. PICK p \in 0 .. PORTS - 1 : usage_seen' = usage_seen \cup {p}
  BY DEF ParsedUsage
<1>2. /\ UNCHANGED <<scenario, b_vars, line, a_contexts, latest, a_connected, round>>
      /\ UNCHANGED queue \/ queue' = AQueued(<< EventRecord >>)
  BY DEF ParsedUsage
<1>3. UNCHANGED fragment
  BY <1>2 DEF round
<1>4. BInv'
  BY <1>2, TakingKeepsB DEF DiagInv
<1>5. AInv'
  BY <1>1, <1>2 DEF DiagInv, AInv, APlaces, Few
<1>6. RoundInv'
  BY <1>1, <1>2, RoundKept DEF DiagInv
<1>7. QueueInv'
  BY <1>2, <1>3, QueueingKeeps DEF DiagInv
<1> QED
  BY <1>4, <1>5, <1>6, <1>7 DEF DiagInv

LEMMA BySending ==
  ASSUME DiagInv, send_hid_host_diagnostic_report
  PROVE  DiagInv'
<1>1. UNCHANGED <<scenario, b_vars, line, a_contexts, latest, a_connected, usage_seen>>
  BY DEF send_hid_host_diagnostic_report, Tick, SendHeartbeat, SendSnapshot,
         SendPorts, SendQueued, SendRefused, Unsent, a_stores
<1>2. BInv' /\ AInv'
  BY <1>1, TakingKeepsB, SameA DEF DiagInv
<1>3. RoundInv' /\ QueueInv'
  BY <1>1, SendingKeepsRound, SendingKeepsQueue DEF DiagInv
<1> QED
  BY <1>2, <1>3 DEF DiagInv

LEMMA DiagStep ==
  ASSUME DiagInv, [DiagnosticsNext]_diagnostics_vars
  PROVE  DiagInv'
<1>1. CASE DiagnosticsNext
  BY <1>1, ByB, ByLine, ByUsage, BySending DEF DiagnosticsNext
<1>2. CASE UNCHANGED diagnostics_vars
  <2>1. UNCHANGED <<scenario, b_vars, line, a_stores, usage_seen, round>>
    BY <1>2 DEF diagnostics_vars
  <2>2. UNCHANGED <<a_contexts, latest, queue, a_connected, fragment>>
    BY <2>1 DEF a_stores, round
  <2>3. BInv' /\ AInv'
    BY <2>1, <2>2, TakingKeepsB, SameA DEF DiagInv
  <2>4. RoundInv' /\ QueueInv'
    BY <2>1, <2>2, RoundKept, QueueingKeeps DEF DiagInv
  <2> QED
    BY <2>3, <2>4 DEF DiagInv
<1> QED
  BY <1>1, <1>2

LEMMA DiagImplies ==
  ASSUME DiagInv
  PROVE  DiagnosticsInv
<1>1. DiagnosticsTypeOK
  BY DEF DiagInv, BInv, AInv, RoundInv, QueueInv, DiagnosticsTypeOK
<1>2. LaneIsOneSet
  <2>1. priority \in Seq(Interfaces) /\ Once(priority)
    BY DEF DiagInv, BInv
  <2>2. DOMAIN priority = 1 .. Len(priority)
    BY <2>1, LenProperties
  <2> QED
    BY <2>1, <2>2 DEF Once, LaneIsOneSet, IsInjective
<1>3. ConnectedHasContext
  <2> SUFFICES ASSUME Few, NEW i \in a_connected
               PROVE  Cardinality({p \in APlaces : a_contexts[p] = i}) = 1
    BY DEF ConnectedHasContext, Few
  <2>1. PICK p \in APlaces : a_contexts[p] = i
    BY DEF DiagInv, AInv
  <2>2. i # NoInterface
    BY Sizes DEF DiagInv, AInv
  <2>3. {q \in APlaces : a_contexts[q] = i} = {p}
    BY <2>1, <2>2 DEF DiagInv, AInv
  <2> QED
    BY <2>3, FS_Singleton
<1> QED
  BY <1>1, <1>2, <1>3 DEF DiagnosticsInv

\* An interface's counters have one place on each board: B's lane holds each interface once, and
\* as long as A has places for all, what it was told of has one context; whatever is plugged and
\* unplugged while the UART is full, for any number of interfaces and places.
THEOREM LaneAndContexts == DiagnosticsSpec => []DiagnosticsInv
<1>1. DiagnosticsInit => DiagInv
  BY DiagInit
<1>2. DiagInv /\ [DiagnosticsNext]_diagnostics_vars => DiagInv'
  BY DiagStep
<1>3. DiagInv => DiagnosticsInv
  BY DiagImplies
<1> QED
  BY <1>1, <1>2, <1>3, PTL DEF DiagnosticsSpec

\* The PC is shown a record of A's queue only when it was shown all the round began with, and a
\* fragment of a descriptor only after the one before it; for any number of fragments, ports and
\* places in the queue.
THEOREM QueueComesAfterRound == DiagnosticsSpec => QueueIsShownInOrder
<1>1. DiagnosticsInit => DiagInv
  BY DiagInit
<1>2. DiagInv /\ [DiagnosticsNext]_diagnostics_vars => DiagInv'
  BY DiagStep
<1>3. DiagInv /\ [DiagnosticsNext]_diagnostics_vars
      => [SendQueued => RoundIsOver /\ FragmentFollows]_diagnostics_vars
  <2> SUFFICES ASSUME DiagInv, SendQueued PROVE RoundIsOver /\ FragmentFollows
    OBVIOUS
  <2>1. queue # << >>
    BY DEF SendQueued
  <2> QED
    BY <2>1, QueuedAfterRound, FirstFits DEF DiagInv
<1> QED
  BY <1>1, <1>2, <1>3, PTL DEF DiagnosticsSpec, QueueIsShownInOrder
===============================================================================
