------------------------ MODULE WechatSessionProofs ------------------------
(***************************************************************************)
(* Proofs about the session with the WeChat application: its types         *)
(* (TypeCorrect), whole frames at the phone (FramesWhole), and one owner   *)
(* for every buffer (FreedOnceOnly, NothingLeaks), for every number of     *)
(* buffers, chunks of a frame and events waiting.                          *)
(*                                                                         *)
(* The inductive invariant has four parts, each proved from those before:  *)
(* the types with the bound on what waits; which link the session belongs  *)
(* to, which is a matter of the order of the inbox; that each chunk on the *)
(* air continues the one before; and who holds which buffer.               *)
(***************************************************************************)
EXTENDS WechatSession, SequenceTheorems, FiniteSetTheorems, TLAPS

-----------------------------------------------------------------------------
(* The inductive invariant                                                 *)

\* What the handlers keep of a frame: none, or a buffer of a whole frame.
FrameShape ==
    /\ send_data = NoFrame \/ (send_data.data \in Buffer /\ send_data.len = Chunks)
    /\ g_wechat = NULL => send_data = NoFrame

\* The bound is kept by every handler, which sends at most as much as it takes.
LoadInv == Load <= MaxLoad

TypeInv == TypeOK /\ FrameShape /\ LoadInv

\* Orders of the messages in a queue.
Holds(q, id) == \E i \in 1..Len(q) : q[i].id = id

Once(q, id) == \A i, j \in 1..Len(q) : q[i].id = id /\ q[j].id = id => i = j

Before(q, a, b) == \A i, j \in 1..Len(q) : q[i].id = a /\ q[j].id = b => i < j

\* The session of a BLE link that has ended is freed before another link comes.
Silent == g_wechat = NULL \/ g_wechat.type = "RFCOMM"

\* A session over BLE exists from the report of its link to the report of its
\* end; the links of a phone are reported one after the other.
LinkInv ==
    /\ ~att => air = <<>>
    /\ g_wechat # NULL /\ g_wechat.type = "RFCOMM" => g_wechat.connect_state
    /\ listening => /\ ~att /\ Silent
                    /\ ~Holds(inbox, "GATT_CONNECT_CFM")
                    /\ ~Holds(inbox, "GATT_DISCONNECT_IND")
    /\ att => ~Holds(inbox, "GATT_DISCONNECT_IND")
    /\ Holds(inbox, "GATT_CONNECT_CFM") => Silent
    /\ Once(inbox, "GATT_CONNECT_CFM") /\ Once(inbox, "GATT_DISCONNECT_IND")
    /\ Before(inbox, "GATT_CONNECT_CFM", "GATT_DISCONNECT_IND")

\* The chunk d continues what ends with chunk c.
Continues(c, d) ==
    /\ d.at = 0 => c.at + 1 >= Chunks
    /\ d.at > 0 => c.data = d.data /\ c.at + 1 = d.at

\* The last chunk requested on this link.
LastChunk == IF air = <<>> THEN heard ELSE air[Len(air)]

BetweenFrames == LastChunk.at + 1 >= Chunks

Undisturbed == att /\ ~overlapped /\ ~failed

\* What is on the air continues what the phone has heard, chunk by chunk.
Chained ==
    /\ ~torn
    /\ air # <<>> => Continues(heard, air[1])
    /\ \A i \in 1..(Len(air) - 1) : Continues(air[i], air[i + 1])

\* What the session would send next continues what it has sent.
Aligned ==
    /\ Holds(inbox, "GATT_CONNECT_CFM") => BetweenFrames
    /\ g_wechat # NULL /\ g_wechat.type = "NONE" => BetweenFrames
    /\ g_wechat # NULL /\ g_wechat.type = "BLE" =>
          IF send_data.offset = 0 THEN BetweenFrames
          ELSE /\ LastChunk.data = send_data.data
               /\ LastChunk.at + 1 = send_data.offset

ChunkInv == Undisturbed => Chained /\ Aligned

\* Packets on their way to the library's answer, and answers on their way back.
Queued(q, b) == \E i \in 1..Len(q) : q[i] = b

QueuedOnce(q) == \A i, j \in 1..Len(q) : q[i] = q[j] => i = j

Answers(m, b) == m.id = "WECHAT_SEND_PACKET_CFM" /\ m.packet = b

Answered(q, b) == \E i \in 1..Len(q) : Answers(q[i], b)

AnsweredOnce(q) ==
    \A i, j \in 1..Len(q) :
       /\ q[i].id = "WECHAT_SEND_PACKET_CFM" /\ q[j].id = "WECHAT_SEND_PACKET_CFM"
       /\ q[i].packet = q[j].packet
       => i = j

Packet(b) == Queued(rfcommOut, b) \/ Answered(inbox, b)

\* A packet is allocated, and handed over once.
PacketInv ==
    /\ \A b \in Buffer : Packet(b) => b \in heap
    /\ \A b \in Buffer : ~(Queued(rfcommOut, b) /\ Answered(inbox, b))
    /\ QueuedOnce(rfcommOut) /\ AnsweredOnce(inbox)

InSession == g_wechat # NULL /\ g_wechat.type # "RFCOMM"

\* The frame of a session over BLE is its own.
FrameInv ==
    InSession /\ send_data.data # NULL =>
        send_data.data \in heap /\ ~Packet(send_data.data)

\* Every buffer has an owner.
NoneLost == ~dropped => \A b \in heap : Packet(b) \/ (InSession /\ send_data.data = b)

\* Nothing makes a session over RFCOMM send what it has handed over once more.
Apart ==
    g_wechat # NULL /\ g_wechat.type = "RFCOMM" =>
        air = <<>> /\ timers = 0 /\ ~Holds(inbox, "GATT_INDICATION_CFM")

OwnerInv ==
    ~mixed => ~freedTwice /\ Apart /\ PacketInv /\ FrameInv /\ NoneLost

-----------------------------------------------------------------------------
(* Lemmas about messages and queues                                        *)

\* The fields of a message, and the messages that are sent.
LEMMA Messages ==
    /\ \A m \in Message :
          /\ m.id = "WECHAT_SEND_PACKET_CFM" => m.packet \in Buffer
          /\ m.id \in Event => m.ok \in BOOLEAN
    /\ \A id \in Event, ok \in BOOLEAN : [id |-> id, ok |-> ok] \in Message
    /\ [id |-> "GATT_INDICATION_CFM", ok |-> TRUE] \in Message
    /\ \A b \in Buffer : [id |-> "WECHAT_SEND_PACKET_CFM", packet |-> b] \in Message
BY DEF Message, Event

\* The inbox after a message has been taken from it.
LEMMA InboxTaken ==
    ASSUME inbox \in Seq(Message), inbox # <<>>, inbox' = Tail(inbox)
    PROVE  /\ inbox' \in Seq(Message) /\ Head(inbox) = inbox[1] /\ inbox[1] \in Message
           /\ Len(inbox) \in Nat \ {0} /\ Len(inbox') = Len(inbox) - 1
           /\ \A i \in 1..Len(inbox') : i + 1 \in 1..Len(inbox) /\ inbox'[i] = inbox[i + 1]
BY HeadTailProperties, EmptySeq, ElementOfSeq

\* The inbox after a message has been added to it.
LEMMA InboxAdded ==
    ASSUME inbox \in Seq(Message), NEW m \in Message, inbox' = Append(inbox, m)
    PROVE  /\ inbox' \in Seq(Message)
           /\ Len(inbox) \in Nat /\ Len(inbox') = Len(inbox) + 1
           /\ \A i \in 1..Len(inbox') :
                 inbox'[i] = IF i = Len(inbox) + 1 THEN m ELSE inbox[i]
BY AppendProperties, LenProperties

Timed == Event \cup {"GATT_INDICATION_CFM"}

\* What waits is finite.
LEMMA WaitingFinite ==
    ASSUME inbox \in Seq(Message)
    PROVE  IsFiniteSet(Waiting(Timed)) /\ Cardinality(Waiting(Timed)) \in Nat
<1>1. IsFiniteSet(1..Len(inbox))
  BY FS_Interval, LenProperties
<1>2. Waiting(Timed) \in SUBSET (1..Len(inbox))
  BY DEF Waiting
<1> QED
  BY <1>1, <1>2, FS_Subset, FS_CardinalityType

\* A message added adds itself to the load.
LEMMA WaitingAdded ==
    ASSUME inbox \in Seq(Message), NEW m \in Message, inbox' = Append(inbox, m)
    PROVE  Cardinality(Waiting(Timed)') =
               IF m.id \in Timed THEN Cardinality(Waiting(Timed)) + 1
                                 ELSE Cardinality(Waiting(Timed))
<1> DEFINE q == inbox
           r == inbox'
           W == Waiting(Timed)
           V == Waiting(Timed)'
<1>1. /\ Len(q) \in Nat /\ Len(r) = Len(q) + 1
      /\ \A i \in 1..Len(r) : r[i] = IF i = Len(q) + 1 THEN m ELSE q[i]
  BY InboxAdded
<1>2. CASE m.id \in Timed
  <2>1. V = W \cup {Len(q) + 1}
    BY <1>1, <1>2 DEF Waiting
  <2>2. Len(q) + 1 \notin W
    BY <1>1 DEF Waiting
  <2> QED
    BY <1>2, <2>1, <2>2, WaitingFinite, FS_AddElement
<1>3. CASE m.id \notin Timed
  <2>1. V = W
    BY <1>1, <1>3 DEF Waiting
  <2> QED
    BY <1>3, <2>1
<1> QED
  BY <1>2, <1>3

\* A message taken leaves the others, one place nearer.
LEMMA WaitingTaken ==
    ASSUME inbox \in Seq(Message), inbox # <<>>, inbox' = Tail(inbox)
    PROVE  /\ Cardinality(Waiting(Timed)') \in Nat
           /\ Cardinality(Waiting(Timed)') <=
               IF Head(inbox).id \in Timed THEN Cardinality(Waiting(Timed)) - 1
                                           ELSE Cardinality(Waiting(Timed))
<1> DEFINE q == inbox
           r == inbox'
           W == Waiting(Timed)
           V == Waiting(Timed)'
           up == [k \in W \ {1} |-> k - 1]
<1>1. /\ Len(q) \in Nat \ {0} /\ Len(r) = Len(q) - 1 /\ Head(q) = q[1]
      /\ \A i \in 1..Len(r) : r[i] = q[i + 1]
  BY InboxTaken
<1>2. /\ IsFiniteSet(W \ {1})
      /\ Cardinality(W \ {1}) = IF 1 \in W THEN Cardinality(W) - 1 ELSE Cardinality(W)
  BY WaitingFinite, FS_RemoveElement
<1>3. 1 \in W <=> Head(inbox).id \in Timed
  BY <1>1 DEF Waiting
<1>4. up \in Surjection(W \ {1}, V)
  <2>1. \A k \in W \ {1} : k - 1 \in V
    BY <1>1 DEF Waiting
  <2>2. \A k \in V : k + 1 \in W \ {1} /\ up[k + 1] = k
    BY <1>1 DEF Waiting
  <2> QED
    BY <2>1, <2>2, Zenon DEF Surjection
<1>5. Cardinality(V) <= Cardinality(W \ {1}) /\ IsFiniteSet(V)
  BY <1>2, <1>4, FS_Surjection
<1>6. Cardinality(V) \in Nat
  BY <1>5, FS_CardinalityType
<1> QED
  BY <1>2, <1>3, <1>5, <1>6, WaitingFinite

-----------------------------------------------------------------------------
(* Types                                                                   *)

Flags == {panicked, torn, overlapped, failed, mixed, dropped, freedTwice} \subseteq BOOLEAN

\* A new frame: its buffer was free, and the load grows by one chunk at most.
LEMMA PackTyped ==
    ASSUME TypeInv, NEW type, PackAndSend(type)
    PROVE  /\ heap' \subseteq Buffer
           /\ send_data' \in Frame /\ send_data'.offset <= send_data'.len
           /\ send_data'.data \in Buffer /\ send_data'.len = Chunks
           /\ indication' \in {"none", "wechat"}
           /\ air' \in Seq(Chunk) /\ Len(air') <= Len(air) + 1
           /\ rfcommOut' \in Seq(Buffer)
<1>0. Chunks \in Nat \ {0}
  BY BoundAssumption
<1>1. /\ heap \subseteq Buffer /\ indication \in {"none", "wechat"}
      /\ air \in Seq(Chunk) /\ rfcommOut \in Seq(Buffer)
  BY DEF TypeInv, TypeOK
<1>2. PICK b \in Buffer \ heap :
         /\ heap' = heap \cup {b}
         /\ \/ /\ send_data' = [data |-> b, len |-> Chunks, offset |-> 1]
               /\ indication' = "wechat" /\ GattIndicationRequest(b, 0)
               /\ UNCHANGED rfcommOut
            \/ /\ send_data' = [data |-> b, len |-> Chunks, offset |-> 0]
               /\ WechatSendPacket(b) /\ UNCHANGED <<indication, air>>
            \/ /\ send_data' = [data |-> b, len |-> Chunks, offset |-> 0]
               /\ UNCHANGED <<indication, air, rfcommOut>>
  BY DEF PackAndSend
<1>3. send_data' \in {[data |-> b, len |-> Chunks, offset |-> 0],
                      [data |-> b, len |-> Chunks, offset |-> 1]}
  BY <1>2
<1>4. /\ send_data' \in Frame /\ send_data'.offset <= send_data'.len
      /\ send_data'.data \in Buffer /\ send_data'.len = Chunks
  BY <1>0, <1>3 DEF Frame
<1>5. [data |-> b, at |-> 0] \in Chunk
  BY <1>0 DEF Chunk
<1>6. air' \in {air, Append(air, [data |-> b, at |-> 0])}
  BY <1>2 DEF GattIndicationRequest
<1>7. air' \in Seq(Chunk) /\ Len(air') <= Len(air) + 1
  BY <1>1, <1>5, <1>6, AppendProperties, LenProperties
<1>8. rfcommOut' \in {rfcommOut, Append(rfcommOut, b)}
  BY <1>2 DEF WechatSendPacket
<1>9. rfcommOut' \in Seq(Buffer)
  BY <1>1, <1>8, AppendProperties
<1> QED
  BY <1>1, <1>2, <1>4, <1>7, <1>9

\* The next chunk of the frame, its end, or the packet once more.
LEMMA SendTyped ==
    ASSUME TypeInv, SendData
    PROVE  /\ heap' \subseteq Buffer
           /\ send_data' \in Frame /\ send_data'.offset <= send_data'.len
           /\ send_data' = NoFrame \/ (send_data'.data \in Buffer /\ send_data'.len = Chunks)
           /\ indication' \in {"none", "wechat"}
           /\ air' \in Seq(Chunk) /\ Len(air') <= Len(air) + 1
           /\ rfcommOut' \in Seq(Buffer)
<1>0. Chunks \in Nat \ {0}
  BY BoundAssumption
<1>1. /\ heap \subseteq Buffer /\ indication \in {"none", "wechat"}
      /\ air \in Seq(Chunk) /\ rfcommOut \in Seq(Buffer)
      /\ send_data \in Frame /\ send_data.offset <= send_data.len
      /\ send_data = NoFrame \/ (send_data.data \in Buffer /\ send_data.len = Chunks)
  BY DEF TypeInv, TypeOK, FrameShape
<1>2. CASE /\ ChunkLeft /\ indication' = "wechat"
           /\ GattIndicationRequest(send_data.data, send_data.offset)
           /\ send_data' = [send_data EXCEPT !.offset = NextOffset]
           /\ UNCHANGED <<heap, rfcommOut>>
  <2>1. send_data.data \in Buffer /\ send_data.len = Chunks
    BY <1>1, <1>2 DEF ChunkLeft, NoFrame
  <2>2. send_data.offset \in 0..(Chunks - 1)
    BY <1>0, <1>1, <1>2, <2>1 DEF ChunkLeft, Frame
  <2>3. /\ send_data' \in Frame /\ send_data'.offset <= send_data'.len
        /\ send_data'.data \in Buffer /\ send_data'.len = Chunks
    BY <1>0, <1>1, <1>2, <2>1, <2>2 DEF NextOffset, Frame
  <2>4. [data |-> send_data.data, at |-> send_data.offset] \in Chunk
    BY <1>0, <2>1, <2>2 DEF Chunk
  <2>5. air' \in {air, Append(air, [data |-> send_data.data, at |-> send_data.offset])}
    BY <1>2 DEF GattIndicationRequest
  <2>6. air' \in Seq(Chunk) /\ Len(air') <= Len(air) + 1
    BY <1>1, <2>4, <2>5, AppendProperties, LenProperties
  <2> QED
    BY <1>1, <1>2, <2>3, <2>6
<1>3. CASE /\ indication' = "none" /\ heap' = heap \ {send_data.data}
           /\ send_data' = NoFrame
           /\ UNCHANGED <<air, rfcommOut>>
  <2>1. NoFrame \in Frame /\ NoFrame.offset <= NoFrame.len
    BY <1>0 DEF NoFrame, Frame
  <2> QED
    BY <1>1, <1>3, <2>1, LenProperties
<1>4. CASE /\ send_data.data # NULL /\ WechatSendPacket(send_data.data)
           /\ UNCHANGED <<air, heap, indication, send_data>>
  <2>1. send_data.data \in Buffer
    BY <1>1, <1>4 DEF NoFrame
  <2> QED
    BY <1>1, <1>4, <2>1, AppendProperties, LenProperties DEF WechatSendPacket
<1>5. CASE UNCHANGED <<air, heap, indication, send_data, rfcommOut>>
  BY <1>1, <1>5, LenProperties
<1> QED
  BY <1>2, <1>3, <1>4, <1>5 DEF SendData

\* The type invariant by what the handlers change together.
SessionTyped ==
    /\ g_wechat \in Session \cup {NULL}
    /\ send_data \in Frame /\ send_data.offset <= send_data.len
    /\ indication \in {"none", "wechat"} /\ heap \subseteq Buffer
    /\ FrameShape

QueueTyped ==
    /\ inbox \in Seq(Message) /\ timers \in 0..MaxLoad /\ air \in Seq(Chunk)
    /\ LoadInv

LibTyped ==
    /\ att \in BOOLEAN /\ listening \in BOOLEAN /\ ble_adv \in BOOLEAN
    /\ rfcomm \in {"free", "up", "closing"} /\ rfcommOut \in Seq(Buffer)
    /\ heard.data \in Buffer \cup {NULL} /\ heard.at \in 0..Chunks

\* The parts of the type invariant.
LEMMA TypeParts == TypeInv <=> SessionTyped /\ QueueTyped /\ LibTyped /\ Flags
BY DEF TypeInv, TypeOK, SessionTyped, QueueTyped, LibTyped, Flags

\* A message is taken, and at most as much is sent as it counted.
LEMMA LoadTaken ==
    ASSUME TypeInv, inbox # <<>>, inbox' = Tail(inbox), timers' \in Nat,
           air' \in Seq(Chunk),
           \/ Head(inbox).id \in Timed /\ Len(air') + timers' <= Len(air) + timers + 1
           \/ Len(air') + timers' <= Len(air) + timers
    PROVE  QueueTyped'
<1>1. /\ inbox \in Seq(Message) /\ timers \in 0..MaxLoad /\ air \in Seq(Chunk)
      /\ MaxLoad \in Nat
      /\ Len(air) + timers + Cardinality(Waiting(Timed)) <= MaxLoad
  BY BoundAssumption DEF TypeInv, TypeOK, LoadInv, Load, Timed
<1>2. /\ Cardinality(Waiting(Timed)) \in Nat /\ Cardinality(Waiting(Timed)') \in Nat
      /\ Cardinality(Waiting(Timed)') <=
             IF Head(inbox).id \in Timed THEN Cardinality(Waiting(Timed)) - 1
                                         ELSE Cardinality(Waiting(Timed))
  BY <1>1, WaitingFinite, WaitingTaken
<1>3. Len(air) \in Nat /\ Len(air') \in Nat
  BY <1>1, LenProperties
<1>4. /\ Len(air') + timers' + Cardinality(Waiting(Timed)') <= MaxLoad
      /\ timers' \in 0..MaxLoad
  BY <1>1, <1>2, <1>3
<1>5. LoadInv'
  BY <1>4 DEF LoadInv, Load, Timed
<1>6. inbox' \in Seq(Message)
  BY <1>1, InboxTaken
<1> QED
  BY <1>4, <1>5, <1>6 DEF QueueTyped

\* A message is added: a chunk leaves the air for it, or there was room.
LEMMA LoadAdded ==
    ASSUME TypeInv, NEW m \in Message, inbox' = Append(inbox, m), timers' = timers,
           air' \in Seq(Chunk),
           \/ m.id \notin Timed /\ Len(air') <= Len(air)
           \/ Len(air') + 1 <= Len(air)
           \/ Len(air') <= Len(air) /\ Load < MaxLoad
    PROVE  QueueTyped'
<1>1. /\ inbox \in Seq(Message) /\ timers \in 0..MaxLoad /\ air \in Seq(Chunk)
      /\ MaxLoad \in Nat
      /\ Len(air) + timers + Cardinality(Waiting(Timed)) <= MaxLoad
      /\ Load = Len(air) + timers + Cardinality(Waiting(Timed))
  BY BoundAssumption DEF TypeInv, TypeOK, LoadInv, Load, Timed
<1>2. /\ Cardinality(Waiting(Timed)) \in Nat
      /\ Cardinality(Waiting(Timed)') =
               IF m.id \in Timed THEN Cardinality(Waiting(Timed)) + 1
                                 ELSE Cardinality(Waiting(Timed))
  BY <1>1, WaitingFinite, WaitingAdded
<1>3. Len(air) \in Nat /\ Len(air') \in Nat
  BY <1>1, LenProperties
<1>4. Len(air') + timers' + Cardinality(Waiting(Timed)') <= MaxLoad
  BY <1>1, <1>2, <1>3
<1>5. LoadInv'
  BY <1>4 DEF LoadInv, Load, Timed
<1>6. inbox' \in Seq(Message)
  BY <1>1, InboxAdded
<1> QED
  BY <1>1, <1>5, <1>6 DEF QueueTyped

\* No message: timers and chunks are exchanged, or there was room.
LEMMA LoadSame ==
    ASSUME TypeInv, inbox' = inbox, timers' \in Nat, air' \in Seq(Chunk),
           \/ Len(air') + timers' <= Len(air) + timers
           \/ Len(air') + timers' <= Len(air) + timers + 1 /\ Load < MaxLoad
    PROVE  QueueTyped'
<1>1. /\ inbox \in Seq(Message) /\ timers \in 0..MaxLoad /\ air \in Seq(Chunk)
      /\ MaxLoad \in Nat
      /\ Len(air) + timers + Cardinality(Waiting(Timed)) <= MaxLoad
      /\ Load = Len(air) + timers + Cardinality(Waiting(Timed))
  BY BoundAssumption DEF TypeInv, TypeOK, LoadInv, Load, Timed
<1>2. /\ Cardinality(Waiting(Timed)) \in Nat
      /\ Cardinality(Waiting(Timed)') = Cardinality(Waiting(Timed))
  BY <1>1, WaitingFinite DEF Waiting
<1>3. Len(air) \in Nat /\ Len(air') \in Nat
  BY <1>1, LenProperties
<1>4. /\ Len(air') + timers' + Cardinality(Waiting(Timed)') <= MaxLoad
      /\ timers' \in 0..MaxLoad
  BY <1>1, <1>2, <1>3
<1>5. LoadInv'
  BY <1>4 DEF LoadInv, Load, Timed
<1> QED
  BY <1>1, <1>4, <1>5 DEF QueueTyped

\* The headset starts with every variable in its type.
LEMMA InitTypeInv == Init => TypeInv
<1> SUFFICES ASSUME Init PROVE TypeInv
  OBVIOUS
<1>0. Chunks \in Nat \ {0} /\ MaxLoad \in Nat \ {0}
  BY BoundAssumption
<1>1. SessionTyped
  BY <1>0 DEF Init, SessionTyped, FrameShape, NoFrame, Frame
<1>2. QueueTyped
  <2>1. inbox \in Seq(Message) /\ air \in Seq(Chunk) /\ timers \in 0..MaxLoad
    BY <1>0, EmptySeq DEF Init
  <2>2. Waiting(Timed) = {}
    BY DEF Init, Waiting
  <2>3. Len(air) = 0 /\ timers = 0 /\ Cardinality(Waiting(Timed)) = 0
    BY <2>2, FS_EmptySet DEF Init
  <2> QED
    BY <1>0, <2>1, <2>3 DEF QueueTyped, LoadInv, Load, Timed
<1>3. LibTyped
  <2>1. att \in BOOLEAN /\ listening \in BOOLEAN /\ ble_adv \in BOOLEAN
    BY Zenon DEF Init
  <2>2. rfcommOut \in Seq(Buffer) /\ rfcomm \in {"free", "up", "closing"}
    BY EmptySeq DEF Init
  <2>3. heard.data \in Buffer \cup {NULL} /\ heard.at \in 0..Chunks
    BY <1>0 DEF Init
  <2> QED
    BY <2>1, <2>2, <2>3 DEF LibTyped
<1>4. Flags
  BY DEF Init, Flags
<1> QED
  BY <1>1, <1>2, <1>3, <1>4, TypeParts

\* Histories stay truth values.
LEMMA FlagsKept ==
    ASSUME TypeInv, Next
    PROVE  Flags'
<1>1. Flags
  BY TypeParts
<1>2. CASE AppHandler
  BY <1>1, <1>2, Zenon
     DEF AppHandler, HandleGattConnectCfm, HandleClientConfig, HandleGattDisconnectInd,
         HandleGattIndicationCfm, HandleWechatConnectInd, HandleWechatDisconnectInd,
         HandleWechatSendPacketCfm, RcvWithoutSession, RcvRespAuth, RcvRespInit,
         RcvPushRecvData, Handle, NotePack, SendData, historyVars, Flags
<1>3. CASE RepeatSendIndication \/ Report \/ ButtonCDoubleClick \/ DisableBleAdvertising
  BY <1>1, <1>3, Zenon
     DEF RepeatSendIndication, Report, ButtonCDoubleClick, DisableBleAdvertising,
         NotePack, SendData, sessionVars, historyVars, Flags
<1>4. CASE BleConnect \/ BleSubscribe \/ BleDisconnect \/ BleConfirm \/ BleFail
  BY <1>1, <1>4, Zenon
     DEF BleConnect, BleSubscribe, BleDisconnect, BleConfirm, BleFail, Deliver,
         libVars, historyVars, Flags
<1>5. CASE RfcommConnect \/ RfcommDisconnect \/ WechatDisconnect \/ RfcommSendPacket \/ PhoneSends
  BY <1>1, <1>5, Zenon
     DEF RfcommConnect, RfcommDisconnect, WechatDisconnect, RfcommSendPacket, PhoneSends,
         Deliver, libVars, historyVars, Flags
<1>6. CASE Fatal \/ HeapTrap \/ Reboot
  BY <1>1, <1>6, Zenon
     DEF Fatal, StrayAccess, NoMemory, HeapTrap, Reboot, historyVars, Flags
<1> QED
  BY <1>2, <1>3, <1>4, <1>5, <1>6 DEF Next

\* The session, its frame and the buffers.
LEMMA SessionTypedKept ==
    ASSUME TypeInv, Next
    PROVE  SessionTyped'
<1>0. /\ SessionTyped /\ QueueTyped
      /\ Chunks \in Nat \ {0} /\ NewSession \in Session
      /\ NoFrame \in Frame /\ NoFrame.offset <= NoFrame.len /\ NoFrame.len = 0
  BY BoundAssumption, TypeParts DEF NewSession, Session, NoFrame, Frame
<1>1. ASSUME UNCHANGED sessionVars PROVE SessionTyped'
  BY <1>0, <1>1 DEF sessionVars, SessionTyped, FrameShape
<1>2. ASSUME send_data' = NoFrame, g_wechat' \in {NULL, NewSession},
             UNCHANGED <<indication, heap>>
      PROVE  SessionTyped'
  BY <1>0, <1>2 DEF SessionTyped, FrameShape
<1>3. ASSUME NEW type, PackAndSend(type), g_wechat' \in Session, g_wechat' # NULL
      PROVE  SessionTyped'
  BY <1>0, <1>3, PackTyped DEF SessionTyped, FrameShape
<1>4. ASSUME SendData, g_wechat' = g_wechat, g_wechat # NULL
      PROVE  SessionTyped'
  BY <1>0, <1>4, SendTyped DEF SessionTyped, FrameShape
<1>5. ASSUME g_wechat' \in Session, g_wechat # NULL, g_wechat' # NULL,
             UNCHANGED <<send_data, indication, heap>>
      PROVE  SessionTyped'
  BY <1>0, <1>5 DEF SessionTyped, FrameShape
<1>6. ASSUME HandleGattConnectCfm \/ HandleGattDisconnectInd \/ HandleWechatDisconnectInd
      PROVE  SessionTyped'
  BY <1>2, <1>6 DEF HandleGattConnectCfm, HandleGattDisconnectInd, HandleWechatDisconnectInd
<1>7. ASSUME HandleClientConfig PROVE SessionTyped'
  <2>1. g_wechat \in Session /\ g_wechat # NULL
    BY <1>0, <1>7 DEF HandleClientConfig, SessionTyped
  <2>2. CASE UNCHANGED sessionVars
    BY <1>1, <2>2
  <2>3. CASE /\ g_wechat' = [g_wechat EXCEPT !.connect_state = TRUE, !.type = "BLE"]
             /\ \/ PackAndSend("BLE")
                \/ /\ UNCHANGED indication
                   /\ \E b \in Buffer \ heap :
                         /\ heap' = heap \cup {b}
                         /\ send_data' = [data |-> b, len |-> Chunks, offset |-> 0]
    <3>1. g_wechat' \in Session /\ g_wechat' # NULL
      BY <2>1, <2>3, NullAssumption DEF Session
    <3>2. CASE PackAndSend("BLE")
      BY <1>3, <3>1, <3>2
    <3>3. ASSUME NEW b \in Buffer \ heap, heap' = heap \cup {b},
                 send_data' = [data |-> b, len |-> Chunks, offset |-> 0],
                 UNCHANGED indication
          PROVE  SessionTyped'
      <4>1. /\ send_data' \in Frame /\ send_data'.offset <= send_data'.len
            /\ send_data'.data \in Buffer /\ send_data'.len = Chunks
        BY <1>0, <3>3 DEF Frame
      <4> QED
        BY <1>0, <3>1, <3>3, <4>1 DEF SessionTyped, FrameShape
    <3> QED
      BY <2>3, <3>2, <3>3
  <2> QED
    BY <1>7, <2>2, <2>3 DEF HandleClientConfig
<1>8. ASSUME HandleGattIndicationCfm \/ RepeatSendIndication PROVE SessionTyped'
  <2>1. CASE SendData /\ g_wechat' = g_wechat /\ g_wechat # NULL
    BY <1>4, <2>1
  <2>2. CASE UNCHANGED sessionVars
    BY <1>1, <2>2
  <2> QED
    BY <1>8, <2>1, <2>2 DEF HandleGattIndicationCfm, RepeatSendIndication, sessionVars
<1>9. ASSUME HandleWechatConnectInd PROVE SessionTyped'
  <2>1. g_wechat' \in Session /\ g_wechat' # NULL
    BY <1>9, NullAssumption DEF HandleWechatConnectInd, NewSession, Session
  <2> QED
    BY <1>3, <1>9, <2>1 DEF HandleWechatConnectInd
<1>10. ASSUME HandleWechatSendPacketCfm PROVE SessionTyped'
  BY <1>0, <1>10 DEF HandleWechatSendPacketCfm, FreePacket, SessionTyped, FrameShape
<1>11. ASSUME RcvRespAuth \/ RcvRespInit \/ RcvPushRecvData \/ Report PROVE SessionTyped'
  <2>1. g_wechat \in Session /\ g_wechat # NULL
    BY <1>0, <1>11 DEF RcvRespAuth, RcvRespInit, RcvPushRecvData, Report, SessionTyped
  <2>2. CASE RcvRespAuth \/ RcvRespInit
    <3>1. inbox # <<>> /\ Head(inbox).id \in Event
      BY <2>2 DEF RcvRespAuth, RcvRespInit, Handle, Event
    <3>2. Head(inbox).ok \in BOOLEAN
      BY <1>0, <3>1, Messages, HeadTailProperties DEF QueueTyped
    <3>3. \A a, i \in BOOLEAN :
             /\ [g_wechat EXCEPT !.auth_state = a] \in Session
             /\ [g_wechat EXCEPT !.init_state = i] \in Session
      BY <2>1 DEF Session
    <3>4. (g_wechat.auth_state \/ Head(inbox).ok) \in BOOLEAN
          /\ (g_wechat.init_state \/ Head(inbox).ok) \in BOOLEAN
      BY Zenon
    <3>5. CASE g_wechat' = [g_wechat EXCEPT !.auth_state = g_wechat.auth_state \/ Head(inbox).ok]
      <4>1. g_wechat' \in Session /\ g_wechat' # NULL
        BY <3>3, <3>4, <3>5, NullAssumption
      <4>2. CASE PackAndSend(g_wechat.type)
        BY <1>3, <4>1, <4>2
      <4>3. CASE UNCHANGED <<send_data, indication, heap>>
        BY <1>5, <2>1, <4>1, <4>3
      <4> QED
        BY <2>2, <3>5, <4>2, <4>3 DEF RcvRespAuth, RcvRespInit
    <3>6. CASE RcvRespInit
      <4>1. g_wechat' = [g_wechat EXCEPT !.init_state = g_wechat.init_state \/ Head(inbox).ok]
        BY <3>6 DEF RcvRespInit
      <4>2. g_wechat' \in Session /\ g_wechat' # NULL
        BY <3>3, <3>4, <4>1, NullAssumption
      <4> QED
        BY <1>5, <2>1, <3>6, <4>2 DEF RcvRespInit
    <3> QED
      BY <2>2, <3>5, <3>6 DEF RcvRespAuth
  <2>3. CASE (RcvPushRecvData \/ Report) /\ PackAndSend(g_wechat.type)
    BY <1>3, <2>1, <2>3 DEF RcvPushRecvData, Report
  <2>4. CASE RcvPushRecvData /\ ~PackAndSend(g_wechat.type)
    BY <1>1, <2>4 DEF RcvPushRecvData, sessionVars
  <2> QED
    BY <1>11, <2>2, <2>3, <2>4 DEF Report
<1>12. ASSUME Reboot PROVE SessionTyped'
  BY <1>0, <1>12 DEF Reboot, SessionTyped, FrameShape
<1>13. CASE UNCHANGED sessionVars
  BY <1>1, <1>13
<1>14. RcvWithoutSession \/ ButtonCDoubleClick \/ DisableBleAdvertising
       \/ BleConnect \/ BleSubscribe \/ BleDisconnect \/ BleConfirm \/ BleFail
       \/ RfcommConnect \/ RfcommDisconnect \/ WechatDisconnect \/ RfcommSendPacket
       \/ PhoneSends \/ Fatal \/ HeapTrap => UNCHANGED sessionVars
  BY DEF RcvWithoutSession, ButtonCDoubleClick, DisableBleAdvertising, BleConnect,
         BleSubscribe, BleDisconnect, BleConfirm, BleFail, RfcommConnect,
         RfcommDisconnect, WechatDisconnect, RfcommSendPacket, PhoneSends, Fatal,
         StrayAccess, NoMemory, HeapTrap, Deliver
<1> QED
  BY <1>6, <1>7, <1>8, <1>9, <1>10, <1>11, <1>12, <1>13, <1>14 DEF Next, AppHandler

\* Messages, timers and the air: the load stays within its bound.
LEMMA QueueTypedKept ==
    ASSUME TypeInv, Next
    PROVE  QueueTyped'
<1>0. /\ QueueTyped /\ Len(air) \in Nat /\ timers \in Nat /\ air \in Seq(Chunk)
  <2>1. QueueTyped
    BY TypeParts
  <2> QED
    BY <2>1, LenProperties, BoundAssumption DEF QueueTyped
<1>1. ASSUME NEW id, Handle(id), id \in Timed, timers' = timers, air' = air
      PROVE  QueueTyped'
  BY <1>0, <1>1, LoadTaken DEF Handle
<1>2. ASSUME NEW id, Handle(id), id \in Timed, timers' = timers, NEW type, PackAndSend(type)
      PROVE  QueueTyped'
  <2>1. Len(air') \in Nat /\ air' \in Seq(Chunk) /\ Len(air') <= Len(air) + 1
    BY <1>2, PackTyped, LenProperties
  <2> QED
    BY <1>0, <1>2, <2>1, LoadTaken DEF Handle
<1>3. ASSUME inbox' = inbox, timers' = timers, air' = air
      PROVE  QueueTyped'
  BY <1>0, <1>3, LoadSame
<1>4. ASSUME NEW id \in Event, NEW ok \in BOOLEAN, Deliver(id, ok),
             air' \in {air, <<>>}
      PROVE  QueueTyped'
  <2>1. [id |-> id, ok |-> ok] \in Message
    BY Messages
  <2>3. <<>> \in Seq(Chunk) /\ Len(<<>>) = 0
    BY EmptySeq
  <2>2. air' \in Seq(Chunk) /\ Len(air') <= Len(air)
    <3>1. air' = air \/ air' = <<>>
      BY <1>4
    <3>2. CASE air' = air
      BY <1>0, <3>2
    <3>3. CASE air' = <<>>
      BY <1>0, <2>3, <3>3
    <3> QED
      BY <3>1, <3>2, <3>3
  <2> QED
    BY <1>4, <2>1, <2>2, LoadAdded DEF Deliver
<1>5. ASSUME HandleGattConnectCfm \/ HandleGattDisconnectInd \/ HandleWechatDisconnectInd
             \/ RcvWithoutSession \/ RcvRespInit
      PROVE  QueueTyped'
  BY <1>1, <1>5
     DEF HandleGattConnectCfm, HandleGattDisconnectInd, HandleWechatDisconnectInd,
         RcvWithoutSession, RcvRespInit, Timed, Event
<1>6. ASSUME HandleClientConfig PROVE QueueTyped'
  <2>1. CASE UNCHANGED <<timers, air>>
    BY <1>1, <1>6, <2>1 DEF HandleClientConfig, Timed, Event
  <2>2. CASE PackAndSend("BLE") /\ UNCHANGED timers
    BY <1>2, <1>6, <2>2 DEF HandleClientConfig, Timed, Event
  <2>3. CASE timers' = timers + 1 /\ UNCHANGED air
    BY <1>0, <1>6, <2>3, LoadTaken DEF HandleClientConfig, Handle, Timed, Event
  <2> QED
    BY <1>6, <2>1, <2>2, <2>3 DEF HandleClientConfig, RepeatLater
<1>7. ASSUME HandleGattIndicationCfm PROVE QueueTyped'
  <2>1. Handle("GATT_INDICATION_CFM") /\ timers' = timers /\ "GATT_INDICATION_CFM" \in Timed
    BY <1>7 DEF HandleGattIndicationCfm, Timed
  <2>2. CASE UNCHANGED air
    BY <1>1, <2>1, <2>2
  <2>3. CASE SendData
    <3>1. Len(air') \in Nat /\ air' \in Seq(Chunk) /\ Len(air') <= Len(air) + 1
      BY <2>3, SendTyped, LenProperties
    <3> QED
      BY <1>0, <2>1, <3>1, LoadTaken DEF Handle
  <2> QED
    BY <1>7, <2>2, <2>3 DEF HandleGattIndicationCfm
<1>8. ASSUME RepeatSendIndication PROVE QueueTyped'
  <2>1. timers' = timers - 1 /\ timers > 0 /\ inbox' = inbox /\ SendData
    BY <1>8 DEF RepeatSendIndication
  <2>2. Len(air') \in Nat /\ air' \in Seq(Chunk) /\ Len(air') <= Len(air) + 1
    BY <2>1, SendTyped, LenProperties
  <2> QED
    BY <1>0, <2>1, <2>2, LoadSame
<1>9. ASSUME HandleWechatConnectInd PROVE QueueTyped'
  BY <1>2, <1>9 DEF HandleWechatConnectInd, Timed, Event
<1>10. ASSUME HandleWechatSendPacketCfm PROVE QueueTyped'
  BY <1>0, <1>10, LoadTaken DEF HandleWechatSendPacketCfm, Handle
<1>11. ASSUME RcvRespAuth \/ RcvPushRecvData PROVE QueueTyped'
  <2>1. CASE UNCHANGED air
    BY <1>1, <1>11, <2>1 DEF RcvRespAuth, RcvPushRecvData, Timed, Event
  <2>2. CASE PackAndSend(g_wechat.type)
    BY <1>2, <1>11, <2>2 DEF RcvRespAuth, RcvPushRecvData, Timed, Event
  <2> QED
    BY <1>11, <2>1, <2>2 DEF RcvRespAuth, RcvPushRecvData
<1>12. ASSUME Report PROVE QueueTyped'
  <2>1. timers' = timers /\ inbox' = inbox /\ Load < MaxLoad /\ PackAndSend(g_wechat.type)
    BY <1>12 DEF Report
  <2>2. Len(air') \in Nat /\ air' \in Seq(Chunk) /\ Len(air') <= Len(air) + 1
    BY <2>1, PackTyped, LenProperties
  <2> QED
    BY <1>0, <2>1, <2>2, LoadSame
<1>13. ASSUME ButtonCDoubleClick \/ DisableBleAdvertising \/ WechatDisconnect
              \/ Fatal \/ HeapTrap
       PROVE  QueueTyped'
  BY <1>3, <1>13 DEF ButtonCDoubleClick, DisableBleAdvertising, WechatDisconnect, Fatal,
     StrayAccess, NoMemory, HeapTrap, libVars
<1>14. ASSUME BleConnect \/ BleSubscribe \/ BleDisconnect \/ RfcommConnect
              \/ RfcommDisconnect
       PROVE  QueueTyped'
  BY <1>4, <1>14 DEF BleConnect, BleSubscribe, BleDisconnect, RfcommConnect,
     RfcommDisconnect, Deliver, libVars, Event
<1>15. ASSUME PhoneSends PROVE QueueTyped'
  BY <1>4, <1>15 DEF PhoneSends, libVars, Event
<1>16. ASSUME BleConfirm \/ BleFail PROVE QueueTyped'
  <2>1. air # <<>> /\ air' = Tail(air) /\ timers' = timers
    BY <1>16 DEF BleConfirm, BleFail
  <2>2. air' \in Seq(Chunk) /\ Len(air') + 1 = Len(air) /\ Len(air') \in Nat
    BY <1>0, <2>1, HeadTailProperties, LenProperties
  <2>3. CASE BleConfirm
    BY <2>1, <2>2, <2>3, Messages, LoadAdded DEF BleConfirm
  <2>4. CASE BleFail
    BY <1>0, <2>1, <2>2, <2>4, LoadSame DEF BleFail
  <2> QED
    BY <1>16, <2>3, <2>4
<1>17. ASSUME RfcommSendPacket PROVE QueueTyped'
  <2>1. rfcommOut \in Seq(Buffer) /\ rfcommOut # <<>>
    BY <1>17, TypeParts DEF RfcommSendPacket, LibTyped
  <2>2. [id |-> "WECHAT_SEND_PACKET_CFM", packet |-> Head(rfcommOut)] \in Message
    BY <2>1, HeadTailProperties, Messages
  <2>3. /\ inbox' = Append(inbox, [id |-> "WECHAT_SEND_PACKET_CFM",
                                   packet |-> Head(rfcommOut)])
        /\ timers' = timers /\ air' = air
    BY <1>17 DEF RfcommSendPacket
  <2>4. "WECHAT_SEND_PACKET_CFM" \notin Timed
    BY DEF Timed, Event
  <2> QED
    BY <1>0, <2>2, <2>3, <2>4, LoadAdded
<1>18. ASSUME Reboot PROVE QueueTyped'
  <2>1. inbox' = <<>> /\ air' = <<>> /\ timers' = 0 /\ MaxLoad \in Nat \ {0}
    BY <1>18, BoundAssumption DEF Reboot
  <2>2. Waiting(Timed)' = {}
    BY <2>1 DEF Waiting
  <2>3. Cardinality(Waiting(Timed)') = 0 /\ Len(air') = 0
    BY <2>1, <2>2, FS_EmptySet
  <2>4. inbox' \in Seq(Message) /\ air' \in Seq(Chunk)
    BY <2>1, EmptySeq
  <2> QED
    BY <2>1, <2>3, <2>4 DEF QueueTyped, LoadInv, Load, Timed
<1> QED
  BY <1>5, <1>6, <1>7, <1>8, <1>9, <1>10, <1>11, <1>12, <1>13, <1>14, <1>15, <1>16, <1>17,
     <1>18 DEF Next, AppHandler

\* What the libraries and the phone have.
LEMMA LibTypedKept ==
    ASSUME TypeInv, Next
    PROVE  LibTyped'
<1>0. LibTyped /\ air \in Seq(Chunk) /\ Chunks \in Nat \ {0}
  BY TypeParts, BoundAssumption DEF QueueTyped
<1>1. /\ att' \in BOOLEAN /\ listening' \in BOOLEAN /\ ble_adv' \in BOOLEAN
  <2>0. att \in BOOLEAN /\ listening \in BOOLEAN /\ ble_adv \in BOOLEAN
    BY <1>0 DEF LibTyped
  <2>1. CASE AppHandler
    BY <2>0, <2>1, Zenon
       DEF AppHandler, HandleGattConnectCfm, HandleClientConfig, HandleGattDisconnectInd,
           HandleGattIndicationCfm, HandleWechatConnectInd, HandleWechatDisconnectInd,
           HandleWechatSendPacketCfm, RcvWithoutSession, RcvRespAuth, RcvRespInit,
           RcvPushRecvData, Handle, advVars
  <2>2. CASE RepeatSendIndication \/ Report \/ ButtonCDoubleClick \/ DisableBleAdvertising
    BY <2>0, <2>2, Zenon
       DEF RepeatSendIndication, Report, ButtonCDoubleClick, DisableBleAdvertising, advVars
  <2>3. CASE BleConnect \/ BleSubscribe \/ BleDisconnect \/ BleConfirm \/ BleFail
    BY <2>0, <2>3, Zenon
       DEF BleConnect, BleSubscribe, BleDisconnect, BleConfirm, BleFail, advVars, libVars
  <2>4. CASE RfcommConnect \/ RfcommDisconnect \/ WechatDisconnect \/ RfcommSendPacket \/ PhoneSends
    BY <2>0, <2>4, Zenon
       DEF RfcommConnect, RfcommDisconnect, WechatDisconnect, RfcommSendPacket, PhoneSends,
           advVars, libVars
  <2>5. CASE Fatal \/ HeapTrap \/ Reboot
    BY <2>0, <2>5, Zenon
       DEF Fatal, StrayAccess, NoMemory, HeapTrap, Reboot, advVars, libVars
  <2> QED
    BY <2>1, <2>2, <2>3, <2>4, <2>5 DEF Next
<1>2. rfcomm' \in {"free", "up", "closing"}
  <2>0. rfcomm \in {"free", "up", "closing"}
    BY <1>0 DEF LibTyped
  <2>1. CASE AppHandler
    BY <2>0, <2>1
       DEF AppHandler, HandleGattConnectCfm, HandleClientConfig, HandleGattDisconnectInd,
           HandleGattIndicationCfm, HandleWechatConnectInd, HandleWechatDisconnectInd,
           HandleWechatSendPacketCfm, RcvWithoutSession, RcvRespAuth, RcvRespInit,
           RcvPushRecvData
  <2> QED
    BY <2>0, <2>1
       DEF Next, RepeatSendIndication, Report, ButtonCDoubleClick, DisableBleAdvertising,
           BleConnect, BleSubscribe, BleDisconnect, BleConfirm, BleFail,
           RfcommConnect, RfcommDisconnect, WechatDisconnect, RfcommSendPacket, PhoneSends,
           Fatal, StrayAccess, NoMemory, HeapTrap, Reboot, libVars
<1>3. rfcommOut' \in Seq(Buffer)
  <2>0. rfcommOut \in Seq(Buffer)
    BY <1>0 DEF LibTyped
  <2>1. \/ rfcommOut' = rfcommOut \/ rfcommOut' = <<>>
        \/ rfcommOut # <<>> /\ rfcommOut' = Tail(rfcommOut)
        \/ SendData \/ \E type : PackAndSend(type)
    <3>1. CASE AppHandler
      BY <3>1
       DEF AppHandler, HandleGattConnectCfm, HandleClientConfig, HandleGattDisconnectInd,
           HandleGattIndicationCfm, HandleWechatConnectInd, HandleWechatDisconnectInd,
           HandleWechatSendPacketCfm, RcvWithoutSession, RcvRespAuth, RcvRespInit,
           RcvPushRecvData
    <3> QED
      BY <3>1
       DEF Next, RepeatSendIndication, Report, ButtonCDoubleClick, DisableBleAdvertising,
           BleConnect, BleSubscribe, BleDisconnect, BleConfirm, BleFail,
           RfcommConnect, RfcommDisconnect, WechatDisconnect, RfcommSendPacket, PhoneSends,
           Fatal, StrayAccess, NoMemory, HeapTrap, Reboot, libVars
  <2> QED
    BY <2>0, <2>1, HeadTailProperties, EmptySeq, SendTyped, PackTyped
<1>4. heard'.data \in Buffer \cup {NULL} /\ heard'.at \in 0..Chunks
  <2>0. heard.data \in Buffer \cup {NULL} /\ heard.at \in 0..Chunks
    BY <1>0 DEF LibTyped
  <2>1. \/ heard' = heard \/ heard' = [data |-> NULL, at |-> Chunks]
        \/ air # <<>> /\ heard' = Head(air)
    <3>1. CASE AppHandler
      BY <3>1
       DEF AppHandler, HandleGattConnectCfm, HandleClientConfig, HandleGattDisconnectInd,
           HandleGattIndicationCfm, HandleWechatConnectInd, HandleWechatDisconnectInd,
           HandleWechatSendPacketCfm, RcvWithoutSession, RcvRespAuth, RcvRespInit,
           RcvPushRecvData, Handle
    <3> QED
      BY <3>1
       DEF Next, RepeatSendIndication, Report, ButtonCDoubleClick, DisableBleAdvertising,
           BleConnect, BleSubscribe, BleDisconnect, BleConfirm, BleFail,
           RfcommConnect, RfcommDisconnect, WechatDisconnect, RfcommSendPacket, PhoneSends,
           Fatal, StrayAccess, NoMemory, HeapTrap, Reboot, libVars
  <2>2. air # <<>> => Head(air) \in Chunk
    BY <1>0, HeadTailProperties
  <2> QED
    BY <1>0, <2>0, <2>1, <2>2 DEF Chunk
<1> QED
  BY <1>1, <1>2, <1>3, <1>4 DEF LibTyped

\* The bound on the load is part of what makes the types inductive.
LEMMA NextTypeInv == TypeInv /\ [Next]_vars => TypeInv'
<1> SUFFICES ASSUME TypeInv, [Next]_vars PROVE TypeInv'
  OBVIOUS
<1>1. CASE Next
  <2>1. Flags' /\ SessionTyped' /\ QueueTyped' /\ LibTyped'
    BY <1>1, FlagsKept, SessionTypedKept, QueueTypedKept, LibTypedKept
  <2> QED
    BY <2>1 DEF TypeInv, TypeOK, SessionTyped, QueueTyped, LibTyped, Flags
<1>2. CASE UNCHANGED vars
  BY <1>2 DEF vars, sessionVars, libVars, advVars, historyVars, TypeInv, TypeOK,
     FrameShape, LoadInv, Load, Waiting
<1> QED
  BY <1>1, <1>2

\* The type invariant with what makes it inductive.
LEMMA TypeInvariant == Spec => []TypeInv
BY InitTypeInv, NextTypeInv, PTL DEF Spec

\* The variables always have their types; the model's bound on events, timers
\* and indications is kept by the handlers, which never wait for room.
THEOREM TypeCorrect == Spec => []TypeOK
<1>1. TypeInv => TypeOK
  BY DEF TypeInv
<1> QED
  BY <1>1, TypeInvariant, PTL

-----------------------------------------------------------------------------
(* The session belongs to the link                                         *)

\* What a queue holds after its head is taken.
LEMMA QueueTaken ==
    ASSUME NEW q \in Seq(Message), q # <<>>, NEW a, NEW b
    PROVE  /\ Holds(Tail(q), a) => Holds(q, a)
           /\ Once(q, a) => Once(Tail(q), a)
           /\ Once(q, a) /\ Head(q).id = a => ~Holds(Tail(q), a)
           /\ Before(q, a, b) => Before(Tail(q), a, b)
           /\ Before(q, a, b) /\ Head(q).id = b => ~Holds(q, a)
<1>1. /\ Len(q) \in Nat \ {0} /\ Head(q) = q[1] /\ Len(Tail(q)) = Len(q) - 1
      /\ \A i \in 1..Len(Tail(q)) : i + 1 \in 1..Len(q) /\ Tail(q)[i] = q[i + 1]
  BY HeadTailProperties, EmptySeq
<1>2. Holds(Tail(q), a) => Holds(q, a)
  BY <1>1 DEF Holds
<1>3. Once(q, a) => Once(Tail(q), a)
  BY <1>1 DEF Once
<1>4. Once(q, a) /\ Head(q).id = a => ~Holds(Tail(q), a)
  BY <1>1 DEF Once, Holds
<1>5. Before(q, a, b) => Before(Tail(q), a, b)
  BY <1>1 DEF Before
<1>6. Before(q, a, b) /\ Head(q).id = b => ~Holds(q, a)
  BY <1>1 DEF Before, Holds
<1> QED
  BY <1>2, <1>3, <1>4, <1>5, <1>6

\* What a queue holds after a message is added.
LEMMA QueueAdded ==
    ASSUME NEW q \in Seq(Message), NEW m \in Message, NEW a, NEW b
    PROVE  /\ Holds(Append(q, m), a) <=> Holds(q, a) \/ m.id = a
           /\ Once(q, a) /\ (m.id = a => ~Holds(q, a)) => Once(Append(q, m), a)
           /\ Before(q, a, b) /\ a # b /\ (m.id = a => ~Holds(q, b))
                 => Before(Append(q, m), a, b)
<1>1. /\ Len(q) \in Nat /\ Len(Append(q, m)) = Len(q) + 1
      /\ \A i \in 1..Len(q) : Append(q, m)[i] = q[i]
      /\ Append(q, m)[Len(q) + 1] = m
  BY AppendProperties, LenProperties
<1>2. Holds(Append(q, m), a) <=> Holds(q, a) \/ m.id = a
  BY <1>1 DEF Holds
<1>3. Once(q, a) /\ (m.id = a => ~Holds(q, a)) => Once(Append(q, m), a)
  BY <1>1 DEF Once, Holds
<1>4. Before(q, a, b) /\ a # b /\ (m.id = a => ~Holds(q, b)) => Before(Append(q, m), a, b)
  BY <1>1 DEF Before, Holds
<1> QED
  BY <1>2, <1>3, <1>4

\* A link that is down takes no chunk.
LEMMA NothingOnAir ==
    ASSUME ~att, SendData \/ (\E type : PackAndSend(type))
    PROVE  air' = air
BY DEF SendData, PackAndSend, GattIndicationRequest

\* The part of LinkInv about the inbox, and what else it speaks of.
InboxInv ==
    /\ listening => ~Holds(inbox, "GATT_CONNECT_CFM") /\ ~Holds(inbox, "GATT_DISCONNECT_IND")
    /\ att => ~Holds(inbox, "GATT_DISCONNECT_IND")
    /\ Once(inbox, "GATT_CONNECT_CFM") /\ Once(inbox, "GATT_DISCONNECT_IND")
    /\ Before(inbox, "GATT_CONNECT_CFM", "GATT_DISCONNECT_IND")

SilentInv ==
    /\ g_wechat # NULL /\ g_wechat.type = "RFCOMM" => g_wechat.connect_state
    /\ listening \/ Holds(inbox, "GATT_CONNECT_CFM") => Silent

AirInv ==
    /\ ~att => air = <<>>
    /\ listening => ~att

\* The parts of LinkInv.
LEMMA LinkParts == LinkInv <=> InboxInv /\ SilentInv /\ AirInv
BY DEF LinkInv, InboxInv, SilentInv, AirInv

\* Each link is reported once, and its end before the next may come.
LEMMA InboxInvKept ==
    ASSUME TypeInv, LinkInv, Next
    PROVE  InboxInv'
<1>0. InboxInv /\ AirInv /\ inbox \in Seq(Message)
  BY LinkParts DEF TypeInv, TypeOK
<1> DEFINE cc == "GATT_CONNECT_CFM"
           di == "GATT_DISCONNECT_IND"
<1>1. ASSUME inbox' = inbox, UNCHANGED <<listening, att>>
      PROVE  InboxInv'
  BY <1>0, <1>1 DEF InboxInv
<1>2. ASSUME inbox # <<>>, inbox' = Tail(inbox), UNCHANGED <<listening, att>>
      PROVE  InboxInv'
  BY <1>0, <1>2, QueueTaken DEF InboxInv
<1>3. ASSUME NEW m \in Message, inbox' = Append(inbox, m), m.id \notin {cc, di},
             UNCHANGED <<listening, att>>
      PROVE  InboxInv'
  BY <1>0, <1>3, QueueAdded DEF InboxInv
<1>4. ASSUME HandleGattDisconnectInd PROVE InboxInv'
  <2>1. inbox # <<>> /\ Head(inbox).id = di /\ inbox' = Tail(inbox) /\ att' = att
    BY <1>4 DEF HandleGattDisconnectInd, Handle
  <2>2. ~Holds(inbox, cc) /\ Holds(inbox, di)
    <3>1. Len(inbox) \in Nat \ {0} /\ inbox[1].id = di
      BY <1>0, <2>1, EmptySeq
    <3> QED
      BY <1>0, <2>1, <3>1, QueueTaken DEF InboxInv, Holds
  <2>3. ~Holds(inbox', cc) /\ ~Holds(inbox', di) /\ Once(inbox', cc) /\ Once(inbox', di)
        /\ Before(inbox', cc, di)
    BY <1>0, <2>1, <2>2, QueueTaken DEF InboxInv
  <2> QED
    BY <2>3 DEF InboxInv
<1>5. ASSUME BleConnect PROVE InboxInv'
  <2> DEFINE m == [id |-> cc, ok |-> TRUE]
  <2>1. /\ inbox' = Append(inbox, m) /\ listening /\ ~listening' /\ att'
    BY <1>5 DEF BleConnect, Deliver
  <2>2. m \in Message /\ m.id = cc
    BY Messages DEF Event
  <2> HIDE DEF m
  <2>3. ~Holds(inbox, cc) /\ ~Holds(inbox, di)
    BY <1>0, <2>1 DEF InboxInv
  <2>4. /\ ~Holds(inbox', di) /\ Once(inbox', cc) /\ Once(inbox', di)
        /\ Before(inbox', cc, di)
    BY <1>0, <2>1, <2>2, <2>3, QueueAdded DEF InboxInv
  <2> QED
    BY <2>1, <2>4 DEF InboxInv
<1>6. ASSUME BleDisconnect PROVE InboxInv'
  <2> DEFINE m == [id |-> di, ok |-> TRUE]
  <2>1. /\ inbox' = Append(inbox, m) /\ att /\ ~att' /\ listening' = listening
    BY <1>6 DEF BleDisconnect, Deliver, advVars
  <2>2. m \in Message /\ m.id = di
    BY Messages DEF Event
  <2> HIDE DEF m
  <2>3. ~Holds(inbox, di) /\ ~listening
    BY <1>0, <2>1 DEF InboxInv, AirInv
  <2>4. /\ Once(inbox', cc) /\ Once(inbox', di) /\ Before(inbox', cc, di)
    BY <1>0, <2>1, <2>2, <2>3, QueueAdded DEF InboxInv
  <2> QED
    BY <2>1, <2>3, <2>4 DEF InboxInv
<1>7. ASSUME Reboot PROVE InboxInv'
  <2>1. inbox' = <<>>
    BY <1>7 DEF Reboot
  <2>2. \A a : ~Holds(inbox', a) /\ Once(inbox', a) /\ Before(inbox', cc, di)
    BY <2>1 DEF Holds, Once, Before
  <2> QED
    BY <2>2 DEF InboxInv
<1>8. ASSUME HandleGattConnectCfm \/ HandleClientConfig \/ HandleGattIndicationCfm
             \/ HandleWechatConnectInd \/ HandleWechatDisconnectInd
             \/ HandleWechatSendPacketCfm
             \/ RcvWithoutSession \/ RcvRespAuth \/ RcvRespInit \/ RcvPushRecvData
      PROVE  InboxInv'
  BY <1>2, <1>8
     DEF HandleGattConnectCfm, HandleClientConfig, HandleGattIndicationCfm,
         HandleWechatConnectInd, HandleWechatDisconnectInd, HandleWechatSendPacketCfm,
         RcvWithoutSession, RcvRespAuth, RcvRespInit, RcvPushRecvData, Handle, advVars
<1>9. ASSUME RepeatSendIndication \/ Report \/ ButtonCDoubleClick
             \/ DisableBleAdvertising \/ BleFail \/ WechatDisconnect \/ Fatal \/ HeapTrap
      PROVE  InboxInv'
  BY <1>1, <1>9
     DEF RepeatSendIndication, Report, ButtonCDoubleClick, DisableBleAdvertising, BleFail,
         WechatDisconnect, Fatal, StrayAccess, NoMemory, HeapTrap, advVars, libVars
<1>10. ASSUME NEW id \in Event \ {cc, di}, NEW ok \in BOOLEAN, Deliver(id, ok),
              UNCHANGED <<listening, att>>
       PROVE  InboxInv'
  <2>1. [id |-> id, ok |-> ok] \in Message
    BY Messages
  <2>2. inbox' = Append(inbox, [id |-> id, ok |-> ok])
    BY <1>10 DEF Deliver
  <2> QED
    BY <1>3, <1>10, <2>1, <2>2
<1>11. ASSUME BleSubscribe \/ RfcommConnect \/ RfcommDisconnect PROVE InboxInv'
  BY <1>10, <1>11 DEF BleSubscribe, RfcommConnect, RfcommDisconnect, Event, libVars, advVars
<1>12. ASSUME PhoneSends PROVE InboxInv'
  BY <1>10, <1>12 DEF PhoneSends, Event, libVars, advVars
<1>13. ASSUME BleConfirm PROVE InboxInv'
  BY <1>3, <1>13, Messages DEF BleConfirm, advVars
<1>14. ASSUME RfcommSendPacket PROVE InboxInv'
  <2>1. rfcommOut \in Seq(Buffer) /\ rfcommOut # <<>>
    BY <1>14 DEF RfcommSendPacket, TypeInv, TypeOK
  <2>2. [id |-> "WECHAT_SEND_PACKET_CFM", packet |-> Head(rfcommOut)] \in Message
    BY <2>1, HeadTailProperties, Messages
  <2> QED
    BY <1>3, <1>14, <2>2 DEF RfcommSendPacket, advVars
<1> QED
  BY <1>4, <1>5, <1>6, <1>7, <1>8, <1>9, <1>11, <1>12, <1>13, <1>14 DEF Next, AppHandler

\* Until a new link is reported the session, if there is one, sends nothing over BLE.
LEMMA SilentInvKept ==
    ASSUME TypeInv, LinkInv, Next
    PROVE  SilentInv'
<1>0. /\ InboxInv /\ SilentInv /\ AirInv /\ inbox \in Seq(Message)
      /\ g_wechat \in Session \cup {NULL}
  BY LinkParts DEF TypeInv, TypeOK
<1> DEFINE cc == "GATT_CONNECT_CFM"
<1>1. inbox # <<>> /\ inbox' = Tail(inbox) => (Holds(inbox', cc) => Holds(inbox, cc))
  BY <1>0, QueueTaken
<1>2. ASSUME NEW m \in Message, inbox' = Append(inbox, m), m.id # cc
      PROVE  Holds(inbox', cc) <=> Holds(inbox, cc)
  BY <1>0, <1>2, QueueAdded
<1>3. ASSUME UNCHANGED g_wechat, listening' => listening,
             Holds(inbox', cc) => Holds(inbox, cc)
      PROVE  SilentInv'
  BY <1>0, <1>3 DEF SilentInv, Silent
<1>4. ASSUME g_wechat' = NULL PROVE SilentInv'
  BY <1>4 DEF SilentInv, Silent
<1>5. ASSUME HandleGattConnectCfm PROVE SilentInv'
  <2>1. /\ inbox # <<>> /\ Head(inbox).id = cc /\ inbox' = Tail(inbox)
        /\ listening' = listening /\ g_wechat' = NewSession
    BY <1>5 DEF HandleGattConnectCfm, Handle
  <2>2. Holds(inbox, cc) /\ ~Holds(inbox', cc)
    <3>1. Len(inbox) \in Nat \ {0} /\ inbox[1].id = cc
      BY <1>0, <2>1, EmptySeq
    <3> QED
      BY <1>0, <2>1, <3>1, QueueTaken DEF InboxInv, Holds
  <2> QED
    BY <1>0, <2>1, <2>2 DEF SilentInv, InboxInv, NewSession
<1>6. ASSUME HandleClientConfig PROVE SilentInv'
  <2>1. /\ inbox # <<>> /\ inbox' = Tail(inbox) /\ listening' = listening
        /\ g_wechat # NULL /\ g_wechat \in Session
    BY <1>0, <1>6 DEF HandleClientConfig, Handle, advVars
  <2>2. CASE g_wechat' = g_wechat
    BY <1>1, <1>3, <2>1, <2>2
  <2>3. CASE /\ ~g_wechat.connect_state
             /\ g_wechat' = [g_wechat EXCEPT !.connect_state = TRUE, !.type = "BLE"]
    <3>1. ~Silent
      BY <1>0, <2>1, <2>3 DEF SilentInv, Silent
    <3>2. g_wechat'.type = "BLE"
      BY <2>1, <2>3 DEF Session
    <3> QED
      BY <1>0, <1>1, <2>1, <3>1, <3>2 DEF SilentInv
  <2> QED
    BY <1>6, <2>2, <2>3 DEF HandleClientConfig, sessionVars
<1>7. ASSUME HandleWechatConnectInd PROVE SilentInv'
  <2>1. g_wechat' = [NewSession EXCEPT !.connect_state = TRUE, !.type = "RFCOMM"]
    BY <1>7 DEF HandleWechatConnectInd
  <2>2. g_wechat'.type = "RFCOMM" /\ g_wechat'.connect_state
    BY <2>1 DEF NewSession
  <2> QED
    BY <2>2 DEF SilentInv, Silent
<1>8. ASSUME RcvRespAuth \/ RcvRespInit PROVE SilentInv'
  <2>1. /\ inbox # <<>> /\ inbox' = Tail(inbox) /\ listening' = listening
        /\ g_wechat # NULL /\ g_wechat \in Session
    BY <1>0, <1>8 DEF RcvRespAuth, RcvRespInit, Handle, advVars
  <2>2. \A a : /\ [g_wechat EXCEPT !.auth_state = a].type = g_wechat.type
               /\ [g_wechat EXCEPT !.auth_state = a].connect_state = g_wechat.connect_state
               /\ [g_wechat EXCEPT !.init_state = a].type = g_wechat.type
               /\ [g_wechat EXCEPT !.init_state = a].connect_state = g_wechat.connect_state
    BY <2>1 DEF Session
  <2>3. \E a : \/ g_wechat' = [g_wechat EXCEPT !.auth_state = a]
               \/ g_wechat' = [g_wechat EXCEPT !.init_state = a]
    BY <1>8 DEF RcvRespAuth, RcvRespInit
  <2>4. g_wechat'.type = g_wechat.type /\ g_wechat'.connect_state = g_wechat.connect_state
    BY <2>2, <2>3
  <2> QED
    BY <1>0, <1>1, <2>1, <2>4 DEF SilentInv, Silent
<1>9. ASSUME HandleGattDisconnectInd \/ HandleWechatDisconnectInd \/ Reboot PROVE SilentInv'
  BY <1>4, <1>9 DEF HandleGattDisconnectInd, HandleWechatDisconnectInd, Reboot
<1>10. ASSUME HandleGattIndicationCfm \/ HandleWechatSendPacketCfm \/ RcvWithoutSession
              \/ RcvPushRecvData
       PROVE  SilentInv'
  BY <1>1, <1>3, <1>10
     DEF HandleGattIndicationCfm, HandleWechatSendPacketCfm, RcvWithoutSession,
         RcvPushRecvData, Handle, advVars, sessionVars
<1>11. ASSUME RepeatSendIndication \/ Report \/ ButtonCDoubleClick
              \/ DisableBleAdvertising \/ BleFail \/ WechatDisconnect \/ Fatal \/ HeapTrap
       PROVE  SilentInv'
  BY <1>3, <1>11
     DEF RepeatSendIndication, Report, ButtonCDoubleClick, DisableBleAdvertising, BleFail,
         WechatDisconnect, Fatal, StrayAccess, NoMemory, HeapTrap, advVars, libVars,
         sessionVars
<1>12. ASSUME BleConnect PROVE SilentInv'
  BY <1>0, <1>12 DEF BleConnect, Deliver, sessionVars, SilentInv, Silent
<1>13. ASSUME NEW id \in Event \ {cc}, NEW ok \in BOOLEAN, Deliver(id, ok),
              UNCHANGED listening
       PROVE  SilentInv'
  <2>1. [id |-> id, ok |-> ok] \in Message
    BY Messages
  <2>2. inbox' = Append(inbox, [id |-> id, ok |-> ok]) /\ g_wechat' = g_wechat
    BY <1>13 DEF Deliver, sessionVars
  <2> QED
    BY <1>2, <1>3, <1>13, <2>1, <2>2
<1>14. ASSUME BleDisconnect \/ BleSubscribe \/ RfcommConnect \/ RfcommDisconnect
       PROVE  SilentInv'
  BY <1>13, <1>14
     DEF BleDisconnect, BleSubscribe, RfcommConnect, RfcommDisconnect, Event, libVars, advVars
<1>15. ASSUME PhoneSends PROVE SilentInv'
  BY <1>13, <1>15 DEF PhoneSends, Event, libVars, advVars
<1>16. ASSUME BleConfirm PROVE SilentInv'
  BY <1>2, <1>3, <1>16, Messages DEF BleConfirm, advVars, sessionVars
<1>17. ASSUME RfcommSendPacket PROVE SilentInv'
  <2>1. rfcommOut \in Seq(Buffer) /\ rfcommOut # <<>>
    BY <1>17 DEF RfcommSendPacket, TypeInv, TypeOK
  <2>2. [id |-> "WECHAT_SEND_PACKET_CFM", packet |-> Head(rfcommOut)] \in Message
    BY <2>1, HeadTailProperties, Messages
  <2> QED
    BY <1>2, <1>3, <1>17, <2>2 DEF RfcommSendPacket, advVars, sessionVars
<1> QED
  BY <1>5, <1>6, <1>7, <1>8, <1>9, <1>10, <1>11, <1>12, <1>14, <1>15, <1>16, <1>17
     DEF Next, AppHandler

\* Chunks are on their way over a link that is up only.
LEMMA AirInvKept ==
    ASSUME TypeInv, LinkInv, Next
    PROVE  AirInv'
<1>0. AirInv /\ InboxInv /\ inbox \in Seq(Message)
  BY LinkParts DEF TypeInv, TypeOK
<1>1. ASSUME HandleGattDisconnectInd PROVE AirInv'
  <2>1. inbox # <<>> /\ Head(inbox).id = "GATT_DISCONNECT_IND" /\ att' = att /\ air' = air
    BY <1>1 DEF HandleGattDisconnectInd, Handle
  <2>2. Len(inbox) \in Nat \ {0} /\ inbox[1].id = "GATT_DISCONNECT_IND"
    BY <1>0, <2>1, EmptySeq
  <2>3. ~att
    BY <1>0, <2>2 DEF InboxInv, Holds
  <2> QED
    BY <1>0, <2>1, <2>3 DEF AirInv
<1>2. ASSUME UNCHANGED <<att, listening>>, att \/ air' = air PROVE AirInv'
  BY <1>0, <1>2 DEF AirInv
<1>3. ASSUME UNCHANGED <<att, listening>>, SendData \/ (\E type : PackAndSend(type))
      PROVE  AirInv'
  BY <1>2, <1>3, NothingOnAir
<1>4. ASSUME BleConnect \/ BleDisconnect \/ Reboot PROVE AirInv'
  BY <1>0, <1>4 DEF BleConnect, BleDisconnect, Reboot, AirInv, advVars
<1>5. ASSUME BleConfirm \/ BleFail PROVE AirInv'
  <2>1. UNCHANGED <<att, listening>> /\ air # <<>>
    BY <1>5 DEF BleConfirm, BleFail, advVars
  <2> QED
    BY <1>0, <1>2, <2>1 DEF AirInv
<1>6. ASSUME HandleGattConnectCfm \/ HandleWechatDisconnectInd \/ HandleWechatSendPacketCfm
             \/ RcvWithoutSession \/ RcvRespInit
      PROVE  AirInv'
  BY <1>2, <1>6
     DEF HandleGattConnectCfm, HandleWechatDisconnectInd, HandleWechatSendPacketCfm,
         RcvWithoutSession, RcvRespInit, Handle, advVars
<1>7. ASSUME HandleClientConfig \/ HandleGattIndicationCfm \/ HandleWechatConnectInd
             \/ RcvRespAuth \/ RcvPushRecvData \/ RepeatSendIndication \/ Report
      PROVE  AirInv'
  <2>1. UNCHANGED <<att, listening>>
    BY <1>7 DEF HandleClientConfig, HandleGattIndicationCfm, HandleWechatConnectInd,
       RcvRespAuth, RcvPushRecvData, RepeatSendIndication, Report, Handle, advVars
  <2>2. air' = air \/ SendData \/ (\E type : PackAndSend(type))
    BY <1>7 DEF HandleClientConfig, HandleGattIndicationCfm, HandleWechatConnectInd,
       RcvRespAuth, RcvPushRecvData, RepeatSendIndication, Report
  <2> QED
    BY <1>2, <1>3, <2>1, <2>2
<1>8. ASSUME ButtonCDoubleClick \/ DisableBleAdvertising \/ BleSubscribe
             \/ RfcommConnect \/ RfcommDisconnect \/ WechatDisconnect \/ RfcommSendPacket
             \/ PhoneSends \/ Fatal \/ HeapTrap
      PROVE  AirInv'
  BY <1>2, <1>8
     DEF ButtonCDoubleClick, DisableBleAdvertising, BleSubscribe, RfcommConnect,
         RfcommDisconnect, WechatDisconnect, RfcommSendPacket, PhoneSends, Fatal,
         StrayAccess, NoMemory, HeapTrap, advVars, libVars
<1> QED
  BY <1>1, <1>4, <1>5, <1>6, <1>7, <1>8 DEF Next, AppHandler

\* No link, no session and nothing on its way at the start.
LEMMA InitLinkInv == Init => LinkInv
<1> SUFFICES ASSUME Init PROVE LinkInv
  OBVIOUS
<1>1. inbox = <<>> /\ g_wechat = NULL /\ ~att /\ air = <<>>
  BY DEF Init
<1>2. \A a : ~Holds(inbox, a)
  BY <1>1 DEF Holds
<1>3. \A a, b : Once(inbox, a) /\ Before(inbox, a, b)
  BY <1>1 DEF Once, Before
<1> QED
  BY <1>1, <1>2, <1>3 DEF LinkInv, Silent

\* Every step keeps the session with its link.
LEMMA NextLinkInv == TypeInv /\ LinkInv /\ [Next]_vars => LinkInv'
<1> SUFFICES ASSUME TypeInv, LinkInv, [Next]_vars PROVE LinkInv'
  OBVIOUS
<1>1. CASE Next
  <2>1. InboxInv' /\ SilentInv' /\ AirInv'
    BY <1>1, InboxInvKept, SilentInvKept, AirInvKept
  <2> QED
    BY <2>1 DEF LinkInv, InboxInv, SilentInv, AirInv
<1>2. CASE UNCHANGED vars
  BY <1>2 DEF vars, sessionVars, libVars, advVars, LinkInv, Silent
<1> QED
  BY <1>1, <1>2

\* No session of an earlier link is left when a phone connects.
LEMMA LinkInvariant == Spec => []LinkInv
BY TypeInvariant, InitLinkInv, NextLinkInv, PTL DEF Spec

-----------------------------------------------------------------------------
(* The phone hears whole frames                                            *)

\* The types that the proofs about chunks use.
LEMMA ChunkTypes ==
    ASSUME TypeInv
    PROVE  /\ Chunks \in Nat \ {0} /\ air \in Seq(Chunk) /\ inbox \in Seq(Message)
           /\ heard.at \in 0..Chunks /\ send_data \in Frame
           /\ send_data.offset \in 0..Chunks /\ send_data.len \in {0, Chunks}
           /\ send_data.offset <= send_data.len
           /\ send_data.len = 0 <=> send_data = NoFrame
           /\ g_wechat \in Session \cup {NULL}
           /\ g_wechat = NULL => send_data = NoFrame
BY BoundAssumption DEF TypeInv, TypeOK, FrameShape, Frame, NoFrame

\* A chunk that continues the last one keeps the chain.
LEMMA ChainGrows ==
    ASSUME TypeInv, Chained, NEW c \in Chunk, Continues(LastChunk, c),
           air' = Append(air, c), UNCHANGED <<heard, torn>>
    PROVE  Chained' /\ LastChunk' = c
<1>1. /\ Len(air) \in Nat /\ Len(air') = Len(air) + 1 /\ air' # <<>>
      /\ \A i \in 1..Len(air) : air'[i] = air[i]
      /\ air'[Len(air) + 1] = c
  BY ChunkTypes, AppendProperties, LenProperties
<1>2. LastChunk' = c
  BY <1>1 DEF LastChunk
<1>3. Continues(heard', air'[1])
  <2>1. CASE air = <<>>
    BY <1>1, <2>1 DEF LastChunk
  <2>2. CASE air # <<>>
    <3>1. Len(air) >= 1
      BY <2>2, ChunkTypes, EmptySeq
    <3> QED
      BY <1>1, <2>2, <3>1 DEF Chained
  <2> QED
    BY <2>1, <2>2
<1>4. \A i \in 1..(Len(air') - 1) : Continues(air'[i], air'[i + 1])
  <2> SUFFICES ASSUME NEW i \in 1..Len(air) PROVE Continues(air'[i], air'[i + 1])
    BY <1>1
  <2>1. CASE i = Len(air)
    <3>1. air # <<>>
      BY <1>1, ChunkTypes, EmptySeq
    <3>2. LastChunk = air[i]
      BY <2>1, <3>1 DEF LastChunk
    <3> QED
      BY <1>1, <2>1, <3>2
  <2>2. CASE i # Len(air)
    BY <1>1, <2>2 DEF Chained
  <2> QED
    BY <2>1, <2>2
<1> QED
  BY <1>2, <1>3, <1>4 DEF Chained, Continues

\* A confirmed chunk leaves the chain whole, and its end where it was.
LEMMA ChainConfirmed ==
    ASSUME TypeInv, Chained, BleConfirm
    PROVE  Chained' /\ LastChunk' = LastChunk
<1>1. /\ air # <<>> /\ air' = Tail(air) /\ heard' = Head(air)
      /\ torn' = \/ torn
                 \/ Head(air).at = 0 /\ heard.at + 1 < Chunks
                 \/ Head(air).at > 0 /\ ( \/ heard.data # Head(air).data
                                          \/ heard.at + 1 # Head(air).at )
  BY DEF BleConfirm
<1>2. /\ Len(air) \in Nat \ {0} /\ Head(air) = air[1] /\ Len(air') = Len(air) - 1
      /\ \A i \in 1..Len(air') : air'[i] = air[i + 1]
      /\ air[1] \in Chunk /\ (air' = <<>> <=> Len(air) = 1)
  <2>1. Tail(air) = <<>> <=> Len(Tail(air)) = 0
    BY <1>1, ChunkTypes, HeadTailProperties, EmptySeq
  <2> QED
    BY <1>1, <2>1, ChunkTypes, HeadTailProperties, EmptySeq, ElementOfSeq
<1>3. ~torn'
  <2>1. ~torn /\ Continues(heard, air[1]) /\ air[1].at \in 0..Chunks
    BY <1>1, <1>2 DEF Chained, Chunk
  <2>2. ~(air[1].at = 0 /\ heard.at + 1 < Chunks)
    BY <2>1, ChunkTypes DEF Continues
  <2>3. air[1].at > 0 => heard.data = air[1].data /\ heard.at + 1 = air[1].at
    BY <2>1 DEF Continues
  <2> QED
    BY <1>1, <1>2, <2>1, <2>2, <2>3, Zenon
<1>4. air' # <<>> => Continues(heard', air'[1])
  <2>1. air' # <<>> => 1 \in 1..Len(air') /\ 1 \in 1..(Len(air) - 1)
    BY <1>2
  <2> QED
    BY <1>1, <1>2, <2>1 DEF Chained
<1>5. \A i \in 1..(Len(air') - 1) : Continues(air'[i], air'[i + 1])
  <2> SUFFICES ASSUME NEW i \in 1..(Len(air') - 1) PROVE Continues(air'[i], air'[i + 1])
    OBVIOUS
  <2>1. i + 1 \in 1..(Len(air) - 1) /\ air'[i] = air[i + 1] /\ air'[i + 1] = air[i + 2]
        /\ i + 1 + 1 = i + 2
    BY <1>2
  <2> QED
    BY <2>1 DEF Chained
<1>6. LastChunk' = LastChunk
  <2>1. CASE Len(air) = 1
    BY <1>1, <1>2, <2>1 DEF LastChunk
  <2>2. CASE Len(air) # 1
    BY <1>1, <1>2, <2>2 DEF LastChunk
  <2> QED
    BY <2>1, <2>2
<1> QED
  BY <1>3, <1>4, <1>5, <1>6 DEF Chained, Continues

\* What a BLE session with nothing unsent sends first is a frame's first chunk.
LEMMA PackAligned ==
    ASSUME TypeInv, LinkInv, ChunkInv, Undisturbed, ~Unsent,
           g_wechat # NULL, NEW type, PackAndSend(type),
           type = g_wechat.type \/ (type = "BLE" /\ g_wechat.type # "RFCOMM"),
           g_wechat' # NULL, g_wechat'.type = type,
           Holds(inbox', "GATT_CONNECT_CFM") => Holds(inbox, "GATT_CONNECT_CFM"),
           UNCHANGED <<heard, torn, att>>
    PROVE  Chained' /\ Aligned'
<1>0. Chained /\ Aligned /\ att /\ g_wechat \in Session /\ g_wechat.type \in {"NONE", "BLE", "RFCOMM"}
  BY ChunkTypes DEF ChunkInv, Undisturbed, Session
<1>1. CASE g_wechat.type = "RFCOMM"
  <2>1. type = "RFCOMM" /\ air' = air
    BY <1>1 DEF PackAndSend
  <2> QED
    BY <1>0, <2>1 DEF Chained, Aligned, LastChunk, BetweenFrames, Continues
<1>2. CASE g_wechat.type # "RFCOMM"
  <2>1. send_data.offset = 0
    BY <1>2, ChunkTypes DEF Unsent
  <2>2. BetweenFrames
    BY <1>0, <1>2, <2>1 DEF Aligned
  <2>3. ~Holds(inbox', "GATT_CONNECT_CFM")
    BY <1>2 DEF LinkInv, Silent
  <2>4. CASE type = "NONE"
    <3>1. air' = air
      BY <2>4 DEF PackAndSend
    <3> QED
      BY <1>0, <2>2, <2>3, <2>4, <3>1 DEF Chained, Aligned, LastChunk, BetweenFrames, Continues
  <2>5. CASE type = "BLE"
    <3>1. PICK b \in Buffer :
             /\ air' = Append(air, [data |-> b, at |-> 0])
             /\ send_data' = [data |-> b, len |-> Chunks, offset |-> 1]
      BY <1>0, <2>5 DEF PackAndSend, GattIndicationRequest
    <3>2. /\ [data |-> b, at |-> 0] \in Chunk /\ Continues(LastChunk, [data |-> b, at |-> 0])
      BY <2>2, ChunkTypes DEF Chunk, Continues, BetweenFrames
    <3>3. Chained' /\ LastChunk' = [data |-> b, at |-> 0]
      BY <1>0, <3>1, <3>2, ChainGrows
    <3> QED
      BY <2>3, <2>5, <3>1, <3>3 DEF Aligned
  <2> QED
    BY <1>0, <1>2, <2>4, <2>5
<1> QED
  BY <1>1, <1>2

\* The next chunk, or the end of the frame.
LEMMA SendAligned ==
    ASSUME TypeInv, LinkInv, ChunkInv, Undisturbed, SendData, g_wechat # NULL,
           UNCHANGED <<g_wechat, heard, torn, att>>,
           Holds(inbox', "GATT_CONNECT_CFM") => Holds(inbox, "GATT_CONNECT_CFM")
    PROVE  Chained' /\ Aligned'
<1>0. Chained /\ Aligned /\ att /\ g_wechat \in Session
  BY ChunkTypes DEF ChunkInv, Undisturbed
<1>1. CASE g_wechat.type # "BLE"
  <2>1. air' = air /\ g_wechat' = g_wechat
    BY <1>1 DEF SendData
  <2> QED
    BY <1>0, <1>1, <2>1 DEF Chained, Aligned, LastChunk, BetweenFrames, Continues
<1>2. CASE g_wechat.type = "BLE"
  <2>0. ~Holds(inbox', "GATT_CONNECT_CFM")
    BY <1>2 DEF LinkInv, Silent
  <2>1. CASE ChunkLeft
    <3> DEFINE c == [data |-> send_data.data, at |-> send_data.offset]
    <3>1. air' = Append(air, c) /\ send_data' = [send_data EXCEPT !.offset = NextOffset]
      BY <1>0, <1>2, <2>1 DEF SendData, GattIndicationRequest
    <3>2. send_data.data \in Buffer /\ send_data.offset \in 0..(Chunks - 1)
      BY <2>1, ChunkTypes DEF ChunkLeft, NoFrame, TypeInv, FrameShape
    <3>3. c \in Chunk /\ c.at = send_data.offset /\ c.data = send_data.data
      BY <3>2, ChunkTypes DEF Chunk
    <3>4. send_data'.offset = send_data.offset + 1 /\ send_data'.data = send_data.data
      BY <3>1, ChunkTypes DEF NextOffset, Frame
    <3>5. send_data.offset = 0 => Continues(LastChunk, c)
      BY <1>0, <1>2, <3>3 DEF Aligned, Continues, BetweenFrames
    <3>6. send_data.offset # 0 => Continues(LastChunk, c)
      BY <1>0, <1>2, <3>2, <3>3 DEF Aligned, Continues
    <3> HIDE DEF c
    <3>7. Continues(LastChunk, c)
      BY <3>5, <3>6
    <3>8. Chained' /\ LastChunk' = c
      BY <1>0, <3>1, <3>3, <3>7, ChainGrows
    <3>9. g_wechat' = g_wechat /\ send_data'.offset # 0
      BY <3>2, <3>4
    <3> QED
      BY <1>2, <2>0, <3>3, <3>4, <3>8, <3>9 DEF Aligned
  <2>2. CASE ~ChunkLeft
    <3>1. air' = air /\ send_data' = NoFrame /\ g_wechat' = g_wechat /\ send_data'.offset = 0
      BY <1>2, <2>2 DEF SendData, NoFrame
    <3>2. send_data.offset = send_data.len /\ send_data.len \in {0, Chunks}
      BY <2>2, ChunkTypes DEF ChunkLeft
    <3>3. BetweenFrames
      BY <1>0, <1>2, <3>2, ChunkTypes DEF Aligned, BetweenFrames
    <3>4. LastChunk' = LastChunk
      BY <3>1 DEF LastChunk
    <3> QED
      BY <1>0, <1>2, <2>0, <3>1, <3>3, <3>4 DEF Chained, Aligned, BetweenFrames, Continues
  <2> QED
    BY <2>1, <2>2
<1> QED
  BY <1>1, <1>2

\* Handlers that neither send nor touch the session keep both.
LEMMA StillAligned ==
    ASSUME TypeInv, ChunkInv, Undisturbed' => Undisturbed,
           UNCHANGED <<heard, torn, air>>,
           \/ UNCHANGED <<g_wechat, send_data>>
           \/ g_wechat' = NULL
           \/ g_wechat'.type = "RFCOMM"
           \/ g_wechat'.type = g_wechat.type /\ g_wechat # NULL /\ UNCHANGED send_data,
           Holds(inbox', "GATT_CONNECT_CFM") => Holds(inbox, "GATT_CONNECT_CFM")
    PROVE  ChunkInv'
<1> SUFFICES ASSUME Undisturbed' PROVE Chained' /\ Aligned'
  BY DEF ChunkInv
<1>1. Chained /\ Aligned
  BY DEF ChunkInv
<1>2. Chained'
  BY <1>1 DEF Chained, Continues
<1>3. LastChunk' = LastChunk
  BY DEF LastChunk
<1>4. CASE UNCHANGED <<g_wechat, send_data>>
  BY <1>1, <1>2, <1>3, <1>4 DEF Aligned, BetweenFrames
<1>5. CASE g_wechat' = NULL
  BY <1>1, <1>2, <1>3, <1>5 DEF Aligned, BetweenFrames
<1>6. CASE g_wechat'.type = "RFCOMM"
  BY <1>1, <1>2, <1>3, <1>6 DEF Aligned, BetweenFrames
<1>7. CASE g_wechat'.type = g_wechat.type /\ g_wechat # NULL /\ UNCHANGED send_data
  BY <1>1, <1>2, <1>3, <1>7 DEF Aligned, BetweenFrames
<1> QED
  BY <1>2, <1>4, <1>5, <1>6, <1>7

\* Every step keeps the chunks in order.
LEMMA NextChunkInv == TypeInv /\ LinkInv /\ ChunkInv /\ [Next]_vars => ChunkInv'
<1> SUFFICES ASSUME TypeInv, LinkInv, ChunkInv, [Next]_vars PROVE ChunkInv'
  OBVIOUS
<1> DEFINE cc == "GATT_CONNECT_CFM"
<1>0. /\ inbox \in Seq(Message) /\ g_wechat \in Session \cup {NULL} /\ air \in Seq(Chunk)
      /\ Chunks \in Nat \ {0}
  BY ChunkTypes
<1>1. inbox # <<>> /\ inbox' = Tail(inbox) => (Holds(inbox', cc) => Holds(inbox, cc))
  BY <1>0, QueueTaken
<1>2. ASSUME NEW m \in Message, inbox' = Append(inbox, m), m.id # cc
      PROVE  Holds(inbox', cc) <=> Holds(inbox, cc)
  BY <1>0, <1>2, QueueAdded
<1>3. ASSUME NotePack PROVE ~(overlapped' \/ failed') => ~overlapped /\ ~failed /\ ~Unsent /\ UNCHANGED torn
  BY <1>3 DEF NotePack
<1>4. CASE HandleGattConnectCfm
  <2>1. /\ inbox # <<>> /\ Head(inbox).id = cc /\ inbox' = Tail(inbox)
        /\ g_wechat' = NewSession /\ UNCHANGED <<att, air, heard, torn, overlapped, failed>>
    BY <1>4 DEF HandleGattConnectCfm, Handle
  <2>2. Holds(inbox, cc) /\ ~Holds(inbox', cc)
    <3>1. Len(inbox) \in Nat \ {0} /\ inbox[1].id = cc
      BY <1>0, <2>1, EmptySeq
    <3> QED
      BY <1>0, <2>1, <3>1, QueueTaken DEF LinkInv, Holds
  <2>3. g_wechat'.type = "NONE" /\ LastChunk' = LastChunk
    BY <2>1 DEF NewSession, LastChunk
  <2>4. Undisturbed' => Undisturbed
    BY <2>1 DEF Undisturbed
  <2>5. Undisturbed => Chained' /\ BetweenFrames'
    BY <2>1, <2>2, <2>3 DEF ChunkInv, Chained, Aligned, BetweenFrames, Continues
  <2> QED
    BY <2>2, <2>3, <2>4, <2>5 DEF ChunkInv, Aligned
<1>5. CASE HandleClientConfig
  <2>1. /\ inbox # <<>> /\ inbox' = Tail(inbox) /\ g_wechat \in Session /\ g_wechat # NULL
        /\ UNCHANGED <<att, heard>>
    BY <1>0, <1>5 DEF HandleClientConfig, Handle
  <2>2. CASE UNCHANGED <<sessionVars, air, historyVars>>
    BY <1>1, <2>1, <2>2, StillAligned DEF sessionVars, historyVars, Undisturbed
  <2>3. CASE /\ ~g_wechat.connect_state /\ NotePack
             /\ g_wechat' = [g_wechat EXCEPT !.connect_state = TRUE, !.type = "BLE"]
             /\ \/ PackAndSend("BLE")
                \/ /\ UNCHANGED air
                   /\ \E b \in Buffer : send_data' = [data |-> b, len |-> Chunks, offset |-> 0]
    <3> SUFFICES ASSUME Undisturbed' PROVE Chained' /\ Aligned'
      BY DEF ChunkInv
    <3>1. Undisturbed /\ ~Unsent /\ UNCHANGED torn
      BY <1>3, <2>1, <2>3 DEF Undisturbed
    <3>2. g_wechat'.type = "BLE" /\ g_wechat' \in Session /\ g_wechat' # NULL
      BY <2>1, <2>3, NullAssumption DEF Session
    <3>3. g_wechat.type # "RFCOMM"
      BY <2>1, <2>3 DEF LinkInv
    <3>4. Holds(inbox', cc) => Holds(inbox, cc)
      BY <1>1, <2>1
    <3>5. CASE PackAndSend("BLE")
      BY <2>1, <3>1, <3>2, <3>3, <3>4, <3>5, PackAligned
    <3>6. CASE /\ UNCHANGED air
               /\ \E b \in Buffer : send_data' = [data |-> b, len |-> Chunks, offset |-> 0]
      <4>1. send_data'.offset = 0 /\ send_data.offset = 0
        BY <2>1, <3>1, <3>3, <3>6, ChunkTypes DEF Unsent
      <4>2. BetweenFrames /\ Chained
        <5>1. g_wechat.type \in {"NONE", "BLE"}
          BY <2>1, <3>3 DEF Session
        <5> QED
          BY <2>1, <3>1, <4>1, <5>1 DEF ChunkInv, Aligned
      <4>3. Chained' /\ BetweenFrames'
        BY <2>1, <3>1, <3>6, <4>2 DEF Chained, BetweenFrames, LastChunk, Continues
      <4> QED
        BY <3>2, <4>1, <4>3 DEF Aligned
    <3> QED
      BY <2>3, <3>5, <3>6
  <2> QED
    BY <1>5, <2>2, <2>3 DEF HandleClientConfig
<1>6. CASE HandleGattIndicationCfm \/ RepeatSendIndication
  <2>1. /\ Holds(inbox', cc) => Holds(inbox, cc)
        /\ UNCHANGED <<g_wechat, att, heard, torn, overlapped, failed>>
    BY <1>1, <1>6 DEF HandleGattIndicationCfm, RepeatSendIndication, Handle
  <2>2. CASE UNCHANGED <<send_data, air>>
    BY <2>1, <2>2, StillAligned DEF Undisturbed
  <2>3. CASE SendData /\ g_wechat # NULL
    <3>1. Undisturbed' => Undisturbed
      BY <2>1 DEF Undisturbed
    <3> QED
      BY <2>1, <2>3, <3>1, SendAligned DEF ChunkInv
  <2> QED
    BY <1>6, <2>2, <2>3 DEF HandleGattIndicationCfm, RepeatSendIndication
<1>7. CASE HandleWechatConnectInd
  <2>1. /\ inbox # <<>> /\ inbox' = Tail(inbox)
        /\ g_wechat' = [NewSession EXCEPT !.connect_state = TRUE, !.type = "RFCOMM"]
        /\ UNCHANGED <<att, heard, torn, overlapped, failed>> /\ PackAndSend("RFCOMM")
    BY <1>7 DEF HandleWechatConnectInd, Handle
  <2>2. air' = air /\ g_wechat'.type = "RFCOMM"
    BY <2>1 DEF PackAndSend, NewSession
  <2> QED
    BY <1>1, <2>1, <2>2, StillAligned DEF Undisturbed
<1>8. CASE HandleGattDisconnectInd \/ HandleWechatDisconnectInd
  BY <1>1, <1>8, StillAligned
     DEF HandleGattDisconnectInd, HandleWechatDisconnectInd, Handle, Undisturbed
<1>9. CASE HandleWechatSendPacketCfm \/ RcvWithoutSession
  BY <1>1, <1>9, StillAligned
     DEF HandleWechatSendPacketCfm, RcvWithoutSession, Handle, Undisturbed, sessionVars,
         historyVars
<1>10. CASE RcvRespAuth \/ RcvRespInit \/ RcvPushRecvData \/ Report
  <2>1. /\ Holds(inbox', cc) => Holds(inbox, cc)
        /\ g_wechat # NULL /\ g_wechat \in Session /\ UNCHANGED <<att, heard>>
    BY <1>0, <1>1, <1>10 DEF RcvRespAuth, RcvRespInit, RcvPushRecvData, Report, Handle
  <2>2. \E a : \/ g_wechat' = [g_wechat EXCEPT !.auth_state = a]
               \/ g_wechat' = [g_wechat EXCEPT !.init_state = a]
               \/ g_wechat' = g_wechat
    BY <1>10 DEF RcvRespAuth, RcvRespInit, RcvPushRecvData, Report
  <2>3. g_wechat'.type = g_wechat.type
    BY <2>1, <2>2 DEF Session
  <2>4. CASE UNCHANGED <<send_data, air, historyVars>>
    BY <2>1, <2>3, <2>4, StillAligned DEF historyVars, Undisturbed
  <2>5. CASE PackAndSend(g_wechat.type) /\ NotePack
    <3>1. g_wechat' # NULL
      <4>1. FrameShape'
        BY NextTypeInv DEF TypeInv
      <4>2. send_data'.data \in Buffer
        BY <2>5, PackTyped
      <4> QED
        BY <4>1, <4>2, NullAssumption DEF FrameShape, NoFrame
    <3>2. SUFFICES ASSUME Undisturbed' PROVE Chained' /\ Aligned'
      BY DEF ChunkInv
    <3>3. Undisturbed /\ ~Unsent /\ UNCHANGED torn
      BY <1>3, <2>1, <2>5, <3>2 DEF Undisturbed
    <3> QED
      BY <2>1, <2>3, <2>5, <3>1, <3>3, PackAligned
  <2> QED
    BY <1>10, <2>4, <2>5 DEF RcvRespAuth, RcvRespInit, RcvPushRecvData, Report, historyVars
<1>11. CASE BleConnect
  <2>1. /\ listening /\ ~att /\ att' /\ heard' = [data |-> NULL, at |-> Chunks]
        /\ ~torn' /\ air' = air /\ g_wechat' = g_wechat
    BY <1>11 DEF BleConnect, Deliver, sessionVars
  <2>2. air = <<>> /\ Silent
    BY <2>1 DEF LinkInv
  <2>3. Len(air') = 0 /\ air' = <<>> /\ heard'.at = Chunks
    BY <2>1, <2>2, EmptySeq
  <2>4. Chained'
    BY <2>1, <2>3 DEF Chained
  <2>5. BetweenFrames'
    BY <1>0, <2>3 DEF BetweenFrames, LastChunk
  <2> QED
    BY <2>1, <2>2, <2>4, <2>5 DEF ChunkInv, Aligned, Silent
<1>12. CASE BleDisconnect \/ BleFail \/ Reboot
  BY <1>12 DEF BleDisconnect, BleFail, Reboot, ChunkInv, Undisturbed
<1>13. CASE BleConfirm
  <2>1. UNCHANGED <<att, overlapped, failed, g_wechat, send_data>>
    BY <1>13 DEF BleConfirm, sessionVars
  <2>2. Holds(inbox', cc) => Holds(inbox, cc)
    BY <1>2, <1>13, Messages DEF BleConfirm
  <2>3. SUFFICES ASSUME Undisturbed' PROVE Chained' /\ Aligned'
    BY DEF ChunkInv
  <2>4. Chained /\ Aligned
    BY <2>1, <2>3 DEF Undisturbed, ChunkInv
  <2>5. Chained' /\ LastChunk' = LastChunk
    BY <1>13, <2>4, ChainConfirmed
  <2> QED
    BY <2>1, <2>2, <2>4, <2>5 DEF Aligned, BetweenFrames
<1>14. ASSUME NEW id \in Event \ {cc}, NEW ok \in BOOLEAN, Deliver(id, ok),
              UNCHANGED <<att, air, heard, historyVars>>
       PROVE  ChunkInv'
  <2>1. [id |-> id, ok |-> ok] \in Message
    BY Messages
  <2>2. /\ inbox' = Append(inbox, [id |-> id, ok |-> ok])
        /\ UNCHANGED <<g_wechat, send_data>>
    BY <1>14 DEF Deliver, sessionVars
  <2>3. Holds(inbox', cc) => Holds(inbox, cc)
    BY <1>2, <2>1, <2>2
  <2>4. UNCHANGED <<heard, torn, air>> /\ (Undisturbed' => Undisturbed)
    BY <1>14 DEF historyVars, Undisturbed
  <2> QED
    BY <2>2, <2>3, <2>4, StillAligned
<1>15. CASE BleSubscribe \/ RfcommConnect \/ RfcommDisconnect
  BY <1>14, <1>15 DEF BleSubscribe, RfcommConnect, RfcommDisconnect, Event, libVars
<1>16. CASE PhoneSends
  BY <1>14, <1>16 DEF PhoneSends, Event, libVars
<1>17. CASE RfcommSendPacket
  <2>1. rfcommOut \in Seq(Buffer) /\ rfcommOut # <<>>
    BY <1>17 DEF RfcommSendPacket, TypeInv, TypeOK
  <2>2. [id |-> "WECHAT_SEND_PACKET_CFM", packet |-> Head(rfcommOut)] \in Message
    BY <2>1, HeadTailProperties, Messages
  <2>3. Holds(inbox', cc) => Holds(inbox, cc)
    BY <1>2, <1>17, <2>2 DEF RfcommSendPacket
  <2> QED
    BY <1>17, <2>3, StillAligned DEF RfcommSendPacket, sessionVars, historyVars, Undisturbed
<1>18. CASE ButtonCDoubleClick \/ DisableBleAdvertising \/ WechatDisconnect
            \/ Fatal \/ HeapTrap
  BY <1>18, StillAligned
     DEF ButtonCDoubleClick, DisableBleAdvertising, WechatDisconnect, Fatal, StrayAccess,
         NoMemory, HeapTrap, sessionVars, libVars, historyVars, Undisturbed
<1>19. CASE UNCHANGED vars
  BY <1>19, StillAligned DEF vars, sessionVars, libVars, historyVars, Undisturbed
<1> QED
  BY <1>4, <1>5, <1>6, <1>7, <1>8, <1>9, <1>10, <1>11, <1>12, <1>13, <1>15, <1>16, <1>17,
     <1>18, <1>19 DEF Next, AppHandler

\* No link, no chunk.
LEMMA InitChunkInv == Init => ChunkInv
BY DEF Init, ChunkInv, Undisturbed

\* On an undisturbed link every chunk continues the one before.
LEMMA ChunkInvariant == Spec => []ChunkInv
BY TypeInvariant, LinkInvariant, InitChunkInv, NextChunkInv, PTL DEF Spec

\* Only a confirmation can tear a frame, and on an undisturbed link it does not;
\* what disturbs a link is remembered until the next one.
LEMMA NextWholeFrames ==
    TypeInv /\ LinkInv /\ ChunkInv /\ WholeFrames /\ [Next]_vars => WholeFrames'
<1> SUFFICES ASSUME TypeInv, LinkInv, ChunkInv, WholeFrames, [Next]_vars
             PROVE  WholeFrames'
  OBVIOUS
<1>1. ASSUME torn' => torn, overlapped => overlapped', failed => failed'
      PROVE  WholeFrames'
  BY <1>1 DEF WholeFrames
<1>2. NotePack => (torn' => torn) /\ (overlapped => overlapped') /\ (failed => failed')
  <2>1. NotePack => torn' = torn /\ failed' = failed /\ overlapped' = (overlapped \/ Unsent)
    BY DEF NotePack
  <2> QED
    BY <2>1, Zenon
<1>3. UNCHANGED historyVars => UNCHANGED <<torn, overlapped, failed>>
  BY DEF historyVars
<1>4. CASE BleConfirm
  <2>1. CASE overlapped \/ failed
    BY <1>4, <2>1 DEF BleConfirm, WholeFrames
  <2>2. CASE ~overlapped /\ ~failed
    <3>1. att
      BY <1>4 DEF BleConfirm, LinkInv
    <3>2. Chained
      BY <2>2, <3>1 DEF ChunkInv, Undisturbed
    <3>3. Chained'
      BY <1>4, <3>2, ChainConfirmed
    <3> QED
      BY <3>3 DEF Chained, WholeFrames
  <2> QED
    BY <2>1, <2>2
<1>5. CASE BleConnect \/ Reboot \/ BleFail
  BY <1>5, Zenon DEF BleConnect, Reboot, BleFail, WholeFrames
<1>6. CASE \/ HandleGattConnectCfm \/ HandleGattDisconnectInd \/ HandleGattIndicationCfm
           \/ HandleWechatConnectInd \/ HandleWechatDisconnectInd
           \/ HandleWechatSendPacketCfm \/ RepeatSendIndication
  BY <1>1, <1>6
     DEF HandleGattConnectCfm, HandleGattDisconnectInd, HandleGattIndicationCfm,
         HandleWechatConnectInd, HandleWechatDisconnectInd, HandleWechatSendPacketCfm,
         RepeatSendIndication
<1>7. CASE \/ HandleClientConfig \/ RcvWithoutSession \/ RcvRespAuth \/ RcvRespInit
           \/ RcvPushRecvData \/ Report
  BY <1>1, <1>2, <1>3, <1>7
     DEF HandleClientConfig, RcvWithoutSession, RcvRespAuth, RcvRespInit,
         RcvPushRecvData, Report
<1>8. CASE \/ BleSubscribe \/ BleDisconnect \/ RfcommConnect \/ RfcommDisconnect
           \/ WechatDisconnect \/ RfcommSendPacket \/ PhoneSends
           \/ ButtonCDoubleClick \/ DisableBleAdvertising \/ Fatal \/ HeapTrap
           \/ UNCHANGED vars
  BY <1>1, <1>3, <1>8
     DEF BleSubscribe, BleDisconnect, RfcommConnect, RfcommDisconnect, WechatDisconnect,
         RfcommSendPacket, PhoneSends, ButtonCDoubleClick, DisableBleAdvertising, Fatal,
         StrayAccess, NoMemory, HeapTrap, vars
<1> QED
  BY <1>4, <1>5, <1>6, <1>7, <1>8 DEF Next, AppHandler

\* The phone hears whole frames, chunk after chunk, unless an indication of the
\* link failed or a frame was packed over one that had not left: for every size
\* of a frame, number of buffers and backlog, whatever confirmations came late.
THEOREM FramesWhole == Spec => []WholeFrames
<1>1. Init => WholeFrames
  BY DEF Init, WholeFrames
<1> QED
  BY <1>1, TypeInvariant, LinkInvariant, ChunkInvariant, NextWholeFrames, PTL DEF Spec

-----------------------------------------------------------------------------
(* Every buffer has one owner                                              *)

\* A queue of packets after one is added.
LEMMA QueuedAdded ==
    ASSUME NEW q \in Seq(Buffer), NEW b \in Buffer
    PROVE  /\ \A c : Queued(Append(q, b), c) <=> Queued(q, c) \/ c = b
           /\ QueuedOnce(q) /\ ~Queued(q, b) => QueuedOnce(Append(q, b))
<1>1. /\ Len(q) \in Nat /\ Len(Append(q, b)) = Len(q) + 1
      /\ \A i \in 1..Len(q) : Append(q, b)[i] = q[i]
      /\ Append(q, b)[Len(q) + 1] = b
  BY AppendProperties, LenProperties
<1>2. \A c : Queued(Append(q, b), c) <=> Queued(q, c) \/ c = b
  BY <1>1 DEF Queued
<1>3. QueuedOnce(q) /\ ~Queued(q, b) => QueuedOnce(Append(q, b))
  BY <1>1 DEF QueuedOnce, Queued
<1> QED
  BY <1>2, <1>3

\* A queue of packets after its head is taken.
LEMMA QueuedTaken ==
    ASSUME NEW q \in Seq(Buffer), q # <<>>
    PROVE  /\ Head(q) \in Buffer
           /\ \A c : Queued(q, c) <=> Queued(Tail(q), c) \/ c = Head(q)
           /\ QueuedOnce(q) => QueuedOnce(Tail(q)) /\ ~Queued(Tail(q), Head(q))
<1>1. /\ Len(q) \in Nat \ {0} /\ Head(q) = q[1] /\ Len(Tail(q)) = Len(q) - 1
      /\ \A i \in 1..Len(Tail(q)) : i + 1 \in 1..Len(q) /\ Tail(q)[i] = q[i + 1]
      /\ Head(q) \in Buffer
  BY HeadTailProperties, EmptySeq
<1>2. \A c : Queued(q, c) <=> Queued(Tail(q), c) \/ c = Head(q)
  <2> SUFFICES ASSUME NEW c PROVE Queued(q, c) <=> Queued(Tail(q), c) \/ c = Head(q)
    OBVIOUS
  <2>1. Queued(Tail(q), c) \/ c = Head(q) => Queued(q, c)
    BY <1>1 DEF Queued
  <2>2. ASSUME NEW i \in 1..Len(q), q[i] = c PROVE Queued(Tail(q), c) \/ c = Head(q)
    <3>1. CASE i = 1
      BY <1>1, <2>2, <3>1
    <3>2. CASE i # 1
      <4>1. i - 1 \in 1..Len(Tail(q)) /\ Tail(q)[i - 1] = q[i]
        BY <1>1, <3>2
      <4> QED
        BY <2>2, <4>1 DEF Queued
    <3> QED
      BY <3>1, <3>2
  <2> QED
    BY <2>1, <2>2 DEF Queued
<1>3. QueuedOnce(q) => QueuedOnce(Tail(q)) /\ ~Queued(Tail(q), Head(q))
  BY <1>1 DEF QueuedOnce, Queued
<1> QED
  BY <1>1, <1>2, <1>3

\* The answers of an inbox after a message is added.
LEMMA AnsweredAdded ==
    ASSUME NEW q \in Seq(Message), NEW m \in Message
    PROVE  /\ \A c : Answered(Append(q, m), c) <=> Answered(q, c) \/ Answers(m, c)
           /\ AnsweredOnce(q) /\ (\A c : Answers(m, c) => ~Answered(q, c))
                 => AnsweredOnce(Append(q, m))
<1>1. /\ Len(q) \in Nat /\ Len(Append(q, m)) = Len(q) + 1
      /\ \A i \in 1..Len(q) : Append(q, m)[i] = q[i]
      /\ Append(q, m)[Len(q) + 1] = m
  BY AppendProperties, LenProperties
<1>2. \A c : Answered(Append(q, m), c) <=> Answered(q, c) \/ Answers(m, c)
  BY <1>1 DEF Answered
<1>3. AnsweredOnce(q) /\ (\A c : Answers(m, c) => ~Answered(q, c))
         => AnsweredOnce(Append(q, m))
  BY <1>1 DEF AnsweredOnce, Answered, Answers
<1> QED
  BY <1>2, <1>3

\* The answers of an inbox after its head is taken.
LEMMA AnsweredTaken ==
    ASSUME NEW q \in Seq(Message), q # <<>>
    PROVE  /\ \A c : Answered(q, c) <=> Answered(Tail(q), c) \/ Answers(Head(q), c)
           /\ AnsweredOnce(q) =>
                 /\ AnsweredOnce(Tail(q))
                 /\ \A c : Answers(Head(q), c) => ~Answered(Tail(q), c)
<1>1. /\ Len(q) \in Nat \ {0} /\ Head(q) = q[1] /\ Len(Tail(q)) = Len(q) - 1
      /\ \A i \in 1..Len(Tail(q)) : i + 1 \in 1..Len(q) /\ Tail(q)[i] = q[i + 1]
  BY HeadTailProperties, EmptySeq
<1>2. \A c : Answered(q, c) <=> Answered(Tail(q), c) \/ Answers(Head(q), c)
  <2> SUFFICES ASSUME NEW c
               PROVE  Answered(q, c) <=> Answered(Tail(q), c) \/ Answers(Head(q), c)
    OBVIOUS
  <2>1. Answered(Tail(q), c) \/ Answers(Head(q), c) => Answered(q, c)
    BY <1>1 DEF Answered
  <2>2. ASSUME NEW i \in 1..Len(q), Answers(q[i], c)
        PROVE  Answered(Tail(q), c) \/ Answers(Head(q), c)
    <3>1. CASE i = 1
      BY <1>1, <2>2, <3>1
    <3>2. CASE i # 1
      <4>1. i - 1 \in 1..Len(Tail(q)) /\ Tail(q)[i - 1] = q[i]
        BY <1>1, <3>2
      <4> QED
        BY <2>2, <4>1 DEF Answered
    <3> QED
      BY <3>1, <3>2
  <2> QED
    BY <2>1, <2>2 DEF Answered
<1>3. ASSUME AnsweredOnce(q)
      PROVE  AnsweredOnce(Tail(q)) /\ \A c : Answers(Head(q), c) => ~Answered(Tail(q), c)
  <2>1. AnsweredOnce(Tail(q))
    BY <1>1, <1>3 DEF AnsweredOnce
  <2>2. ASSUME NEW c, Answers(Head(q), c), NEW i \in 1..Len(Tail(q)), Answers(Tail(q)[i], c)
        PROVE  FALSE
    BY <1>1, <1>3, <2>2 DEF AnsweredOnce, Answers
  <2> QED
    BY <2>1, <2>2 DEF Answered
<1> QED
  BY <1>2, <1>3

\* No answer comes or goes.
SameAnswers ==
    /\ \A c : Answered(inbox', c) <=> Answered(inbox, c)
    /\ AnsweredOnce(inbox) => AnsweredOnce(inbox')

\* Any other message leaves the answers as they are.
LEMMA OtherMessages ==
    ASSUME TypeInv,
           \/ inbox' = inbox
           \/ /\ inbox # <<>> /\ inbox' = Tail(inbox)
              /\ Head(inbox).id # "WECHAT_SEND_PACKET_CFM"
           \/ \E m \in Message : /\ inbox' = Append(inbox, m)
                                 /\ m.id # "WECHAT_SEND_PACKET_CFM"
    PROVE  SameAnswers
<1>0. inbox \in Seq(Message)
  BY DEF TypeInv, TypeOK
<1>1. CASE inbox' = inbox
  BY <1>1 DEF SameAnswers, Answered, AnsweredOnce
<1>2. CASE /\ inbox # <<>> /\ inbox' = Tail(inbox)
           /\ Head(inbox).id # "WECHAT_SEND_PACKET_CFM"
  <2>1. \A c : ~Answers(Head(inbox), c)
    BY <1>2 DEF Answers
  <2>2. \A c : Answered(inbox', c) <=> Answered(inbox, c)
    BY <1>0, <1>2, <2>1, AnsweredTaken
  <2>3. AnsweredOnce(inbox) => AnsweredOnce(inbox')
    BY <1>0, <1>2, AnsweredTaken
  <2> QED
    BY <2>2, <2>3 DEF SameAnswers, Answered, AnsweredOnce
<1>3. CASE \E m \in Message : /\ inbox' = Append(inbox, m)
                              /\ m.id # "WECHAT_SEND_PACKET_CFM"
  <2>0. PICK m \in Message : inbox' = Append(inbox, m) /\ m.id # "WECHAT_SEND_PACKET_CFM"
    BY <1>3
  <2>1. \A c : ~Answers(m, c)
    BY <2>0 DEF Answers
  <2>2. \A c : Answered(inbox', c) <=> Answered(inbox, c)
    BY <1>0, <2>0, <2>1, AnsweredAdded
  <2>3. AnsweredOnce(inbox) => AnsweredOnce(inbox')
    BY <1>0, <2>0, <2>1, AnsweredAdded
  <2> QED
    BY <2>2, <2>3 DEF SameAnswers, Answered, AnsweredOnce
<1> QED
  BY <1>1, <1>2, <1>3

\* What the session's frame and its length say of each other.
LEMMA FrameTypes ==
    ASSUME TypeInv
    PROVE  /\ heap \subseteq Buffer /\ rfcommOut \in Seq(Buffer) /\ NULL \notin Buffer
           /\ send_data.data \in Buffer \cup {NULL}
           /\ InSession /\ send_data.data # NULL => Unsent
           /\ NoFrame.data = NULL
<1>1. Chunks \in Nat \ {0}
  BY BoundAssumption
<1>2. send_data.data # NULL => send_data.len = Chunks
  BY DEF TypeInv, FrameShape, NoFrame
<1>3. send_data.data \in Buffer \cup {NULL}
  BY DEF TypeInv, TypeOK, Frame
<1> QED
  BY <1>1, <1>2, <1>3, NullAssumption DEF TypeInv, TypeOK, InSession, Unsent, NoFrame

\* Nothing changes hands: the session keeps its frame, or gives up none.
LEMMA StillOwned ==
    ASSUME TypeInv, PacketInv, FrameInv, NoneLost, SameAnswers,
           UNCHANGED <<heap, rfcommOut>>,
           \/ (InSession' <=> InSession) /\ UNCHANGED <<send_data, dropped>>
           \/ send_data' = NoFrame /\ dropped' = (dropped \/ Unsent)
    PROVE  PacketInv' /\ FrameInv' /\ NoneLost'
<1>1. \A c : Packet(c)' <=> Packet(c)
  BY DEF Packet, SameAnswers, Queued
<1>2. PacketInv'
  BY <1>1 DEF PacketInv, SameAnswers, Queued, QueuedOnce
<1>3. CASE (InSession' <=> InSession) /\ UNCHANGED <<send_data, dropped>>
  <2>1. FrameInv'
    BY <1>1, <1>3 DEF FrameInv, Packet, Queued, Answered, Answers, SameAnswers
  <2>2. NoneLost'
    BY <1>1, <1>3 DEF NoneLost
  <2> QED
    BY <1>2, <2>1, <2>2
<1>4. CASE send_data' = NoFrame /\ dropped' = (dropped \/ Unsent)
  <2>1. FrameInv'
    BY <1>4, FrameTypes DEF FrameInv
  <2>2. ASSUME ~dropped' PROVE \A b \in heap : Packet(b)
    <3>1. ~dropped /\ ~Unsent
      BY <1>4, <2>2
    <3> QED
      BY <3>1, FrameTypes DEF NoneLost
  <2>3. NoneLost'
    BY <1>1, <2>2 DEF NoneLost
  <2> QED
    BY <1>2, <2>1, <2>3
<1> QED
  BY <1>3, <1>4

\* A frame is packed into a buffer nobody holds; the session or the library
\* then has it.
LEMMA PackOwned ==
    ASSUME TypeInv, PacketInv, NoneLost, SameAnswers,
           NEW b \in Buffer \ heap, heap' = heap \cup {b}, send_data'.data = b,
           \/ InSession' /\ UNCHANGED rfcommOut
           \/ ~InSession' /\ rfcommOut' = Append(rfcommOut, b),
           dropped' = (dropped \/ Unsent)
    PROVE  PacketInv' /\ FrameInv' /\ NoneLost'
<1>1. ~Packet(b) /\ rfcommOut \in Seq(Buffer) /\ b \in Buffer
  BY FrameTypes DEF PacketInv
<1>2. ASSUME ~dropped' PROVE \A c \in heap : Packet(c)
  <2>1. ~dropped /\ ~Unsent
    BY <1>2
  <2> QED
    BY <2>1, FrameTypes DEF NoneLost
<1>3. CASE InSession' /\ UNCHANGED rfcommOut
  <2>1. \A c : Packet(c)' <=> Packet(c)
    BY <1>3 DEF Packet, SameAnswers, Queued
  <2>2. PacketInv'
    BY <1>3, <2>1 DEF PacketInv, SameAnswers, Queued, QueuedOnce
  <2>3. FrameInv'
    BY <1>1, <1>3, <2>1 DEF FrameInv, Packet, SameAnswers, Queued
  <2>4. NoneLost'
    BY <1>2, <1>3, <2>1 DEF NoneLost
  <2> QED
    BY <2>2, <2>3, <2>4
<1>4. CASE ~InSession' /\ rfcommOut' = Append(rfcommOut, b)
  <2>1. \A c : Queued(rfcommOut', c) <=> Queued(rfcommOut, c) \/ c = b
    BY <1>1, <1>4, QueuedAdded
  <2>2. QueuedOnce(rfcommOut')
    BY <1>1, <1>4, QueuedAdded DEF PacketInv, Packet
  <2>3. \A c : Packet(c)' <=> Packet(c) \/ c = b
    BY <2>1 DEF Packet, SameAnswers
  <2>4. \A c \in Buffer : ~(Queued(rfcommOut', c) /\ Answered(inbox', c))
    BY <1>1, <2>1 DEF PacketInv, Packet, SameAnswers
  <2>5. PacketInv'
    BY <2>2, <2>3, <2>4 DEF PacketInv, SameAnswers
  <2>6. FrameInv' /\ NoneLost'
    BY <1>2, <1>4, <2>3 DEF FrameInv, NoneLost
  <2> QED
    BY <2>5, <2>6
<1> QED
  BY <1>3, <1>4

\* The forms a pack takes.
LEMMA PackForms ==
    ASSUME NEW type, PackAndSend(type)
    PROVE  \E b \in Buffer \ heap :
              /\ heap' = heap \cup {b} /\ send_data'.data = b
              /\ type = "RFCOMM" => rfcommOut' = Append(rfcommOut, b) /\ air' = air
              /\ type # "RFCOMM" => rfcommOut' = rfcommOut
BY DEF PackAndSend, WechatSendPacket

\* A session over BLE, or not yet over either link, frees its own frame only.
LEMMA SendOwned ==
    ASSUME TypeInv, PacketInv, FrameInv, NoneLost, SameAnswers, SendData, InSession,
           UNCHANGED <<g_wechat, dropped>>
    PROVE  PacketInv' /\ FrameInv' /\ NoneLost' /\ (~freedTwice => ~freedTwice')
<1>0. InSession'
  BY DEF InSession
<1>1. CASE g_wechat.type = "BLE" /\ ChunkLeft
  <2>1. /\ UNCHANGED <<heap, rfcommOut, freedTwice>>
        /\ send_data' = [send_data EXCEPT !.offset = NextOffset]
    BY <1>1 DEF SendData, InSession
  <2>2. send_data'.data = send_data.data
    BY <2>1 DEF TypeInv, TypeOK, Frame
  <2>3. \A c : Packet(c)' <=> Packet(c)
    BY <2>1 DEF Packet, SameAnswers, Queued
  <2>4. PacketInv'
    BY <2>1, <2>3 DEF PacketInv, SameAnswers, Queued, QueuedOnce
  <2>5. FrameInv' /\ NoneLost'
    BY <1>0, <2>1, <2>2, <2>3 DEF FrameInv, NoneLost, Packet, SameAnswers, Queued
  <2>6. ~freedTwice => ~freedTwice'
    BY <2>1
  <2> QED
    BY <2>4, <2>5, <2>6
<1>2. CASE g_wechat.type = "BLE" /\ ~ChunkLeft
  <2>1. /\ heap' = heap \ {send_data.data} /\ send_data' = NoFrame
        /\ UNCHANGED rfcommOut
        /\ freedTwice' = (freedTwice \/ send_data.data \notin heap \cup {NULL})
    BY <1>2 DEF SendData, InSession
  <2>2. \A c : Packet(c)' <=> Packet(c)
    BY <2>1 DEF Packet, SameAnswers, Queued
  <2>3. \A c \in Buffer : Packet(c) => c \in heap'
    BY <2>1, FrameTypes DEF FrameInv, PacketInv
  <2>4. PacketInv'
    BY <2>1, <2>2, <2>3 DEF PacketInv, SameAnswers, Queued, QueuedOnce
  <2>5. FrameInv'
    BY <2>1, FrameTypes DEF FrameInv
  <2>6. NoneLost'
    BY <2>1, <2>2 DEF NoneLost
  <2>7. send_data.data \in heap \cup {NULL}
    BY DEF FrameInv
  <2>8. ~freedTwice => ~freedTwice'
    BY <2>1, <2>7, Zenon
  <2> QED
    BY <2>4, <2>5, <2>6, <2>8
<1>3. CASE g_wechat.type # "BLE"
  <2>1. UNCHANGED <<heap, rfcommOut, send_data, freedTwice>>
    BY <1>3 DEF SendData, InSession
  <2> QED
    BY <1>0, <2>1, StillOwned
<1> QED
  BY <1>1, <1>2, <1>3

\* A packet is freed by its answer, and nobody else holds it.
LEMMA PacketFreed ==
    ASSUME TypeInv, PacketInv, FrameInv, NoneLost, HandleWechatSendPacketCfm
    PROVE  PacketInv' /\ FrameInv' /\ NoneLost' /\ (~freedTwice => ~freedTwice')
<1> DEFINE p == Head(inbox).packet
<1>1. /\ inbox \in Seq(Message) /\ inbox # <<>> /\ inbox' = Tail(inbox)
      /\ Head(inbox).id = "WECHAT_SEND_PACKET_CFM"
      /\ heap' = heap \ {p}
      /\ freedTwice' = (freedTwice \/ p \notin heap)
      /\ UNCHANGED <<g_wechat, send_data, rfcommOut, dropped>>
  BY DEF HandleWechatSendPacketCfm, Handle, FreePacket, TypeInv, TypeOK
<1>2. p \in Buffer
  BY <1>1, InboxTaken, Messages
<1>3. \A c : Answers(Head(inbox), c) <=> c = p
  BY <1>1 DEF Answers
<1> HIDE DEF p
<1>4. /\ \A c : Answered(inbox, c) <=> Answered(inbox', c) \/ c = p
      /\ AnsweredOnce(inbox') /\ ~Answered(inbox', p)
  <2>1. AnsweredOnce(inbox)
    BY DEF PacketInv
  <2> QED
    BY <1>1, <1>3, <2>1, AnsweredTaken
<1>5. Answered(inbox, p) /\ Packet(p) /\ p \in heap /\ ~Queued(rfcommOut, p)
  BY <1>2, <1>4 DEF PacketInv, Packet
<1>6. \A c : Packet(c)' <=> Packet(c) /\ c # p
  BY <1>1, <1>4, <1>5 DEF Packet, Queued
<1>7. PacketInv'
  <2>1. \A c \in Buffer : Packet(c)' => c \in heap'
    BY <1>1, <1>6 DEF PacketInv
  <2>2. \A c \in Buffer : ~(Queued(rfcommOut', c) /\ Answered(inbox', c))
    BY <1>1, <1>4 DEF PacketInv, Queued
  <2>3. QueuedOnce(rfcommOut')
    BY <1>1 DEF PacketInv, QueuedOnce
  <2> QED
    BY <1>4, <2>1, <2>2, <2>3 DEF PacketInv
<1>8. FrameInv'
  <2>1. InSession' <=> InSession
    BY <1>1 DEF InSession
  <2>2. InSession /\ send_data.data # NULL => send_data.data # p
    BY <1>5 DEF FrameInv
  <2>3. InSession /\ send_data.data # NULL => ~Packet(send_data.data)'
    BY <1>1, <1>6 DEF FrameInv, Packet
  <2> QED
    BY <1>1, <2>1, <2>2, <2>3 DEF FrameInv, Packet
<1>9. NoneLost'
  BY <1>1, <1>6 DEF NoneLost, InSession
<1>10. ~freedTwice => ~freedTwice'
  BY <1>1, <1>5, Zenon
<1> QED
  BY <1>7, <1>8, <1>9, <1>10

\* A packet sent, or not, is answered.
LEMMA PacketAnswered ==
    ASSUME TypeInv, PacketInv, FrameInv, NoneLost, RfcommSendPacket
    PROVE  PacketInv' /\ FrameInv' /\ NoneLost'
<1> DEFINE p == Head(rfcommOut)
           m == [id |-> "WECHAT_SEND_PACKET_CFM", packet |-> p]
<1>1. /\ inbox \in Seq(Message) /\ rfcommOut \in Seq(Buffer) /\ rfcommOut # <<>>
      /\ rfcommOut' = Tail(rfcommOut) /\ inbox' = Append(inbox, m)
      /\ UNCHANGED <<heap, g_wechat, send_data, dropped>>
  BY DEF RfcommSendPacket, sessionVars, historyVars, TypeInv, TypeOK
<1>2. p \in Buffer
  BY <1>1, QueuedTaken
<1>3. m \in Message /\ \A c : Answers(m, c) <=> c = p
  BY <1>2, Messages DEF Answers
<1> HIDE DEF m, p
<1>4. /\ \A c : Queued(rfcommOut, c) <=> Queued(rfcommOut', c) \/ c = p
      /\ QueuedOnce(rfcommOut') /\ ~Queued(rfcommOut', p)
  BY <1>1, QueuedTaken DEF PacketInv, p
<1>5. ~Answered(inbox, p)
  BY <1>2, <1>4 DEF PacketInv
<1>6. /\ \A c : Answered(inbox', c) <=> Answered(inbox, c) \/ c = p
      /\ AnsweredOnce(inbox')
  BY <1>1, <1>3, <1>5, AnsweredAdded DEF PacketInv
<1>7. \A c : Packet(c)' <=> Packet(c)
  BY <1>4, <1>6 DEF Packet
<1>8. PacketInv'
  <2>1. \A c \in Buffer : ~(Queued(rfcommOut', c) /\ Answered(inbox', c))
    BY <1>4, <1>6 DEF PacketInv
  <2> QED
    BY <1>1, <1>4, <1>6, <1>7, <2>1 DEF PacketInv
<1>9. InSession' <=> InSession
  BY <1>1 DEF InSession
<1>10. FrameInv'
  <2>1. InSession /\ send_data.data # NULL => ~Packet(send_data.data)'
    BY <1>1, <1>7 DEF FrameInv, Packet
  <2> QED
    BY <1>1, <1>9, <2>1 DEF FrameInv, Packet
<1>11. NoneLost'
  BY <1>1, <1>7, <1>9 DEF NoneLost
<1> QED
  BY <1>8, <1>10, <1>11

\* A session over RFCOMM took over from a BLE link that had nothing on its way,
\* and gives that link nothing.
LEMMA ApartKept ==
    ASSUME TypeInv, LinkInv, Apart, ~mixed, ~mixed', Next
    PROVE  Apart'
<1>0. inbox \in Seq(Message) /\ g_wechat \in Session \cup {NULL}
  BY ChunkTypes
<1> DEFINE ic == "GATT_INDICATION_CFM"
           Rf == g_wechat # NULL /\ g_wechat.type = "RFCOMM"
<1>1. inbox # <<>> /\ inbox' = Tail(inbox) => (Holds(inbox', ic) => Holds(inbox, ic))
  BY <1>0, QueueTaken
<1>2. ASSUME NEW m \in Message, inbox' = Append(inbox, m), m.id # ic
      PROVE  Holds(inbox', ic) <=> Holds(inbox, ic)
  BY <1>0, <1>2, QueueAdded
<1>3. ASSUME Rf' => Rf, Holds(inbox', ic) => Holds(inbox, ic),
             UNCHANGED <<air, timers>> \/ (air # <<>> \/ timers > 0)
      PROVE  Apart'
  <2> SUFFICES ASSUME Rf' PROVE air' = <<>> /\ timers' = 0 /\ ~Holds(inbox', ic)
    BY DEF Apart
  <2> QED
    BY <1>3 DEF Apart
<1>4. ASSUME ~Rf' PROVE Apart'
  BY <1>4 DEF Apart
<1> HIDE DEF Rf
<1>5. CASE HandleGattConnectCfm \/ HandleGattDisconnectInd \/ HandleWechatDisconnectInd
           \/ Reboot
  BY <1>4, <1>5 DEF HandleGattConnectCfm, HandleGattDisconnectInd,
     HandleWechatDisconnectInd, Reboot, NewSession, Rf
<1>6. CASE HandleClientConfig
  <2>1. /\ inbox # <<>> /\ inbox' = Tail(inbox) /\ g_wechat \in Session
    BY <1>0, <1>6 DEF HandleClientConfig, Handle
  <2>2. CASE UNCHANGED <<g_wechat, air, timers>>
    BY <1>1, <1>3, <2>1, <2>2 DEF Rf
  <2>3. CASE g_wechat' = [g_wechat EXCEPT !.connect_state = TRUE, !.type = "BLE"]
    <3>1. g_wechat'.type = "BLE"
      BY <2>1, <2>3 DEF Session
    <3> QED
      BY <1>4, <3>1 DEF Rf
  <2> QED
    BY <1>6, <2>2, <2>3 DEF HandleClientConfig, sessionVars
<1>7. CASE HandleGattIndicationCfm
  <2>1. /\ inbox # <<>> /\ Head(inbox).id = ic /\ inbox' = Tail(inbox)
        /\ UNCHANGED g_wechat
    BY <1>7 DEF HandleGattIndicationCfm, Handle
  <2>2. Holds(inbox, ic)
    <3>1. Len(inbox) \in Nat \ {0} /\ inbox[1].id = ic
      BY <1>0, <2>1, EmptySeq
    <3> QED
      BY <3>1 DEF Holds
  <2>3. ~Rf
    BY <2>2 DEF Apart, Rf
  <2> QED
    BY <1>4, <2>1, <2>3 DEF Rf
<1>8. CASE RepeatSendIndication
  <2>1. timers > 0 /\ UNCHANGED <<g_wechat, inbox>>
    BY <1>8 DEF RepeatSendIndication
  <2> QED
    BY <1>3, <2>1 DEF Rf
<1>9. CASE HandleWechatConnectInd
  <2>1. /\ inbox # <<>> /\ inbox' = Tail(inbox) /\ PackAndSend("RFCOMM") /\ timers' = timers
        /\ mixed' = (\/ mixed \/ air # <<>> \/ timers > 0
                     \/ Waiting({"GATT_INDICATION_CFM"}) # {})
    BY <1>9 DEF HandleWechatConnectInd, Handle
  <2>2. air' = air
    BY <2>1 DEF PackAndSend
  <2>3. ~(air # <<>>) /\ ~(timers > 0) /\ ~(Waiting({"GATT_INDICATION_CFM"}) # {})
    BY <2>1, Zenon
  <2>4. ~Holds(inbox, ic)
    BY <2>3 DEF Waiting, Holds
  <2>5. timers \in Nat
    BY BoundAssumption DEF TypeInv, TypeOK
  <2> QED
    BY <1>1, <2>1, <2>2, <2>3, <2>4, <2>5 DEF Apart
<1>10. CASE HandleWechatSendPacketCfm \/ RcvWithoutSession
  BY <1>1, <1>3, <1>10
     DEF HandleWechatSendPacketCfm, RcvWithoutSession, Handle, sessionVars, Rf
<1>11. CASE RcvRespAuth \/ RcvRespInit \/ RcvPushRecvData \/ Report
  <2>1. /\ Holds(inbox', ic) => Holds(inbox, ic)
        /\ g_wechat # NULL /\ g_wechat \in Session /\ UNCHANGED timers
    BY <1>0, <1>1, <1>11 DEF RcvRespAuth, RcvRespInit, RcvPushRecvData, Report, Handle
  <2>2. \E a : \/ g_wechat' = [g_wechat EXCEPT !.auth_state = a]
               \/ g_wechat' = [g_wechat EXCEPT !.init_state = a]
               \/ g_wechat' = g_wechat
    BY <1>11 DEF RcvRespAuth, RcvRespInit, RcvPushRecvData, Report
  <2>3. g_wechat'.type = g_wechat.type
    BY <2>1, <2>2 DEF Session
  <2>4. PackAndSend(g_wechat.type) \/ UNCHANGED air
    BY <1>11 DEF RcvRespAuth, RcvRespInit, RcvPushRecvData, Report
  <2>5. Rf => UNCHANGED air
    BY <2>4 DEF PackAndSend, Rf
  <2>6. Rf' => Rf
    BY <2>1, <2>3 DEF Rf
  <2>7. CASE Rf
    BY <1>3, <2>1, <2>5, <2>6, <2>7
  <2>8. CASE ~Rf
    BY <1>4, <2>6, <2>8
  <2> QED
    BY <2>7, <2>8
<1>12. CASE BleConfirm \/ BleFail
  <2>1. air # <<>> /\ UNCHANGED g_wechat
    BY <1>12 DEF BleConfirm, BleFail, sessionVars
  <2>2. ~Rf
    BY <2>1 DEF Apart, Rf
  <2> QED
    BY <1>4, <2>1, <2>2 DEF Rf
<1>13. CASE BleDisconnect
  <2>1. [id |-> "GATT_DISCONNECT_IND", ok |-> TRUE] \in Message
    BY Messages DEF Event
  <2>2. Holds(inbox', ic) <=> Holds(inbox, ic)
    BY <1>2, <1>13, <2>1 DEF BleDisconnect, Deliver
  <2>3. air' = <<>> /\ UNCHANGED <<g_wechat, timers>>
    BY <1>13 DEF BleDisconnect, Deliver, sessionVars
  <2> QED
    BY <2>2, <2>3 DEF Apart
<1>14. ASSUME NEW id \in Event, NEW ok \in BOOLEAN, Deliver(id, ok), UNCHANGED air
       PROVE  Apart'
  <2>1. [id |-> id, ok |-> ok] \in Message
    BY Messages
  <2>2. inbox' = Append(inbox, [id |-> id, ok |-> ok]) /\ UNCHANGED <<g_wechat, timers>>
    BY <1>14 DEF Deliver, sessionVars
  <2>3. id # ic
    BY DEF Event
  <2> QED
    BY <1>2, <1>3, <1>14, <2>1, <2>2, <2>3 DEF Rf
<1>15. CASE BleConnect \/ BleSubscribe \/ RfcommConnect \/ RfcommDisconnect
  BY <1>14, <1>15 DEF BleConnect, BleSubscribe, RfcommConnect, RfcommDisconnect, Event, libVars
<1>16. CASE PhoneSends
  BY <1>14, <1>16 DEF PhoneSends, Event, libVars
<1>17. CASE RfcommSendPacket
  <2>1. rfcommOut \in Seq(Buffer) /\ rfcommOut # <<>>
    BY <1>17 DEF RfcommSendPacket, TypeInv, TypeOK
  <2>2. [id |-> "WECHAT_SEND_PACKET_CFM", packet |-> Head(rfcommOut)] \in Message
    BY <2>1, HeadTailProperties, Messages
  <2> QED
    BY <1>2, <1>3, <1>17, <2>2 DEF RfcommSendPacket, sessionVars, Rf
<1>18. CASE ButtonCDoubleClick \/ DisableBleAdvertising \/ WechatDisconnect
            \/ Fatal \/ HeapTrap
  BY <1>3, <1>18
     DEF ButtonCDoubleClick, DisableBleAdvertising, WechatDisconnect, Fatal, StrayAccess,
         NoMemory, HeapTrap, sessionVars, libVars, Rf
<1> QED
  BY <1>5, <1>6, <1>7, <1>8, <1>9, <1>10, <1>11, <1>12, <1>13, <1>15, <1>16, <1>17, <1>18
     DEF Next, AppHandler

\* What a step does to the buffers: their owners, and no second free.
Owned == PacketInv /\ FrameInv /\ NoneLost /\ ~freedTwice

\* The handlers that pack a frame.
LEMMA PackersOwned ==
    ASSUME TypeInv, LinkInv, Owned,
           HandleClientConfig \/ HandleWechatConnectInd \/ RcvRespAuth
              \/ RcvPushRecvData \/ Report
    PROVE  Owned'
<1>0. g_wechat \in Session \cup {NULL}
  BY ChunkTypes
<1>1. SameAnswers
  BY OtherMessages
     DEF HandleClientConfig, HandleWechatConnectInd, RcvRespAuth, RcvPushRecvData, Report,
         Handle
<1>2. ASSUME g_wechat # NULL, g_wechat' # NULL, g_wechat'.type = g_wechat.type,
             NotePack, PackAndSend(g_wechat.type)
      PROVE  Owned'
  <2>1. PICK b \in Buffer \ heap :
           /\ heap' = heap \cup {b} /\ send_data'.data = b
           /\ g_wechat.type = "RFCOMM" => rfcommOut' = Append(rfcommOut, b)
           /\ g_wechat.type # "RFCOMM" => rfcommOut' = rfcommOut
    BY <1>2, PackForms
  <2>2. dropped' = (dropped \/ Unsent) /\ freedTwice' = freedTwice
    BY <1>2 DEF NotePack
  <2>3. \/ InSession' /\ UNCHANGED rfcommOut
        \/ ~InSession' /\ rfcommOut' = Append(rfcommOut, b)
    BY <1>2, <2>1 DEF InSession
  <2> QED
    BY <1>1, <2>1, <2>2, <2>3, PackOwned DEF Owned
<1>3. ASSUME UNCHANGED <<heap, rfcommOut, send_data, dropped, freedTwice>>,
             InSession' <=> InSession
      PROVE  Owned'
  BY <1>1, <1>3, StillOwned DEF Owned
<1>4. CASE HandleClientConfig
  <2>1. g_wechat \in Session /\ g_wechat # NULL
    BY <1>0, <1>4 DEF HandleClientConfig
  <2>2. CASE UNCHANGED <<sessionVars, rfcommOut, historyVars>>
    BY <1>3, <2>2 DEF sessionVars, historyVars, InSession
  <2>3. CASE /\ ~g_wechat.connect_state /\ NotePack
             /\ g_wechat' = [g_wechat EXCEPT !.connect_state = TRUE, !.type = "BLE"]
             /\ \/ PackAndSend("BLE")
                \/ \E b \in Buffer \ heap :
                      /\ heap' = heap \cup {b} /\ UNCHANGED rfcommOut
                      /\ send_data' = [data |-> b, len |-> Chunks, offset |-> 0]
    <3>1. g_wechat'.type = "BLE" /\ g_wechat' # NULL
      BY <2>1, <2>3, NullAssumption DEF Session
    <3>2. PICK b \in Buffer \ heap : /\ heap' = heap \cup {b} /\ send_data'.data = b
                                     /\ rfcommOut' = rfcommOut
      <4>1. CASE PackAndSend("BLE")
        BY <4>1, PackForms
      <4>2. CASE \E b \in Buffer \ heap :
                      /\ heap' = heap \cup {b} /\ UNCHANGED rfcommOut
                      /\ send_data' = [data |-> b, len |-> Chunks, offset |-> 0]
        BY <4>2
      <4> QED
        BY <2>3, <4>1, <4>2
    <3>3. dropped' = (dropped \/ Unsent) /\ freedTwice' = freedTwice /\ InSession'
      BY <2>3, <3>1 DEF NotePack, InSession
    <3> QED
      BY <1>1, <3>2, <3>3, PackOwned DEF Owned
  <2> QED
    BY <1>4, <2>2, <2>3 DEF HandleClientConfig
<1>5. CASE HandleWechatConnectInd
  <2>1. /\ g_wechat' = [NewSession EXCEPT !.connect_state = TRUE, !.type = "RFCOMM"]
        /\ PackAndSend("RFCOMM") /\ dropped' = (dropped \/ Unsent)
        /\ freedTwice' = freedTwice
    BY <1>5 DEF HandleWechatConnectInd
  <2>2. ~InSession'
    BY <2>1 DEF NewSession, InSession
  <2>3. PICK b \in Buffer \ heap : /\ heap' = heap \cup {b} /\ send_data'.data = b
                                   /\ rfcommOut' = Append(rfcommOut, b)
    BY <2>1, PackForms
  <2> QED
    BY <1>1, <2>1, <2>2, <2>3, PackOwned DEF Owned
<1>6. CASE RcvRespAuth \/ RcvPushRecvData \/ Report
  <2>1. g_wechat # NULL /\ g_wechat \in Session
    BY <1>0, <1>6 DEF RcvRespAuth, RcvPushRecvData, Report
  <2>2. \E a : g_wechat' = [g_wechat EXCEPT !.auth_state = a] \/ g_wechat' = g_wechat
    BY <1>6 DEF RcvRespAuth, RcvPushRecvData, Report
  <2>3. g_wechat'.type = g_wechat.type
    BY <2>1, <2>2 DEF Session
  <2>4. FrameShape' /\ NULL \notin Buffer
    BY <1>6, NextTypeInv, NullAssumption DEF TypeInv, Next, AppHandler
  <2>5. CASE PackAndSend(g_wechat.type) /\ NotePack
    <3>1. send_data'.data \in Buffer
      BY <2>5, PackTyped
    <3>2. g_wechat' # NULL
      BY <2>4, <3>1 DEF FrameShape, NoFrame
    <3> QED
      BY <1>2, <2>1, <2>3, <2>5, <3>2
  <2>6. CASE UNCHANGED <<send_data, heap, rfcommOut, historyVars>>
    <3>1. UNCHANGED <<heap, rfcommOut, send_data, dropped, freedTwice>>
      BY <2>6 DEF historyVars
    <3>2. CASE g_wechat' # NULL
      BY <1>3, <2>1, <2>3, <3>1, <3>2 DEF InSession
    <3>3. CASE g_wechat' = NULL
      <4>1. send_data' = NoFrame /\ ~InSession'
        BY <2>4, <3>3 DEF FrameShape, InSession
      <4>2. ~Unsent /\ NoFrame.len = 0
        BY <3>1, <4>1 DEF NoFrame, Unsent
      <4>3. dropped' = (dropped \/ Unsent)
        <5>1. dropped' = dropped /\ dropped \in BOOLEAN
          BY <3>1 DEF TypeInv, TypeOK
        <5> QED
          BY <4>2, <5>1, Zenon
      <4> QED
        BY <1>1, <3>1, <4>1, <4>3, StillOwned DEF Owned
    <3> QED
      BY <3>2, <3>3
  <2> QED
    BY <1>6, <2>5, <2>6 DEF RcvRespAuth, RcvPushRecvData, Report
<1> QED
  BY <1>4, <1>5, <1>6

\* Every step keeps one owner for each buffer.
LEMMA NextOwnerInv == TypeInv /\ LinkInv /\ OwnerInv /\ [Next]_vars => OwnerInv'
<1> SUFFICES ASSUME TypeInv, LinkInv, OwnerInv, [Next]_vars, ~mixed'
             PROVE  ~freedTwice' /\ Apart' /\ PacketInv' /\ FrameInv' /\ NoneLost'
  BY DEF OwnerInv
<1>1. CASE Reboot
  <2>1. /\ heap' = {} /\ inbox' = <<>> /\ rfcommOut' = <<>> /\ g_wechat' = NULL
        /\ ~freedTwice'
    BY <1>1 DEF Reboot
  <2>2. /\ \A c : ~Queued(rfcommOut', c) /\ ~Answered(inbox', c)
        /\ QueuedOnce(rfcommOut') /\ AnsweredOnce(inbox')
    BY <2>1 DEF Queued, Answered, QueuedOnce, AnsweredOnce
  <2> QED
    BY <2>1, <2>2 DEF Apart, PacketInv, Packet, FrameInv, InSession, NoneLost
<1>2. CASE UNCHANGED vars
  <2>1. /\ UNCHANGED <<inbox, heap, rfcommOut, g_wechat, send_data, air, timers>>
        /\ UNCHANGED <<mixed, dropped, freedTwice>>
    BY <1>2 DEF vars, sessionVars, libVars, historyVars
  <2>2. ~mixed
    BY <2>1
  <2>3. SameAnswers
    BY <2>1, OtherMessages
  <2>4. ~freedTwice /\ Apart /\ PacketInv /\ FrameInv /\ NoneLost
    BY <2>2 DEF OwnerInv
  <2>5. PacketInv' /\ FrameInv' /\ NoneLost'
    BY <2>1, <2>3, <2>4, StillOwned DEF InSession
  <2> QED
    BY <2>1, <2>4, <2>5 DEF Apart
<1>3. CASE Next /\ ~Reboot
  <2>1. ~mixed
    <3>1. NotePack \/ UNCHANGED historyVars => mixed' = mixed
      BY DEF NotePack, historyVars
    <3>2. CASE HandleWechatConnectInd
      BY <3>2, Zenon DEF HandleWechatConnectInd
    <3>3. mixed' = mixed \/ HandleWechatConnectInd
      <4>1. CASE AppHandler
        BY <3>1, <4>1
           DEF AppHandler, HandleGattConnectCfm, HandleClientConfig, HandleGattDisconnectInd,
               HandleGattIndicationCfm, HandleWechatDisconnectInd,
               HandleWechatSendPacketCfm, RcvWithoutSession, RcvRespAuth, RcvRespInit,
               RcvPushRecvData
      <4>2. CASE Next /\ ~AppHandler /\ ~Reboot
        BY <3>1, <4>2
           DEF Next, RepeatSendIndication, Report, ButtonCDoubleClick,
               DisableBleAdvertising, BleConnect, BleSubscribe, BleDisconnect, BleConfirm,
               BleFail, RfcommConnect, RfcommDisconnect, WechatDisconnect,
               RfcommSendPacket, PhoneSends, Fatal, StrayAccess, NoMemory, HeapTrap
      <4> QED
        BY <1>3, <4>1, <4>2
    <3> QED
      BY <3>2, <3>3
  <2>2. Owned /\ Apart
    BY <2>1 DEF OwnerInv, Owned
  <2>3. Apart'
    BY <1>3, <2>1, <2>2, ApartKept
  <2>4. SUFFICES Owned'
    BY <2>3 DEF Owned
  <2>5. ASSUME SameAnswers, UNCHANGED <<heap, rfcommOut, freedTwice>>,
               \/ (InSession' <=> InSession) /\ UNCHANGED <<send_data, dropped>>
               \/ send_data' = NoFrame /\ dropped' = (dropped \/ Unsent)
        PROVE  Owned'
    BY <2>2, <2>5, StillOwned DEF Owned
  <2>6. CASE HandleClientConfig \/ HandleWechatConnectInd \/ RcvRespAuth
             \/ RcvPushRecvData \/ Report
    BY <2>2, <2>6, PackersOwned
  <2>7. CASE HandleGattConnectCfm \/ HandleGattDisconnectInd \/ HandleWechatDisconnectInd
    <3>1. SameAnswers
      BY <2>7, OtherMessages
         DEF HandleGattConnectCfm, HandleGattDisconnectInd, HandleWechatDisconnectInd, Handle
    <3> QED
      BY <2>5, <2>7, <3>1
         DEF HandleGattConnectCfm, HandleGattDisconnectInd, HandleWechatDisconnectInd
  <2>8. CASE HandleGattIndicationCfm
    <3>1. SameAnswers /\ UNCHANGED <<g_wechat, dropped, timers>>
      BY <2>8, OtherMessages DEF HandleGattIndicationCfm, Handle
    <3>2. CASE UNCHANGED <<send_data, heap, rfcommOut, freedTwice>>
      BY <2>5, <3>1, <3>2 DEF InSession
    <3>3. CASE g_wechat # NULL /\ SendData
      <4>1. InSession
        <5>1. /\ inbox # <<>> /\ Head(inbox).id = "GATT_INDICATION_CFM"
              /\ inbox \in Seq(Message)
          BY <2>8 DEF HandleGattIndicationCfm, Handle, TypeInv, TypeOK
        <5>2. Len(inbox) \in Nat \ {0} /\ inbox[1].id = "GATT_INDICATION_CFM"
          BY <5>1, EmptySeq
        <5> QED
          BY <2>2, <3>3, <5>2 DEF Apart, Holds, InSession
      <4> QED
        BY <2>2, <3>1, <3>3, <4>1, SendOwned DEF Owned
    <3> QED
      BY <2>8, <3>2, <3>3 DEF HandleGattIndicationCfm
  <2>9. CASE RepeatSendIndication
    <3>1. /\ SameAnswers /\ UNCHANGED <<g_wechat, dropped>> /\ SendData
          /\ timers > 0 /\ g_wechat # NULL
      BY <2>9, OtherMessages DEF RepeatSendIndication
    <3>2. InSession
      BY <2>2, <3>1 DEF Apart, InSession
    <3> QED
      BY <2>2, <3>1, <3>2, SendOwned DEF Owned
  <2>10. CASE HandleWechatSendPacketCfm
    BY <2>2, <2>10, PacketFreed DEF Owned
  <2>11. CASE RfcommSendPacket
    <3>1. freedTwice' = freedTwice
      BY <2>11 DEF RfcommSendPacket, historyVars
    <3> QED
      BY <2>2, <2>11, <3>1, PacketAnswered DEF Owned
  <2>12. CASE RcvRespInit
    <3>1. /\ SameAnswers /\ UNCHANGED <<send_data, heap, rfcommOut, dropped, freedTwice>>
          /\ g_wechat # NULL
          /\ \E a : g_wechat' = [g_wechat EXCEPT !.init_state = a]
      BY <2>12, OtherMessages DEF RcvRespInit, Handle, historyVars
    <3>2. g_wechat'.type = g_wechat.type /\ g_wechat' # NULL
      <4>1. g_wechat \in Session
        BY <3>1, ChunkTypes
      <4>2. g_wechat'.type = g_wechat.type
        BY <3>1, <4>1 DEF Session
      <4>3. g_wechat' \in Session
        BY <2>12, <4>1 DEF RcvRespInit, Session
      <4> QED
        BY <4>2, <4>3, NullAssumption
    <3> QED
      BY <2>5, <3>1, <3>2 DEF InSession
  <2>13. CASE RcvWithoutSession
    <3>1. SameAnswers
      BY <2>13, OtherMessages DEF RcvWithoutSession, Handle
    <3> QED
      BY <2>5, <2>13, <3>1 DEF RcvWithoutSession, sessionVars, historyVars, InSession
  <2>14. CASE ButtonCDoubleClick \/ DisableBleAdvertising \/ WechatDisconnect \/ BleFail
              \/ Fatal \/ HeapTrap
    <3>1. UNCHANGED <<inbox, sessionVars, rfcommOut, dropped, freedTwice>>
      BY <2>14 DEF ButtonCDoubleClick, DisableBleAdvertising, WechatDisconnect, BleFail,
         Fatal, StrayAccess, NoMemory, HeapTrap, libVars, historyVars
    <3>2. SameAnswers
      BY <3>1, OtherMessages
    <3> QED
      BY <2>5, <3>1, <3>2 DEF sessionVars, InSession
  <2>15. ASSUME NEW m \in Message, m.id # "WECHAT_SEND_PACKET_CFM",
                inbox' = Append(inbox, m),
                UNCHANGED <<sessionVars, rfcommOut, dropped, freedTwice>>
         PROVE  Owned'
    <3>1. SameAnswers
      BY <2>15, OtherMessages
    <3> QED
      BY <2>5, <2>15, <3>1 DEF sessionVars, InSession
  <2>16. ASSUME NEW id \in Event, NEW ok \in BOOLEAN, Deliver(id, ok),
                UNCHANGED <<rfcommOut, dropped, freedTwice>>
         PROVE  Owned'
    <3>1. [id |-> id, ok |-> ok] \in Message /\ id # "WECHAT_SEND_PACKET_CFM"
      BY Messages DEF Event
    <3>2. inbox' = Append(inbox, [id |-> id, ok |-> ok]) /\ UNCHANGED sessionVars
      BY <2>16 DEF Deliver
    <3> QED
      BY <2>15, <2>16, <3>1, <3>2
  <2>17. CASE BleConnect \/ BleSubscribe \/ BleDisconnect \/ RfcommConnect \/ RfcommDisconnect
    BY <2>16, <2>17 DEF BleConnect, BleSubscribe, BleDisconnect, RfcommConnect,
       RfcommDisconnect, Event, libVars, historyVars
  <2>18. CASE PhoneSends
    BY <2>16, <2>18 DEF PhoneSends, Event, libVars, historyVars
  <2>19. CASE BleConfirm
    BY <2>15, <2>19, Messages DEF BleConfirm
  <2> QED
    BY <1>3, <2>6, <2>7, <2>8, <2>9, <2>10, <2>11, <2>12, <2>13, <2>14, <2>17, <2>18, <2>19
       DEF Next, AppHandler
<1> QED
  BY <1>1, <1>2, <1>3

\* No buffer is allocated at the start.
LEMMA InitOwnerInv == Init => OwnerInv
<1> SUFFICES ASSUME Init PROVE OwnerInv
  OBVIOUS
<1>1. /\ heap = {} /\ inbox = <<>> /\ rfcommOut = <<>> /\ g_wechat = NULL /\ ~freedTwice
  BY DEF Init
<1>2. /\ \A c : ~Queued(rfcommOut, c) /\ ~Answered(inbox, c)
      /\ QueuedOnce(rfcommOut) /\ AnsweredOnce(inbox)
  BY <1>1 DEF Queued, Answered, QueuedOnce, AnsweredOnce
<1> QED
  BY <1>1, <1>2 DEF OwnerInv, Apart, PacketInv, Packet, FrameInv, InSession, NoneLost

\* Each buffer has one owner: the session, the library, or an answer.
LEMMA OwnerInvariant == Spec => []OwnerInv
BY TypeInvariant, LinkInvariant, InitOwnerInv, NextOwnerInv, PTL DEF Spec

\* A buffer is freed once, by the last confirmation of its frame or by the
\* answer to its packet, unless RFCOMM takes the session over from a BLE link
\* that is still sending.
THEOREM FreedOnceOnly == Spec => []FreedOnce
<1>1. OwnerInv => FreedOnce
  BY DEF OwnerInv, FreedOnce
<1> QED
  BY <1>1, OwnerInvariant, PTL

\* Every allocated frame is held by the session, the library or an answer on
\* its way, unless an unsent frame was packed over or lost with its session.
THEOREM NothingLeaks == Spec => []NoLeak
<1>1. OwnerInv => NoLeak
  BY DEF OwnerInv, NoneLost, NoLeak, Packet, Queued, Answered, Answers
<1> QED
  BY <1>1, OwnerInvariant, PTL
=============================================================================
