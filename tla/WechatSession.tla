--------------------------- MODULE WechatSession ---------------------------
(***************************************************************************)
(* The session between the headset and the WeChat application, over GATT   *)
(* indications or over RFCOMM: koovox_wechat_handle.c with the handlers of *)
(* sink_gatt.c, sink_gatt_server.c and sink_wechat.c that call it.         *)
(*                                                                         *)
(* One global session (g_wechat) serves both transports.  Its outgoing     *)
(* frame is one heap buffer (send_data).  Over BLE it leaves in chunks, one *)
(* per GATT_INDICATION_CFM, and is freed when the last chunk is confirmed; *)
(* over RFCOMM the pointer goes to the library, whose SEND_PACKET_CFM frees *)
(* it.  Nothing says whether the frame before has left.                    *)
(***************************************************************************)
EXTENDS Naturals, FiniteSets, Sequences

CONSTANTS
    Buffer,     \* heap blocks large enough for a frame
    NULL,       \* the null pointer
    Chunks,     \* indications that a frame takes (SIZE_GATT_MTU bytes each)
    Links,      \* the links phones use: "BLE", "RFCOMM" or both
    MaxLoad     \* bound: events, indications and timers not yet dealt with

ASSUME BoundAssumption ==
    /\ Chunks \in Nat \ {0}
    /\ Links \subseteq {"BLE", "RFCOMM"}
    /\ MaxLoad \in Nat \ {0}

VARIABLES
    g_wechat,   \* the session: NULL or a record of its state
    send_data,  \* its outgoing frame: buffer, length and offset in chunks
    indication, \* theSink.rundata->gatt.server.indication
    heap,       \* the allocated frame buffers
    inbox,      \* messages waiting for the application's handlers
    timers,     \* running EventKoovoxRepeatSendIndication timers
    att,        \* the ATT link of the phone is up
    listening,  \* a GattConnectRequest is pending
    ble_adv,    \* koovox.ble_adv: the radio advertises
    air,        \* GATT library: indications requested, the first one sent
    rfcomm,     \* library: the transport slot (free, up or closing)
    rfcommOut,  \* library: packets given to WechatSendPacket
    heard,      \* phone: the last chunk that arrived over BLE
    panicked,
    torn,       \* history: a chunk did not continue what the phone has heard
    overlapped, \* history: a frame was packed over an unfinished one
    failed,     \* history: an indication failed on this link
    mixed,      \* history: RFCOMM took over while BLE was still sending
    dropped,    \* history: the last pointer to an unsent frame was lost
    freedTwice  \* history: a buffer was freed twice

sessionVars == <<g_wechat, send_data, indication, heap>>
advVars     == <<listening, ble_adv>>
libVars     == <<att, advVars, air, rfcomm, rfcommOut, heard>>
historyVars == <<torn, overlapped, failed, mixed, dropped, freedTwice>>
vars == <<sessionVars, libVars, historyVars, inbox, timers, panicked>>

-----------------------------------------------------------------------------
(* Types                                                                   *)

Session == [type : {"NONE", "RFCOMM", "BLE"}, connect_state : BOOLEAN,
            auth_state : BOOLEAN, init_state : BOOLEAN]

ASSUME NullAssumption == NULL \notin Buffer \cup Session

NewSession == [type |-> "NONE", connect_state |-> FALSE,
               auth_state |-> FALSE, init_state |-> FALSE]

Frame == [data : Buffer \cup {NULL}, len : {0, Chunks}, offset : 0..Chunks]

NoFrame == [data |-> NULL, len |-> 0, offset |-> 0]

Chunk == [data : Buffer, at : 0..Chunks]

\* What the links and the phone make the application handle.  `ok` is the
\* result a response carries.
Event == {"GATT_CONNECT_CFM", "CLIENT_CONFIG", "GATT_DISCONNECT_IND",
          "WECHAT_CONNECT_IND", "WECHAT_DISCONNECT_IND",
          "resp_auth", "resp_init", "push_recvData"}

Message == [id : Event, ok : BOOLEAN]
           \cup [id : {"GATT_INDICATION_CFM"}, ok : {TRUE}]
           \cup [id : {"WECHAT_SEND_PACKET_CFM"}, packet : Buffer]

Init ==
    /\ g_wechat = NULL /\ send_data = NoFrame /\ indication = "none"
    /\ heap = {} /\ inbox = <<>> /\ timers = 0
    /\ att = FALSE /\ listening = TRUE /\ ble_adv = FALSE /\ air = <<>>
    /\ rfcomm = "free" /\ rfcommOut = <<>>
    /\ heard = [data |-> NULL, at |-> Chunks]
    /\ panicked = FALSE
    /\ torn = FALSE /\ overlapped = FALSE /\ failed = FALSE
    /\ mixed = FALSE /\ dropped = FALSE /\ freedTwice = FALSE

-----------------------------------------------------------------------------
(* The outgoing frame                                                      *)

\* A frame that only send_data points to, and that has not left completely.
Unsent == send_data.len > 0 /\ g_wechat # NULL /\ g_wechat.type # "RFCOMM"

\* Everything that may still make the application send: the environment adds to
\* it only up to MaxLoad, so that no handler ever waits for room.
Waiting(ids) == {i \in 1..Len(inbox) : inbox[i].id \in ids}

Load == Len(air) + timers + Cardinality(Waiting(Event \cup {"GATT_INDICATION_CFM"}))

\* GattIndicationRequest copies the chunk.  On a link that is down the library
\* answers with a failure, which the application's handler ignores.
GattIndicationRequest(data, at) ==
    air' = IF att THEN Append(air, [data |-> data, at |-> at]) ELSE air

\* Mutant: a packet is handed over twice.
SendPacketTwice(data) == rfcommOut' = rfcommOut \o <<data, data>>

\* The library takes the pointer, and gives it back in SEND_PACKET_CFM.
WechatSendPacket(data) == rfcommOut' = Append(rfcommOut, data)

\* koovox_pack_wechat_*_req: a new buffer, whatever became of the old one, then
\* koovox_send_data_to_wechat: the first chunk, the whole packet, or nothing.
PackAndSend(type) ==
    \E b \in Buffer \ heap :
       /\ heap' = heap \cup {b}
       /\ \/ /\ type = "BLE"
             /\ send_data' = [data |-> b, len |-> Chunks, offset |-> 1]
             /\ indication' = "wechat"
             /\ GattIndicationRequest(b, 0)
             /\ UNCHANGED rfcommOut
          \/ /\ type = "RFCOMM"
             /\ send_data' = [data |-> b, len |-> Chunks, offset |-> 0]
             /\ WechatSendPacket(b)
             /\ UNCHANGED <<indication, air>>
          \/ /\ type = "NONE"
             /\ send_data' = [data |-> b, len |-> Chunks, offset |-> 0]
             /\ UNCHANGED <<indication, air, rfcommOut>>

\* Mutants of the send: the chunk after the last one is sent as well, a chunk
\* is skipped.
ChunkLeftOrLast == send_data.len >= send_data.offset
ChunkLeft == send_data.len > send_data.offset
SkipChunk == send_data.offset + (IF send_data.offset + 1 < Chunks THEN 2 ELSE 1)
NextOffset == send_data.offset + 1

\* koovox_send_data_to_wechat on the frame as it stands: the next chunk, the
\* end of the frame, or the whole packet once more.  free(NULL) does nothing.
SendData ==
    \/ /\ g_wechat.type = "BLE" /\ ChunkLeft
       /\ indication' = "wechat"
       /\ GattIndicationRequest(send_data.data, send_data.offset)
       /\ send_data' = [send_data EXCEPT !.offset = NextOffset]
       /\ UNCHANGED <<heap, rfcommOut, freedTwice>>
    \/ /\ g_wechat.type = "BLE" /\ ~ChunkLeft
       /\ indication' = "none"
       /\ heap' = heap \ {send_data.data}
       /\ freedTwice' = (freedTwice \/ send_data.data \notin heap \cup {NULL})
       /\ send_data' = NoFrame
       /\ UNCHANGED <<air, rfcommOut>>
    \/ /\ g_wechat.type = "RFCOMM" /\ send_data.data # NULL
       /\ WechatSendPacket(send_data.data)
       /\ UNCHANGED <<air, heap, indication, send_data, freedTwice>>
    \/ /\ \/ g_wechat.type = "NONE"
          \/ g_wechat.type = "RFCOMM" /\ send_data.data = NULL
       /\ UNCHANGED <<air, heap, indication, send_data, rfcommOut, freedTwice>>

\* History of a pack: over an unfinished frame, whose buffer nobody frees then.
NotePack ==
    /\ overlapped' = (overlapped \/ Unsent)
    /\ dropped' = (dropped \/ Unsent)
    /\ UNCHANGED <<torn, failed, mixed, freedTwice>>

-----------------------------------------------------------------------------
(* Handlers of the application                                             *)

\* The next message for the application.
Handle(id) ==
    /\ ~panicked /\ inbox # <<>> /\ Head(inbox).id = id
    /\ inbox' = Tail(inbox)
    /\ UNCHANGED <<att, heard, panicked>>

\* gatt_message_handler: koovox_init_wechat wipes a session that is there.
HandleGattConnectCfm ==
    /\ Handle("GATT_CONNECT_CFM")
    /\ g_wechat' = NewSession
    /\ send_data' = NoFrame
    /\ ble_adv' = FALSE
    /\ dropped' = (dropped \/ Unsent)
    /\ UNCHANGED <<indication, heap, timers, listening, air, rfcomm, rfcommOut,
                   torn, overlapped, failed, mixed, freedTwice>>

\* Mutant: nothing sends the queued request later.
ForgetToRepeat == UNCHANGED timers

\* MessageSendLater(EventKoovoxRepeatSendIndication); it is never cancelled.
RepeatLater == timers' = timers + 1

\* The phone writes the client configuration: koovox_wechat_connect(TYPE_BLE)
\* packs the auth request, and queues it while an indication is in progress.
HandleClientConfig ==
    /\ Handle("CLIENT_CONFIG")
    /\ g_wechat # NULL
    /\ \/ /\ g_wechat.connect_state
          /\ UNCHANGED <<sessionVars, timers, air, rfcommOut, historyVars>>
       \/ /\ ~g_wechat.connect_state
          /\ g_wechat' = [g_wechat EXCEPT !.connect_state = TRUE, !.type = "BLE"]
          /\ NotePack
          /\ \/ /\ indication = "none"
                /\ PackAndSend("BLE")
                /\ UNCHANGED timers
             \/ /\ indication # "none"
                /\ \E b \in Buffer \ heap :
                      /\ heap' = heap \cup {b}
                      /\ send_data' = [data |-> b, len |-> Chunks, offset |-> 0]
                /\ RepeatLater
                /\ UNCHANGED <<indication, air, rfcommOut>>
    /\ UNCHANGED <<advVars, rfcomm>>

\* server_handle_gatt_disconnect_ind: the link's end frees the session, even
\* one that runs over RFCOMM, but not the frame.
HandleGattDisconnectInd ==
    /\ Handle("GATT_DISCONNECT_IND")
    /\ listening' = TRUE /\ ble_adv' = TRUE
    /\ g_wechat' = NULL
    /\ send_data' = NoFrame
    /\ dropped' = (dropped \/ Unsent)
    /\ UNCHANGED <<indication, heap, timers, air, rfcomm, rfcommOut,
                   torn, overlapped, failed, mixed, freedTwice>>

\* server_handle_gatt_indication_cfm: only a success reaches this handler.
HandleGattIndicationCfm ==
    /\ Handle("GATT_INDICATION_CFM")
    /\ \/ indication = "wechat" /\ g_wechat # NULL /\ SendData
       \/ /\ indication = "none"
          /\ UNCHANGED <<send_data, indication, heap, air, rfcommOut, freedTwice>>
    /\ UNCHANGED <<g_wechat, timers, advVars, rfcomm,
                   torn, overlapped, failed, mixed, dropped>>

\* EventKoovoxRepeatSendIndication sends whatever the session holds by then.
RepeatSendIndication ==
    /\ ~panicked /\ timers > 0
    /\ timers' = timers - 1
    /\ g_wechat # NULL
    /\ SendData
    /\ UNCHANGED <<g_wechat, inbox, att, advVars, rfcomm, heard, panicked,
                   torn, overlapped, failed, mixed, dropped>>

\* handleWechatMessage, WECHAT_CONNECT_IND with success: koovox_init_wechat,
\* then koovox_wechat_connect(TYPE_RFCOMM), which sends the auth request.
HandleWechatConnectInd ==
    /\ Handle("WECHAT_CONNECT_IND")
    /\ g_wechat' = [NewSession EXCEPT !.connect_state = TRUE, !.type = "RFCOMM"]
    /\ PackAndSend("RFCOMM")
    /\ ble_adv' = FALSE
    /\ mixed' = (\/ mixed \/ air # <<>> \/ timers > 0
                 \/ Waiting({"GATT_INDICATION_CFM"}) # {})
    /\ dropped' = (dropped \/ Unsent)
    /\ UNCHANGED <<timers, listening, rfcomm, torn, overlapped, failed, freedTwice>>

\* WECHAT_DISCONNECT_IND: the response frees the library's slot, then the
\* session goes, even one that has moved to BLE.
HandleWechatDisconnectInd ==
    /\ Handle("WECHAT_DISCONNECT_IND")
    /\ rfcomm' = "free"
    /\ g_wechat' = NULL
    /\ send_data' = NoFrame
    /\ dropped' = (dropped \/ Unsent)
    /\ UNCHANGED <<indication, heap, timers, advVars, air, rfcommOut,
                   torn, overlapped, failed, mixed, freedTwice>>

\* Mutant: the packet is not freed when it could not be sent.
KeepPacket(b) == UNCHANGED heap

FreePacket(b) == heap' = heap \ {b}

\* WECHAT_SEND_PACKET_CFM frees the packet, sent or not.
HandleWechatSendPacketCfm ==
    /\ Handle("WECHAT_SEND_PACKET_CFM")
    /\ FreePacket(Head(inbox).packet)
    /\ freedTwice' = (freedTwice \/ Head(inbox).packet \notin heap)
    /\ UNCHANGED <<g_wechat, send_data, indication, timers, advVars, air, rfcomm,
                   rfcommOut, torn, overlapped, failed, mixed, dropped>>

\* koovox_rcv_data_from_wechat without a session does nothing.
RcvWithoutSession ==
    /\ \E id \in {"resp_auth", "resp_init", "push_recvData"} : Handle(id)
    /\ g_wechat = NULL
    /\ UNCHANGED <<sessionVars, timers, advVars, air, rfcomm, rfcommOut, historyVars>>

\* koovox_rcv_data_handle, ECI_resp_auth.  init_send is never set, so every
\* response asks for the initialisation until it is done.
RcvRespAuth ==
    /\ Handle("resp_auth")
    /\ g_wechat # NULL
    /\ LET auth == g_wechat.auth_state \/ Head(inbox).ok IN
       /\ g_wechat' = [g_wechat EXCEPT !.auth_state = auth]
       /\ IF auth /\ ~g_wechat.init_state
          THEN PackAndSend(g_wechat.type) /\ NotePack
          ELSE UNCHANGED <<send_data, indication, heap, air, rfcommOut, historyVars>>
    /\ UNCHANGED <<timers, advVars, rfcomm>>

\* ECI_resp_init.
RcvRespInit ==
    /\ Handle("resp_init")
    /\ g_wechat # NULL
    /\ g_wechat' = [g_wechat EXCEPT !.init_state = @ \/ Head(inbox).ok]
    /\ UNCHANGED <<send_data, indication, heap, timers, advVars, air, rfcomm,
                   rfcommOut, historyVars>>

\* ECI_push_recvData: S_PROCESS while a request runs, silence otherwise.
RcvPushRecvData ==
    /\ Handle("push_recvData")
    /\ g_wechat # NULL
    /\ \/ PackAndSend(g_wechat.type) /\ NotePack
       \/ UNCHANGED <<send_data, indication, heap, air, rfcommOut, historyVars>>
    /\ UNCHANGED <<g_wechat, timers, advVars, rfcomm>>

\* A frame of the sensor makes a handler of the application report to the
\* phone, at any time (module KoovoxRequest).
Report ==
    /\ ~panicked /\ g_wechat # NULL
    /\ Load < MaxLoad
    /\ PackAndSend(g_wechat.type)
    /\ NotePack
    /\ UNCHANGED <<g_wechat, inbox, timers, att, advVars, rfcomm, heard, panicked>>

\* A double click on C starts advertising while a phone is connected, and so
\* does the GATT_CONNECT_CFM that reports the pending GattConnectRequest.
ButtonCDoubleClick ==
    /\ ~panicked /\ ~ble_adv
    /\ ble_adv' = TRUE
    /\ UNCHANGED <<sessionVars, inbox, timers, panicked, att, listening, air,
                   rfcomm, rfcommOut, heard, historyVars>>

\* EventKoovoxDisableBleAdvertising: whatever starts advertising starts its
\* timer, and without advertising the timer does nothing.
DisableBleAdvertising ==
    /\ ~panicked /\ ble_adv
    /\ ble_adv' = FALSE
    /\ UNCHANGED <<sessionVars, inbox, timers, panicked, att, listening, air,
                   rfcomm, rfcommOut, heard, historyVars>>

-----------------------------------------------------------------------------
(* The ends of a run                                                       *)

\* Handlers that reach through g_wechat without looking at it.
StrayAccess ==
    /\ ~panicked /\ g_wechat = NULL
    /\ \/ inbox # <<>> /\ Head(inbox).id = "CLIENT_CONFIG"
       \/ inbox # <<>> /\ Head(inbox).id = "GATT_INDICATION_CFM" /\ indication = "wechat"
       \/ timers > 0
    /\ panicked' = TRUE
    /\ UNCHANGED <<sessionVars, libVars, historyVars, inbox, timers>>

\* The handler of message m packs a frame.
Packs(m) ==
    \/ m.id = "WECHAT_CONNECT_IND"
    \/ /\ g_wechat # NULL
       /\ \/ m.id = "CLIENT_CONFIG" /\ ~g_wechat.connect_state
          \/ /\ m.id = "resp_auth" /\ ~g_wechat.init_state
             /\ g_wechat.auth_state \/ m.ok
          \/ m.id = "push_recvData"

\* mallocPanic is malloc in this build: without memory the frame's header is
\* written through NULL.
NoMemory ==
    /\ ~panicked /\ heap = Buffer
    /\ inbox # <<>> /\ Packs(Head(inbox))
    /\ panicked' = TRUE
    /\ UNCHANGED <<sessionVars, libVars, historyVars, inbox, timers>>

\* A report finds no memory either, or a heap that a second free has corrupted
\* gives way.
HeapTrap ==
    /\ ~panicked
    /\ freedTwice \/ (heap = Buffer /\ g_wechat # NULL)
    /\ panicked' = TRUE
    /\ UNCHANGED <<sessionVars, libVars, historyVars, inbox, timers>>

\* A panic resets the headset and takes the links down.
Reboot ==
    /\ panicked
    /\ g_wechat' = NULL /\ send_data' = NoFrame /\ indication' = "none"
    /\ heap' = {} /\ inbox' = <<>> /\ timers' = 0
    /\ att' = FALSE /\ listening' = TRUE /\ ble_adv' = FALSE /\ air' = <<>>
    /\ rfcomm' = "free" /\ rfcommOut' = <<>>
    /\ heard' = [data |-> NULL, at |-> Chunks]
    /\ panicked' = FALSE
    /\ torn' = FALSE /\ overlapped' = FALSE /\ failed' = FALSE
    /\ mixed' = FALSE /\ dropped' = FALSE /\ freedTwice' = FALSE

-----------------------------------------------------------------------------
(* The links, the libraries and the phone                                  *)

Deliver(id, ok) ==
    /\ ~panicked
    /\ Load < MaxLoad
    /\ inbox' = Append(inbox, [id |-> id, ok |-> ok])
    /\ UNCHANGED <<sessionVars, timers, panicked>>

\* A phone connects over BLE; a new link starts with a clean record.
BleConnect ==
    /\ "BLE" \in Links /\ ~att /\ listening /\ ble_adv
    /\ Deliver("GATT_CONNECT_CFM", TRUE)
    /\ att' = TRUE /\ listening' = FALSE
    /\ heard' = [data |-> NULL, at |-> Chunks]
    /\ torn' = FALSE /\ overlapped' = FALSE /\ failed' = FALSE
    /\ UNCHANGED <<ble_adv, air, rfcomm, rfcommOut, mixed, dropped, freedTwice>>

BleSubscribe ==
    /\ att
    /\ Deliver("CLIENT_CONFIG", TRUE)
    /\ UNCHANGED <<libVars, historyVars>>

\* The link goes, by either side; what was not sent fails.
BleDisconnect ==
    /\ att
    /\ Deliver("GATT_DISCONNECT_IND", TRUE)
    /\ att' = FALSE /\ air' = <<>>
    /\ UNCHANGED <<advVars, rfcomm, rfcommOut, heard, historyVars>>

\* The library keeps one indication of a link in flight at a time.  The phone
\* confirms it, and the confirmation joins the inbox.
BleConfirm ==
    /\ ~panicked /\ air # <<>>
    /\ air' = Tail(air)
    /\ inbox' = Append(inbox, [id |-> "GATT_INDICATION_CFM", ok |-> TRUE])
    /\ heard' = Head(air)
    /\ torn' = \/ torn
               \/ Head(air).at = 0 /\ heard.at + 1 < Chunks
               \/ Head(air).at > 0 /\ ( \/ heard.data # Head(air).data
                                        \/ heard.at + 1 # Head(air).at )
    /\ UNCHANGED <<sessionVars, timers, att, advVars, rfcomm, rfcommOut, panicked,
                   overlapped, failed, mixed, dropped, freedTwice>>

BleFail ==
    /\ ~panicked /\ air # <<>>
    /\ air' = Tail(air)
    /\ failed' = TRUE
    /\ UNCHANGED <<sessionVars, inbox, timers, att, advVars, rfcomm, rfcommOut,
                   heard, panicked, torn, overlapped, mixed, dropped, freedTwice>>

RfcommConnect ==
    /\ "RFCOMM" \in Links /\ rfcomm = "free"
    /\ Deliver("WECHAT_CONNECT_IND", TRUE)
    /\ rfcomm' = "up"
    /\ UNCHANGED <<att, advVars, air, rfcommOut, heard, historyVars>>

\* The phone closes; the slot waits for WechatDisconnectResponse.
RfcommDisconnect ==
    /\ rfcomm = "up"
    /\ Deliver("WECHAT_DISCONNECT_IND", TRUE)
    /\ rfcomm' = "closing"
    /\ UNCHANGED <<att, advVars, air, rfcommOut, heard, historyVars>>

\* wechatDisconnect at power off: the slot is freed when the disconnection is
\* confirmed, and WECHAT_DISCONNECT_CFM leaves the session in place.
WechatDisconnect ==
    /\ ~panicked /\ rfcomm = "up"
    /\ rfcomm' = "free"
    /\ UNCHANGED <<sessionVars, inbox, timers, panicked, att, advVars, air,
                   rfcommOut, heard, historyVars>>

\* wechatTransportRfcommSendPacket always answers, sent or not.
RfcommSendPacket ==
    /\ ~panicked /\ rfcommOut # <<>>
    /\ rfcommOut' = Tail(rfcommOut)
    /\ inbox' = Append(inbox, [id |-> "WECHAT_SEND_PACKET_CFM",
                               packet |-> Head(rfcommOut)])
    /\ UNCHANGED <<sessionVars, timers, att, advVars, air, rfcomm, heard,
                   panicked, historyVars>>

\* The phone writes a frame, over either link.
PhoneSends ==
    /\ att \/ rfcomm = "up"
    /\ \/ \E id \in {"resp_auth", "resp_init"}, ok \in BOOLEAN : Deliver(id, ok)
       \/ Deliver("push_recvData", TRUE)
    /\ UNCHANGED <<libVars, historyVars>>

-----------------------------------------------------------------------------
(* Specification                                                           *)

AppHandler ==
    \/ HandleGattConnectCfm \/ HandleClientConfig \/ HandleGattDisconnectInd
    \/ HandleGattIndicationCfm
    \/ HandleWechatConnectInd \/ HandleWechatDisconnectInd
    \/ HandleWechatSendPacketCfm
    \/ RcvWithoutSession \/ RcvRespAuth \/ RcvRespInit \/ RcvPushRecvData

Fatal == StrayAccess \/ NoMemory

Next ==
    \/ AppHandler \/ RepeatSendIndication \/ Report
    \/ ButtonCDoubleClick \/ DisableBleAdvertising
    \/ BleConnect \/ BleSubscribe \/ BleDisconnect \/ BleConfirm \/ BleFail
    \/ RfcommConnect \/ RfcommDisconnect \/ WechatDisconnect \/ RfcommSendPacket
    \/ PhoneSends
    \/ Fatal \/ HeapTrap \/ Reboot

Spec == Init /\ [][Next]_vars

\* The scheduler handles every message, timers expire, a link either confirms
\* an indication, fails it or goes down, and a panic resets the chip.
Fairness ==
    /\ WF_vars(AppHandler \/ Fatal)
    /\ WF_vars(RepeatSendIndication \/ Fatal)
    /\ WF_vars(BleConfirm \/ BleFail)
    /\ WF_vars(RfcommSendPacket)
    /\ WF_vars(Reboot)

FairSpec == Spec /\ Fairness

-----------------------------------------------------------------------------
(* Properties                                                              *)

TypeOK ==
    /\ g_wechat \in Session \cup {NULL}
    /\ send_data \in Frame /\ send_data.offset <= send_data.len
    /\ indication \in {"none", "wechat"}
    /\ heap \subseteq Buffer
    /\ inbox \in Seq(Message)
    /\ timers \in 0..MaxLoad
    /\ att \in BOOLEAN /\ listening \in BOOLEAN /\ ble_adv \in BOOLEAN
    /\ air \in Seq(Chunk)
    /\ rfcomm \in {"free", "up", "closing"}
    /\ rfcommOut \in Seq(Buffer)
    /\ heard.data \in Buffer \cup {NULL} /\ heard.at \in 0..Chunks
    /\ {panicked, torn, overlapped, failed, mixed, dropped, freedTwice} \subseteq BOOLEAN

\* The phone hears whole frames, chunk after chunk: it takes a frame packed over
\* an unfinished one, or an indication that failed, to tear one.  Late
\* confirmations, the one-second repeat and a session that starts with a stale
\* indication flag do not.
WholeFrames == torn => overlapped \/ failed

\* A buffer is freed once, by the last confirmation or by the packet's: only
\* RFCOMM taking the session over from a sending BLE link can break it.
FreedOnce == freedTwice => mixed

\* Every allocated frame is still held by the session or by the library, as
\* long as no unsent frame was overwritten and no session lost with one.
NoLeak ==
    ~dropped /\ ~mixed =>
        \A b \in heap :
           \/ send_data.data = b
           \/ \E i \in 1..Len(rfcommOut) : rfcommOut[i] = b
           \/ \E i \in 1..Len(inbox) :
                 inbox[i].id = "WECHAT_SEND_PACKET_CFM" /\ inbox[i].packet = b

\* A frame packed for BLE is sent to its end, also one that was queued behind a
\* flag some earlier link has left: unless the session ends or moves, another
\* frame is packed over it, or an indication fails.
SendingBle == Unsent /\ g_wechat.type = "BLE"

FrameFinishes == SendingBle ~> (~SendingBle \/ overlapped \/ failed \/ ~att)
=============================================================================
