-------------------------- MODULE WechatTransport --------------------------
(***************************************************************************)
(* The RFCOMM transport of the WeChat library (src/src/lib/wechat) between *)
(* the application and the connection library: one service record that     *)
(* phones find, one server channel behind it, and a slot per connection.   *)
(*                                                                         *)
(* While a phone is connected the record is withdrawn and another channel  *)
(* registered; when it leaves, its channel is given back and the slot      *)
(* freed.  All of it happens by messages of one queue, so that an answer   *)
(* may find the slot in another state than the request left it.            *)
(***************************************************************************)
EXTENDS Naturals, FiniteSets, Sequences, SequencesExt

CONSTANTS
    Sink,               \* streams of the RFCOMM connections
    Channel,            \* the pool of RFCOMM server channels
    NULL,               \* the null pointer and the null sink
    MaxConnections,     \* the argument of WechatInit (the application gives 1)
    MaxLoad,            \* bound: messages and requests not yet dealt with
    MaxFailed,          \* bound: requests that BlueStack fails without need
    MaxClosed           \* bound: disconnections the application asks for

Slot == 1..MaxConnections

ASSUME NullAssumption == NULL \notin Sink \cup Channel \cup Nat

ASSUME BoundAssumption ==
    MaxConnections \in Nat \ {0} /\ MaxLoad \in Nat \ {0}
    /\ MaxFailed \in Nat /\ MaxClosed \in Nat

VARIABLES
    transport,          \* wechat->transport[]: type, sink, rfcomm_channel, connected
    spp_sdp_handle,     \* the record's handle, which stands for its channel
    wechat_transport,   \* application: the slot of the last connection
    session,            \* application: g_wechat # NULL, over RFCOMM
    queue,              \* VM messages to the connection library, this one, the application
    pending,            \* requests BlueStack has not answered
    registered,         \* BlueStack: server channels in use
    records,            \* BlueStack: service records, by their channel
    conn,               \* BlueStack: state and channel of every stream
    panicked,
    closed,             \* history: disconnections the application has asked for
    refused,            \* history: a connection the library accepted failed
    failed              \* history: requests that BlueStack failed without need

libVars     == <<transport, spp_sdp_handle>>
appVars     == <<wechat_transport, session>>
stackVars   == <<pending, registered, records, conn>>
historyVars == <<closed, refused, failed>>
vars == <<libVars, appVars, queue, stackVars, panicked, historyVars>>

-----------------------------------------------------------------------------
(* Slots and messages                                                      *)

NoTransport == [type |-> "none", sink |-> NULL, rfcomm_channel |-> NULL,
                connected |-> FALSE]

SdpRequest == {"SDP_REGISTER_REQ", "SDP_UNREGISTER_REQ"}

Request == SdpRequest \cup {"RFCOMM_REGISTER_REQ", "RFCOMM_UNREGISTER_REQ"}

AppEvent == {"WECHAT_CONNECT_IND", "WECHAT_DISCONNECT_IND"}

\* Every message has the same fields, those it does not use NULL.
Blank == [id |-> "RFCOMM_REGISTER_REQ", sink |-> NULL, channel |-> NULL,
          slot |-> NULL, ok |-> TRUE]

OnChannel(id, c, ok) == [Blank EXCEPT !.id = id, !.channel = c, !.ok = ok]

OnLink(id, s, c, ok) ==
    [Blank EXCEPT !.id = id, !.sink = s, !.channel = c, !.ok = ok]

OnSlot(id, t) == [Blank EXCEPT !.id = id, !.slot = t]

\* A stream: none, asked (the phone waits for the library), accepted or declined,
\* up, closing (the phone or the link has gone), leaving (the headset has asked).
NoConn == [state |-> "none", channel |-> NULL]

\* WechatStartService has just been called.
Init ==
    /\ transport = [t \in Slot |-> NoTransport] /\ spp_sdp_handle = NULL
    /\ wechat_transport = NULL /\ session = FALSE
    /\ queue = <<Blank>> /\ pending = <<>>
    /\ registered = {} /\ records = {} /\ conn = [s \in Sink |-> NoConn]
    /\ panicked = FALSE
    /\ closed = 0 /\ refused = FALSE /\ failed = 0

-----------------------------------------------------------------------------
(* Slots                                                                   *)

Taken(t) == transport[t].type = "rfcomm"

\* The slots that each search may find; it takes the first of them.
Free == {t \in Slot : ~Taken(t)}

FromRfcommChannel(c) == {t \in Slot : Taken(t) /\ transport[t].rfcomm_channel = c}

FromSink(s) == {t \in Slot : transport[t].sink = s}

FirstOf(found) ==
    IF found = {} THEN NULL ELSE CHOOSE t \in found : \A u \in found : t <= u

\* Mutant: the type is kept.
KeepType(t) ==
    transport' = [transport EXCEPT ![t].sink = NULL, ![t].connected = FALSE]

\* wechatTransportRfcommDropState keeps the channel.
DropState(t) ==
    transport' = [transport EXCEPT ![t].type = "none", ![t].sink = NULL,
                                   ![t].connected = FALSE]

-----------------------------------------------------------------------------
(* The transport's handlers                                                *)

\* The next message of the queue is handled, and the handler sends ms.
HandleAndSend(id, ms) ==
    /\ ~panicked /\ queue # <<>> /\ Head(queue).id = id
    /\ queue' = Tail(queue) \o ms
    /\ UNCHANGED panicked

\* Another channel becomes a record; the answers to the application are not
\* modelled, because it ignores WECHAT_START_SERVICE_CFM.
HandleRegisterCfm ==
    /\ HandleAndSend("RFCOMM_REGISTER_CFM",
           IF Head(queue).ok
           THEN <<OnChannel("SDP_REGISTER_REQ", Head(queue).channel, TRUE)>>
           ELSE <<>>)
    /\ UNCHANGED <<libVars, appVars, stackVars, historyVars>>

HandleSdpRegisterCfm ==
    /\ HandleAndSend("SDP_REGISTER_CFM", <<>>)
    /\ spp_sdp_handle' = IF Head(queue).ok THEN Head(queue).channel
                         ELSE spp_sdp_handle
    /\ UNCHANGED <<transport, appVars, stackVars, historyVars>>

\* Mutant: a connection without a free slot is accepted too.
AcceptAlways ==
    LET t == FirstOf(Free)  m == Head(queue) IN
    /\ HandleAndSend("RFCOMM_CONNECT_IND",
           <<OnLink("RFCOMM_CONNECT_RES", m.sink, m.channel, TRUE)>>)
    /\ transport' = IF t = NULL THEN transport
                    ELSE [transport EXCEPT ![t] =
                             [@ EXCEPT !.type = "rfcomm", !.sink = m.sink,
                                       !.rfcomm_channel = m.channel]]
    /\ UNCHANGED <<spp_sdp_handle, appVars, stackVars, historyVars>>

\* A free slot takes the connection; without one it is declined.
HandleConnectInd ==
    LET t == FirstOf(Free)  m == Head(queue) IN
    /\ HandleAndSend("RFCOMM_CONNECT_IND",
           <<OnLink("RFCOMM_CONNECT_RES", m.sink, m.channel, t # NULL)>>)
    /\ transport' = IF t = NULL THEN transport
                    ELSE [transport EXCEPT ![t] =
                             [@ EXCEPT !.type = "rfcomm", !.sink = m.sink,
                                       !.rfcomm_channel = m.channel]]
    /\ UNCHANGED <<spp_sdp_handle, appVars, stackVars, historyVars>>

\* ConnectionUnregisterServiceRecord(task, wechat->spp_sdp_handle).
WithdrawRecord == <<OnChannel("SDP_UNREGISTER_REQ", spp_sdp_handle, TRUE)>>

\* The connection stands: the record is withdrawn and the application told.
\* One that failed leaves its slot as it is, and the application ignores it.
HandleServerConnectCfm ==
    LET m == Head(queue)  t == FirstOf(FromRfcommChannel(m.channel)) IN
    \/ /\ HandleAndSend("RFCOMM_SERVER_CONNECT_CFM",
              WithdrawRecord \o <<OnSlot("WECHAT_CONNECT_IND", t)>>)
       /\ m.ok
       /\ transport' = IF t = NULL THEN transport
                       ELSE [transport EXCEPT ![t] =
                                [@ EXCEPT !.sink = m.sink, !.connected = TRUE]]
       /\ UNCHANGED <<spp_sdp_handle, appVars, stackVars, historyVars>>
    \/ /\ HandleAndSend("RFCOMM_SERVER_CONNECT_CFM", <<>>)
       /\ ~m.ok
       /\ UNCHANGED <<libVars, appVars, stackVars, historyVars>>

\* Mutant: no other channel is registered.
GetNoChannel ==
    /\ HandleAndSend("SDP_UNREGISTER_CFM", <<>>)
    /\ UNCHANGED <<libVars, appVars, stackVars, historyVars>>

\* Mutant: the status is not looked at.
GetChannelAnyway ==
    /\ HandleAndSend("SDP_UNREGISTER_CFM", <<Blank>>)
    /\ UNCHANGED <<libVars, appVars, stackVars, historyVars>>

\* "Get another channel from the pool", once the record is withdrawn.
HandleSdpUnregisterCfm ==
    /\ HandleAndSend("SDP_UNREGISTER_CFM",
           IF Head(queue).ok THEN <<Blank>> ELSE <<>>)
    /\ UNCHANGED <<libVars, appVars, stackVars, historyVars>>

\* ConnectionRfcommDeallocateChannel of the slot's channel.
ReleaseChannel(t) ==
    <<OnChannel("RFCOMM_UNREGISTER_REQ", transport[t].rfcomm_channel, TRUE)>>

\* Mutant: the slot is dropped and its channel kept.
DropOnly ==
    LET s == Head(queue).sink  t == FirstOf(FromSink(s)) IN
    /\ HandleAndSend("RFCOMM_DISCONNECT_IND",
           <<OnLink("RFCOMM_DISCONNECT_RSP", s, NULL, TRUE)>>)
    /\ IF t = NULL THEN UNCHANGED transport ELSE DropState(t)
    /\ UNCHANGED <<spp_sdp_handle, appVars, stackVars, historyVars>>

\* The phone or the link has gone: the answer destroys the stream, and the
\* channel is released "for re-use".
HandleDisconnectInd ==
    LET s == Head(queue).sink  t == FirstOf(FromSink(s)) IN
    /\ HandleAndSend("RFCOMM_DISCONNECT_IND",
           <<OnLink("RFCOMM_DISCONNECT_RSP", s, NULL, TRUE)>>
           \o (IF t = NULL THEN <<>> ELSE ReleaseChannel(t)))
    /\ UNCHANGED <<libVars, appVars, stackVars, historyVars>>

\* The disconnection the application asked for: the slot is dropped, its
\* channel is not.  WECHAT_DISCONNECT_CFM is ignored by the application.
HandleDisconnectCfm ==
    LET t == FirstOf(FromSink(Head(queue).sink)) IN
    /\ HandleAndSend("RFCOMM_DISCONNECT_CFM", <<>>)
    /\ IF t = NULL THEN UNCHANGED transport ELSE DropState(t)
    /\ UNCHANGED <<spp_sdp_handle, appVars, stackVars, historyVars>>

\* The channel is free: the application hears of the disconnection.
HandleUnregisterCfm ==
    /\ HandleAndSend("RFCOMM_UNREGISTER_CFM",
           IF Head(queue).ok
           THEN <<OnSlot("WECHAT_DISCONNECT_IND",
                         FirstOf(FromRfcommChannel(Head(queue).channel)))>>
           ELSE <<>>)
    /\ UNCHANGED <<libVars, appVars, stackVars, historyVars>>

-----------------------------------------------------------------------------
(* The application                                                         *)

\* A session starts on the slot that is connected (module WechatSession).
HandleWechatConnectInd ==
    /\ HandleAndSend("WECHAT_CONNECT_IND", <<>>)
    /\ wechat_transport' = Head(queue).slot
    /\ session' = TRUE
    /\ UNCHANGED <<libVars, stackVars, historyVars>>

\* WechatDisconnectResponse drops the slot, whatever has become of it.
HandleWechatDisconnectInd ==
    LET t == Head(queue).slot IN
    /\ HandleAndSend("WECHAT_DISCONNECT_IND", <<>>)
    /\ IF t = NULL THEN UNCHANGED transport ELSE DropState(t)
    /\ session' = FALSE
    /\ UNCHANGED <<spp_sdp_handle, wechat_transport, stackVars, historyVars>>

\* wechatDisconnect at power off.  wechat_transport is never cleared: it may
\* point to a slot that has been dropped, or to the next phone's connection.
WechatDisconnect ==
    /\ ~panicked /\ wechat_transport # NULL /\ closed < MaxClosed
    /\ Len(queue) + Len(pending) < MaxLoad
    /\ queue' = Append(queue, OnLink("RFCOMM_DISCONNECT_REQ",
                                     transport[wechat_transport].sink, NULL, TRUE))
    /\ closed' = closed + 1
    /\ UNCHANGED <<libVars, appVars, stackVars, panicked, refused, failed>>

-----------------------------------------------------------------------------
(* The connection library                                                  *)

\* The streams that exist.
Streams == {s \in Sink : conn[s].state # "none"}

\* A request goes to BlueStack, which answers when it likes.
ForwardRequest ==
    /\ \E id \in Request : HandleAndSend(id, <<>>)
    /\ pending' = Append(pending, Head(queue))
    /\ UNCHANGED <<libVars, appVars, registered, records, conn, historyVars>>

\* connectionHandleRfcommConnectRes.
ConnectRes ==
    LET m == Head(queue) IN
    /\ HandleAndSend("RFCOMM_CONNECT_RES", <<>>)
    /\ conn' = [conn EXCEPT ![m.sink].state =
                   IF m.ok THEN "accepted" ELSE "declined"]
    /\ UNCHANGED <<libVars, appVars, pending, registered, records, historyVars>>

\* connectionHandleRfcommDisconnectReq: a stream that is gone, or no stream at
\* all, is confirmed at once as an unknown sink.
DisconnectReq ==
    LET s == Head(queue).sink IN
    \/ /\ HandleAndSend("RFCOMM_DISCONNECT_REQ", <<>>)
       /\ s \in Streams
       /\ conn' = IF conn[s].state \in {"accepted", "up"}
                  THEN [conn EXCEPT ![s].state = "leaving"] ELSE conn
       /\ UNCHANGED <<libVars, appVars, pending, registered, records, historyVars>>
    \/ /\ HandleAndSend("RFCOMM_DISCONNECT_REQ",
                        <<OnLink("RFCOMM_DISCONNECT_CFM", s, NULL, TRUE)>>)
       /\ s \notin Streams
       /\ UNCHANGED <<libVars, appVars, stackVars, historyVars>>

\* connectionHandleRfcommDisconnectRsp destroys the stream.
DisconnectRsp ==
    LET s == Head(queue).sink IN
    /\ HandleAndSend("RFCOMM_DISCONNECT_RSP", <<>>)
    /\ conn' = IF conn[s].state = "closing"
               THEN [conn EXCEPT ![s] = NoConn] ELSE conn
    /\ UNCHANGED <<libVars, appVars, pending, registered, records, historyVars>>

-----------------------------------------------------------------------------
(* BlueStack and the phones, external                                      *)

Tell(m) ==
    /\ ~panicked
    /\ queue' = Append(queue, m)
    /\ UNCHANGED <<libVars, appVars, panicked>>

\* Any request may fail; registering must when the pool is exhausted, and
\* withdrawing a record when there is none.
Fails(ok, need) ==
    IF ok \/ need THEN UNCHANGED failed ELSE failed < MaxFailed /\ failed' = failed + 1

Registers(r, ok) ==
    /\ r.id = "RFCOMM_REGISTER_REQ"
    /\ \/ /\ ok
          /\ \E c \in Channel \ registered :
                /\ registered' = registered \cup {c}
                /\ Tell(OnChannel("RFCOMM_REGISTER_CFM", c, TRUE))
       \/ /\ ~ok
          /\ UNCHANGED registered
          /\ Tell(OnChannel("RFCOMM_REGISTER_CFM", NULL, FALSE))
    /\ Fails(ok, registered = Channel)
    /\ UNCHANGED records

Unregisters(r, ok) ==
    /\ r.id = "RFCOMM_UNREGISTER_REQ"
    /\ registered' = IF ok THEN registered \ {r.channel} ELSE registered
    /\ Tell(OnChannel("RFCOMM_UNREGISTER_CFM", r.channel, ok))
    /\ Fails(ok, FALSE)
    /\ UNCHANGED records

Publishes(r, ok) ==
    /\ r.id = "SDP_REGISTER_REQ"
    /\ records' = IF ok THEN records \cup {r.channel} ELSE records
    /\ Tell(OnChannel("SDP_REGISTER_CFM", r.channel, ok))
    /\ Fails(ok, FALSE)
    /\ UNCHANGED registered

Withdraws(r, ok) ==
    /\ r.id = "SDP_UNREGISTER_REQ"
    /\ ok => r.channel \in records
    /\ records' = IF ok THEN records \ {r.channel} ELSE records
    /\ Tell(OnChannel("SDP_UNREGISTER_CFM", r.channel, ok))
    /\ Fails(ok, r.channel \notin records)
    /\ UNCHANGED registered

\* RFCOMM and the SDP server each answer in order.
NextInService(i) ==
    \A j \in 1..(i - 1) : (pending[j].id \in SdpRequest) # (pending[i].id \in SdpRequest)

StackAnswers ==
    /\ \E i \in DOMAIN pending, ok \in BOOLEAN :
          /\ NextInService(i)
          /\ \/ Registers(pending[i], ok) \/ Unregisters(pending[i], ok)
             \/ Publishes(pending[i], ok) \/ Withdraws(pending[i], ok)
          /\ pending' = RemoveAt(pending, i)
    /\ UNCHANGED <<conn, closed, refused>>

\* A phone that has found the record, or remembers the channel, connects.
PhoneConnects(s, c) ==
    /\ conn[s].state = "none" /\ c \in registered
    /\ Len(queue) + Len(pending) < MaxLoad
    /\ conn' = [conn EXCEPT ![s] = [state |-> "asked", channel |-> c]]
    /\ Tell(OnLink("RFCOMM_CONNECT_IND", s, c, TRUE))
    /\ UNCHANGED <<pending, registered, records, historyVars>>

\* An answered connection is set up, or fails: a declined one always, an
\* accepted one when the phone or the security manager gives it up.
StackConfirms(s) ==
    /\ \/ /\ conn[s].state = "accepted"
          /\ conn' = [conn EXCEPT ![s].state = "up"]
          /\ Tell(OnLink("RFCOMM_SERVER_CONNECT_CFM", s, conn[s].channel, TRUE))
          /\ UNCHANGED refused
       \/ /\ conn[s].state \in {"accepted", "declined"}
          /\ conn' = [conn EXCEPT ![s] = NoConn]
          /\ Tell(OnLink("RFCOMM_SERVER_CONNECT_CFM", s, conn[s].channel, FALSE))
          /\ refused' = (refused \/ conn[s].state = "accepted")
    /\ UNCHANGED <<pending, registered, records, closed, failed>>

PhoneDisconnects(s) ==
    /\ conn[s].state = "up"
    /\ Len(queue) + Len(pending) < MaxLoad
    /\ conn' = [conn EXCEPT ![s].state = "closing"]
    /\ Tell(OnLink("RFCOMM_DISCONNECT_IND", s, NULL, TRUE))
    /\ UNCHANGED <<pending, registered, records, historyVars>>

\* The disconnection the headset asked for is done.
StackDisconnects(s) ==
    /\ conn[s].state = "leaving"
    /\ conn' = [conn EXCEPT ![s] = NoConn]
    /\ Tell(OnLink("RFCOMM_DISCONNECT_CFM", s, NULL, TRUE))
    /\ UNCHANGED <<pending, registered, records, historyVars>>

-----------------------------------------------------------------------------
(* The ends of a run                                                       *)

\* The handler of message m writes through a slot that its search did not find.
NoSlot(m) ==
    \/ m.id = "RFCOMM_SERVER_CONNECT_CFM" /\ m.ok /\ FromRfcommChannel(m.channel) = {}
    \/ m.id \in {"RFCOMM_DISCONNECT_IND", "RFCOMM_DISCONNECT_CFM"} /\ FromSink(m.sink) = {}
    \/ m.id \in AppEvent /\ m.slot = NULL

\* What a write through NULL does is undefined: it may trap, which is this
\* action, or hit unused memory, which is the handler's own action.
StrayAccess ==
    /\ ~panicked /\ queue # <<>> /\ NoSlot(Head(queue))
    /\ panicked' = TRUE
    /\ UNCHANGED <<libVars, appVars, queue, stackVars, historyVars>>

\* A trap resets the chip, and the service is started again.
Reboot ==
    /\ panicked
    /\ transport' = [t \in Slot |-> NoTransport] /\ spp_sdp_handle' = NULL
    /\ wechat_transport' = NULL /\ session' = FALSE
    /\ queue' = <<Blank>> /\ pending' = <<>>
    /\ registered' = {} /\ records' = {} /\ conn' = [s \in Sink |-> NoConn]
    /\ panicked' = FALSE
    /\ closed' = 0 /\ refused' = FALSE /\ failed' = 0

-----------------------------------------------------------------------------
(* Specification                                                           *)

TransportHandler ==
    \/ HandleRegisterCfm \/ HandleSdpRegisterCfm \/ HandleSdpUnregisterCfm
    \/ HandleConnectInd \/ HandleServerConnectCfm
    \/ HandleDisconnectInd \/ HandleDisconnectCfm \/ HandleUnregisterCfm

Handler ==
    \/ TransportHandler
    \/ HandleWechatConnectInd \/ HandleWechatDisconnectInd
    \/ ForwardRequest \/ ConnectRes \/ DisconnectReq \/ DisconnectRsp

Link(s) == StackConfirms(s) \/ StackDisconnects(s)

Next ==
    \/ Handler \/ WechatDisconnect
    \/ StackAnswers
    \/ \E s \in Sink :
          Link(s) \/ PhoneDisconnects(s) \/ \E c \in Channel : PhoneConnects(s, c)
    \/ StrayAccess \/ Reboot

Spec == Init /\ [][Next]_vars

\* The scheduler handles every message, BlueStack answers every request, and a
\* trap resets the chip.
Fairness ==
    /\ WF_vars(Handler)
    /\ WF_vars(StackAnswers)
    /\ \A s \in Sink : WF_vars(Link(s))
    /\ WF_vars(Reboot)

FairSpec == Spec /\ Fairness

-----------------------------------------------------------------------------
(* Properties                                                              *)

Known == ToSet(queue) \cup ToSet(pending)

\* The end of the slot's connection is on its way to the library.
Ending(t) ==
    \E m \in Known :
       \/ /\ m.id \in {"RFCOMM_DISCONNECT_CFM", "RFCOMM_SERVER_CONNECT_CFM"}
          /\ m.sink = transport[t].sink
       \/ /\ m.id \in {"RFCOMM_UNREGISTER_REQ", "RFCOMM_UNREGISTER_CFM"}
          /\ m.channel = transport[t].rfcomm_channel
       \/ m.id = "WECHAT_DISCONNECT_IND" /\ m.slot = t

\* A slot that is taken has a connection, or its end is under way: so that with
\* all phones gone all slots are free again.
TakenSlotHasLink ==
    \A t \in Slot : Taken(t) => transport[t].sink \in Streams \/ Ending(t)

\* Only a connection that fails after the library has accepted it, or a request
\* that BlueStack fails, keeps a slot for good.
SlotLost == ~TakenSlotHasLink => refused \/ failed > 0

\* A registered channel that is neither in the record or on its way there, nor
\* of a taken slot, nor on its way back: the library has forgotten it.
Leaked(c) ==
    /\ c \in registered \ records
    /\ ~ \E m \in Known : m.channel = c
    /\ ~ \E t \in Slot : Taken(t) /\ transport[t].rfcomm_channel = c

\* The pool loses one channel for each disconnection the application asks for
\* and for each request BlueStack fails, and none to whatever phones do.
ChannelsAccounted == Cardinality({c \in Channel : Leaked(c)}) <= closed + failed

\* There is never a second record, although a phone may come and go before the
\* first is withdrawn: phones find one channel at most.
OneRecord == \A c, d \in records : c = d

\* A handler writes through a slot that it did not find, or a second connection is
\* announced to the application while it still has a session, only after the
\* application has closed a connection itself.
NoStray ==
    /\ closed = 0 /\ queue # <<>>
    => ~NoSlot(Head(queue)) /\ ~(Head(queue).id = "WECHAT_CONNECT_IND" /\ session)

\* Phones find the service again and again, whatever phones do, until a request
\* fails or the disconnections asked for here have used up the spare channels.
Discoverable ==
    []<>(records # {} \/ failed > 0 \/ closed >= Cardinality(Channel) - MaxConnections)
=============================================================================
