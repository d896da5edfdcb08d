--------------------------- MODULE BleAdvertising ---------------------------
(***************************************************************************)
(* How the headset lets a phone find it over BLE: the start of the GATT    *)
(* library (gatt_init.c), the request for a connection (gatt_connect.c),   *)
(* the one client of the application (sink_gatt_server.c), and the         *)
(* advertising that button, disconnection, RFCOMM and a timer switch on    *)
(* and off.  The messages of both sides share the firmware's queue.        *)
(***************************************************************************)
EXTENDS Naturals, Sequences, FiniteSets

CONSTANTS
    Cid,            \* channel ids of the stack; fewer than MAX_ATT_CONNECTIONS
    NULL,
    NameSizes,      \* lengths of the local name
    MaxSlc,         \* bound: service level connections
    MaxPairings,    \* bound: pairings over BLE that fail
    MaxQueue,       \* bound: events from outside wait for a shorter queue
    MaxFailures     \* bound: requests the stack refuses

ASSUME CidAssumption == IsFiniteSet(Cid) /\ Cardinality(Cid) < 6 /\ NULL \notin Cid
ASSUME NameAssumption == NameSizes # {} /\ NameSizes \subseteq Nat
ASSUME BoundAssumption == {MaxSlc, MaxPairings, MaxQueue, MaxFailures} \subseteq Nat

VARIABLES
    initialised,    \* gatt.initialised of the application
    client,         \* server.devs[0]
    ad_data_valid, ble_adv,
    timers,         \* EventKoovoxDisableBleAdvertising messages pending
    libState, conn_req_task, conn,     \* theGatt; a task is the application or 0
    owned,          \* channels whose record names the application's task
    held,           \* connect requests that wait for conn_req_task
    untold,         \* history: channels whose end the application was not told
    crossed,        \* history: a request came when there was one, or a channel
    queue,          \* the messages of the application and of the library
    stack,          \* external: requests the stack has to answer
    link,           \* external: the stack's channels
    radio,          \* external: the radio advertises
    slcs, pairings, failures    \* count the bounds

app  == <<initialised, client, ad_data_valid, ble_adv, timers>>
lib  == <<libState, conn_req_task, conn, owned, held, untold, crossed>>
air  == <<stack, link, radio>>
vars == <<app, lib, queue, air, slcs, pairings, failures>>

AppMessage == [id : {"SLC_CONNECTED"}]
    \cup [id : {"GATT_INIT_CFM"}, ok : BOOLEAN]
    \cup [id : {"GATT_CONNECT_INITIALISING", "GATT_CONNECT_SUCCESS",
                "GATT_CONNECT_FAILURE", "GATT_DISCONNECT_IND"}, cid : Cid]

LibMessage == [id : {"ATT_REGISTER_CFM", "ATT_ADD_DB_CFM"}, ok : BOOLEAN]
    \cup [id : {"CONNECT_REQ"}]
    \cup [id : {"ATT_INITIATING", "ATT_SUCCESS", "ATT_FAILURE", "ATT_DISCONNECT_IND",
                "DELETE_CONN", "DISCONNECT_REQ"}, cid : Cid]

---------------------------------------------------------------------------
\* The advertising data (setup_ble_ad_data): flags, services, name, maker.

MAX_AD_DATA_SIZE_IN_OCTECTS == 31
AD_DATA_HEADER_SIZE == 2
FLAGS_AD_DATA_LENGTH == 3
SIZE_MANUFATURE_DATA == 8

\* One service of two octets: the list is complete if it fits, and else it
\* holds the first service, which is the same one.
services_ad_data == AD_DATA_HEADER_SIZE + 2

\* Mutant: the head is not counted.
NameWithoutHead(n, free) ==
    IF n = 0 \/ free < AD_DATA_HEADER_SIZE + 1 THEN 0
    ELSE IF n < free THEN AD_DATA_HEADER_SIZE + n
    ELSE free

\* The name as a whole, as much as fits, or not at all.
local_name_ad_data(n, free) ==
    IF n = 0 \/ free < AD_DATA_HEADER_SIZE + 1 THEN 0
    ELSE IF AD_DATA_HEADER_SIZE + n < free THEN AD_DATA_HEADER_SIZE + n
    ELSE free

manufature_ad_data(free) ==
    IF free < AD_DATA_HEADER_SIZE + SIZE_MANUFATURE_DATA THEN 0
    ELSE AD_DATA_HEADER_SIZE + SIZE_MANUFATURE_DATA

setup_ble_ad_data(n) ==
    LET head == FLAGS_AD_DATA_LENGTH + services_ad_data
        name == local_name_ad_data(n, MAX_AD_DATA_SIZE_IN_OCTECTS - head)
    IN  head + name + manufature_ad_data(MAX_AD_DATA_SIZE_IN_OCTECTS - (head + name))

---------------------------------------------------------------------------
\* The flag, the radio and the timer.

\* Mutant: the timer that runs is not cancelled.
AdvertiseAgain ==
    /\ radio' = (radio \/ ad_data_valid)
    /\ ble_adv' = TRUE
    /\ timers' = timers + 1

\* Mutant: the timer is cancelled after it was started.
AdvertiseUntimed ==
    /\ radio' = (radio \/ ad_data_valid)
    /\ ble_adv' = TRUE
    /\ timers' = 0

\* start_ble_advertising, and what every caller does after it: the flag is
\* set even if there are no data to advertise, and the timer starts again.
Advertise ==
    /\ radio' = (radio \/ ad_data_valid)
    /\ ble_adv' = TRUE
    /\ timers' = 1

StopAdvertising == radio' = FALSE /\ ble_adv' = FALSE /\ UNCHANGED timers

KeepAdvertising == UNCHANGED <<radio, ble_adv, timers>>

StopIfAdvertising == IF ble_adv THEN StopAdvertising ELSE KeepAdvertising

---------------------------------------------------------------------------
Init ==
    /\ initialised = FALSE /\ client = NULL
    /\ ad_data_valid = FALSE /\ ble_adv = FALSE /\ timers = 0
    /\ libState = "uninitialised" /\ conn_req_task = FALSE /\ held = 0
    /\ conn = [c \in Cid |-> "none"]
    /\ queue = <<>>
    /\ stack = [register |-> 0, add_db |-> 0, set_data |-> 0, connect |-> 0]
    /\ link = [c \in Cid |-> "free"]
    /\ radio = FALSE
    /\ owned = {} /\ untold = {} /\ crossed = FALSE
    /\ slcs = 0 /\ pairings = 0 /\ failures = 0

\* A connect request that waits no longer is older than what is queued.
Released == held > 0 /\ ~conn_req_task

\* The next message, its removal, and its removal with messages sent.
Next1(id) == queue # <<>> /\ Head(queue).id = id /\ ~Released
Done == queue' = Tail(queue)
DoneAndSend(s) == queue' = Tail(queue) \o s

---------------------------------------------------------------------------
\* The application's handlers.

\* A service level connection: initialise_gatt_for_device starts the library
\* unless GATT_INIT_CFM has come.
HandleSlcConnected ==
    /\ Next1("SLC_CONNECTED") /\ Done
    /\ \/ initialised /\ UNCHANGED <<timers, libState, stack>>
       \/ /\ ~initialised
          /\ libState' = "initialising"
          /\ \E n \in NameSizes :
                 stack' = [register |-> stack.register + 1, add_db |-> stack.add_db,
                           set_data |-> setup_ble_ad_data(n),
                           connect |-> stack.connect]
          /\ timers' = timers + 1
    /\ UNCHANGED <<initialised, client, ad_data_valid, ble_adv, conn_req_task, conn,
                   owned, held, untold, crossed, link, radio, slcs, pairings, failures>>

\* Mutant: the application does not remember that it has initialised GATT.
InitCfmForgotten ==
    /\ Next1("GATT_INIT_CFM")
    /\ DoneAndSend(IF Head(queue).ok THEN <<[id |-> "CONNECT_REQ"]>> ELSE <<>>)
    /\ UNCHANGED <<app, lib, air, slcs, pairings, failures>>

HandleInitCfm ==
    /\ Next1("GATT_INIT_CFM")
    /\ initialised' = (initialised \/ Head(queue).ok)
    /\ DoneAndSend(IF Head(queue).ok THEN <<[id |-> "CONNECT_REQ"]>> ELSE <<>>)
    /\ UNCHANGED <<client, ad_data_valid, ble_adv, timers, lib, air,
                   slcs, pairings, failures>>

\* GATT_CONNECT_CFM: the channel is being set up.  The headset advertises if
\* its state is deviceConnected or a later one; both may be the case.
HandleConnectInitialising ==
    /\ Next1("GATT_CONNECT_INITIALISING") /\ Done
    /\ Advertise \/ KeepAdvertising
    /\ UNCHANGED <<initialised, client, ad_data_valid, lib, stack, link,
                   slcs, pairings, failures>>

\* GATT_CONNECT_CFM: success stops the advertising if the client is new and
\* there is room for it; there is room for one.
HandleConnectSuccess ==
    /\ Next1("GATT_CONNECT_SUCCESS") /\ Done
    /\ IF client = NULL
       THEN client' = Head(queue).cid /\ StopAdvertising
       ELSE UNCHANGED client /\ KeepAdvertising
    /\ UNCHANGED <<initialised, ad_data_valid, lib, stack, link,
                   slcs, pairings, failures>>

\* GATT_CONNECT_CFM: any other status is only logged.
HandleConnectFailure ==
    /\ Next1("GATT_CONNECT_FAILURE") /\ Done
    /\ UNCHANGED <<app, lib, air, slcs, pairings, failures>>

\* Mutant: no phone is waited for.
DisconnectedForGood ==
    /\ Next1("GATT_DISCONNECT_IND") /\ Done
    /\ client' = IF client = Head(queue).cid THEN NULL ELSE client
    /\ Advertise
    /\ UNCHANGED <<initialised, ad_data_valid, lib, stack, link, slcs, pairings, failures>>

\* Mutant: the client is not removed.
KeepClient ==
    /\ Next1("GATT_DISCONNECT_IND")
    /\ DoneAndSend(<<[id |-> "CONNECT_REQ"]>>)
    /\ Advertise
    /\ UNCHANGED <<initialised, client, ad_data_valid, lib, stack, link,
                   slcs, pairings, failures>>

HandleDisconnectInd ==
    /\ Next1("GATT_DISCONNECT_IND")
    /\ DoneAndSend(<<[id |-> "CONNECT_REQ"]>>)
    /\ client' = IF client = Head(queue).cid THEN NULL ELSE client
    /\ Advertise
    /\ UNCHANGED <<initialised, ad_data_valid, lib, stack, link,
                   slcs, pairings, failures>>

\* EventKoovoxButtonCDoubleClick, in state deviceConnected.
ButtonC ==
    /\ ~ble_adv
    /\ Advertise
    /\ UNCHANGED <<initialised, client, ad_data_valid, lib, queue,
                   stack, link, slcs, pairings, failures>>

\* EventKoovoxDisableBleAdvertising, 120 seconds after it was sent.
DisableBleAdvertising ==
    /\ timers > 0
    /\ timers' = timers - 1
    /\ radio' = (radio /\ ~ble_adv)
    /\ ble_adv' = FALSE
    /\ UNCHANGED <<initialised, client, ad_data_valid, lib, queue,
                   stack, link, slcs, pairings, failures>>

\* WECHAT_CONNECT_IND: the phone came over RFCOMM.
WechatConnectInd ==
    /\ ble_adv
    /\ StopIfAdvertising
    /\ UNCHANGED <<initialised, client, ad_data_valid, lib, queue,
                   stack, link, slcs, pairings, failures>>

\* EventUsrResetPairedDeviceList: disconnect_all_gatt_clients.
ResetPairedDeviceList ==
    /\ client # NULL /\ Len(queue) < MaxQueue
    /\ queue' = Append(queue, [id |-> "DISCONNECT_REQ", cid |-> client])
    /\ UNCHANGED <<app, lib, air, slcs, pairings, failures>>

---------------------------------------------------------------------------
\* The library's handlers.

\* Is the head of the queue for the library, in the state that handles it?
\* In another state it is dropped (gattMessageHandler).
LibNext(id, state) == Next1(id) /\ libState = state

HandleAttRegisterCfm ==
    /\ LibNext("ATT_REGISTER_CFM", "initialising")
    /\ IF Head(queue).ok
       THEN /\ stack' = [stack EXCEPT !.add_db = @ + 1]
            /\ Done /\ UNCHANGED libState
       ELSE /\ libState' = "uninitialised"
            /\ DoneAndSend(<<[id |-> "GATT_INIT_CFM", ok |-> FALSE]>>)
            /\ UNCHANGED stack
    /\ UNCHANGED <<app, conn_req_task, conn, owned, held, untold, crossed, link, radio,
                   slcs, pairings, failures>>

HandleAttAddDbCfm ==
    /\ LibNext("ATT_ADD_DB_CFM", "initialising")
    /\ libState' = IF Head(queue).ok THEN "initialised" ELSE "uninitialised"
    /\ IF Head(queue).ok
       THEN conn' = [c \in Cid |-> "none"] /\ owned' = {}
       ELSE UNCHANGED <<conn, owned>>
    /\ DoneAndSend(<<[id |-> "GATT_INIT_CFM", ok |-> Head(queue).ok]>>)
    /\ UNCHANGED <<app, conn_req_task, held, untold, crossed, air, slcs, pairings, failures>>

\* Mutant: the request is not remembered.
ConnectReqForgotten ==
    IF conn_req_task THEN UNCHANGED <<conn_req_task, stack>>
    ELSE UNCHANGED conn_req_task /\ stack' = [stack EXCEPT !.connect = @ + 1]

\* gattHandleInternalConnectReq: one request at a time goes to the stack.
ConnectReq ==
    IF conn_req_task THEN UNCHANGED <<conn_req_task, stack>>
    ELSE conn_req_task' = TRUE /\ stack' = [stack EXCEPT !.connect = @ + 1]

HandleConnectReq ==
    /\ LibNext("CONNECT_REQ", "initialised") /\ Done
    /\ ConnectReq
    /\ held' = IF conn_req_task THEN held + 1 ELSE held
    /\ crossed' = (crossed \/ conn_req_task \/ \E c \in Cid : conn[c] # "none")
    /\ UNCHANGED <<app, libState, conn, owned, untold, link, radio,
                   slcs, pairings, failures>>

\* MessageSendConditionallyOnTask gives a request back when conn_req_task is 0;
\* one that comes back before the library is initialised is dropped.
ReleaseConnectReq ==
    /\ Released
    /\ held' = held - 1
    /\ IF libState = "initialised" THEN ConnectReq ELSE UNCHANGED <<conn_req_task, stack>>
    /\ UNCHANGED <<app, libState, conn, owned, untold, crossed, queue, link, radio,
                   slcs, pairings, failures>>

\* ATT_CONNECT_CFM: the channel id is known.  Its record takes the task of the
\* request that is outstanding; there may be none any more, if two requests
\* crossed (0 in task, 0 in conn_req_task).  Without a task, the confirmation
\* goes to the application all the same.
HandleAttInitiating ==
    /\ LibNext("ATT_INITIATING", "initialised")
    /\ LET c == Head(queue).cid IN
       /\ IF conn[c] = "none"
          THEN /\ conn' = [conn EXCEPT ![c] = "connecting"]
               /\ owned' = IF conn_req_task THEN owned \cup {c} ELSE owned \ {c}
          ELSE UNCHANGED <<conn, owned>>
       /\ DoneAndSend(<<[id |-> "GATT_CONNECT_INITIALISING", cid |-> c]>>)
    /\ UNCHANGED <<app, libState, conn_req_task, held, untold, crossed, air,
                   slcs, pairings, failures>>

\* ATT_CONNECT_CFM: success.  The library panics if the channel is unknown.
HandleAttSuccess ==
    /\ LibNext("ATT_SUCCESS", "initialised")
    /\ LET c == Head(queue).cid IN
       /\ conn[c] # "none"
       /\ conn' = [conn EXCEPT ![c] = "up"]
       /\ DoneAndSend(<<[id |-> "GATT_CONNECT_SUCCESS", cid |-> c]>>)
    /\ conn_req_task' = FALSE
    /\ UNCHANGED <<app, libState, owned, held, untold, crossed, air,
                   slcs, pairings, failures>>

\* The record of the channel c is cleared.
DeleteCid(c) == conn' = [conn EXCEPT ![c] = "none"] /\ owned' = owned \ {c}

\* ATT_CONNECT_CFM: any other result.
HandleAttFailure ==
    /\ LibNext("ATT_FAILURE", "initialised")
    /\ LET c == Head(queue).cid IN
       /\ DeleteCid(c)
       /\ DoneAndSend(<<[id |-> "GATT_CONNECT_FAILURE", cid |-> c]>>)
    /\ conn_req_task' = FALSE
    /\ UNCHANGED <<app, libState, held, untold, crossed, air, slcs, pairings, failures>>

\* The end of a channel is told to the task in its record, and a request of
\* that task that is outstanding counts for the one that led to this channel.
\* A record without a task tells nobody: here the application does not stand in.
HandleAttDisconnectInd ==
    /\ LibNext("ATT_DISCONNECT_IND", "initialised")
    /\ LET c == Head(queue).cid
           delete == [id |-> "DELETE_CONN", cid |-> c]
       IN  IF conn[c] = "none" THEN Done /\ UNCHANGED <<conn_req_task, conn, untold>>
           ELSE /\ conn' = [conn EXCEPT ![c] = "closing"]
                /\ IF c \in owned
                   THEN /\ conn_req_task' = FALSE
                        /\ DoneAndSend(<<[id |-> "GATT_DISCONNECT_IND", cid |-> c], delete>>)
                        /\ UNCHANGED untold
                   ELSE /\ DoneAndSend(<<delete>>)
                        /\ untold' = untold \cup {c}
                        /\ UNCHANGED conn_req_task
    /\ UNCHANGED <<app, libState, owned, held, crossed, air, slcs, pairings, failures>>

HandleDeleteConn ==
    /\ LibNext("DELETE_CONN", "initialised") /\ Done
    /\ DeleteCid(Head(queue).cid)
    /\ UNCHANGED <<app, libState, conn_req_task, held, untold, crossed, air,
                   slcs, pairings, failures>>

\* The phone may have left already: then there is nothing to end.
HandleDisconnectReq ==
    /\ LibNext("DISCONNECT_REQ", "initialised") /\ Done
    /\ LET c == Head(queue).cid IN
       link' = IF conn[c] # "none" /\ link[c] = "up" THEN [link EXCEPT ![c] = "ending"]
               ELSE link
    /\ UNCHANGED <<app, lib, stack, radio, slcs, pairings, failures>>

DropMessage ==
    /\ queue # <<>> /\ Head(queue) \in LibMessage /\ ~Released
    /\ libState # IF Head(queue).id \in {"ATT_REGISTER_CFM", "ATT_ADD_DB_CFM"}
                  THEN "initialising" ELSE "initialised"
    /\ Done
    /\ UNCHANGED <<app, lib, air, slcs, pairings, failures>>

---------------------------------------------------------------------------
\* The stack, the phone and the rest of the headset (external).

\* Once initialised is set, a service level connection changes nothing here.
SlcConnects ==
    /\ ~initialised /\ slcs < MaxSlc /\ Len(queue) < MaxQueue
    /\ slcs' = slcs + 1
    /\ queue' = Append(queue, [id |-> "SLC_CONNECTED"])
    /\ UNCHANGED <<app, lib, air, pairings, failures>>

\* CL_SM_BLE_SIMPLE_PAIRING_COMPLETE_IND of a pairing that failed: the
\* application asks for a connection, though it has one, or just asked.
PairingFails(c) ==
    /\ link[c] = "up" /\ pairings < MaxPairings /\ Len(queue) < MaxQueue
    /\ pairings' = pairings + 1
    /\ queue' = Append(queue, [id |-> "CONNECT_REQ"])
    /\ UNCHANGED <<app, lib, air, slcs, failures>>

\* An answer that refuses counts as a failure.
Answer(ok) ==
    /\ ok \/ failures < MaxFailures
    /\ failures' = IF ok THEN failures ELSE failures + 1

StackRegisters(ok) ==
    /\ stack.register > 0 /\ Answer(ok)
    /\ stack' = [stack EXCEPT !.register = @ - 1]
    /\ queue' = Append(queue, [id |-> "ATT_REGISTER_CFM", ok |-> ok])
    /\ UNCHANGED <<app, lib, link, radio, slcs, pairings>>

StackAddsDb(ok) ==
    /\ stack.add_db > 0 /\ Answer(ok)
    /\ stack' = [stack EXCEPT !.add_db = @ - 1]
    /\ queue' = Append(queue, [id |-> "ATT_ADD_DB_CFM", ok |-> ok])
    /\ UNCHANGED <<app, lib, link, radio, slcs, pairings>>

\* The data are set, and handle_set_ble_ad_data_cfm is told.  The same data
\* asked for again before the answer get the same answer.
StackSetsData(ok) ==
    /\ stack.set_data > 0 /\ Answer(ok)
    /\ stack' = [stack EXCEPT !.set_data = 0]
    /\ ad_data_valid' = ok
    /\ UNCHANGED <<initialised, client, ble_adv, timers, lib, queue, link,
                   radio, slcs, pairings>>

\* Channel ids are used in turn: one that a message still names is not free.
StackInitiates(c) ==
    /\ stack.connect > 0 /\ link[c] = "free"
    /\ \A k \in 1..Len(queue) : "cid" \in DOMAIN queue[k] => queue[k].cid # c
    /\ link' = [link EXCEPT ![c] = "initiating"]
    /\ stack' = [stack EXCEPT !.connect = @ - 1]
    /\ queue' = Append(queue, [id |-> "ATT_INITIATING", cid |-> c])
    /\ UNCHANGED <<app, lib, radio, slcs, pairings, failures>>

\* A phone answers an advertisement, which ends the radio's advertising.
PhoneConnects(c) ==
    /\ link[c] = "initiating" /\ radio
    /\ link' = [link EXCEPT ![c] = "up"]
    /\ radio' = FALSE
    /\ queue' = Append(queue, [id |-> "ATT_SUCCESS", cid |-> c])
    /\ UNCHANGED <<app, lib, stack, slcs, pairings, failures>>

ConnectionFails(c) ==
    /\ link[c] = "initiating" /\ Answer(FALSE)
    /\ link' = [link EXCEPT ![c] = "free"]
    /\ queue' = Append(queue, [id |-> "ATT_FAILURE", cid |-> c])
    /\ UNCHANGED <<app, lib, stack, radio, slcs, pairings>>

\* The phone leaves, its link is lost, or the headset ends it.
LinkEnds(c) ==
    /\ link[c] \in {"up", "ending"}
    /\ link' = [link EXCEPT ![c] = "free"]
    /\ queue' = Append(queue, [id |-> "ATT_DISCONNECT_IND", cid |-> c])
    /\ UNCHANGED <<app, lib, stack, radio, slcs, pairings, failures>>

---------------------------------------------------------------------------
Application ==
    \/ HandleSlcConnected \/ HandleInitCfm
    \/ HandleConnectInitialising \/ HandleConnectSuccess \/ HandleConnectFailure
    \/ HandleDisconnectInd

Library ==
    \/ HandleAttRegisterCfm \/ HandleAttAddDbCfm
    \/ HandleConnectReq \/ HandleDisconnectReq \/ HandleDeleteConn
    \/ HandleAttInitiating \/ HandleAttSuccess \/ HandleAttFailure
    \/ HandleAttDisconnectInd \/ DropMessage

StackAnswers ==
    \/ \E ok \in BOOLEAN : StackRegisters(ok) \/ StackAddsDb(ok) \/ StackSetsData(ok)
    \/ \E c \in Cid : StackInitiates(c)

Next ==
    \/ Application \/ Library \/ ReleaseConnectReq \/ StackAnswers
    \/ ButtonC \/ DisableBleAdvertising \/ WechatConnectInd \/ ResetPairedDeviceList
    \/ SlcConnects
    \/ \E c \in Cid : \/ PhoneConnects(c) \/ ConnectionFails(c) \/ LinkEnds(c)
                      \/ PairingFails(c)

Spec == Init /\ [][Next]_vars

---------------------------------------------------------------------------
\* Type invariant.  Timers do not pile up: one for each start of the library
\* that had no advertising after it, and one for the advertising.
TypeOK ==
    /\ initialised \in BOOLEAN /\ ad_data_valid \in BOOLEAN /\ ble_adv \in BOOLEAN
    /\ radio \in BOOLEAN /\ conn_req_task \in BOOLEAN
    /\ client \in Cid \cup {NULL}
    /\ timers \in 0..(MaxSlc + 1) /\ held \in Nat
    /\ libState \in {"uninitialised", "initialising", "initialised"}
    /\ conn \in [Cid -> {"none", "connecting", "up", "closing"}]
    /\ queue \in Seq(AppMessage \cup LibMessage)
    /\ stack \in [register : Nat, add_db : Nat, set_data : Nat, connect : Nat]
    /\ link \in [Cid -> {"free", "initiating", "up", "ending"}]
    /\ owned \subseteq Cid /\ untold \subseteq Cid /\ crossed \in BOOLEAN
    /\ slcs \in 0..MaxSlc /\ pairings \in 0..MaxPairings
    /\ failures \in 0..MaxFailures

\* The data that are asked for fit into the octets of a packet, whatever the
\* name is: ad_data_num_free_octets never wraps on the way.
AdDataFits == stack.set_data <= MAX_AD_DATA_SIZE_IN_OCTECTS

\* Whatever starts and stops advertising in whatever order, a timer is
\* pending while the flag is set, and the radio never advertises behind a
\* flag that is clear: no button could stop it then.
AdvertisingIsTimed ==
    /\ ble_adv => timers > 0
    /\ radio => ble_adv

Queued(m) == \E k \in 1..Len(queue) : queue[k] = m

\* devs[0] keeps a client that is gone only if nobody was told that it is
\* (gatt.h:568 promises that the application is, and the code breaks that for a
\* record without a task): otherwise, as long as it names a channel, the channel
\* is up or its end is on the way to the application.  A client left over would
\* let no later one stop the advertising.
NoGhostClient ==
    client # NULL => \/ conn[client] = "up"
                     \/ Queued([id |-> "GATT_DISCONNECT_IND", cid |-> client])
                     \/ client \in untold

\* As long as the application asks for a connection only when it has none and
\* has none asked for, the library never loses its task on the way from the
\* request over the record to the end, and so tells every end.  The next
\* request comes with the end of the last channel, and the record is deleted
\* by a message to the library itself: the two must not overtake each other.
TaskKept ==
    ~crossed => /\ untold = {}
                /\ \A c \in Cid : conn[c] # "none" => c \in owned

\* The library has a record of the channel, or is about to make it.
Known(c) == conn[c] # "none" \/ Queued([id |-> "ATT_INITIATING", cid |-> c])

\* A service level connection that comes while the library starts up starts
\* it again, but never when there is a connection: the connections' records
\* lie in the memory the start uses, and a success would find none (panic).
RestartFindsNoLink ==
    /\ libState # "initialised" => \A c \in Cid : conn[c] = "none"
    /\ \A c \in Cid : Queued([id |-> "ATT_SUCCESS", cid |-> c]) => Known(c)

\* With the library being started (again), the start goes on.
StartGoesOn ==
    \/ stack.register > 0 \/ stack.add_db > 0
    \/ Queued([id |-> "ATT_REGISTER_CFM", ok |-> TRUE])
    \/ Queued([id |-> "ATT_ADD_DB_CFM", ok |-> TRUE])

\* With the library started, the stack has a connection or a request for one,
\* or the end of a connection is on its way to the application, or a request
\* is on its way to a library that has none outstanding.
RequestGoesOn ==
    \/ stack.connect > 0
    \/ \E c \in Cid : \/ link[c] # "free"
                      \/ /\ Queued([id |-> "ATT_DISCONNECT_IND", cid |-> c])
                         /\ Known(c)
    \/ /\ ~conn_req_task
       /\ \/ held > 0
          \/ Queued([id |-> "CONNECT_REQ"])
          \/ Queued([id |-> "GATT_INIT_CFM", ok |-> TRUE])
          \/ \E c \in Cid : Queued([id |-> "GATT_DISCONNECT_IND", cid |-> c])

\* Once the application holds GATT for initialised, a phone can connect again
\* and again, however the start was repeated (a start drops the request that
\* an earlier one led to), however requests crossed and however the last
\* connection ended -- unless the stack refused something, or an end was told
\* to nobody.  A request lost or held for ever would make the headset deaf over
\* BLE until it is reset.
StaysReachable ==
    initialised /\ failures = 0 /\ untold = {} =>
        IF libState = "initialised" THEN RequestGoesOn ELSE StartGoesOn
=============================================================================
