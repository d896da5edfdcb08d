---------------------------- MODULE SlcReconnect ----------------------------
(***************************************************************************)
(* Service level connections of phones that have HFP and no A2DP: the      *)
(* search through the paired devices (sink_slc.c), the count of connected  *)
(* devices (sink_devicemanager.c), the states the headset enters           *)
(* (sink_statemanager.c) and the HFP library's links below them            *)
(* (src/src/lib/hfp).  Application and library share the firmware's queue; *)
(* BlueStack, the phones and the user are external.                        *)
(***************************************************************************)
EXTENDS Naturals, Sequences, SequencesExt

CONSTANTS
    Phone,
    Configuration,  \* what the persistent store may say: the paired devices, the
                    \* latest first, which of them have HFP, and the keys
    NULL,
    ListIds,        \* how many values gListID has
    MaxQueue,       \* bound: events from outside wait for a shorter queue
    MaxPresses,     \* bound: buttons the user presses
    MaxCalls,       \* bound: connections the phones ask for
    MaxEnds         \* bound: connections that end by themselves

ASSUME PhoneAssumption == NULL \notin Phone /\ IsFiniteSet(Phone)

ASSUME ConfigurationAssumption ==
    Configuration \subseteq
        [Paired : SetToSeqs(Phone), Profiled : SUBSET Phone, Multipoint : BOOLEAN,
         action : {"LastConnected", "List"},
         ReconnectionAttempts : Nat, ReconnectLastAttempts : Nat,
         EnterPairingModeOnFailureToConnect : BOOLEAN, AutoReconnectPowerOn : BOOLEAN]

ASSUME BoundAssumption ==
    /\ {MaxQueue, MaxPresses, MaxCalls, MaxEnds} \subseteq Nat
    /\ ListIds \in Nat /\ ListIds > 1

VARIABLES
    conf,               \* the configuration, never changed
    state,              \* the state manager's
    pdl,                \* the paired devices, the latest first
    page_scan_enabled, timer, \* and EventSysConnectableTimeout pending
    gListID, gPdlSize, gSlcConnectRemote,
    attempts,           \* NoOfReconnectionAttempts
    connection_in_progress,
    profile_data,       \* of each priority: connected, and has a list_id
    continues,          \* EventSysContinueSlcConnectRequest pending
    links,              \* theHfp->links
    held,               \* phones whose RFCOMM_CONNECT_IND waits 500 ms
    queue,              \* the messages of the application and of the library
    search,             \* external: SDP searches of a phone not answered yet
    air,                \* external: the RFCOMM stream with a phone
    closing,            \* external: streams the library has asked to end
    offered,            \* external: phones that have asked and have no response
    presses, calls, ends, \* count the bounds
    unheard,            \* history: a link complete has moved up or ended with an
                        \* error, of which the application hears nothing
    interrupted         \* history: the search under way has met pairing mode or power
                        \* off or, without multipoint, a connection

slc   == <<gListID, gPdlSize, gSlcConnectRemote, attempts, connection_in_progress, continues>>
scan  == <<page_scan_enabled, timer>>
app   == <<state, pdl, profile_data, scan>>
lib   == <<links, held>>
stack == <<search, air, closing, offered>>
count == <<presses, calls, ends>>
vars  == <<conf, slc, app, lib, queue, stack, count, unheard, interrupted>>

NumLinks == IF conf.Multipoint THEN 2 ELSE 1
MAX_MULTIPOINT_CONNECTIONS == 2

IdleLink == [state |-> "idle", addr |-> NULL, priority |-> 0, owns_service |-> FALSE]

-----------------------------------------------------------------------------
(* Messages                                                                *)

ConnectCfm(ok, priority, a) ==
    [id |-> "SLC_CONNECT_CFM", ok |-> ok, priority |-> priority, addr |-> a]
DisconnectInd(status, priority, a) ==
    [id |-> "SLC_DISCONNECT_IND", status |-> status, priority |-> priority, addr |-> a]
DisconnectReq(l) == [id |-> "DISCONNECT_REQ", link |-> l]
Plain(id) == [id |-> id]
OfPhone(id, a) == [id |-> id, addr |-> a]
Answer(id, a, ok) == [id |-> id, addr |-> a, ok |-> ok]

User == {"ESTABLISH", "ENTER_PAIRING", "POWER_ON", "POWER_OFF"}

\* How a stream or a connection ends.
Status == {"success", "link_loss", "error"}

Message ==
    [id : User \cup {"SLC_CONNECT_IND"}]
    \cup [id : {"SLC_CONNECT_CFM"}, ok : BOOLEAN, priority : 0..2, addr : Phone]
    \cup [id : {"SLC_DISCONNECT_IND"}, status : Status \cup {"no_slc"},
          priority : 0..2, addr : Phone \cup {NULL}]
    \cup [id : {"DISCONNECT_REQ"}, link : 0..2]
    \cup [id : {"SDP_CFM", "RFC_CONNECT_CFM"}, addr : Phone, ok : BOOLEAN]
    \cup [id : {"RFC_CONNECT_IND", "AT_COMPLETE"}, addr : Phone]
    \cup [id : {"RFC_DISCONNECT"}, addr : Phone, status : Status]

\* The next message, its removal, and its removal with messages sent.
Receives(id) == queue # <<>> /\ Head(queue).id = id
m == Head(queue)
Done == queue' = Tail(queue)
DoneAndSend(s) == queue' = Tail(queue) \o s

-----------------------------------------------------------------------------
(* The links of the library (hfp_link_manager.c)                           *)

LinkWith(ls, priority) ==
    IF \E l \in DOMAIN ls : ls[l].priority = priority
    THEN CHOOSE l \in DOMAIN ls : ls[l].priority = priority ELSE 0

LinkOf(a) ==
    IF \E l \in DOMAIN links : links[l].addr = a
    THEN CHOOSE l \in DOMAIN links : links[l].addr = a ELSE 0

\* Mutant: a link with an attempt under way is taken for idle.
NotCompleteOne ==
    IF \E l \in DOMAIN links : links[l].state \notin {"connected", "complete"}
    THEN CHOOSE l \in DOMAIN links : links[l].state \notin {"connected", "complete"} ELSE 0

IdleOne ==
    IF \E l \in DOMAIN links : links[l].state = "idle"
    THEN CHOOSE l \in DOMAIN links :
             links[l].state = "idle" /\ \A k \in 1..(l - 1) : links[k].state # "idle"
    ELSE 0

\* hfpLinkSetup: a link that has a priority keeps it.
Setup(ls, l, a, s) ==
    [ls EXCEPT ![l] = [state |-> s, addr |-> a, owns_service |-> s = "incoming",
                       priority |-> IF ls[l].priority # 0 THEN ls[l].priority
                                    ELSE IF LinkWith(ls, 1) # 0 THEN 2 ELSE 1]]

\* Mutant: the secondary link stays secondary.
ResetOnly(ls, l) == [ls EXCEPT ![l] = IdleLink]

\* hfpLinkReset, which promotes the secondary link to primary.
Reset(ls, l) ==
    [k \in DOMAIN ls |->
        IF k = l THEN IdleLink
        ELSE IF ls[k].priority = 2 THEN [ls[k] EXCEPT !.priority = 1] ELSE ls[k]]

\* hfpSendSlcConnectCfmToApp for an attempt that failed.
Failed(l) == <<ConnectCfm(FALSE, links[l].priority, links[l].addr)>>

-----------------------------------------------------------------------------
(* What the application knows of the links (sink_devicemanager.c)          *)

\* Mutant: without asking whether the connection has been processed.
LinkAddr(data, priority) ==
    LET l == LinkWith(links, priority) IN IF l # 0 THEN links[l].addr ELSE NULL

\* deviceManagerGetProfileAddr: NULL if there is no connection of that profile.
ProfileAddr(data, priority) ==
    LET l == LinkWith(links, priority) IN
    IF data[priority].connected /\ l # 0 THEN links[l].addr ELSE NULL

ProfilesConnected(data, a) == \E priority \in 1..2 : ProfileAddr(data, priority) = a

NumConnectedDevs(data) ==
    LET connected == {priority \in 1..2 : ProfileAddr(data, priority) # NULL}
    IN  IF connected = {} THEN 0 ELSE IF connected = {1, 2} THEN 2 ELSE 1

\* deviceManagerCanConnect.  Without multipoint the address of a connected phone
\* is compared with one that was never written: either may come out.
CanConnect ==
    LET n == NumConnectedDevs(profile_data) IN
    IF n = 0 THEN {TRUE}
    ELSE IF conf.Multipoint THEN {n < MAX_MULTIPOINT_CONNECTIONS}
    ELSE IF ProfileAddr(profile_data, 1) # NULL THEN BOOLEAN ELSE {FALSE}

\* ConnectionSmUpdateMruDevice
MostRecent(devices, a) ==
    LET place == CHOOSE k \in DOMAIN devices : devices[k] = a
    IN  [k \in DOMAIN devices |-> IF k = 1 THEN a
                                  ELSE IF k <= place THEN devices[k - 1] ELSE devices[k]]

\* deviceManagerSetPriority: the second device connected goes to the second place.
SetPriority(data, a) ==
    IF NumConnectedDevs(data) <= 1 THEN MostRecent(pdl, a)
    ELSE IF pdl[1] = a THEN pdl
    ELSE MostRecent(MostRecent(pdl, a), pdl[1])

-----------------------------------------------------------------------------
(* The state manager                                                       *)

IsConnected == state = "connected"

DisconnectAllSlc ==
    <<DisconnectReq(LinkWith(links, 1)), DisconnectReq(LinkWith(links, 2))>>

\* sinkEnableConnectable, sinkDisableConnectable
Connectable(on) == page_scan_enabled' = on

\* sinkEnableConnectable for ConnectableTimeout_s
ConnectableForATime == Connectable(TRUE) /\ timer' = TRUE

\* stateManagerEnterConnectableState
EnterConnectable == state' = "connectable" /\ Connectable(TRUE)

\* Entering a state on request disconnects what is connected.
IfConnected(messages) == IF IsConnected THEN messages ELSE <<>>

-----------------------------------------------------------------------------
(* The search (sink_slc.c).  isPdlEntryAvailable rules out an entry that   *)
(* both profiles of a slot name, which a phone without A2DP never is.      *)

IsListIdAvailable(id, size) == id < size /\ pdl[id + 1] \in conf.Profiled

After(id) == (id + 1) % ListIds

Outcome(found, id) == [found |-> found, id |-> id]

\* slcGetNextListID: the next of the list, round and round while attempts remain.
NextOfList ==
    LET next == After(gListID)
        last == After(next)
        limited == conf.ReconnectionAttempts # 0
    IN IF limited /\ attempts = 0 THEN Outcome(FALSE, next)
       ELSE IF IsListIdAvailable(next, gPdlSize) THEN Outcome(TRUE, next)
       ELSE IF next = gPdlSize /\ gPdlSize # 0
       THEN IF limited THEN Outcome(TRUE, IF IsListIdAvailable(0, gPdlSize) THEN 0 ELSE 1)
            ELSE Outcome(FALSE, next)
       ELSE Outcome(IsListIdAvailable(last, gPdlSize), last)

\* slcGetNextListID: the last connected again, or the last two.
NextOfLast ==
    LET next == After(gListID)
        second == IF IsListIdAvailable(next, gPdlSize) THEN next ELSE After(next)
    IN IF ~conf.Multipoint
       THEN Outcome(attempts # 0 /\ NumConnectedDevs(profile_data) = 0, gListID)
       ELSE IF attempts = 0 THEN Outcome(FALSE, gListID)
       ELSE Outcome(IsListIdAvailable(second, gPdlSize), second)

GetNextListID == IF conf.action = "List" THEN NextOfList ELSE NextOfLast

\* HfpSlcConnectRequest.  A phone that has a link, or one too many, is refused.
HfpSlcConnectRequest(a, rest) ==
    LET l == IdleOne IN
    IF LinkOf(a) # 0 \/ l = 0
    THEN /\ queue' = Append(rest, ConnectCfm(FALSE, 0, a))
         /\ UNCHANGED <<links, search>>
    ELSE /\ links' = Setup(links, l, a, "searching")
         /\ search' = [search EXCEPT ![a] = @ + 1]
         /\ queue' = rest

\* slcAttemptConnection: an entry without the profile sends for the next one at
\* once.  That message is one of continues: it may even overtake the queue.
AttemptConnection(id, pending, rest) ==
    /\ gListID' = id
    /\ IF id < Len(pdl) /\ pdl[id + 1] \in conf.Profiled
       THEN continues' = pending /\ HfpSlcConnectRequest(pdl[id + 1], rest)
       ELSE /\ continues' = IF pending = 0 THEN 1 ELSE pending
            /\ queue' = rest /\ UNCHANGED <<links, search>>

-----------------------------------------------------------------------------
Init ==
    /\ conf \in Configuration
    /\ state = "limbo" /\ page_scan_enabled = FALSE /\ timer = FALSE
    /\ pdl = conf.Paired
    /\ gListID = 0 /\ gPdlSize = 0 /\ gSlcConnectRemote = FALSE
    /\ attempts = 0 /\ connection_in_progress = FALSE /\ continues = 0
    /\ profile_data = [priority \in 1..2 |-> [connected |-> FALSE, listed |-> FALSE]]
    /\ links = [l \in 1..NumLinks |-> IdleLink]
    /\ held = {} /\ queue = <<>>
    /\ search = [a \in Phone |-> 0] /\ air = [a \in Phone |-> "none"]
    /\ closing = {} /\ offered = {}
    /\ presses = 0 /\ calls = 0 /\ ends = 0 /\ unheard = FALSE
    /\ interrupted = FALSE

-----------------------------------------------------------------------------
(* The application's handlers: the user (main.c)                           *)

\* stateManagerPowerOn
HandlePowerOn ==
    /\ Receives("POWER_ON")
    /\ DoneAndSend(IfConnected(DisconnectAllSlc)
                   \o IF conf.AutoReconnectPowerOn THEN <<Plain("ESTABLISH")>> ELSE <<>>)
    /\ EnterConnectable /\ continues' = 0
    /\ UNCHANGED <<conf, gListID, gPdlSize, gSlcConnectRemote, attempts, timer,
                   connection_in_progress, pdl, profile_data, lib, stack, count>>

\* stateManagerEnterLimboState
HandlePowerOff ==
    /\ Receives("POWER_OFF")
    /\ DoneAndSend(DisconnectAllSlc)
    /\ state' = "limbo" /\ Connectable(FALSE) /\ continues' = 0 /\ gListID' = 0
    /\ UNCHANGED <<conf, timer, gPdlSize, gSlcConnectRemote, attempts, connection_in_progress,
                   pdl, profile_data, lib, stack, count>>

\* EventUsrEnterPairing, with stateManagerEnterConnDiscoverableState
HandleEnterPairing ==
    /\ Receives("ENTER_PAIRING")
    /\ IF state \in {"limbo", "discoverable"}
       THEN Done /\ UNCHANGED <<state, page_scan_enabled, continues>>
       ELSE /\ DoneAndSend(IfConnected(DisconnectAllSlc))
            /\ state' = "discoverable" /\ Connectable(TRUE) /\ continues' = 0
    /\ UNCHANGED <<conf, gListID, gPdlSize, gSlcConnectRemote, attempts, timer,
                   connection_in_progress, pdl, profile_data, lib, stack, count>>

\* EventSysPairingFail after a time, or EventSysPairingSuccessful
PairingEnds ==
    /\ state = "discoverable" /\ EnterConnectable
    /\ UNCHANGED <<conf, slc, timer, pdl, profile_data, lib, queue, stack, count>>

\* Mutant: whether or not anything is connected.
TimeoutAnyway ==
    /\ timer /\ timer' = FALSE /\ Connectable(FALSE)
    /\ UNCHANGED <<conf, slc, state, pdl, profile_data, lib, queue, stack, count>>

\* EventSysConnectableTimeout
ConnectableTimeout ==
    /\ timer /\ timer' = FALSE
    /\ IF NumConnectedDevs(profile_data) > 0 THEN Connectable(FALSE)
       ELSE UNCHANGED page_scan_enabled
    /\ UNCHANGED <<conf, slc, state, pdl, profile_data, lib, queue, stack, count>>

\* slcEstablishSLCRequest
HandleEstablish ==
    /\ Receives("ESTABLISH")
    /\ \/ /\ FALSE \in CanConnect /\ Done
          /\ UNCHANGED <<slc, links, search>>
       \/ /\ TRUE \in CanConnect
          /\ attempts' = IF conf.action = "LastConnected" THEN conf.ReconnectLastAttempts
                         ELSE conf.ReconnectionAttempts
          /\ gSlcConnectRemote' = FALSE /\ gPdlSize' = Len(pdl)
          /\ LET id == IF IsListIdAvailable(0, Len(pdl)) THEN 0 ELSE 1
                 available == IsListIdAvailable(id, Len(pdl))
             IN /\ connection_in_progress' = available
                /\ IF available THEN AttemptConnection(id, continues, Tail(queue))
                   ELSE gListID' = id /\ Done /\ UNCHANGED <<continues, links, search>>
    /\ UNCHANGED <<conf, app, held, air, closing, offered, count>>

\* slcContinueEstablishSLCRequest, where can is what deviceManagerCanConnect says
ContinueSearch(can) ==
    LET next == GetNextListID
        goesOn == ~gSlcConnectRemote /\ can /\ state # "limbo"
    IN  /\ gSlcConnectRemote' = FALSE
        /\ connection_in_progress' = (connection_in_progress /\ goesOn /\ next.found)
        /\ IF goesOn /\ next.found THEN AttemptConnection(next.id, continues - 1, queue)
           ELSE /\ gListID' = IF goesOn THEN next.id ELSE gListID
                /\ continues' = continues - 1
                /\ queue' = IF goesOn /\ conf.EnterPairingModeOnFailureToConnect /\ ~IsConnected
                            THEN Append(queue, Plain("ENTER_PAIRING")) ELSE queue
                /\ UNCHANGED <<links, search>>
        /\ UNCHANGED <<gPdlSize, attempts>>

\* EventSysContinueSlcConnectRequest: nothing goes on in pairing mode.
Continue ==
    /\ continues > 0
    /\ IF state = "discoverable"
       THEN /\ continues' = continues - 1
            /\ UNCHANGED <<gListID, gPdlSize, gSlcConnectRemote, attempts,
                           connection_in_progress, queue, links, search>>
       ELSE \E can \in CanConnect : ContinueSearch(can)
    /\ UNCHANGED <<conf, app, held, air, closing, offered, count>>

-----------------------------------------------------------------------------
(* The application's handlers: the library (sink_slc.c)                    *)

\* sinkHandleSlcConnectInd, for a connection the library has accepted
HandleConnectInd ==
    /\ Receives("SLC_CONNECT_IND") /\ Done
    /\ gSlcConnectRemote' = (gSlcConnectRemote \/ state # "limbo")
    /\ UNCHANGED <<conf, gListID, gPdlSize, attempts, connection_in_progress, continues,
                   app, lib, stack, count>>

\* In limbo a connection made is undone, and one that failed is forgotten.
HandleConnectCfmInLimbo ==
    /\ Receives("SLC_CONNECT_CFM") /\ state = "limbo"
    /\ DoneAndSend(IF m.ok THEN DisconnectAllSlc ELSE <<>>)
    /\ UNCHANGED <<conf, slc, app, lib, stack, count>>

\* Mutant: a connection made ends the search.
ContinueIfAlone ==
    continues' = IF gSlcConnectRemote \/ m.ok THEN continues ELSE continues + 1

\* The search continues after an attempt of its own.
ContinueIfOwn ==
    continues' = IF gSlcConnectRemote THEN continues ELSE continues + 1

\* stateManagerEnterConnectedState.  With multipoint it stays connectable for a
\* time, unless all are connected.
AllConnected(data) == NumConnectedDevs(data) = MAX_MULTIPOINT_CONNECTIONS

EnterConnected(data) ==
    /\ state' = "connected"
    /\ IF ~conf.Multipoint THEN Connectable(FALSE) /\ UNCHANGED timer
       ELSE IF AllConnected(data) THEN Connectable(FALSE) /\ timer' = FALSE
       ELSE IF IsConnected THEN UNCHANGED scan ELSE ConnectableForATime

\* sinkHandleSlcConnectCfm with slcConnectionComplete
HandleConnectSuccess ==
    /\ Receives("SLC_CONNECT_CFM") /\ state # "limbo" /\ m.ok /\ Done
    /\ LET connected == [profile_data EXCEPT ![m.priority].connected = TRUE]
       IN  /\ pdl' = SetPriority(connected, m.addr)
           /\ profile_data' = [connected EXCEPT ![m.priority].listed = TRUE]
           /\ EnterConnected(connected)
    /\ ContinueIfOwn
    /\ gSlcConnectRemote' = FALSE
    /\ UNCHANGED <<conf, gListID, gPdlSize, attempts, connection_in_progress,
                   lib, stack, count>>

\* Mutant: the count is not asked whether any are left.
AlwaysFewer == attempts - 1

AttemptsLeft == IF attempts = 0 THEN 0 ELSE attempts - 1

\* sinkHandleSlcConnectCfm with slcConnectFail
HandleConnectFail ==
    /\ Receives("SLC_CONNECT_CFM") /\ state # "limbo" /\ ~m.ok /\ Done
    /\ IF IsConnected /\ ~conf.Multipoint THEN UNCHANGED <<continues, attempts>>
       ELSE /\ ContinueIfOwn
            /\ attempts' = AttemptsLeft
    /\ gSlcConnectRemote' = FALSE
    /\ IF conf.Multipoint /\ AllConnected(profile_data)
       THEN Connectable(FALSE) /\ timer' = FALSE ELSE UNCHANGED scan
    /\ UNCHANGED <<conf, gListID, gPdlSize, connection_in_progress, state, pdl,
                   profile_data, lib, stack, count>>

\* Mutant: the secondary slot does not move up.
DroppedOnly(lost) ==
    [profile_data EXCEPT
        ![m.priority] = [connected |-> @.connected
                            /\ (lost \/ ProfilesConnected(profile_data, m.addr)),
                         listed |-> FALSE]]

\* The slot of the link that is gone, and the secondary one moved up.
Dropped(lost) ==
    LET p == m.priority
        gone == [profile_data EXCEPT
                     ![p] = [connected |-> @.connected
                                           /\ (lost \/ ProfilesConnected(profile_data, m.addr)),
                             listed |-> FALSE]]
    IN  IF p = 1 /\ gone[2].listed
        THEN [gone EXCEPT ![1] = gone[2], ![2].listed = FALSE] ELSE gone

\* sinkHandleSlcDisconnectInd
HandleDisconnectInd ==
    /\ Receives("SLC_DISCONNECT_IND") /\ Done
    /\ LET heard == m.status \in {"success", "link_loss"}
           gone == IsConnected /\ NumConnectedDevs(profile_data') = 0
           again == heard /\ state # "limbo" /\ conf.Multipoint
                    /\ ~AllConnected(profile_data)
       IN  /\ profile_data' = IF heard THEN Dropped(m.status = "link_loss") ELSE profile_data
           /\ state' = IF gone THEN "connectable" ELSE state
           /\ page_scan_enabled' = (page_scan_enabled \/ again \/ gone)
           /\ timer' = (timer \/ again)
    /\ UNCHANGED <<conf, slc, pdl, lib, stack, count>>

-----------------------------------------------------------------------------
(* The library's handlers                                                  *)

\* hfpHandleDisconnectRequest, or no link to disconnect
HandleDisconnectReq ==
    /\ Receives("DISCONNECT_REQ")
    /\ \E l \in DOMAIN links \cup {0} :
         /\ m = DisconnectReq(l)
         /\ LET now == IF l = 0 THEN "idle" ELSE links[l].state IN
            \/ /\ now = "idle"
               /\ DoneAndSend(<<DisconnectInd("no_slc", 0, NULL)>>)
               /\ UNCHANGED <<links, closing>>
            \/ /\ now = "searching"
               /\ DoneAndSend(Failed(l)) /\ links' = Reset(links, l)
               /\ UNCHANGED closing
            \* An outgoing stream may not have a sink yet; there may be none any more.
            \/ /\ now \in {"outgoing", "incoming", "connected", "complete"} /\ Done
               /\ \/ air[links[l].addr] # "none" /\ closing' = closing \cup {links[l].addr}
                  \/ air[links[l].addr] \in {"none", "asked"} /\ UNCHANGED closing
               /\ UNCHANGED links
    /\ UNCHANGED <<conf, slc, app, held, search, air, offered, count>>

\* hfpHandleServiceSearchAttributeCfm; the result of an older search counts too.  The
\* second search, for the headset profile, is part of the first.
HandleSdpCfm ==
    /\ Receives("SDP_CFM")
    /\ LET l == LinkOf(m.addr) IN
       IF l = 0 \/ links[l].state # "searching" THEN Done /\ UNCHANGED <<links, air>>
       ELSE IF m.ok
       THEN /\ links' = [links EXCEPT ![l].state = "outgoing"]
            /\ air' = [air EXCEPT ![m.addr] = "asked"] /\ Done
       ELSE /\ links' = Reset(links, l)
            /\ DoneAndSend(Failed(l)) /\ UNCHANGED air
    /\ UNCHANGED <<conf, slc, app, held, search, closing, offered, count>>

\* hfpHandleRfcommConnectCfm, of a request or of a response
HandleRfcConnectCfm ==
    /\ Receives("RFC_CONNECT_CFM")
    /\ \E a \in Phone, ok \in BOOLEAN :
         /\ m = Answer("RFC_CONNECT_CFM", a, ok)
         /\ LET l == LinkOf(a) IN
            IF l = 0 THEN Done /\ UNCHANGED links
            ELSE IF ok THEN links' = [links EXCEPT ![l].state = "connected"] /\ Done
            ELSE links' = Reset(links, l) /\ DoneAndSend(Failed(l))
    /\ UNCHANGED <<conf, slc, app, held, stack, count>>

\* The service of a channel is busy with another phone that has connected to it.
ServiceBusy(a) == \E l \in DOMAIN links : links[l].owns_service /\ links[l].addr # a

\* hfpHandleRfcommConnectInd, with the messages that follow rest.
ConnectIndFrom(a, rest) ==
    LET l == LinkOf(a)
        Accept(ls, k, sent) ==
            /\ links' = Setup(ls, k, a, "incoming")
            /\ air' = [air EXCEPT ![a] = "accepted"]
            /\ queue' = rest \o sent \o <<Plain("SLC_CONNECT_IND")>>
            /\ offered' = offered \ {a} /\ held' = held \ {a}
        Reject ==
            /\ queue' = rest /\ offered' = offered \ {a} /\ held' = held \ {a}
            /\ UNCHANGED <<links, air>>
    IN \/ ServiceBusy(a) /\ Reject
       \/ l = 0 /\ IdleOne # 0 /\ Accept(links, IdleOne, <<>>)
       \/ l = 0 /\ IdleOne = 0 /\ Reject
       \* The connection that comes in wins over the search for it.
       \/ /\ l # 0 /\ links[l].state = "searching"
          /\ Accept(Reset(links, l), l, Failed(l))
       \* Looked at again in 500 ms.
       \/ /\ l # 0 /\ links[l].state = "outgoing"
          /\ queue' = rest /\ held' = held \cup {a}
          /\ UNCHANGED <<links, air, offered>>
       \/ l # 0 /\ links[l].state \in {"incoming", "connected", "complete"} /\ Reject

HandleRfcConnectInd ==
    /\ Receives("RFC_CONNECT_IND")
    /\ \E a \in Phone :
         m = OfPhone("RFC_CONNECT_IND", a) /\ ConnectIndFrom(a, Tail(queue))
    /\ UNCHANGED <<conf, slc, app, search, closing, count>>

\* CL_RFCOMM_CONNECT_IND sent again to the library itself
RfcConnectIndAgain(a) ==
    /\ a \in held /\ ConnectIndFrom(a, queue)
    /\ UNCHANGED <<conf, slc, app, search, closing, count>>

\* The last answer of the AT exchange: hfpSlcConnectTidy
HandleAtComplete ==
    /\ Receives("AT_COMPLETE")
    /\ LET l == LinkOf(m.addr) IN
       IF l = 0 \/ links[l].state # "connected" THEN Done /\ UNCHANGED links
       ELSE /\ links' = [links EXCEPT ![l].state = "complete"]
            /\ DoneAndSend(<<ConnectCfm(TRUE, links[l].priority, m.addr)>>)
    /\ UNCHANGED <<conf, slc, app, held, stack, count>>

\* hfpHandleRfcommDisconnect, without recovery of a lost link
HandleRfcDisconnect ==
    /\ Receives("RFC_DISCONNECT")
    /\ LET l == LinkOf(m.addr) IN
       /\ l # 0     \* PanicNull
       /\ links' = Reset(links, l)
       /\ IF links[l].state # "complete" THEN DoneAndSend(Failed(l))
          ELSE DoneAndSend(<<DisconnectInd(m.status, links[l].priority, m.addr)>>)
    /\ UNCHANGED <<conf, slc, app, held, stack, count>>

-----------------------------------------------------------------------------
(* BlueStack, the phones and the user                                      *)

Quiet == Len(queue) < MaxQueue

StackFinds(a, ok) ==
    /\ Quiet /\ search[a] > 0
    /\ search' = [search EXCEPT ![a] = @ - 1]
    /\ queue' = Append(queue, Answer("SDP_CFM", a, ok))
    /\ UNCHANGED <<conf, slc, app, lib, air, closing, offered, count>>

StackConnects(a, ok) ==
    /\ Quiet /\ air[a] \in {"asked", "accepted"} /\ (a \in closing => ~ok)
    /\ air' = [air EXCEPT ![a] = IF ok THEN "up" ELSE "none"] /\ closing' = closing \ {a}
    /\ queue' = Append(queue, Answer("RFC_CONNECT_CFM", a, ok))
    /\ UNCHANGED <<conf, slc, app, lib, search, offered, count>>

\* A phone asks for a stream, also while it is asked for one.  It has to page the
\* headset unless they have a connection for something else.
PhoneCalls(a) ==
    /\ Quiet /\ calls < MaxCalls /\ calls' = calls + 1
    /\ a \in conf.Profiled \ offered /\ air[a] \in {"none", "asked"}
    /\ page_scan_enabled \/ search[a] > 0 \/ air[a] = "asked"
    /\ offered' = offered \cup {a}
    /\ queue' = Append(queue, OfPhone("RFC_CONNECT_IND", a))
    /\ UNCHANGED <<conf, slc, app, lib, search, air, closing, presses, ends>>

PhoneCompletesAt(a) ==
    /\ Quiet /\ air[a] = "up" /\ LinkOf(a) # 0 /\ links[LinkOf(a)].state = "connected"
    /\ ~Contains(queue, OfPhone("AT_COMPLETE", a))
    /\ queue' = Append(queue, OfPhone("AT_COMPLETE", a))
    /\ UNCHANGED <<conf, slc, app, lib, stack, count>>

Ends(a, status) ==
    /\ Quiet /\ air[a] = "up"
    /\ air' = [air EXCEPT ![a] = "none"] /\ closing' = closing \ {a}
    /\ queue' = Append(queue, [id |-> "RFC_DISCONNECT", addr |-> a, status |-> status])
    /\ UNCHANGED <<conf, slc, app, lib, search, offered, presses, calls>>

\* The stream the library has asked to end.
StackCloses(a) == a \in closing /\ Ends(a, "success") /\ UNCHANGED ends

\* The phone ends it, or is gone.
PhoneEnds(a, status) == ends < MaxEnds /\ Ends(a, status) /\ ends' = ends + 1

UserPresses(id) ==
    /\ Quiet /\ presses < MaxPresses /\ presses' = presses + 1
    /\ id \in User /\ (id = "POWER_ON" <=> state = "limbo")
    /\ queue' = Append(queue, Plain(id))
    /\ UNCHANGED <<conf, slc, app, lib, stack, calls, ends>>

-----------------------------------------------------------------------------
\* What the library does not tell: the secondary link becomes the primary one when
\* an attempt that was the primary fails; a link ends with another error.
NotTold ==
    \/ \E l, k \in DOMAIN links :
         /\ links[l].state = "complete" /\ links[l].priority = 2 /\ links'[l].priority = 1
         /\ links[k].state # "complete" /\ links[k].priority = 1
    \/ \E l \in DOMAIN links :
         links[l].state = "complete" /\ links'[l].state = "idle" /\ m.status = "error"

\* A search abandoned by what the user asks, or as no more can be connected.
Paused == state \in {"limbo", "discoverable"} \/ (IsConnected /\ ~conf.Multipoint)

History ==
    /\ unheard' = (unheard \/ NotTold)
    /\ interrupted' = (connection_in_progress' /\ (interrupted \/ Paused \/ Paused'))

Next ==
    \/ HandlePowerOn /\ History
    \/ HandlePowerOff /\ History
    \/ HandleEnterPairing /\ History
    \/ PairingEnds /\ History
    \/ ConnectableTimeout /\ History
    \/ HandleEstablish /\ History
    \/ Continue /\ History
    \/ HandleConnectInd /\ History
    \/ HandleConnectCfmInLimbo /\ History
    \/ HandleConnectSuccess /\ History
    \/ HandleConnectFail /\ History
    \/ HandleDisconnectInd /\ History
    \/ HandleDisconnectReq /\ History
    \/ HandleSdpCfm /\ History
    \/ HandleRfcConnectCfm /\ History
    \/ HandleRfcConnectInd /\ History
    \/ HandleAtComplete /\ History
    \/ HandleRfcDisconnect /\ History
    \/ (\E a \in Phone : RfcConnectIndAgain(a)) /\ History
    \/ (\E a \in Phone : PhoneCalls(a)) /\ History
    \/ (\E a \in Phone : PhoneCompletesAt(a)) /\ History
    \/ (\E a \in Phone : StackCloses(a)) /\ History
    \/ (\E a \in Phone, ok \in BOOLEAN : StackFinds(a, ok)) /\ History
    \/ (\E a \in Phone, ok \in BOOLEAN : StackConnects(a, ok)) /\ History
    \/ (\E a \in Phone, status \in Status : PhoneEnds(a, status)) /\ History
    \/ (\E id \in User : UserPresses(id)) /\ History

Spec == Init /\ [][Next]_vars

-----------------------------------------------------------------------------
(* Properties                                                              *)

Active == {"searching", "outgoing", "incoming", "connected"}

\* What each variable may be; in particular the attempts left never go below zero.
TypeOK ==
    /\ state \in {"limbo", "connectable", "discoverable", "connected"}
    /\ pdl \in Seq(Phone) /\ Len(pdl) = Len(conf.Paired)
    /\ gListID \in 0..(ListIds - 1) /\ gPdlSize \in {0, Len(pdl)}
    /\ gSlcConnectRemote \in BOOLEAN /\ connection_in_progress \in BOOLEAN
    /\ attempts \in Nat /\ continues \in Nat
    /\ profile_data \in [1..2 -> [connected : BOOLEAN, listed : BOOLEAN]]
    /\ DOMAIN links = 1..NumLinks
    /\ \A l \in DOMAIN links :
         links[l] \in [state : {"idle", "complete"} \cup Active, addr : Phone \cup {NULL},
                       priority : 0..2, owns_service : BOOLEAN]
    /\ held \subseteq offered /\ offered \subseteq Phone
    /\ queue \in Seq(Message)
    /\ search \in [Phone -> Nat]
    /\ air \in [Phone -> {"none", "asked", "accepted", "up"}]
    /\ closing \subseteq Phone /\ {page_scan_enabled, timer, unheard} \subseteq BOOLEAN

Queued(ids) == \E k \in DOMAIN queue : queue[k].id \in ids

Complete == {l \in DOMAIN links : links[l].state = "complete"}

\* The headset is on, and nothing that made or ended a connection is on its way.
Settled ==
    /\ state # "limbo" /\ closing = {}
    /\ ~Queued({"SLC_CONNECT_CFM", "SLC_DISCONNECT_IND", "DISCONNECT_REQ", "RFC_DISCONNECT"})

\* A flag that says connected although its connection is gone: a lost link leaves it,
\* and so does the secondary connection when it moves up.
Stale == \E priority \in 1..2 : profile_data[priority].connected /\ ~profile_data[priority].listed

\* The end of a stream always finds the link it belongs to, with a stream to lose:
\* hfpHandleRfcommDisconnect panics otherwise, and resets the link without asking
\* whether it is the one that ended.  A search given up, a phone that calls while it
\* is called and a disconnection while connecting all reuse links.
LinkFound ==
    \A k \in DOMAIN queue : queue[k].id = "RFC_DISCONNECT" =>
        LET l == LinkOf(queue[k].addr) IN
        l # 0 /\ links[l].state \notin {"idle", "searching"}

\* No phone and no priority has two links, and there is a secondary link only beside
\* a primary one, however attempts of both sides cross: the library and the
\* application tell connections apart by priority alone.
LinksDistinct ==
    /\ \A l \in DOMAIN links :
         links[l].state = "idle" <=> links[l].priority = 0
    /\ \A l, k \in DOMAIN links : l # k /\ links[l].state # "idle" =>
         links[l].addr # links[k].addr /\ links[l].priority # links[k].priority
    /\ (\E l \in DOMAIN links : links[l].priority = 2)
         => \E l \in DOMAIN links : links[l].priority = 1

\* Once all is settled the application's slots (list_id and connected) are exactly
\* the complete links, by priority, as long as it has been told of each change.
ListedTrue ==
    Settled /\ ~unheard =>
        \A priority \in 1..2 :
            /\ profile_data[priority].listed
                 <=> \E l \in Complete : links[l].priority = priority
            /\ profile_data[priority].listed => profile_data[priority].connected

\* The state manager says connected exactly while a phone is: sinkHandleSlcDisconnectInd
\* and slcConnectionComplete keep it so unless a flag is stale.
ConnectedTrue ==
    Settled /\ ~unheard /\ ~Stale => (IsConnected <=> Complete # {})

\* A headset that is on and has no phone can be paged, whatever timer, failure or
\* disconnection has come last.
Reachable ==
    Settled /\ ~unheard /\ ~Stale /\ Complete = {} => page_scan_enabled

\* While connection_in_progress holds role switches back, something is under way that
\* will continue or end the search: remote connections, crossings and failures never
\* lose it.  (Pairing mode, power off and a connection without multipoint do.)
SearchGoesOn ==
    connection_in_progress /\ ~interrupted =>
        \/ continues > 0 \/ Queued({"SLC_CONNECT_CFM", "ESTABLISH"})
        \/ \E l \in DOMAIN links : links[l].state \in Active
=============================================================================
