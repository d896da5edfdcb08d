------------------------ MODULE BleAdvertisingProofs ------------------------
(***************************************************************************)
(* Proofs about BleAdvertising, for every number of channels, every length *)
(* of the local name and every value of the bounds.  Four inductive        *)
(* invariants: IInv (types, timers, advertising); LifeInv (what is queued  *)
(* about a channel, its record, its state in the stack and the client      *)
(* agree, and nobody asks for a connection before the start); ReachInv     *)
(* (the start or the request goes on while the stack refuses nothing and   *)
(* every end is told); and TaskInv (every end is told while no request     *)
(* crosses another one or a channel).                                      *)
(***************************************************************************)
EXTENDS BleAdvertising, SequenceTheorems, FiniteSetTheorems, TLAPS

Message == AppMessage \cup LibMessage

\* Where a service level connection waits in a queue.
Slcs(q) == {k \in 1..Len(q) : q[k].id = "SLC_CONNECTED"}

\* Each service level connection starts one timer at most, when it is handled;
\* until then it is queued.
TimersCounted ==
    /\ Cardinality(Slcs(queue)) <= slcs
    /\ timers + Cardinality(Slcs(queue)) <= slcs + 1

IInv == TypeOK /\ TimersCounted /\ AdDataFits /\ AdvertisingIsTimed

-----------------------------------------------------------------------------
(* Lemmas about the helpers                                                *)

\* The fields of a message.
LEMMA MessageFields ==
    ASSUME NEW m \in Message
    PROVE  /\ m.id \in {"GATT_INIT_CFM", "ATT_REGISTER_CFM", "ATT_ADD_DB_CFM"}
                  => m.ok \in BOOLEAN
           /\ m.id \in {"GATT_CONNECT_SUCCESS", "GATT_DISCONNECT_IND", "ATT_INITIATING",
                        "ATT_SUCCESS", "ATT_FAILURE", "ATT_DISCONNECT_IND",
                        "DELETE_CONN", "DISCONNECT_REQ"} => m.cid \in Cid
BY DEF Message, AppMessage, LibMessage

\* The messages the handlers and the stack send.
LEMMA Messages ==
    /\ [id |-> "SLC_CONNECTED"] \in Message /\ [id |-> "CONNECT_REQ"] \in Message
    /\ \A ok \in BOOLEAN :
           {[id |-> "GATT_INIT_CFM", ok |-> ok], [id |-> "ATT_REGISTER_CFM", ok |-> ok],
            [id |-> "ATT_ADD_DB_CFM", ok |-> ok]} \subseteq Message
    /\ \A c \in Cid :
           {[id |-> "GATT_CONNECT_INITIALISING", cid |-> c],
            [id |-> "GATT_CONNECT_SUCCESS", cid |-> c],
            [id |-> "GATT_CONNECT_FAILURE", cid |-> c],
            [id |-> "GATT_DISCONNECT_IND", cid |-> c],
            [id |-> "ATT_INITIATING", cid |-> c], [id |-> "ATT_SUCCESS", cid |-> c],
            [id |-> "ATT_FAILURE", cid |-> c], [id |-> "ATT_DISCONNECT_IND", cid |-> c],
            [id |-> "DELETE_CONN", cid |-> c], [id |-> "DISCONNECT_REQ", cid |-> c]}
               \subseteq Message
BY DEF Message, AppMessage, LibMessage

LEMMA SlcsFinite ==
    ASSUME NEW q \in Seq(Message)
    PROVE  IsFiniteSet(Slcs(q)) /\ Cardinality(Slcs(q)) \in Nat
<1>1. IsFiniteSet(1..Len(q))
  BY FS_Interval
<1>2. Slcs(q) \in SUBSET (1..Len(q))
  BY DEF Slcs
<1> QED
  BY <1>1, <1>2, FS_Subset, FS_CardinalityType

\* A message behind the others adds itself.
LEMMA SlcsAppend ==
    ASSUME NEW q \in Seq(Message), NEW m \in Message
    PROVE  Cardinality(Slcs(Append(q, m))) =
               IF m.id = "SLC_CONNECTED" THEN Cardinality(Slcs(q)) + 1
                                         ELSE Cardinality(Slcs(q))
<1>1. CASE m.id = "SLC_CONNECTED"
  <2>1. Slcs(Append(q, m)) = Slcs(q) \cup {Len(q) + 1}
    BY <1>1, AppendProperties DEF Slcs
  <2>2. Len(q) + 1 \notin Slcs(q)
    BY DEF Slcs
  <2> QED
    BY <1>1, <2>1, <2>2, SlcsFinite, FS_AddElement
<1>2. CASE m.id # "SLC_CONNECTED"
  <2>1. Slcs(Append(q, m)) = Slcs(q)
    BY <1>2, AppendProperties DEF Slcs
  <2> QED
    BY <1>2, <2>1
<1> QED
  BY <1>1, <1>2

\* The head handled, others in front of which it stood move up by one.
LEMMA SlcsTail ==
    ASSUME NEW q \in Seq(Message), q # <<>>
    PROVE  Cardinality(Slcs(Tail(q))) <=
               IF Head(q).id = "SLC_CONNECTED" THEN Cardinality(Slcs(q)) - 1
                                               ELSE Cardinality(Slcs(q))
<1> DEFINE up == [k \in Slcs(q) \ {1} |-> k - 1]
<1>1. /\ IsFiniteSet(Slcs(q) \ {1})
      /\ Cardinality(Slcs(q) \ {1}) =
             IF 1 \in Slcs(q) THEN Cardinality(Slcs(q)) - 1 ELSE Cardinality(Slcs(q))
  BY SlcsFinite, FS_RemoveElement
<1>2. Head(q) = q[1] /\ Len(q) \in Nat \ {0} /\ (1 \in Slcs(q) <=> Head(q).id = "SLC_CONNECTED")
  BY EmptySeq DEF Slcs
<1>3. up \in Surjection(Slcs(q) \ {1}, Slcs(Tail(q)))
  <2>1. /\ Tail(q) \in Seq(Message) /\ Len(Tail(q)) = Len(q) - 1
        /\ \A i \in 1..Len(Tail(q)) : Tail(q)[i] = q[i + 1]
    BY HeadTailProperties
  <2>2. \A k \in Slcs(q) \ {1} : k - 1 \in Slcs(Tail(q))
    BY <2>1 DEF Slcs
  <2>3. \A k \in Slcs(Tail(q)) : k + 1 \in Slcs(q) \ {1} /\ up[k + 1] = k
    BY <2>1 DEF Slcs
  <2> QED
    BY <2>2, <2>3, Zenon DEF Surjection
<1>4. Cardinality(Slcs(Tail(q))) <= Cardinality(Slcs(q) \ {1})
  BY <1>1, <1>3, FS_Surjection
<1> QED
  BY <1>1, <1>2, <1>4

\* Sending nothing, one message or two.
LEMMA Concatenated ==
    ASSUME NEW q \in Seq(Message), NEW m \in Message, NEW n \in Message
    PROVE  /\ q \o <<>> = q
           /\ q \o <<m>> = Append(q, m)
           /\ q \o <<m, n>> = Append(Append(q, m), n)
OBVIOUS

\* The queue after a handler that sent nothing, one message or two.
LEMMA QueueHandled ==
    ASSUME TypeOK, queue # <<>>, NEW m \in Message, NEW n \in Message,
           m.id # "SLC_CONNECTED", n.id # "SLC_CONNECTED",
           queue' \in {Tail(queue), Tail(queue) \o <<>>, Tail(queue) \o <<m>>,
                       Tail(queue) \o <<m, n>>}
    PROVE  /\ queue' \in Seq(Message) /\ Cardinality(Slcs(queue')) \in Nat
           /\ Cardinality(Slcs(queue')) <=
                  IF Head(queue).id = "SLC_CONNECTED" THEN Cardinality(Slcs(queue)) - 1
                                                      ELSE Cardinality(Slcs(queue))
<1>1. queue \in Seq(Message)
  BY DEF TypeOK, Message
<1> DEFINE q == Tail(queue)
<1>2. q \in Seq(Message)
  BY <1>1, HeadTailProperties
<1>3. queue' \in {q, Append(q, m), Append(Append(q, m), n)}
  BY <1>2, Concatenated
<1> HIDE DEF q
<1>5. Append(q, m) \in Seq(Message)
  BY <1>2, AppendProperties
<1>7. Append(Append(q, m), n) \in Seq(Message)
  BY <1>5, AppendProperties
<1>4. queue' \in Seq(Message)
  BY <1>2, <1>3, <1>5, <1>7
<1>6. Cardinality(Slcs(queue')) = Cardinality(Slcs(q))
  BY <1>2, <1>3, <1>5, SlcsAppend
<1> QED
  BY <1>1, <1>4, <1>6, SlcsTail, SlcsFinite DEF q

\* The queue after a message from outside.
LEMMA QueueSent ==
    ASSUME TypeOK, NEW m \in Message, queue' = Append(queue, m)
    PROVE  /\ queue' \in Seq(Message) /\ Cardinality(Slcs(queue')) \in Nat
           /\ Cardinality(Slcs(queue')) =
                  IF m.id = "SLC_CONNECTED" THEN Cardinality(Slcs(queue)) + 1
                                            ELSE Cardinality(Slcs(queue))
<1>1. queue \in Seq(Message)
  BY DEF TypeOK, Message
<1> QED
  BY <1>1, AppendProperties, SlcsAppend, SlcsFinite

\* Four fields in at most 31 octets: a name longer than the octets left takes
\* all of them, and the manufacturer's data go in whole or not at all.
LEMMA AdDataFit ==
    ASSUME NEW n \in Nat
    PROVE  setup_ble_ad_data(n) \in 0..MAX_AD_DATA_SIZE_IN_OCTECTS
BY DEF setup_ble_ad_data, local_name_ad_data, manufature_ad_data, services_ad_data,
       MAX_AD_DATA_SIZE_IN_OCTECTS, AD_DATA_HEADER_SIZE, FLAGS_AD_DATA_LENGTH,
       SIZE_MANUFATURE_DATA

-----------------------------------------------------------------------------
(* The invariant is inductive                                              *)

LEMMA InitIInv == Init => IInv
<1> SUFFICES ASSUME Init PROVE IInv
  OBVIOUS
<1>1. TypeOK
  <2>1. MaxSlc \in Nat /\ MaxPairings \in Nat /\ MaxFailures \in Nat
    BY BoundAssumption
  <2>2. queue \in Seq(AppMessage \cup LibMessage)
    BY DEF Init
  <2>3. stack \in [register : Nat, add_db : Nat, set_data : Nat, connect : Nat]
    BY DEF Init
  <2>4. /\ initialised \in BOOLEAN /\ ad_data_valid \in BOOLEAN /\ ble_adv \in BOOLEAN
        /\ radio \in BOOLEAN /\ conn_req_task \in BOOLEAN /\ crossed \in BOOLEAN
    BY Zenon DEF Init
  <2>5. /\ client \in Cid \cup {NULL} /\ conn \in [Cid -> {"none", "connecting", "up", "closing"}]
        /\ libState \in {"uninitialised", "initialising", "initialised"}
        /\ link \in [Cid -> {"free", "initiating", "up", "ending"}]
    BY DEF Init
  <2>6. timers \in 0..(MaxSlc + 1) /\ held \in Nat /\ slcs \in 0..MaxSlc
        /\ pairings \in 0..MaxPairings /\ failures \in 0..MaxFailures
        /\ owned \subseteq Cid /\ untold \subseteq Cid
    BY <2>1 DEF Init
  <2> QED
    BY <2>2, <2>3, <2>4, <2>5, <2>6 DEF TypeOK
<1>2. TimersCounted
  <2>1. Slcs(queue) = {}
    BY DEF Init, Slcs
  <2>2. Cardinality(Slcs(queue)) = 0
    BY <2>1, FS_EmptySet
  <2> QED
    BY <2>2 DEF Init, TimersCounted
<1>3. AdDataFits /\ AdvertisingIsTimed
  BY DEF Init, AdDataFits, AdvertisingIsTimed, MAX_AD_DATA_SIZE_IN_OCTECTS
<1> QED
  BY <1>1, <1>2, <1>3 DEF IInv

\* The application's handlers of messages.
LEMMA ApplicationKeepsIInv ==
    ASSUME IInv, Application
    PROVE  IInv'
<1>i. TypeOK /\ TimersCounted /\ AdDataFits /\ AdvertisingIsTimed
  BY DEF IInv
<1>h. queue # <<>> /\ queue \in Seq(Message) /\ Head(queue) \in Message
  BY <1>i, HeadTailProperties DEF Application, HandleSlcConnected, HandleInitCfm,
     HandleConnectInitialising, HandleConnectSuccess, HandleConnectFailure,
     HandleDisconnectInd, Next1, TypeOK, Message
<1>q. /\ queue' \in Seq(Message) /\ Cardinality(Slcs(queue')) \in Nat
      /\ Cardinality(Slcs(queue')) <=
             IF Head(queue).id = "SLC_CONNECTED" THEN Cardinality(Slcs(queue)) - 1
                                                 ELSE Cardinality(Slcs(queue))
  <2>1. \E m \in Message :
            /\ m.id # "SLC_CONNECTED"
            /\ queue' \in {Tail(queue), Tail(queue) \o <<>>, Tail(queue) \o <<m>>}
    BY <1>h, Messages DEF Application, HandleSlcConnected, HandleInitCfm,
       HandleConnectInitialising, HandleConnectSuccess, HandleConnectFailure,
       HandleDisconnectInd, Done, DoneAndSend
  <2> QED
    BY <1>i, <1>h, <2>1, QueueHandled
<1>c. Cardinality(Slcs(queue)) \in Nat
  BY <1>h, SlcsFinite
<1>s. /\ slcs' = slcs /\ pairings' = pairings /\ failures' = failures /\ link' = link
      /\ untold' = untold /\ owned' = owned /\ crossed' = crossed
  BY DEF Application, HandleSlcConnected, HandleInitCfm, HandleConnectInitialising,
     HandleConnectSuccess, HandleConnectFailure, HandleDisconnectInd, air, lib
<1>1. CASE HandleSlcConnected
  <2>1. Head(queue).id = "SLC_CONNECTED"
    BY <1>1 DEF HandleSlcConnected, Next1
  <2>2. stack' \in [register : Nat, add_db : Nat, set_data : Nat, connect : Nat]
        /\ AdDataFits'
    <3>1. CASE UNCHANGED stack
      BY <1>i, <3>1 DEF TypeOK, AdDataFits
    <3>2. CASE \E n \in NameSizes :
                  stack' = [register |-> stack.register + 1, add_db |-> stack.add_db,
                            set_data |-> setup_ble_ad_data(n),
                            connect |-> stack.connect]
      <4>1. PICK n \in Nat :
                stack' = [register |-> stack.register + 1, add_db |-> stack.add_db,
                          set_data |-> setup_ble_ad_data(n), connect |-> stack.connect]
        BY <3>2, NameAssumption
      <4>2. setup_ble_ad_data(n) \in 0..MAX_AD_DATA_SIZE_IN_OCTECTS
        BY AdDataFit
      <4>3. stack \in [register : Nat, add_db : Nat, set_data : Nat, connect : Nat]
        BY <1>i DEF TypeOK
      <4> QED
        BY <4>1, <4>2, <4>3 DEF AdDataFits, MAX_AD_DATA_SIZE_IN_OCTECTS
    <3> QED
      BY <1>1, <3>1, <3>2 DEF HandleSlcConnected
  <2>t. timers \in Nat /\ slcs \in 0..MaxSlc /\ MaxSlc \in Nat
    BY <1>i, BoundAssumption DEF TypeOK
  <2>u. timers' \in {timers, timers + 1}
    BY <1>1 DEF HandleSlcConnected
  <2>3. timers' \in 0..(MaxSlc + 1) /\ TimersCounted' /\ timers' >= timers
    BY <1>i, <1>q, <1>c, <1>s, <2>1, <2>t, <2>u DEF TimersCounted
  <2>4. TypeOK'
    BY <1>i, <1>1, <1>q, <1>s, <2>2, <2>3 DEF HandleSlcConnected, TypeOK, Message
  <2>5. AdvertisingIsTimed'
    <3>1. radio' = radio /\ ble_adv' = ble_adv
      BY <1>1 DEF HandleSlcConnected
    <3> QED
      BY <1>i, <2>3, <2>t, <3>1 DEF AdvertisingIsTimed
  <2> QED
    BY <2>2, <2>3, <2>4, <2>5 DEF IInv
<1>2. CASE HandleInitCfm
  <2>1. UNCHANGED <<client, ad_data_valid, ble_adv, timers, lib, air>>
    BY <1>2 DEF HandleInitCfm
  <2>2. initialised' \in BOOLEAN
    BY <1>2 DEF HandleInitCfm
  <2>3. TypeOK'
    BY <1>i, <1>q, <1>s, <2>1, <2>2 DEF TypeOK, Message, lib, air
  <2>4. TimersCounted'
    <3>1. timers \in Nat /\ slcs \in Nat /\ timers' = timers
      BY <1>i, <2>1, BoundAssumption DEF TypeOK
    <3> QED
      BY <1>i, <1>q, <1>s, <1>c, <3>1 DEF TimersCounted
  <2>5. AdDataFits' /\ AdvertisingIsTimed'
    <3>1. stack' = stack /\ timers' = timers /\ ble_adv' = ble_adv /\ radio' = radio
      BY <2>1, Zenon DEF air
    <3>2. AdDataFits'
      BY <1>i, <3>1 DEF AdDataFits
    <3>3. AdvertisingIsTimed'
      BY <1>i, <3>1 DEF AdvertisingIsTimed
    <3> QED
      BY <3>2, <3>3
  <2> QED
    BY <2>3, <2>4, <2>5 DEF IInv
<1>3. ASSUME Advertise \/ StopAdvertising \/ KeepAdvertising,
             client' \in Cid \cup {NULL},
             UNCHANGED <<initialised, ad_data_valid, lib, stack>>
      PROVE  IInv'
  <2>1. /\ radio' \in BOOLEAN /\ ble_adv' \in BOOLEAN
        /\ timers' \in {timers, 1} /\ AdvertisingIsTimed'
    <3>t. timers \in Nat /\ radio \in BOOLEAN /\ ble_adv \in BOOLEAN
          /\ ad_data_valid \in BOOLEAN
      BY <1>i DEF TypeOK
    <3>1. CASE Advertise
      BY <3>1, <3>t DEF Advertise, AdvertisingIsTimed
    <3>2. CASE StopAdvertising
      BY <3>2, <3>t DEF StopAdvertising, AdvertisingIsTimed
    <3>3. CASE KeepAdvertising
      BY <1>i, <3>3, <3>t DEF KeepAdvertising, AdvertisingIsTimed
    <3> QED
      BY <1>3, <3>1, <3>2, <3>3
  <2>2. TimersCounted' /\ timers' \in 0..(MaxSlc + 1)
    <3>t. timers \in Nat /\ slcs \in 0..MaxSlc /\ MaxSlc \in Nat
      BY <1>i, BoundAssumption DEF TypeOK
    <3> QED
      BY <1>i, <1>q, <1>c, <1>s, <2>1, <3>t DEF TimersCounted
  <2>3. TypeOK'
    BY <1>i, <1>q, <1>s, <1>3, <2>1, <2>2 DEF TypeOK, Message, lib
  <2> QED
    BY <1>i, <1>3, <2>1, <2>2, <2>3 DEF IInv, AdDataFits
<1>4. CASE HandleConnectInitialising
  BY <1>i, <1>3, <1>4 DEF HandleConnectInitialising, TypeOK
<1>5. CASE HandleConnectSuccess
  <2>1. client' \in Cid \cup {NULL}
    BY <1>i, <1>h, <1>5, MessageFields DEF HandleConnectSuccess, Next1, TypeOK
  <2> QED
    BY <1>3, <1>5, <2>1 DEF HandleConnectSuccess
<1>6. CASE HandleConnectFailure
  BY <1>i, <1>3, <1>6 DEF HandleConnectFailure, KeepAdvertising, app, air, TypeOK
<1>7. CASE HandleDisconnectInd
  BY <1>i, <1>3, <1>7 DEF HandleDisconnectInd, TypeOK
<1> QED
  BY <1>1, <1>2, <1>4, <1>5, <1>6, <1>7 DEF Application

\* The library's handlers touch the library, the stack's requests and the links.
LEMMA LibraryKeepsIInv ==
    ASSUME IInv, Library \/ ReleaseConnectReq
    PROVE  IInv'
<1>i. TypeOK /\ TimersCounted /\ AdDataFits /\ AdvertisingIsTimed
  BY DEF IInv
<1> USE DEF Library, HandleAttRegisterCfm, HandleAttAddDbCfm, HandleConnectReq,
        HandleDisconnectReq, HandleDeleteConn, HandleAttInitiating, HandleAttSuccess,
        HandleAttFailure, HandleAttDisconnectInd, DropMessage, ReleaseConnectReq, DeleteCid
<1>u. UNCHANGED <<app, radio, slcs, pairings, failures>>
  BY DEF air
<1>h. queue \in Seq(Message) /\ (queue # <<>> => Head(queue) \in Message)
  BY <1>i, HeadTailProperties DEF TypeOK, Message
<1>c. Cardinality(Slcs(queue)) \in Nat
  BY <1>h, SlcsFinite
<1>q. /\ queue' \in Seq(Message) /\ Cardinality(Slcs(queue')) \in Nat
      /\ Cardinality(Slcs(queue')) <= Cardinality(Slcs(queue))
  <2>1. CASE ReleaseConnectReq
    BY <1>h, <1>c, <2>1
  <2>2. CASE Library
    <3>1. queue # <<>>
      BY <2>2 DEF LibNext, Next1
    <3>2. \E m \in Message, n \in Message :
              /\ m.id # "SLC_CONNECTED" /\ n.id # "SLC_CONNECTED"
              /\ queue' \in {Tail(queue), Tail(queue) \o <<>>, Tail(queue) \o <<m>>,
                             Tail(queue) \o <<m, n>>}
      <4>0. Head(queue).id \in {"GATT_INIT_CFM", "ATT_REGISTER_CFM", "ATT_ADD_DB_CFM"}
                => Head(queue).ok \in BOOLEAN
        BY <1>h, <3>1, MessageFields
      <4>1. CASE HandleAttRegisterCfm \/ HandleAttAddDbCfm
        BY <4>0, <4>1, Messages DEF Done, DoneAndSend, LibNext, Next1
      <4>2. CASE HandleConnectReq \/ HandleDisconnectReq \/ HandleDeleteConn \/ DropMessage
        BY <4>2, Messages DEF Done
      <4>3. CASE HandleAttInitiating \/ HandleAttSuccess \/ HandleAttFailure
                 \/ HandleAttDisconnectInd
        <5>1. Head(queue).cid \in Cid
          BY <1>h, <3>1, <4>3, MessageFields DEF LibNext, Next1
        <5> QED
          BY <4>3, <5>1, Messages DEF Done, DoneAndSend
      <4> QED
        BY <2>2, <4>1, <4>2, <4>3
    <3>3. PICK m \in Message, n \in Message :
              /\ m.id # "SLC_CONNECTED" /\ n.id # "SLC_CONNECTED"
              /\ queue' \in {Tail(queue), Tail(queue) \o <<>>, Tail(queue) \o <<m>>,
                             Tail(queue) \o <<m, n>>}
      BY <3>2
    <3>4. /\ queue' \in Seq(Message) /\ Cardinality(Slcs(queue')) \in Nat
          /\ Cardinality(Slcs(queue')) <=
                 IF Head(queue).id = "SLC_CONNECTED" THEN Cardinality(Slcs(queue)) - 1
                                                     ELSE Cardinality(Slcs(queue))
      BY <1>i, <3>1, <3>3, QueueHandled
    <3> QED
      BY <1>c, <3>4
  <2> QED
    BY <2>1, <2>2
<1>t. /\ held \in Nat /\ conn_req_task \in BOOLEAN
      /\ libState \in {"uninitialised", "initialising", "initialised"}
      /\ conn \in [Cid -> {"none", "connecting", "up", "closing"}]
      /\ stack \in [register : Nat, add_db : Nat, set_data : Nat, connect : Nat]
      /\ link \in [Cid -> {"free", "initiating", "up", "ending"}]
  BY <1>i DEF TypeOK
<1>1. held' \in Nat /\ conn_req_task' \in BOOLEAN
  <2>1. \/ held' = held \/ held' = held + 1
        \/ held > 0 /\ held' = held - 1
    BY DEF Released, lib
  <2>2. conn_req_task' \in {TRUE, FALSE, conn_req_task}
    BY DEF ConnectReq, lib
  <2>3. held' \in Nat
    BY <1>t, <2>1
  <2> QED
    BY <1>t, <2>2, <2>3
<1>2. libState' \in {"uninitialised", "initialising", "initialised"}
  BY <1>t DEF lib
<1>3. conn' \in [Cid -> {"none", "connecting", "up", "closing"}]
  BY <1>t DEF lib
<1>o. owned' \subseteq Cid /\ untold' \subseteq Cid /\ crossed' \in BOOLEAN
  <2>1. owned \subseteq Cid /\ untold \subseteq Cid /\ crossed \in BOOLEAN
    BY <1>i DEF TypeOK
  <2>2. /\ \/ owned' \in {owned, {}, owned \ {Head(queue).cid}}
           \/ HandleAttInitiating /\ owned' = owned \cup {Head(queue).cid}
        /\ \/ untold' = untold
           \/ HandleAttDisconnectInd /\ untold' = untold \cup {Head(queue).cid}
    BY DEF lib
  <2>3. HandleAttInitiating \/ HandleAttDisconnectInd => Head(queue).cid \in Cid
    BY <1>h, MessageFields DEF LibNext, Next1
  <2>4. \/ crossed' = crossed
        \/ crossed' = (crossed \/ conn_req_task \/ \E c \in Cid : conn[c] # "none")
    BY DEF lib
  <2>5. crossed' \in BOOLEAN
    BY <2>1, <2>4
  <2> QED
    BY <2>1, <2>2, <2>3, <2>5
<1>4. /\ stack' \in [register : Nat, add_db : Nat, set_data : Nat, connect : Nat]
      /\ stack'.set_data = stack.set_data
  BY <1>t DEF ConnectReq, air
<1>5. link' \in [Cid -> {"free", "initiating", "up", "ending"}]
  BY <1>t DEF air
<1>6. TypeOK'
  BY <1>i, <1>u, <1>q, <1>o, <1>1, <1>2, <1>3, <1>4, <1>5 DEF TypeOK, Message, app
<1>7. TimersCounted' /\ AdDataFits' /\ AdvertisingIsTimed'
  <2>1. UNCHANGED <<timers, slcs, radio, ble_adv>>
    BY <1>u DEF app
  <2>2. timers \in Nat /\ slcs \in Nat
    BY <1>i DEF TypeOK
  <2> QED
    BY <1>i, <1>q, <1>c, <1>4, <2>1, <2>2 DEF TimersCounted, AdDataFits, AdvertisingIsTimed
<1> QED
  BY <1>6, <1>7 DEF IInv

\* Button, timer and a connection over RFCOMM start and stop the advertising.
LEMMA SwitchKeepsIInv ==
    ASSUME IInv, ButtonC \/ DisableBleAdvertising \/ WechatConnectInd
    PROVE  IInv'
<1>i. TypeOK /\ TimersCounted /\ AdDataFits /\ AdvertisingIsTimed
  BY DEF IInv
<1>u. UNCHANGED <<initialised, client, ad_data_valid, lib, queue, stack, link, slcs,
                 pairings, failures>>
  BY DEF ButtonC, DisableBleAdvertising, WechatConnectInd
<1>t. /\ timers \in Nat /\ slcs \in 0..MaxSlc /\ MaxSlc \in Nat
      /\ radio \in BOOLEAN /\ ble_adv \in BOOLEAN /\ ad_data_valid \in BOOLEAN
  BY <1>i, BoundAssumption DEF TypeOK
<1>1. /\ radio' \in BOOLEAN /\ ble_adv' \in BOOLEAN /\ AdvertisingIsTimed'
      /\ timers' \in {timers, 1, timers - 1} /\ timers' \in Nat
  <2>1. CASE ButtonC
    BY <1>t, <2>1 DEF ButtonC, Advertise, AdvertisingIsTimed
  <2>2. CASE DisableBleAdvertising
    <3>1. timers' = timers - 1 /\ timers' \in Nat /\ ble_adv' = FALSE
      BY <1>t, <2>2 DEF DisableBleAdvertising
    <3>2. radio' = FALSE
      BY <1>i, <1>t, <2>2 DEF DisableBleAdvertising, AdvertisingIsTimed
    <3> QED
      BY <3>1, <3>2 DEF AdvertisingIsTimed
  <2>3. CASE WechatConnectInd
    BY <1>t, <2>3 DEF WechatConnectInd, StopIfAdvertising, StopAdvertising,
       AdvertisingIsTimed
  <2> QED
    BY <2>1, <2>2, <2>3
<1>2. TimersCounted' /\ timers' \in 0..(MaxSlc + 1)
  <2>1. Cardinality(Slcs(queue)) \in Nat
    BY <1>i, SlcsFinite DEF TypeOK, Message
  <2> QED
    BY <1>i, <1>u, <1>t, <1>1, <2>1 DEF TimersCounted
<1>3. TypeOK'
  BY <1>i, <1>u, <1>1, <1>2 DEF TypeOK, lib
<1> QED
  BY <1>i, <1>u, <1>1, <1>2, <1>3 DEF IInv, AdDataFits

\* The phone, the stack and the user.
LEMMA EnvironmentKeepsIInv ==
    ASSUME IInv,
           \/ StackAnswers \/ ResetPairedDeviceList \/ SlcConnects
           \/ \E c \in Cid : \/ PhoneConnects(c) \/ ConnectionFails(c) \/ LinkEnds(c)
                             \/ PairingFails(c)
    PROVE  IInv'
<1>i. TypeOK /\ TimersCounted /\ AdDataFits /\ AdvertisingIsTimed
  BY DEF IInv
<1>u. UNCHANGED <<initialised, client, ble_adv, timers, lib>>
  BY DEF app, StackAnswers, StackRegisters, StackAddsDb, StackSetsData, StackInitiates,
     ResetPairedDeviceList, SlcConnects, PhoneConnects, ConnectionFails, LinkEnds, PairingFails
<1>t. /\ timers \in 0..(MaxSlc + 1) /\ slcs \in 0..MaxSlc /\ MaxSlc \in Nat
      /\ radio \in BOOLEAN /\ ble_adv \in BOOLEAN /\ ad_data_valid \in BOOLEAN
      /\ client \in Cid \cup {NULL}
      /\ failures \in 0..MaxFailures /\ MaxFailures \in Nat
      /\ stack \in [register : Nat, add_db : Nat, set_data : Nat, connect : Nat]
      /\ link \in [Cid -> {"free", "initiating", "up", "ending"}]
      /\ queue \in Seq(Message)
  BY <1>i, BoundAssumption DEF TypeOK, Message
<1>c. Cardinality(Slcs(queue)) \in Nat
  BY <1>t, SlcsFinite
<1>1. /\ queue' \in Seq(Message) /\ slcs' \in 0..MaxSlc
      /\ Cardinality(Slcs(queue')) - Cardinality(Slcs(queue)) <= slcs' - slcs
      /\ Cardinality(Slcs(queue')) \in Nat
  <2>1. CASE SlcConnects
    <3>1. slcs' = slcs + 1 /\ slcs < MaxSlc
      BY <2>1 DEF SlcConnects
    <3>2. Cardinality(Slcs(queue')) = Cardinality(Slcs(queue)) + 1
          /\ queue' \in Seq(Message)
      BY <1>i, <2>1, Messages, QueueSent DEF SlcConnects
    <3> QED
      BY <1>t, <1>c, <3>1, <3>2
  <2>2. CASE ~SlcConnects
    <3>1. slcs' = slcs
      BY <2>2 DEF StackAnswers, StackRegisters, StackAddsDb, StackSetsData,
         StackInitiates, ResetPairedDeviceList, PhoneConnects, ConnectionFails, LinkEnds, PairingFails
    <3>2. \/ queue' = queue
          \/ \E m \in Message : m.id # "SLC_CONNECTED" /\ queue' = Append(queue, m)
      BY <1>t, <2>2, Messages DEF StackAnswers, StackRegisters, StackAddsDb, StackSetsData,
         StackInitiates, ResetPairedDeviceList, PhoneConnects, ConnectionFails, LinkEnds, PairingFails
    <3>3. Cardinality(Slcs(queue')) = Cardinality(Slcs(queue)) /\ queue' \in Seq(Message)
      BY <1>i, <1>t, <3>2, QueueSent
    <3> QED
      BY <1>t, <1>c, <3>1, <3>3
  <2> QED
    BY <2>1, <2>2
<1>a. ASSUME NEW ok \in BOOLEAN, Answer(ok)
      PROVE  failures' \in 0..MaxFailures
  <2>1. CASE ok = TRUE
    BY <1>t, <1>a, <2>1 DEF Answer
  <2>2. CASE ok = FALSE
    BY <1>t, <1>a, <2>2 DEF Answer
  <2> QED
    BY <2>1, <2>2
<1> DEFINE Kept ==
      /\ stack' \in [register : Nat, add_db : Nat, set_data : Nat, connect : Nat]
      /\ stack'.set_data \in {stack.set_data, 0}
      /\ failures' \in 0..MaxFailures
<1>2. Kept
  <2>1. ASSUME NEW ok \in BOOLEAN, StackRegisters(ok) PROVE Kept
    <3>1. stack.register - 1 \in Nat /\ stack' = [stack EXCEPT !.register = stack.register - 1]
      BY <1>t, <2>1 DEF StackRegisters
    <3>2. failures' \in 0..MaxFailures
      BY <1>a, <2>1 DEF StackRegisters
    <3> QED
      BY <1>t, <3>1, <3>2
  <2>2. ASSUME NEW ok \in BOOLEAN, StackAddsDb(ok) PROVE Kept
    <3>1. stack.add_db - 1 \in Nat /\ stack' = [stack EXCEPT !.add_db = stack.add_db - 1]
      BY <1>t, <2>2 DEF StackAddsDb
    <3>2. failures' \in 0..MaxFailures
      BY <1>a, <2>2 DEF StackAddsDb
    <3> QED
      BY <1>t, <3>1, <3>2
  <2>3. ASSUME NEW ok \in BOOLEAN, StackSetsData(ok) PROVE Kept
    BY <1>t, <1>a, <2>3 DEF StackSetsData
  <2>4. ASSUME NEW c \in Cid, StackInitiates(c) PROVE Kept
    <3>1. stack.connect - 1 \in Nat /\ stack' = [stack EXCEPT !.connect = stack.connect - 1]
      BY <1>t, <2>4 DEF StackInitiates
    <3>2. failures' \in 0..MaxFailures
      BY <1>t, <2>4 DEF StackInitiates
    <3> QED
      BY <1>t, <3>1, <3>2
  <2>5. ASSUME NEW c \in Cid, ConnectionFails(c) PROVE Kept
    BY <1>t, <1>a, <2>5 DEF ConnectionFails
  <2>6. ASSUME ResetPairedDeviceList \/ SlcConnects \/
               \E c \in Cid : PhoneConnects(c) \/ LinkEnds(c) \/ PairingFails(c)
        PROVE Kept
    BY <1>t, <2>6 DEF ResetPairedDeviceList, SlcConnects, PhoneConnects, LinkEnds, PairingFails, air
  <2> QED
    BY <2>1, <2>2, <2>3, <2>4, <2>5, <2>6 DEF StackAnswers
<1>3. link' \in [Cid -> {"free", "initiating", "up", "ending"}]
  BY <1>t DEF air, StackAnswers, StackRegisters, StackAddsDb, StackSetsData,
     StackInitiates, ResetPairedDeviceList, SlcConnects, PhoneConnects,
     ConnectionFails, LinkEnds, PairingFails
<1>4. radio' \in {FALSE, radio} /\ ad_data_valid' \in BOOLEAN
  BY <1>t DEF air, app, StackAnswers, StackRegisters, StackAddsDb, StackSetsData,
     StackInitiates, ResetPairedDeviceList, SlcConnects, PhoneConnects,
     ConnectionFails, LinkEnds, PairingFails
<1>p. pairings' \in 0..MaxPairings
  <2>1. pairings \in 0..MaxPairings /\ MaxPairings \in Nat
    BY <1>i, BoundAssumption DEF TypeOK
  <2>2. pairings' = pairings \/ (pairings' = pairings + 1 /\ pairings < MaxPairings)
    BY DEF StackAnswers, StackRegisters, StackAddsDb, StackSetsData, StackInitiates,
       ResetPairedDeviceList, SlcConnects, PhoneConnects, ConnectionFails, LinkEnds,
       PairingFails
  <2> QED
    BY <2>1, <2>2
<1>6. TypeOK'
  <2>1. radio' \in BOOLEAN
    BY <1>t, <1>4
  <2> QED
    BY <1>i, <1>u, <1>p, <1>t, <1>1, <1>2, <1>3, <1>4, <2>1 DEF TypeOK, Message, lib
<1>v. timers' = timers /\ ble_adv' = ble_adv
  BY <1>u
<1>w. AdDataFits /\ AdvertisingIsTimed /\ stack.set_data \in Nat
  BY <1>i, <1>t
<1>7. TimersCounted'
  BY <1>i, <1>v, <1>t, <1>c, <1>1 DEF TimersCounted
<1>8. AdvertisingIsTimed'
  <2>1. CASE radio' = FALSE
    BY <1>i, <1>v, <2>1 DEF AdvertisingIsTimed
  <2>2. CASE radio' = radio
    BY <1>i, <1>v, <2>2 DEF AdvertisingIsTimed
  <2> QED
    BY <1>4, <2>1, <2>2
<1>9. AdDataFits'
  BY <1>i, <1>2 DEF AdDataFits, MAX_AD_DATA_SIZE_IN_OCTECTS
<1> QED
  BY <1>6, <1>7, <1>8, <1>9 DEF IInv

LEMMA NextIInv == IInv /\ [Next]_vars => IInv'
<1> SUFFICES ASSUME IInv, [Next]_vars PROVE IInv'
  OBVIOUS
<1>1. CASE UNCHANGED vars
  BY <1>1 DEF IInv, TypeOK, TimersCounted, AdDataFits, AdvertisingIsTimed, vars,
     app, lib, air
<1>2. CASE Next
  BY <1>2, ApplicationKeepsIInv, LibraryKeepsIInv, SwitchKeepsIInv, EnvironmentKeepsIInv
     DEF Next
<1> QED
  BY <1>1, <1>2

-----------------------------------------------------------------------------
(* The life of a channel                                                   *)

\* The messages about a channel that come in a fixed order: the stack's, the
\* application's and the library's own.
StackKind == {"ATT_INITIATING", "ATT_SUCCESS", "ATT_FAILURE", "ATT_DISCONNECT_IND"}
AppKind   == {"GATT_CONNECT_SUCCESS", "GATT_DISCONNECT_IND"}
OwnKind   == {"DELETE_CONN"}
Kind      == StackKind \cup AppKind \cup OwnKind

About(id, c) == [id |-> id, cid |-> c]

\* b may stand behind a, a being of the same sender.
Follows(a, b) ==
    \/ a = "ATT_INITIATING" /\ b \in {"ATT_SUCCESS", "ATT_FAILURE", "ATT_DISCONNECT_IND"}
    \/ a = "ATT_SUCCESS" /\ b = "ATT_DISCONNECT_IND"
    \/ a = "GATT_CONNECT_SUCCESS" /\ b = "GATT_DISCONNECT_IND"

SameSender(a, b) == \E S \in {StackKind, AppKind, OwnKind} : a \in S /\ b \in S

\* The messages about a channel stand in their order, each of them once.
Ordered(q) ==
    \A c \in Cid : \A a, b \in Kind : \A i, j \in 1..Len(q) :
        (i < j /\ SameSender(a, b) /\ q[i] = About(a, c) /\ q[j] = About(b, c))
            => Follows(a, b)

\* What is queued about a channel.
Pending(q, c) == {id \in Kind : \E k \in 1..Len(q) : q[k] = About(id, c)}

\* The channel c, its record in the library and what is queued about it agree; P is
\* what is queued, r the record, l the channel, d the client and w the channels
\* whose end was told to nobody.
Life(c, P, r, l, d, w) ==
    /\ "ATT_INITIATING" \in P =>
          /\ r = "none" /\ P \subseteq StackKind /\ (c \in w \/ d # c)
          /\ l = "initiating" \/ "ATT_SUCCESS" \in P \/ "ATT_FAILURE" \in P
    /\ "ATT_SUCCESS" \in P =>
          /\ P \subseteq StackKind /\ "ATT_FAILURE" \notin P /\ (c \in w \/ d # c)
          /\ "ATT_INITIATING" \notin P => r = "connecting"
          /\ l \in {"up", "ending"} \/ "ATT_DISCONNECT_IND" \in P
    /\ "ATT_FAILURE" \in P =>
          /\ P \subseteq {"ATT_INITIATING", "ATT_FAILURE"} /\ l = "free" /\ (c \in w \/ d # c)
          /\ "ATT_INITIATING" \notin P => r = "connecting"
    /\ "ATT_DISCONNECT_IND" \in P =>
          /\ l = "free" /\ "DELETE_CONN" \notin P /\ "GATT_DISCONNECT_IND" \notin P
          /\ "ATT_INITIATING" \in P => "ATT_SUCCESS" \in P
          /\ "ATT_SUCCESS" \notin P => r = "up"
    /\ l = "initiating" =>
          /\ P \subseteq {"ATT_INITIATING"} /\ (c \in w \/ d # c)
          /\ "ATT_INITIATING" \notin P => r = "connecting"
    /\ l \in {"up", "ending"} =>
          /\ P \subseteq {"ATT_INITIATING", "ATT_SUCCESS", "GATT_CONNECT_SUCCESS"}
          /\ "ATT_SUCCESS" \notin P => r = "up"
    /\ "DELETE_CONN" \in P <=> r = "closing"
    /\ r = "connecting" => l = "initiating" \/ "ATT_SUCCESS" \in P \/ "ATT_FAILURE" \in P
    /\ r = "up" => l \in {"up", "ending"} \/ "ATT_DISCONNECT_IND" \in P
    /\ "GATT_CONNECT_SUCCESS" \in P => r = "up" \/ "GATT_DISCONNECT_IND" \in P \/ c \in w
    /\ d = c => r = "up" \/ "GATT_DISCONNECT_IND" \in P \/ c \in w

Lives == \A c \in Cid : Life(c, Pending(queue, c), conn[c], link[c], client, untold)

\* Nobody has asked for a connection.
NoLink ==
    /\ held = 0 /\ ~conn_req_task /\ stack.connect = 0 /\ client = NULL
    /\ \A c \in Cid : conn[c] = "none" /\ link[c] = "free" /\ Pending(queue, c) = {}

\* A connection is asked for when the application holds GATT for initialised, in the
\* state in which the library is.
AskedWhenStarted ==
    /\ ~initialised \/ libState # "initialised" => NoLink
    /\ ~initialised => ~Queued([id |-> "CONNECT_REQ"])

ChannelInv == Ordered(queue) /\ Lives

LifeInv == ChannelInv /\ AskedWhenStarted

-----------------------------------------------------------------------------
(* Steps in the life of a channel                                          *)

Record == {"none", "connecting", "up", "closing"}

\* The stack begins to listen on a channel that nothing is queued about.
LEMMA LifeInitiates ==
    ASSUME NEW c, NEW r \in Record, NEW d, NEW w, Life(c, {}, r, "free", d, w)
    PROVE  r = "none" /\ Life(c, {"ATT_INITIATING"}, r, "initiating", d, w)
BY DEF Life, Record, StackKind

\* A phone connects.
LEMMA LifeConnects ==
    ASSUME NEW c, NEW P, NEW r, NEW d, NEW w, Life(c, P, r, "initiating", d, w)
    PROVE  /\ Life(c, P \cup {"ATT_SUCCESS"}, r, "up", d, w)
           /\ P \subseteq {"ATT_INITIATING"}
BY DEF Life, StackKind

\* No phone connects.
LEMMA LifeFails ==
    ASSUME NEW c, NEW P, NEW r, NEW d, NEW w, Life(c, P, r, "initiating", d, w)
    PROVE  /\ Life(c, P \cup {"ATT_FAILURE"}, r, "free", d, w)
           /\ P \subseteq {"ATT_INITIATING"}
BY DEF Life, StackKind

\* The connection ends.
LEMMA LifeEnds ==
    ASSUME NEW c, NEW P, NEW r, NEW l \in {"up", "ending"}, NEW d, NEW w, Life(c, P, r, l, d, w)
    PROVE  /\ Life(c, P \cup {"ATT_DISCONNECT_IND"}, r, "free", d, w)
           /\ P \subseteq {"ATT_INITIATING", "ATT_SUCCESS", "GATT_CONNECT_SUCCESS"}
BY DEF Life, StackKind

\* The headset ends the connection.
LEMMA LifeEnding ==
    ASSUME NEW c, NEW P, NEW r, NEW d, NEW w, Life(c, P, r, "up", d, w)
    PROVE  Life(c, P, r, "ending", d, w)
BY DEF Life

\* The client is another one, before and after.
LEMMA LifeOther ==
    ASSUME NEW c, NEW P, NEW r, NEW l, NEW d, NEW e, NEW w, NEW v, Life(c, P, r, l, d, w),
           d = c <=> e = c, c \in w <=> c \in v
    PROVE  Life(c, P, r, l, e, v)
BY DEF Life

\* The library makes a record of the channel.
LEMMA LifeRecorded ==
    ASSUME NEW c, NEW P, NEW r, NEW l, NEW d, NEW w, Life(c, P, r, l, d, w), "ATT_INITIATING" \in P
    PROVE  r = "none" /\ Life(c, P \ {"ATT_INITIATING"}, "connecting", l, d, w)
BY DEF Life, StackKind

\* The library hears of the phone, and will tell the application.
LEMMA LifeSucceeds ==
    ASSUME NEW c, NEW P, NEW r, NEW l, NEW d, NEW w, Life(c, P, r, l, d, w), "ATT_SUCCESS" \in P,
           "ATT_INITIATING" \notin P
    PROVE  /\ Life(c, (P \ {"ATT_SUCCESS"}) \cup {"GATT_CONNECT_SUCCESS"}, "up", l, d, w)
           /\ r # "none" /\ P \subseteq StackKind
BY DEF Life, StackKind

\* The library hears that no phone came.
LEMMA LifeForgotten ==
    ASSUME NEW c, NEW P, NEW r, NEW l, NEW d, NEW w, Life(c, P, r, l, d, w), "ATT_FAILURE" \in P,
           "ATT_INITIATING" \notin P
    PROVE  Life(c, P \ {"ATT_FAILURE"}, "none", l, d, w)
BY DEF Life

\* The library hears of the end, and will tell the application and drop its record.
LEMMA LifeCloses ==
    ASSUME NEW c, NEW P, NEW r, NEW l, NEW d, NEW w, Life(c, P, r, l, d, w), "ATT_DISCONNECT_IND" \in P,
           "ATT_INITIATING" \notin P, "ATT_SUCCESS" \notin P, P \subseteq Kind
    PROVE  /\ Life(c, ((P \ {"ATT_DISCONNECT_IND"}) \cup {"GATT_DISCONNECT_IND"})
                          \cup {"DELETE_CONN"}, "closing", l, d, w)
           /\ r = "up" /\ "GATT_DISCONNECT_IND" \notin P /\ "DELETE_CONN" \notin P
BY DEF Life, StackKind, Kind, AppKind, OwnKind

\* The library hears of the end, and has no task to tell.
LEMMA LifeClosesUntold ==
    ASSUME NEW c, NEW P, NEW r, NEW l, NEW d, NEW w, NEW v, Life(c, P, r, l, d, w),
           "ATT_DISCONNECT_IND" \in P, "ATT_INITIATING" \notin P, "ATT_SUCCESS" \notin P,
           P \subseteq Kind, c \in v
    PROVE  /\ Life(c, (P \ {"ATT_DISCONNECT_IND"}) \cup {"DELETE_CONN"}, "closing", l, d, v)
           /\ r = "up" /\ "GATT_DISCONNECT_IND" \notin P /\ "DELETE_CONN" \notin P
BY DEF Life, StackKind, Kind, AppKind, OwnKind

\* The record is dropped.
LEMMA LifeDeleted ==
    ASSUME NEW c, NEW P, NEW r, NEW l, NEW d, NEW w, Life(c, P, r, l, d, w), "DELETE_CONN" \in P
    PROVE  Life(c, P \ {"DELETE_CONN"}, "none", l, d, w)
BY DEF Life, StackKind

\* The application hears of the phone, and takes it for its client unless it has one.
LEMMA LifeIsClient ==
    ASSUME NEW c, NEW P, NEW r, NEW l, NEW d, NEW e, NEW w, Life(c, P, r, l, d, w),
           "GATT_CONNECT_SUCCESS" \in P, e = c \/ e = d
    PROVE  Life(c, P \ {"GATT_CONNECT_SUCCESS"}, r, l, e, w)
BY DEF Life, StackKind

\* The application hears of the end: the client is another one.
LEMMA LifeWasClient ==
    ASSUME NEW c, NEW P, NEW r, NEW l, NEW d, NEW e, NEW w, Life(c, P, r, l, d, w),
           "GATT_DISCONNECT_IND" \in P, "GATT_CONNECT_SUCCESS" \notin P, e # c
    PROVE  Life(c, P \ {"GATT_DISCONNECT_IND"}, r, l, e, w)
BY DEF Life, StackKind

-----------------------------------------------------------------------------
(* What is queued                                                          *)

InQ(q, m) == \E k \in 1..Len(q) : q[k] = m

\* A message behind the others.
LEMMA InAppend ==
    ASSUME NEW q \in Seq(Message), NEW n \in Message
    PROVE  /\ Append(q, n) \in Seq(Message)
           /\ \A m : InQ(Append(q, n), m) <=> InQ(q, m) \/ m = n
<1>1. /\ Append(q, n) \in Seq(Message) /\ Len(Append(q, n)) = Len(q) + 1
      /\ \A k \in 1..Len(q) : Append(q, n)[k] = q[k]
      /\ Append(q, n)[Len(q) + 1] = n /\ Len(q) \in Nat
  BY AppendProperties
<1>2. ASSUME NEW m
      PROVE  InQ(Append(q, n), m) <=> InQ(q, m) \/ m = n
  BY <1>1 DEF InQ
<1> QED
  BY <1>1, <1>2

\* The head taken off.
LEMMA InTail ==
    ASSUME NEW q \in Seq(Message), q # <<>>
    PROVE  /\ Tail(q) \in Seq(Message) /\ Head(q) \in Message /\ InQ(q, Head(q))
           /\ \A m : InQ(Tail(q), m) => InQ(q, m)
           /\ \A m : InQ(q, m) /\ m # Head(q) => InQ(Tail(q), m)
<1>1. /\ Tail(q) \in Seq(Message) /\ Len(Tail(q)) = Len(q) - 1 /\ Head(q) = q[1]
      /\ \A i \in 1..Len(Tail(q)) : Tail(q)[i] = q[i + 1]
      /\ Len(q) \in Nat \ {0} /\ Head(q) \in Message
  BY HeadTailProperties, EmptySeq
<1>2. ASSUME NEW m, InQ(Tail(q), m)
      PROVE  InQ(q, m)
  <2>1. PICK i \in 1..Len(Tail(q)) : Tail(q)[i] = m
    BY <1>2 DEF InQ
  <2>2. i + 1 \in 1..Len(q) /\ q[i + 1] = m
    BY <1>1, <2>1
  <2> QED
    BY <2>2 DEF InQ
<1>3. ASSUME NEW m, InQ(q, m), m # Head(q)
      PROVE  InQ(Tail(q), m)
  <2>1. PICK k \in 1..Len(q) : q[k] = m
    BY <1>3 DEF InQ
  <2>2. k # 1
    BY <1>1, <1>3, <2>1
  <2>3. k - 1 \in 1..Len(Tail(q)) /\ Tail(q)[k - 1] = q[k - 1 + 1] /\ k - 1 + 1 = k
    BY <1>1, <2>2
  <2>4. Tail(q)[k - 1] = m
    BY <2>1, <2>3
  <2> QED
    BY <2>3, <2>4 DEF InQ
<1>4. InQ(q, Head(q))
  BY <1>1 DEF InQ
<1> QED
  BY <1>1, <1>2, <1>3, <1>4

\* What is queued about a channel, message by message.
LEMMA PendingIn ==
    ASSUME NEW q, NEW c, NEW id
    PROVE  id \in Pending(q, c) <=> id \in Kind /\ InQ(q, About(id, c))
BY DEF Pending, InQ

\* Messages are told apart by what they say and of which channel.
LEMMA AboutDiffers ==
    ASSUME NEW a, NEW b, NEW c, NEW d
    PROVE  /\ About(a, c) = About(b, d) <=> a = b /\ c = d
           /\ About(a, c).id = a /\ About(a, c).cid = c
BY DEF About

\* A message of a kind that has an order is about its channel.
LEMMA KindAbout ==
    ASSUME NEW m \in Message, m.id \in Kind
    PROVE  m.cid \in Cid /\ m = About(m.id, m.cid)
BY DEF Message, AppMessage, LibMessage, Kind, StackKind, AppKind, OwnKind, About

\* A message of another kind, or about another channel, behind the others.
LEMMA PendingAppendOther ==
    ASSUME NEW q \in Seq(Message), NEW n \in Message, NEW c \in Cid,
           \A id \in Kind : n # About(id, c)
    PROVE  Pending(Append(q, n), c) = Pending(q, c)
<1>1. ASSUME NEW id
      PROVE  id \in Pending(Append(q, n), c) <=> id \in Pending(q, c)
  <2>1. InQ(Append(q, n), About(id, c)) <=> InQ(q, About(id, c)) \/ About(id, c) = n
    BY InAppend
  <2> QED
    BY <2>1, PendingIn, Zenon
<1> QED
  BY <1>1

\* A message about the channel behind the others.
LEMMA PendingAppend ==
    ASSUME NEW q \in Seq(Message), NEW id \in Kind, NEW c \in Cid, About(id, c) \in Message
    PROVE  Pending(Append(q, About(id, c)), c) = Pending(q, c) \cup {id}
<1>1. ASSUME NEW a
      PROVE  a \in Pending(Append(q, About(id, c)), c) <=> a \in Pending(q, c) \/ a = id
  <2>1. InQ(Append(q, About(id, c)), About(a, c))
            <=> InQ(q, About(a, c)) \/ About(a, c) = About(id, c)
    BY InAppend
  <2>2. About(a, c) = About(id, c) <=> a = id
    BY AboutDiffers
  <2> QED
    BY <2>1, <2>2, PendingIn, Zenon
<1> QED
  BY <1>1

\* The order of what is queued, with another message behind it.
LEMMA OrderedAppend ==
    ASSUME NEW q \in Seq(Message), NEW n \in Message, Ordered(q),
           \A id \in Kind, c \in Cid : n = About(id, c) =>
               \A a \in Pending(q, c) : SameSender(a, id) => Follows(a, id)
    PROVE  Ordered(Append(q, n))
<1>1. /\ Len(Append(q, n)) = Len(q) + 1 /\ Len(q) \in Nat
      /\ \A k \in 1..Len(q) : Append(q, n)[k] = q[k]
      /\ Append(q, n)[Len(q) + 1] = n
  BY AppendProperties
<1> SUFFICES ASSUME NEW c \in Cid, NEW a \in Kind, NEW b \in Kind,
                    NEW i \in 1..Len(Append(q, n)), NEW j \in 1..Len(Append(q, n)),
                    i < j, SameSender(a, b), Append(q, n)[i] = About(a, c),
                    Append(q, n)[j] = About(b, c)
             PROVE  Follows(a, b)
  BY Zenon DEF Ordered
<1>2. i \in 1..Len(q) /\ q[i] = About(a, c)
  BY <1>1
<1>3. CASE j \in 1..Len(q)
  <2>1. q[j] = About(b, c)
    BY <1>1, <1>3
  <2> QED
    BY <1>2, <1>3, <2>1, Zenon DEF Ordered
<1>4. CASE j = Len(q) + 1
  <2>1. n = About(b, c)
    BY <1>1, <1>4
  <2>2. a \in Pending(q, c)
    BY <1>2 DEF Pending
  <2> QED
    BY <2>1, <2>2, Zenon
<1> QED
  BY <1>1, <1>3, <1>4

\* The head taken off: the others keep their order, and those of its sender about
\* its channel may all stand behind it.
LEMMA OrderedTail ==
    ASSUME NEW q \in Seq(Message), q # <<>>, Ordered(q)
    PROVE  /\ Ordered(Tail(q))
           /\ \A id \in Kind, c \in Cid : Head(q) = About(id, c) =>
                 /\ id \in Pending(q, c)
                 /\ Pending(Tail(q), c) = Pending(q, c) \ {id}
                 /\ \A b \in Pending(q, c) \ {id} : SameSender(id, b) => Follows(id, b)
           /\ \A c \in Cid : (\A id \in Kind : Head(q) # About(id, c)) =>
                 Pending(Tail(q), c) = Pending(q, c)
<1>1. /\ Tail(q) \in Seq(Message) /\ Len(Tail(q)) = Len(q) - 1 /\ Head(q) = q[1]
      /\ \A i \in 1..Len(Tail(q)) : Tail(q)[i] = q[i + 1]
      /\ Len(q) \in Nat \ {0}
  BY HeadTailProperties, EmptySeq
<1>2. Ordered(Tail(q))
  <2> SUFFICES ASSUME NEW c \in Cid, NEW a \in Kind, NEW b \in Kind,
                      NEW i \in 1..Len(Tail(q)), NEW j \in 1..Len(Tail(q)),
                      i < j, SameSender(a, b), Tail(q)[i] = About(a, c),
                      Tail(q)[j] = About(b, c)
               PROVE  Follows(a, b)
    BY Zenon DEF Ordered
  <2>1. /\ i + 1 \in 1..Len(q) /\ j + 1 \in 1..Len(q) /\ i + 1 < j + 1
        /\ q[i + 1] = About(a, c) /\ q[j + 1] = About(b, c)
    BY <1>1
  <2> QED
    BY <2>1, Zenon DEF Ordered
<1>3. ASSUME NEW id \in Kind, NEW c \in Cid, Head(q) = About(id, c)
      PROVE  /\ id \in Pending(q, c)
             /\ Pending(Tail(q), c) = Pending(q, c) \ {id}
             /\ \A b \in Pending(q, c) \ {id} : SameSender(id, b) => Follows(id, b)
  <2>1. id \in Pending(q, c)
    BY <1>1, <1>3 DEF Pending
  <2>2. ASSUME NEW b \in Kind, NEW k \in 2..Len(q), q[k] = About(b, c), SameSender(id, b)
        PROVE  Follows(id, b)
    <3>1. k \in 1..Len(q) /\ 1 \in 1..Len(q) /\ 1 < k /\ q[1] = About(id, c)
      BY <1>1, <1>3
    <3> QED
      BY <2>2, <3>1, Zenon DEF Ordered
  <2>3. \A b \in Pending(q, c) \ {id} : SameSender(id, b) => Follows(id, b)
    <3> SUFFICES ASSUME NEW b \in Pending(q, c) \ {id}, SameSender(id, b)
                 PROVE  Follows(id, b)
      OBVIOUS
    <3>1. PICK k \in 1..Len(q) : q[k] = About(b, c) /\ b \in Kind
      BY DEF Pending
    <3>2. k # 1
      BY <1>1, <1>3, <3>1, AboutDiffers
    <3>3. k \in 2..Len(q)
      BY <1>1, <3>2
    <3> QED
      BY <2>2, <3>1, <3>3
  <2>4. ~InQ(Tail(q), About(id, c))
    <3> SUFFICES ASSUME InQ(Tail(q), About(id, c)) PROVE FALSE
      OBVIOUS
    <3>1. PICK i \in 1..Len(Tail(q)) : Tail(q)[i] = About(id, c)
      BY DEF InQ
    <3>2. i + 1 \in 2..Len(q) /\ q[i + 1] = About(id, c)
      BY <1>1, <3>1
    <3>3. SameSender(id, id)
      BY DEF SameSender, Kind
    <3>4. Follows(id, id)
      BY <2>2, <3>2, <3>3
    <3> QED
      BY <3>4 DEF Follows
  <2>5. ASSUME NEW b
        PROVE  b \in Pending(Tail(q), c) <=> b \in Pending(q, c) \ {id}
    <3>1. About(b, c) = About(id, c) <=> b = id
      BY AboutDiffers
    <3>2. /\ InQ(Tail(q), About(b, c)) => InQ(q, About(b, c))
          /\ InQ(q, About(b, c)) /\ About(b, c) # Head(q) => InQ(Tail(q), About(b, c))
      BY InTail
    <3> QED
      BY <1>3, <2>4, <3>1, <3>2, PendingIn, Zenon
  <2>6. Pending(Tail(q), c) = Pending(q, c) \ {id}
    BY <2>5
  <2> QED
    BY <2>1, <2>3, <2>6
<1>4. ASSUME NEW c \in Cid, \A id \in Kind : Head(q) # About(id, c)
      PROVE  Pending(Tail(q), c) = Pending(q, c)
  <2>1. ASSUME NEW b
        PROVE  b \in Pending(Tail(q), c) <=> b \in Pending(q, c)
    <3>1. /\ InQ(Tail(q), About(b, c)) => InQ(q, About(b, c))
          /\ InQ(q, About(b, c)) /\ About(b, c) # Head(q) => InQ(Tail(q), About(b, c))
      BY InTail
    <3> QED
      BY <1>4, <3>1, PendingIn, Zenon
  <2> QED
    BY <2>1
<1> QED
  BY <1>2, <1>3, <1>4

-----------------------------------------------------------------------------
(* Every step is one in the life of a channel, or none                     *)

\* The types that the following needs.
LEMMA Typed ==
    ASSUME TypeOK
    PROVE  /\ queue \in Seq(Message) /\ conn \in [Cid -> Record]
           /\ link \in [Cid -> {"free", "initiating", "up", "ending"}]
           /\ client \in Cid \cup {NULL} /\ NULL \notin Cid
BY CidAssumption DEF TypeOK, Message, Record

\* What becomes of a queue if n, or nothing, is sent, and nothing that has an order is taken.
QuietTo(q, n, p) ==
    \/ p \in {q, Append(q, n)}
    \/ /\ q # <<>> /\ Head(q).id \notin Kind
       /\ p \in {Tail(q), Tail(q) \o <<>>, Tail(q) \o <<n>>}

\* Messages without an order change nothing of what is queued about channels.
LEMMA Quiet ==
    ASSUME NEW q \in Seq(Message), Ordered(q), NEW n \in Message, n.id \notin Kind, NEW p,
           QuietTo(q, n, p)
    PROVE  p \in Seq(Message) /\ Ordered(p) /\ \A c \in Cid : Pending(p, c) = Pending(q, c)
<1>1. ASSUME NEW s \in Seq(Message), Ordered(s)
      PROVE  /\ Append(s, n) \in Seq(Message) /\ Ordered(Append(s, n))
             /\ \A c \in Cid : Pending(Append(s, n), c) = Pending(s, c)
  <2>1. \A id \in Kind, c \in Cid : n # About(id, c)
    BY AboutDiffers
  <2>2. Append(s, n) \in Seq(Message)
    BY InAppend
  <2>3. Ordered(Append(s, n))
    BY <1>1, <2>1, OrderedAppend
  <2>4. \A c \in Cid : Pending(Append(s, n), c) = Pending(s, c)
    BY <2>1, PendingAppendOther
  <2> QED
    BY <2>2, <2>3, <2>4
<1>2. CASE p \in {q, Append(q, n)}
  BY <1>1, <1>2
<1>3. CASE /\ q # <<>> /\ Head(q).id \notin Kind
           /\ p \in {Tail(q), Tail(q) \o <<>>, Tail(q) \o <<n>>}
  <2>1. Tail(q) \in Seq(Message) /\ Head(q) \in Message
    BY <1>3, InTail
  <2>2. \A id \in Kind, c \in Cid : Head(q) # About(id, c)
    BY <1>3, AboutDiffers
  <2>3. Ordered(Tail(q)) /\ \A c \in Cid : Pending(Tail(q), c) = Pending(q, c)
    BY <1>3, <2>2, OrderedTail
  <2> DEFINE t == Tail(q)
  <2>4. Tail(q) \o <<>> = t /\ Tail(q) \o <<n>> = Append(t, n)
    BY <2>1, Concatenated
  <2>5. t \in Seq(Message) /\ Ordered(t) /\ \A c \in Cid : Pending(t, c) = Pending(q, c)
    BY <2>1, <2>3
  <2>6. p \in {t, Append(t, n)}
    BY <1>3, <2>4
  <2> HIDE DEF t
  <2>7. /\ Append(t, n) \in Seq(Message) /\ Ordered(Append(t, n))
        /\ \A c \in Cid : Pending(Append(t, n), c) = Pending(t, c)
    BY <1>1, <2>5
  <2> QED
    BY <2>5, <2>6, <2>7
<1> QED
  BY <1>2, <1>3 DEF QuietTo

\* With nothing queued, recorded or connected anew, each channel lives on.
LEMMA QuietStep ==
    ASSUME Lives, \A c \in Cid : Pending(queue', c) = Pending(queue, c),
           \A c \in Cid : conn'[c] = conn[c] /\ link'[c] = link[c],
           client' = client, untold' = untold
    PROVE  Lives'
BY DEF Lives

\* A step of one channel.
LEMMA ChannelStep ==
    ASSUME NEW c \in Cid, Lives,
           \A e \in Cid \ {c} :
               /\ Pending(queue', e) = Pending(queue, e)
               /\ conn'[e] = conn[e] /\ link'[e] = link[e] /\ (client = e <=> client' = e)
               /\ (e \in untold <=> e \in untold'),
           Life(c, Pending(queue', c), conn'[c], link'[c], client', untold')
    PROVE  Lives'
<1>1. ASSUME NEW e \in Cid \ {c}
      PROVE  Life(e, Pending(queue', e), conn'[e], link'[e], client', untold')
  <2>1. Life(e, Pending(queue', e), conn'[e], link'[e], client, untold)
    BY <1>1, Zenon DEF Lives
  <2> QED
    BY <2>1, LifeOther, Zenon
<1> QED
  BY <1>1 DEF Lives

\* The head of the queue, of a kind that has an order, and what is queued without it.
LEMMA HeadTaken ==
    ASSUME TypeOK, Ordered(queue), NEW id \in Kind, Next1(id)
    PROVE  LET c == Head(queue).cid IN
           /\ c \in Cid /\ Tail(queue) \in Seq(Message) /\ Ordered(Tail(queue))
           /\ id \in Pending(queue, c)
           /\ Pending(Tail(queue), c) = Pending(queue, c) \ {id}
           /\ \A b \in Pending(queue, c) \ {id} : SameSender(id, b) => Follows(id, b)
           /\ \A e \in Cid \ {c} : Pending(Tail(queue), e) = Pending(queue, e)
<1> DEFINE c == Head(queue).cid
<1>1. queue \in Seq(Message) /\ queue # <<>> /\ Head(queue).id = id
  BY Typed DEF Next1
<1>2. Head(queue) \in Message /\ Tail(queue) \in Seq(Message)
  BY <1>1, InTail
<1>3. c \in Cid /\ Head(queue) = About(id, c)
  BY <1>1, <1>2, KindAbout
<1>4. \A e \in Cid \ {c}, a \in Kind : Head(queue) # About(a, e)
  BY <1>3, AboutDiffers
<1> HIDE DEF c
<1>5. /\ Ordered(Tail(queue)) /\ id \in Pending(queue, c)
      /\ Pending(Tail(queue), c) = Pending(queue, c) \ {id}
      /\ \A b \in Pending(queue, c) \ {id} : SameSender(id, b) => Follows(id, b)
      /\ \A e \in Cid \ {c} : Pending(Tail(queue), e) = Pending(queue, e)
  BY <1>1, <1>3, <1>4, OrderedTail
<1> QED
  BY <1>2, <1>3, <1>5 DEF c

\* A message about a channel, of a kind that has an order, behind the others.
LEMMA KindSent ==
    ASSUME NEW q \in Seq(Message), Ordered(q), NEW id \in Kind, NEW c \in Cid,
           About(id, c) \in Message,
           \A a \in Pending(q, c) : SameSender(a, id) => Follows(a, id)
    PROVE  LET p == Append(q, About(id, c)) IN
           /\ p \in Seq(Message) /\ Ordered(p)
           /\ Pending(p, c) = Pending(q, c) \cup {id}
           /\ \A e \in Cid \ {c} : Pending(p, e) = Pending(q, e)
<1> DEFINE n == About(id, c)
<1>1. \A a \in Kind, e \in Cid : n = About(a, e) => a = id /\ e = c
  BY AboutDiffers
<1>2. n \in Message
  OBVIOUS
<1> HIDE DEF n
<1>3. Append(q, n) \in Seq(Message)
  BY <1>2, InAppend
<1>4. Ordered(Append(q, n))
  BY <1>1, <1>2, OrderedAppend
<1>5. \A e \in Cid \ {c} : Pending(Append(q, n), e) = Pending(q, e)
  BY <1>1, <1>2, PendingAppendOther
<1>6. Pending(Append(q, n), c) = Pending(q, c) \cup {id}
  BY PendingAppend DEF n
<1> QED
  BY <1>3, <1>4, <1>5, <1>6 DEF n

\* A message about a channel, of another kind, behind the others.
LEMMA OtherSent ==
    ASSUME NEW q \in Seq(Message), Ordered(q), NEW n \in Message, n.id \notin Kind
    PROVE  /\ Append(q, n) \in Seq(Message) /\ Ordered(Append(q, n))
           /\ \A e \in Cid : Pending(Append(q, n), e) = Pending(q, e)
BY Quiet DEF QuietTo

\* What has no order.
LEMMA Others ==
    /\ "SLC_CONNECTED" \notin Kind /\ "GATT_INIT_CFM" \notin Kind
    /\ "GATT_CONNECT_INITIALISING" \notin Kind /\ "GATT_CONNECT_FAILURE" \notin Kind
    /\ "ATT_REGISTER_CFM" \notin Kind /\ "ATT_ADD_DB_CFM" \notin Kind
    /\ "CONNECT_REQ" \notin Kind /\ "DISCONNECT_REQ" \notin Kind
BY DEF Kind, StackKind, AppKind, OwnKind

\* A message of a kind that has an order.
LEMMA AboutMessage == \A id \in Kind, c \in Cid : About(id, c) \in Message
BY Messages DEF Kind, StackKind, AppKind, OwnKind, About

\* Who sends what.
LEMMA Senders ==
    /\ StackKind \subseteq Kind /\ AppKind \subseteq Kind /\ OwnKind \subseteq Kind
    /\ \A a, b : SameSender(a, b) <=> \/ a \in StackKind /\ b \in StackKind
                                      \/ a \in AppKind /\ b \in AppKind
                                      \/ a \in OwnKind /\ b \in OwnKind
BY DEF Kind, SameSender

\* What the stack and the phone do to a channel.
LEMMA StackKeepsChannels ==
    ASSUME TypeOK, ChannelInv, NEW c \in Cid,
           StackInitiates(c) \/ PhoneConnects(c) \/ ConnectionFails(c) \/ LinkEnds(c)
    PROVE  ChannelInv'
<1>t. /\ queue \in Seq(Message) /\ conn \in [Cid -> Record]
      /\ link \in [Cid -> {"free", "initiating", "up", "ending"}]
      /\ Ordered(queue) /\ Lives
  BY Typed DEF ChannelInv
<1> DEFINE P == Pending(queue, c)
<1>l. Life(c, P, conn[c], link[c], client, untold)
  BY <1>t DEF Lives
<1>k. P \subseteq Kind
  BY DEF Pending
<1>s. ASSUME NEW id \in StackKind, NEW l, queue' = Append(queue, About(id, c)),
             link' = [link EXCEPT ![c] = l], conn' = conn, client' = client, untold' = untold,
             \A a \in P : a \in StackKind => Follows(a, id),
             Life(c, P \cup {id}, conn[c], l, client, untold)
      PROVE  ChannelInv'
  <2>1. id \in Kind /\ About(id, c) \in Message
    BY <1>s, AboutMessage, Senders
  <2>2. \A a \in P : SameSender(a, id) => Follows(a, id)
    BY <1>s, Senders DEF StackKind, AppKind, OwnKind
  <2> DEFINE p == Append(queue, About(id, c))
  <2>3. /\ Ordered(p) /\ Pending(p, c) = P \cup {id}
        /\ \A e \in Cid \ {c} : Pending(p, e) = Pending(queue, e)
    BY <1>t, <2>1, <2>2, KindSent
  <2> HIDE DEF p, P
  <2>4. queue' = p
    BY <1>s DEF p
  <2>5. \A e \in Cid \ {c} : link'[e] = link[e] /\ conn'[e] = conn[e]
    BY <1>t, <1>s
  <2>6. link'[c] = l /\ conn'[c] = conn[c]
    BY <1>t, <1>s
  <2>7. Life(c, Pending(queue', c), conn'[c], link'[c], client', untold')
    BY <1>s, <2>3, <2>4, <2>6
  <2>8. Lives'
    BY <1>t, <1>s, <2>3, <2>4, <2>5, <2>7, ChannelStep
  <2>9. Ordered(queue')
    BY <2>3, <2>4
  <2> QED
    BY <2>8, <2>9 DEF ChannelInv
<1>1. CASE StackInitiates(c)
  <2>1. link[c] = "free" /\ \A k \in 1..Len(queue) :
            "cid" \in DOMAIN queue[k] => queue[k].cid # c
    BY <1>1 DEF StackInitiates
  <2>2. P = {}
    <3>1. ASSUME NEW id \in Kind, NEW k \in 1..Len(queue), queue[k] = About(id, c)
          PROVE  FALSE
      <4>1. "cid" \in DOMAIN queue[k] /\ queue[k].cid = c
        BY <3>1 DEF About
      <4> QED
        BY <2>1, <4>1
    <3> QED
      BY <3>1 DEF Pending
  <2>3. conn[c] \in Record
    BY <1>t
  <2>4. Life(c, {"ATT_INITIATING"}, conn[c], "initiating", client, untold)
    <3>1. Life(c, {}, conn[c], "free", client, untold)
      BY <1>l, <2>1, <2>2
    <3> QED
      BY <2>3, <3>1, LifeInitiates
  <2> HIDE DEF P
  <2>5. P \cup {"ATT_INITIATING"} = {"ATT_INITIATING"}
    BY <2>2
  <2>6. Life(c, P \cup {"ATT_INITIATING"}, conn[c], "initiating", client, untold)
    BY <2>4, <2>5
  <2>7. /\ queue' = Append(queue, About("ATT_INITIATING", c))
        /\ link' = [link EXCEPT ![c] = "initiating"] /\ conn' = conn /\ client' = client /\ untold' = untold
    BY <1>1 DEF StackInitiates, About, app, lib
  <2> QED
    BY <1>s, <2>2, <2>6, <2>7 DEF StackKind
<1>2. CASE PhoneConnects(c)
  <2>1. link[c] = "initiating"
    BY <1>2 DEF PhoneConnects
  <2>2. Life(c, P \cup {"ATT_SUCCESS"}, conn[c], "up", client, untold) /\ P \subseteq {"ATT_INITIATING"}
    BY <1>l, <2>1, LifeConnects
  <2>3. \A a \in P : Follows(a, "ATT_SUCCESS")
    BY <2>2 DEF Follows
  <2>4. /\ queue' = Append(queue, About("ATT_SUCCESS", c))
        /\ link' = [link EXCEPT ![c] = "up"] /\ conn' = conn /\ client' = client /\ untold' = untold
    BY <1>2 DEF PhoneConnects, About, app, lib
  <2> QED
    BY <1>s, <2>2, <2>3, <2>4 DEF StackKind
<1>3. CASE ConnectionFails(c)
  <2>1. link[c] = "initiating"
    BY <1>3 DEF ConnectionFails
  <2>2. Life(c, P \cup {"ATT_FAILURE"}, conn[c], "free", client, untold) /\ P \subseteq {"ATT_INITIATING"}
    BY <1>l, <2>1, LifeFails
  <2>3. \A a \in P : Follows(a, "ATT_FAILURE")
    BY <2>2 DEF Follows
  <2>4. /\ queue' = Append(queue, About("ATT_FAILURE", c))
        /\ link' = [link EXCEPT ![c] = "free"] /\ conn' = conn /\ client' = client /\ untold' = untold
    BY <1>3 DEF ConnectionFails, About, app, lib
  <2> QED
    BY <1>s, <2>2, <2>3, <2>4 DEF StackKind
<1>4. CASE LinkEnds(c)
  <2>1. link[c] \in {"up", "ending"}
    BY <1>4 DEF LinkEnds
  <2>2. /\ Life(c, P \cup {"ATT_DISCONNECT_IND"}, conn[c], "free", client, untold)
        /\ P \subseteq {"ATT_INITIATING", "ATT_SUCCESS", "GATT_CONNECT_SUCCESS"}
    BY <1>l, <2>1, LifeEnds
  <2>3. \A a \in P : a \in StackKind => Follows(a, "ATT_DISCONNECT_IND")
    BY <2>2 DEF Follows, StackKind
  <2>4. /\ queue' = Append(queue, About("ATT_DISCONNECT_IND", c))
        /\ link' = [link EXCEPT ![c] = "free"] /\ conn' = conn /\ client' = client /\ untold' = untold
    BY <1>4 DEF LinkEnds, About, app, lib
  <2> QED
    BY <1>s, <2>2, <2>3, <2>4 DEF StackKind
<1> QED
  BY <1>1, <1>2, <1>3, <1>4

\* The application hears of a phone, or of its end.
LEMMA ClientKeepsChannels ==
    ASSUME TypeOK, ChannelInv, HandleConnectSuccess \/ HandleDisconnectInd
    PROVE  ChannelInv'
<1>t. /\ queue \in Seq(Message) /\ Ordered(queue) /\ Lives
      /\ client \in Cid \cup {NULL} /\ NULL \notin Cid
  BY Typed DEF ChannelInv
<1>u. conn' = conn /\ link' = link /\ untold' = untold
  BY DEF HandleConnectSuccess, HandleDisconnectInd, lib
<1> DEFINE c == Head(queue).cid
           P == Pending(queue, c)
           t == Tail(queue)
<1>1. CASE HandleConnectSuccess
  <2>1. /\ c \in Cid /\ t \in Seq(Message) /\ Ordered(t) /\ "GATT_CONNECT_SUCCESS" \in P
        /\ Pending(t, c) = P \ {"GATT_CONNECT_SUCCESS"}
        /\ \A e \in Cid \ {c} : Pending(t, e) = Pending(queue, e)
    <3>1. Next1("GATT_CONNECT_SUCCESS") /\ "GATT_CONNECT_SUCCESS" \in Kind
      BY <1>1 DEF HandleConnectSuccess, Kind, AppKind
    <3> QED
      BY <1>t, <3>1, HeadTaken
  <2>2. queue' = t
    BY <1>1 DEF HandleConnectSuccess, Done
  <2>3. client' = client \/ (client = NULL /\ client' = c)
    BY <1>1 DEF HandleConnectSuccess
  <2> HIDE DEF c, t
  <2>4. Life(c, P, conn[c], link[c], client, untold)
    BY <1>t, <2>1 DEF Lives
  <2> HIDE DEF P
  <2>5. Life(c, P \ {"GATT_CONNECT_SUCCESS"}, conn[c], link[c], client', untold')
    BY <1>u, <2>1, <2>3, <2>4, LifeIsClient
  <2>6. Life(c, Pending(queue', c), conn'[c], link'[c], client', untold')
    BY <1>u, <2>1, <2>2, <2>5
  <2>7. \A e \in Cid \ {c} : client = e <=> client' = e
    BY <1>t, <2>3
  <2>8. Lives'
    BY <1>t, <1>u, <2>1, <2>2, <2>6, <2>7, ChannelStep
  <2> QED
    BY <2>1, <2>2, <2>8 DEF ChannelInv
<1>2. CASE HandleDisconnectInd
  <2>1. /\ c \in Cid /\ t \in Seq(Message) /\ Ordered(t) /\ "GATT_DISCONNECT_IND" \in P
        /\ Pending(t, c) = P \ {"GATT_DISCONNECT_IND"}
        /\ \A e \in Cid \ {c} : Pending(t, e) = Pending(queue, e)
        /\ \A b \in P \ {"GATT_DISCONNECT_IND"} :
               SameSender("GATT_DISCONNECT_IND", b) => Follows("GATT_DISCONNECT_IND", b)
    <3>1. Next1("GATT_DISCONNECT_IND") /\ "GATT_DISCONNECT_IND" \in Kind
      BY <1>2 DEF HandleDisconnectInd, Kind, AppKind
    <3> QED
      BY <1>t, <3>1, HeadTaken
  <2>2. "GATT_CONNECT_SUCCESS" \notin P
    <3>1. SameSender("GATT_DISCONNECT_IND", "GATT_CONNECT_SUCCESS")
      BY Senders DEF AppKind
    <3>2. ~Follows("GATT_DISCONNECT_IND", "GATT_CONNECT_SUCCESS")
      BY DEF Follows
    <3> QED
      BY <2>1, <3>1, <3>2
  <2>3. client' = IF client = c THEN NULL ELSE client
    BY <1>2 DEF HandleDisconnectInd
  <2> DEFINE n == [id |-> "CONNECT_REQ"]
             p == Append(t, n)
  <2>4. queue' = p
    <3>1. queue' = t \o <<n>>
      BY <1>2 DEF HandleDisconnectInd, DoneAndSend
    <3> QED
      BY <2>1, <3>1
  <2> HIDE DEF t
  <2>5. /\ Ordered(p) /\ \A e \in Cid : Pending(p, e) = Pending(t, e)
    BY <2>1, OtherSent, Others, Messages
  <2> HIDE DEF c, p
  <2>6. Life(c, P, conn[c], link[c], client, untold)
    BY <1>t, <2>1 DEF Lives
  <2> HIDE DEF P
  <2>7. client' # c
    BY <1>t, <2>1, <2>3
  <2>8. Life(c, P \ {"GATT_DISCONNECT_IND"}, conn[c], link[c], client', untold')
    BY <1>u, <2>1, <2>2, <2>6, <2>7, LifeWasClient
  <2>9. Life(c, Pending(queue', c), conn'[c], link'[c], client', untold')
    BY <1>u, <2>1, <2>4, <2>5, <2>8
  <2>10. \A e \in Cid \ {c} : client = e <=> client' = e
    BY <1>t, <2>1, <2>3
  <2>11. \A e \in Cid \ {c} : Pending(queue', e) = Pending(queue, e)
    BY <2>1, <2>4, <2>5
  <2>12. Lives'
    BY <1>t, <1>u, <2>1, <2>9, <2>10, <2>11, ChannelStep
  <2> QED
    BY <2>4, <2>5, <2>12 DEF ChannelInv
<1> QED
  BY <1>1, <1>2

\* The library hears of its channel, and tells the application.
LEMMA RecordKeepsChannels ==
    ASSUME TypeOK, ChannelInv,
           \/ HandleAttInitiating \/ HandleAttSuccess \/ HandleAttFailure
           \/ HandleAttDisconnectInd \/ HandleDeleteConn
    PROVE  ChannelInv'
<1>t. /\ queue \in Seq(Message) /\ Ordered(queue) /\ Lives /\ conn \in [Cid -> Record]
  BY Typed DEF ChannelInv
<1>u. client' = client /\ link' = link
  BY DEF HandleAttInitiating, HandleAttSuccess, HandleAttFailure, HandleAttDisconnectInd,
     HandleDeleteConn, app, air
<1> DEFINE c == Head(queue).cid
           P == Pending(queue, c)
           t == Tail(queue)
\* A message of the kind is taken off, and P becomes Q as the record becomes r.
<1>s. ASSUME NEW q \in Seq(Message), queue' = q, Ordered(q), c \in Cid,
             \A e \in Cid \ {c} : Pending(q, e) = Pending(queue, e),
             NEW r, conn' = [conn EXCEPT ![c] = r],
             NEW w, untold' = w, \A e \in Cid \ {c} : e \in w <=> e \in untold,
             Life(c, Pending(q, c), r, link[c], client, w)
      PROVE  ChannelInv'
  <2> HIDE DEF c
  <2>1. conn'[c] = r /\ \A e \in Cid \ {c} : conn'[e] = conn[e]
    BY <1>t, <1>s
  <2>2. Life(c, Pending(queue', c), conn'[c], link'[c], client', untold')
    BY <1>s, <1>u, <2>1
  <2>3. Lives'
    BY <1>t, <1>s, <1>u, <2>1, <2>2, ChannelStep
  <2> QED
    BY <1>s, <2>3 DEF ChannelInv
<1>h. ASSUME NEW id \in Kind, Next1(id)
      PROVE  /\ c \in Cid /\ t \in Seq(Message) /\ Ordered(t) /\ id \in P
             /\ Pending(t, c) = P \ {id}
             /\ \A b \in P \ {id} : SameSender(id, b) => Follows(id, b)
             /\ \A e \in Cid \ {c} : Pending(t, e) = Pending(queue, e)
             /\ Life(c, P, conn[c], link[c], client, untold)
  <2>1. /\ c \in Cid /\ t \in Seq(Message) /\ Ordered(t) /\ id \in P
        /\ Pending(t, c) = P \ {id}
        /\ \A b \in P \ {id} : SameSender(id, b) => Follows(id, b)
        /\ \A e \in Cid \ {c} : Pending(t, e) = Pending(queue, e)
    BY <1>t, <1>h, HeadTaken
  <2> HIDE DEF c
  <2>2. Life(c, P, conn[c], link[c], client, untold)
    BY <1>t, <2>1 DEF Lives
  <2> QED
    BY <2>1, <2>2
<1>k. /\ "ATT_INITIATING" \in Kind /\ "ATT_SUCCESS" \in Kind /\ "ATT_FAILURE" \in Kind
      /\ "ATT_DISCONNECT_IND" \in Kind /\ "DELETE_CONN" \in Kind
      /\ "GATT_CONNECT_SUCCESS" \in Kind /\ "GATT_DISCONNECT_IND" \in Kind /\ P \subseteq Kind
  BY DEF Kind, StackKind, AppKind, OwnKind, Pending
<1>f. \A a \in {"ATT_SUCCESS", "ATT_FAILURE", "ATT_DISCONNECT_IND"} :
          /\ SameSender(a, "ATT_INITIATING") /\ ~Follows(a, "ATT_INITIATING")
          /\ a # "ATT_INITIATING"
  BY Senders DEF StackKind, Follows
<1>g. /\ SameSender("ATT_DISCONNECT_IND", "ATT_SUCCESS")
      /\ ~Follows("ATT_DISCONNECT_IND", "ATT_SUCCESS")
  BY Senders DEF StackKind, Follows
<1>m. /\ \A n \in Message : t \in Seq(Message) => t \o <<n>> = Append(t, n)
      /\ \A n \in Message, m \in Message :
             t \in Seq(Message) => t \o <<m, n>> = Append(Append(t, m), n)
  BY Concatenated
<1>1. CASE HandleAttInitiating
  <2>1. Next1("ATT_INITIATING")
    BY <1>1 DEF HandleAttInitiating, LibNext
  <2>2. /\ c \in Cid /\ t \in Seq(Message) /\ Ordered(t) /\ "ATT_INITIATING" \in P
        /\ Pending(t, c) = P \ {"ATT_INITIATING"}
        /\ \A e \in Cid \ {c} : Pending(t, e) = Pending(queue, e)
        /\ Life(c, P, conn[c], link[c], client, untold)
    BY <1>h, <1>k, <2>1
  <2> DEFINE n == [id |-> "GATT_CONNECT_INITIALISING", cid |-> c]
             q == Append(t, n)
  <2>3. n \in Message /\ n.id \notin Kind
    BY <2>2, Messages, Others
  <2>4. queue' = q
    <3>1. queue' = t \o <<n>>
      BY <1>1 DEF HandleAttInitiating, DoneAndSend
    <3> QED
      BY <1>m, <2>2, <2>3, <3>1
  <2>5. q \in Seq(Message) /\ Ordered(q) /\ \A e \in Cid : Pending(q, e) = Pending(t, e)
    <3> HIDE DEF n, t
    <3> QED
      BY <2>2, <2>3, OtherSent
  <2>6. conn[c] = "none" /\ Life(c, P \ {"ATT_INITIATING"}, "connecting", link[c], client, untold)
    <3> HIDE DEF P, c
    <3> QED
      BY <2>2, LifeRecorded
  <2>7. conn' = [conn EXCEPT ![c] = "connecting"]
    BY <1>1, <2>6 DEF HandleAttInitiating
  <2>9. untold' = untold
    BY <1>1 DEF HandleAttInitiating
  <2> HIDE DEF q, t, P
  <2>8. Life(c, Pending(q, c), "connecting", link[c], client, untold)
    BY <2>2, <2>5, <2>6
  <2> QED
    BY <1>s, <2>2, <2>4, <2>5, <2>7, <2>8, <2>9
<1>2. CASE HandleAttSuccess
  <2>1. Next1("ATT_SUCCESS")
    BY <1>2 DEF HandleAttSuccess, LibNext
  <2>2. /\ c \in Cid /\ t \in Seq(Message) /\ Ordered(t) /\ "ATT_SUCCESS" \in P
        /\ Pending(t, c) = P \ {"ATT_SUCCESS"} /\ "ATT_INITIATING" \notin P
        /\ \A e \in Cid \ {c} : Pending(t, e) = Pending(queue, e)
        /\ Life(c, P, conn[c], link[c], client, untold)
    <3> HIDE DEF P, c, t
    <3> QED
      BY <1>f, <1>h, <1>k, <2>1
  <2> DEFINE n == About("GATT_CONNECT_SUCCESS", c)
             q == Append(t, n)
  <2>3. n \in Message
    BY <1>k, <2>2, AboutMessage
  <2>4. queue' = q
    <3>1. queue' = t \o <<n>>
      BY <1>2 DEF HandleAttSuccess, DoneAndSend, About
    <3> QED
      BY <1>m, <2>2, <2>3, <3>1
  <2>6. /\ Life(c, (P \ {"ATT_SUCCESS"}) \cup {"GATT_CONNECT_SUCCESS"}, "up", link[c], client, untold)
        /\ P \subseteq StackKind
    <3> HIDE DEF P, c
    <3> QED
      BY <2>2, LifeSucceeds
  <2>5. /\ q \in Seq(Message) /\ Ordered(q)
        /\ Pending(q, c) = Pending(t, c) \cup {"GATT_CONNECT_SUCCESS"}
        /\ \A e \in Cid \ {c} : Pending(q, e) = Pending(t, e)
    <3>1. \A a \in Pending(t, c) : ~SameSender(a, "GATT_CONNECT_SUCCESS")
      <4> HIDE DEF P, c, t
      <4> QED
        BY <2>2, <2>6, Senders DEF StackKind, AppKind, OwnKind
    <3> HIDE DEF c, t
    <3> QED
      BY <1>k, <2>2, <2>3, <3>1, KindSent
  <2>7. conn' = [conn EXCEPT ![c] = "up"]
    BY <1>2 DEF HandleAttSuccess
  <2>9. untold' = untold
    BY <1>2 DEF HandleAttSuccess
  <2> HIDE DEF q, t, P
  <2>8. Life(c, Pending(q, c), "up", link[c], client, untold)
    BY <2>2, <2>5, <2>6
  <2> QED
    BY <1>s, <2>2, <2>4, <2>5, <2>7, <2>8, <2>9
<1>3. CASE HandleAttFailure
  <2>1. Next1("ATT_FAILURE")
    BY <1>3 DEF HandleAttFailure, LibNext
  <2>2. /\ c \in Cid /\ t \in Seq(Message) /\ Ordered(t) /\ "ATT_FAILURE" \in P
        /\ Pending(t, c) = P \ {"ATT_FAILURE"} /\ "ATT_INITIATING" \notin P
        /\ \A e \in Cid \ {c} : Pending(t, e) = Pending(queue, e)
        /\ Life(c, P, conn[c], link[c], client, untold)
    <3> HIDE DEF P, c, t
    <3> QED
      BY <1>f, <1>h, <1>k, <2>1
  <2> DEFINE n == [id |-> "GATT_CONNECT_FAILURE", cid |-> c]
             q == Append(t, n)
  <2>3. n \in Message /\ n.id \notin Kind
    BY <2>2, Messages, Others
  <2>4. queue' = q
    <3>1. queue' = t \o <<n>>
      BY <1>3 DEF HandleAttFailure, DoneAndSend
    <3> QED
      BY <1>m, <2>2, <2>3, <3>1
  <2>5. q \in Seq(Message) /\ Ordered(q) /\ \A e \in Cid : Pending(q, e) = Pending(t, e)
    <3> HIDE DEF n, t
    <3> QED
      BY <2>2, <2>3, OtherSent
  <2>6. Life(c, P \ {"ATT_FAILURE"}, "none", link[c], client, untold)
    <3> HIDE DEF P, c
    <3> QED
      BY <2>2, LifeForgotten
  <2>7. conn' = [conn EXCEPT ![c] = "none"]
    BY <1>3 DEF HandleAttFailure, DeleteCid
  <2>9. untold' = untold
    BY <1>3 DEF HandleAttFailure
  <2> HIDE DEF q, t, P
  <2>8. Life(c, Pending(q, c), "none", link[c], client, untold)
    BY <2>2, <2>5, <2>6
  <2> QED
    BY <1>s, <2>2, <2>4, <2>5, <2>7, <2>8, <2>9
<1>4. CASE HandleAttDisconnectInd
  <2>1. Next1("ATT_DISCONNECT_IND")
    BY <1>4 DEF HandleAttDisconnectInd, LibNext
  <2>2. /\ c \in Cid /\ t \in Seq(Message) /\ Ordered(t) /\ "ATT_DISCONNECT_IND" \in P
        /\ Pending(t, c) = P \ {"ATT_DISCONNECT_IND"}
        /\ "ATT_INITIATING" \notin P /\ "ATT_SUCCESS" \notin P
        /\ \A e \in Cid \ {c} : Pending(t, e) = Pending(queue, e)
        /\ Life(c, P, conn[c], link[c], client, untold)
    <3> HIDE DEF P, c, t
    <3> QED
      BY <1>f, <1>g, <1>h, <1>k, <2>1
  <2>t. CASE c \in owned
    <3>3. /\ Life(c, ((P \ {"ATT_DISCONNECT_IND"}) \cup {"GATT_DISCONNECT_IND"})
                         \cup {"DELETE_CONN"}, "closing", link[c], client, untold)
          /\ conn[c] = "up" /\ "GATT_DISCONNECT_IND" \notin P /\ "DELETE_CONN" \notin P
      <4> HIDE DEF P, c
      <4> QED
        BY <1>k, <2>2, LifeCloses
    <3> DEFINE m == About("GATT_DISCONNECT_IND", c)
               n == About("DELETE_CONN", c)
               p == Append(t, m)
               q == Append(p, n)
    <3>4. m \in Message /\ n \in Message
      BY <1>k, <2>2, AboutMessage
    <3>5. queue' = q /\ conn' = [conn EXCEPT ![c] = "closing"]
      <4>1. queue' = t \o <<m, n>> /\ conn' = [conn EXCEPT ![c] = "closing"]
        BY <1>4, <2>t, <3>3 DEF HandleAttDisconnectInd, DoneAndSend, About
      <4> QED
        BY <1>m, <2>2, <3>4, <4>1
    <3>6. /\ p \in Seq(Message) /\ Ordered(p)
          /\ Pending(p, c) = Pending(t, c) \cup {"GATT_DISCONNECT_IND"}
          /\ \A e \in Cid \ {c} : Pending(p, e) = Pending(t, e)
      <4>1. \A a \in Pending(t, c) :
                SameSender(a, "GATT_DISCONNECT_IND") => Follows(a, "GATT_DISCONNECT_IND")
        <5> HIDE DEF P, c, t
        <5> QED
          BY <2>2, <3>3, Senders DEF StackKind, AppKind, OwnKind, Follows
      <4> HIDE DEF c, t
      <4> QED
        BY <1>k, <2>2, <3>4, <4>1, KindSent
    <3>7. /\ q \in Seq(Message) /\ Ordered(q)
          /\ Pending(q, c) = Pending(p, c) \cup {"DELETE_CONN"}
          /\ \A e \in Cid \ {c} : Pending(q, e) = Pending(p, e)
      <4>1. \A a \in Pending(p, c) : ~SameSender(a, "DELETE_CONN")
        <5> HIDE DEF P, c, t, p
        <5> QED
          BY <2>2, <3>3, <3>6, Senders DEF StackKind, AppKind, OwnKind
      <4> HIDE DEF c, p
      <4> QED
        BY <1>k, <2>2, <3>4, <3>6, <4>1, KindSent
    <3>10. untold' = untold
      BY <1>4, <2>t, <3>3 DEF HandleAttDisconnectInd
    <3> HIDE DEF q, p, t, P
    <3>8. Life(c, Pending(q, c), "closing", link[c], client, untold)
      BY <2>2, <3>3, <3>6, <3>7
    <3>9. \A e \in Cid \ {c} : Pending(q, e) = Pending(queue, e)
      BY <2>2, <3>6, <3>7
    <3> QED
      BY <1>s, <2>2, <3>5, <3>7, <3>8, <3>9, <3>10
  <2>u. CASE c \notin owned
    <3> DEFINE n == About("DELETE_CONN", c)
               q == Append(t, n)
               w == untold \cup {c}
    <3>3. /\ Life(c, (P \ {"ATT_DISCONNECT_IND"}) \cup {"DELETE_CONN"}, "closing", link[c],
                  client, w)
          /\ conn[c] = "up" /\ "GATT_DISCONNECT_IND" \notin P /\ "DELETE_CONN" \notin P
      <4>1. c \in w
        OBVIOUS
      <4> HIDE DEF P, c, w
      <4> QED
        BY <1>k, <2>2, <4>1, LifeClosesUntold
    <3>4. n \in Message
      BY <1>k, <2>2, AboutMessage
    <3>5. queue' = q /\ conn' = [conn EXCEPT ![c] = "closing"] /\ untold' = w
      <4>1. /\ queue' = t \o <<n>> /\ conn' = [conn EXCEPT ![c] = "closing"]
            /\ untold' = untold \cup {c}
        BY <1>4, <2>u, <3>3 DEF HandleAttDisconnectInd, DoneAndSend, About
      <4> QED
        BY <1>m, <2>2, <3>4, <4>1
    <3>6. /\ q \in Seq(Message) /\ Ordered(q)
          /\ Pending(q, c) = Pending(t, c) \cup {"DELETE_CONN"}
          /\ \A e \in Cid \ {c} : Pending(q, e) = Pending(t, e)
      <4>1. \A a \in Pending(t, c) : ~SameSender(a, "DELETE_CONN")
        <5> HIDE DEF P, c, t
        <5> QED
          BY <2>2, <3>3, Senders DEF StackKind, AppKind, OwnKind
      <4> HIDE DEF c, t
      <4> QED
        BY <1>k, <2>2, <3>4, <4>1, KindSent
    <3>7. \A e \in Cid \ {c} : e \in w <=> e \in untold
      OBVIOUS
    <3> HIDE DEF q, t, P, w
    <3>8. Life(c, Pending(q, c), "closing", link[c], client, w)
      BY <2>2, <3>3, <3>6
    <3>9. \A e \in Cid \ {c} : Pending(q, e) = Pending(queue, e)
      BY <2>2, <3>6
    <3> QED
      BY <1>s, <2>2, <3>5, <3>6, <3>7, <3>8, <3>9
  <2> QED
    BY <2>t, <2>u
<1>5. CASE HandleDeleteConn
  <2>1. Next1("DELETE_CONN")
    BY <1>5 DEF HandleDeleteConn, LibNext
  <2>2. /\ c \in Cid /\ t \in Seq(Message) /\ Ordered(t) /\ "DELETE_CONN" \in P
        /\ Pending(t, c) = P \ {"DELETE_CONN"}
        /\ \A e \in Cid \ {c} : Pending(t, e) = Pending(queue, e)
        /\ Life(c, P, conn[c], link[c], client, untold)
    BY <1>h, <1>k, <2>1
  <2>3. Life(c, P \ {"DELETE_CONN"}, "none", link[c], client, untold)
    <3> HIDE DEF P, c
    <3> QED
      BY <2>2, LifeDeleted
  <2>4. queue' = t /\ conn' = [conn EXCEPT ![c] = "none"]
    BY <1>5 DEF HandleDeleteConn, DeleteCid, Done
  <2>6. untold' = untold
    BY <1>5 DEF HandleDeleteConn
  <2> HIDE DEF t, P
  <2>5. Life(c, Pending(t, c), "none", link[c], client, untold)
    BY <2>2, <2>3
  <2> QED
    BY <1>s, <2>2, <2>4, <2>5, <2>6
<1> QED
  BY <1>1, <1>2, <1>3, <1>4, <1>5

\* With no connection, no message about one is queued.
LEMMA NoLinkHead ==
    ASSUME TypeOK, NoLink, queue # <<>>
    PROVE  Head(queue).id \notin Kind
<1> SUFFICES ASSUME Head(queue).id \in Kind PROVE FALSE
  OBVIOUS
<1>1. Head(queue) \in Message /\ InQ(queue, Head(queue))
  BY Typed, InTail
<1> DEFINE c == Head(queue).cid
           id == Head(queue).id
<1>2. c \in Cid /\ Head(queue) = About(id, c) /\ id \in Kind
  BY <1>1, KindAbout
<1> HIDE DEF c, id
<1>3. id \in Pending(queue, c)
  BY <1>1, <1>2, PendingIn
<1> QED
  BY <1>2, <1>3 DEF NoLink

\* The actions that are no step of a channel.
Rest ==
    \/ HandleSlcConnected \/ HandleInitCfm \/ HandleConnectInitialising
    \/ HandleConnectFailure \/ HandleAttRegisterCfm \/ HandleAttAddDbCfm
    \/ HandleConnectReq \/ HandleDisconnectReq \/ DropMessage \/ ReleaseConnectReq
    \/ ButtonC \/ DisableBleAdvertising \/ WechatConnectInd \/ ResetPairedDeviceList
    \/ SlcConnects
    \/ \E ok \in BOOLEAN : StackRegisters(ok) \/ StackAddsDb(ok) \/ StackSetsData(ok)
    \/ \E c \in Cid : PairingFails(c)

\* The others.
ChannelStepOf(c) ==
    StackInitiates(c) \/ PhoneConnects(c) \/ ConnectionFails(c) \/ LinkEnds(c)

HeadStep ==
    \/ HandleConnectSuccess \/ HandleDisconnectInd
    \/ HandleAttInitiating \/ HandleAttSuccess \/ HandleAttFailure
    \/ HandleAttDisconnectInd \/ HandleDeleteConn

\* These are all.
LEMMA AllSteps ==
    ASSUME Next
    PROVE  Rest \/ HeadStep \/ \E c \in Cid : ChannelStepOf(c)
BY Zenon DEF Next, Rest, HeadStep, ChannelStepOf, Application, Library, StackAnswers

\* What the rest leaves alone.
LEMMA RestFacts ==
    ASSUME TypeOK, LifeInv, Rest
    PROVE  /\ queue' \in Seq(Message) /\ Ordered(queue')
           /\ \A c \in Cid : Pending(queue', c) = Pending(queue, c)
           /\ client' = client /\ untold' = untold /\ \A c \in Cid : conn'[c] = conn[c]
           /\ \A c \in Cid : link'[c] = link[c] \/ (link[c] = "up" /\ link'[c] = "ending")
<1>t. /\ queue \in Seq(Message) /\ Ordered(queue) /\ conn \in [Cid -> Record]
      /\ link \in [Cid -> {"free", "initiating", "up", "ending"}]
      /\ client \in Cid \cup {NULL}
  BY Typed DEF LifeInv, ChannelInv
<1>0. libState # "initialised" => NoLink
  BY DEF LifeInv, AskedWhenStarted
<1>q. \E n \in Message :
          /\ n.id \notin Kind
          /\ \/ queue' \in {queue, Append(queue, n)}
             \/ /\ queue # <<>> /\ Head(queue).id \notin Kind
                /\ queue' \in {Tail(queue), Tail(queue) \o <<>>, Tail(queue) \o <<n>>}
  <2> DEFINE Goal(n) ==
          /\ n.id \notin Kind
          /\ \/ queue' \in {queue, Append(queue, n)}
             \/ /\ queue # <<>> /\ Head(queue).id \notin Kind
                /\ queue' \in {Tail(queue), Tail(queue) \o <<>>, Tail(queue) \o <<n>>}
             conn_req == [id |-> "CONNECT_REQ"]
  <2>m. conn_req \in Message /\ conn_req.id \notin Kind
    BY Messages, Others
  <2>1. CASE HandleSlcConnected \/ HandleConnectInitialising \/ HandleConnectFailure
             \/ HandleConnectReq \/ HandleDisconnectReq
    <3>1. queue # <<>> /\ Head(queue).id \notin Kind /\ queue' = Tail(queue)
      BY <2>1, Others DEF HandleSlcConnected, HandleConnectInitialising, HandleConnectFailure,
         HandleConnectReq, HandleDisconnectReq, LibNext, Next1, Done
    <3> QED
      BY <2>m, <3>1
  <2>2. CASE HandleInitCfm
    <3>1. /\ queue # <<>> /\ Head(queue).id \notin Kind
          /\ queue' \in {Tail(queue) \o <<>>, Tail(queue) \o <<conn_req>>}
      BY <2>2, Others DEF HandleInitCfm, Next1, DoneAndSend
    <3> QED
      BY <2>m, <3>1
  <2>3. CASE HandleAttRegisterCfm
    <3>1. queue # <<>> /\ Head(queue).id \notin Kind
      BY <2>3, Others DEF HandleAttRegisterCfm, LibNext, Next1
    <3>2. queue' \in {Tail(queue), Tail(queue) \o <<[id |-> "GATT_INIT_CFM", ok |-> FALSE]>>}
      BY <2>3 DEF HandleAttRegisterCfm, Done, DoneAndSend
    <3>3. [id |-> "GATT_INIT_CFM", ok |-> FALSE] \in Message
      BY Messages
    <3> QED
      BY <3>1, <3>2, <3>3, Others
  <2>4. CASE HandleAttAddDbCfm
    <3> DEFINE n == [id |-> "GATT_INIT_CFM", ok |-> Head(queue).ok]
    <3>1. queue # <<>> /\ Head(queue).id = "ATT_ADD_DB_CFM" /\ Head(queue).id \notin Kind
      BY <2>4, Others DEF HandleAttAddDbCfm, LibNext, Next1
    <3>2. queue' = Tail(queue) \o <<n>>
      BY <2>4 DEF HandleAttAddDbCfm, DoneAndSend
    <3>3. Head(queue).ok \in BOOLEAN
      BY <1>t, <3>1, InTail, MessageFields
    <3>4. n \in Message /\ n.id \notin Kind
      BY <3>3, Messages, Others
    <3> HIDE DEF n
    <3> QED
      BY <3>1, <3>2, <3>4
  <2>5. CASE DropMessage
    <3>1. queue # <<>> /\ queue' = Tail(queue)
      BY <2>5 DEF DropMessage, Done
    <3>2. Head(queue).id \notin Kind
      <4>1. CASE Head(queue).id \in {"ATT_REGISTER_CFM", "ATT_ADD_DB_CFM"}
        BY <4>1, Others
      <4>2. CASE Head(queue).id \notin {"ATT_REGISTER_CFM", "ATT_ADD_DB_CFM"}
        <5>1. libState # "initialised"
          BY <2>5, <4>2 DEF DropMessage
        <5> QED
          BY <1>0, <3>1, <5>1, NoLinkHead
      <4> QED
        BY <4>1, <4>2
    <3> QED
      BY <2>m, <3>1, <3>2
  <2>6. CASE ReleaseConnectReq \/ ButtonC \/ DisableBleAdvertising \/ WechatConnectInd
             \/ \E ok \in BOOLEAN : StackSetsData(ok)
    <3>1. queue' = queue
      BY <2>6 DEF ReleaseConnectReq, ButtonC, DisableBleAdvertising, WechatConnectInd, StackSetsData
    <3> QED
      BY <2>m, <3>1
  <2>7. CASE ResetPairedDeviceList
    <3> DEFINE n == [id |-> "DISCONNECT_REQ", cid |-> client]
    <3>1. queue' = Append(queue, n) /\ client \in Cid
      BY <1>t, <2>7 DEF ResetPairedDeviceList
    <3>2. n \in Message /\ n.id \notin Kind
      BY <3>1, Messages, Others
    <3> HIDE DEF n
    <3> QED
      BY <3>1, <3>2
  <2>8. CASE SlcConnects
    <3> DEFINE n == [id |-> "SLC_CONNECTED"]
    <3>1. queue' = Append(queue, n) /\ n \in Message /\ n.id \notin Kind
      BY <2>8, Messages, Others DEF SlcConnects
    <3> HIDE DEF n
    <3> QED
      BY <3>1
  <2>10. ASSUME NEW c \in Cid, PairingFails(c)
         PROVE  \E n \in Message : Goal(n)
    <3>1. queue' = Append(queue, conn_req)
      BY <2>10 DEF PairingFails
    <3> HIDE DEF conn_req
    <3> QED
      BY <2>m, <3>1
  <2>9. ASSUME NEW ok \in BOOLEAN, StackRegisters(ok) \/ StackAddsDb(ok)
        PROVE  \E n \in Message : Goal(n)
    <3>1. \E n \in Message : n.id \notin Kind /\ queue' = Append(queue, n)
      <4> DEFINE n == [id |-> "ATT_REGISTER_CFM", ok |-> ok]
                 p == [id |-> "ATT_ADD_DB_CFM", ok |-> ok]
      <4>1. n \in Message /\ p \in Message /\ n.id \notin Kind /\ p.id \notin Kind
        BY Messages, Others
      <4>2. queue' = Append(queue, n) \/ queue' = Append(queue, p)
        BY <2>9, Zenon DEF StackRegisters, StackAddsDb
      <4> HIDE DEF n, p
      <4> QED
        BY <4>1, <4>2
    <3> QED
      BY <3>1
  <2> QED
    BY <2>1, <2>2, <2>3, <2>4, <2>5, <2>6, <2>7, <2>8, <2>9, <2>10 DEF Rest
<1>1. /\ queue' \in Seq(Message) /\ Ordered(queue')
      /\ \A c \in Cid : Pending(queue', c) = Pending(queue, c)
  <2>1. PICK n \in Message :
          /\ n.id \notin Kind
          /\ \/ queue' \in {queue, Append(queue, n)}
             \/ /\ queue # <<>> /\ Head(queue).id \notin Kind
                /\ queue' \in {Tail(queue), Tail(queue) \o <<>>, Tail(queue) \o <<n>>}
    BY <1>q
  <2> DEFINE p == queue'
  <2>2. QuietTo(queue, n, p)
    BY <2>1 DEF QuietTo
  <2> HIDE DEF p
  <2>3. p \in Seq(Message) /\ Ordered(p) /\ \A c \in Cid : Pending(p, c) = Pending(queue, c)
    <3>1. queue \in Seq(Message) /\ Ordered(queue) /\ n \in Message /\ n.id \notin Kind
      BY <1>t, <2>1
    <3> QED
      BY <2>2, <3>1, Quiet, Zenon
  <2> QED
    BY <2>3 DEF p
<1>2. client' = client /\ untold' = untold /\ \A c \in Cid : conn'[c] = conn[c]
  <2>1. CASE HandleAttAddDbCfm
    <3>1. client' = client /\ untold' = untold /\ (conn' = conn \/ conn' = [c \in Cid |-> "none"])
      BY <2>1 DEF HandleAttAddDbCfm, app
    <3>2. \A c \in Cid : conn[c] = "none"
      BY <1>0, <2>1 DEF HandleAttAddDbCfm, LibNext, NoLink
    <3> QED
      BY <3>1, <3>2
  <2>2. CASE ~HandleAttAddDbCfm
    BY <2>2 DEF Rest, HandleSlcConnected, HandleInitCfm, HandleConnectInitialising,
       HandleConnectFailure, HandleAttRegisterCfm, HandleConnectReq, HandleDisconnectReq,
       DropMessage, ReleaseConnectReq, ButtonC, DisableBleAdvertising, WechatConnectInd,
       ResetPairedDeviceList, SlcConnects, PairingFails, StackRegisters, StackAddsDb, StackSetsData, app, lib
  <2> QED
    BY <2>1, <2>2
<1>3. \A c \in Cid : link'[c] = link[c] \/ (link[c] = "up" /\ link'[c] = "ending")
  <2>1. CASE HandleDisconnectReq
    BY <1>t, <2>1 DEF HandleDisconnectReq
  <2>2. CASE ~HandleDisconnectReq
    BY <2>2 DEF Rest, HandleSlcConnected, HandleInitCfm, HandleConnectInitialising,
       HandleConnectFailure, HandleAttRegisterCfm, HandleAttAddDbCfm, HandleConnectReq,
       DropMessage, ReleaseConnectReq, ButtonC, DisableBleAdvertising, WechatConnectInd,
       ResetPairedDeviceList, SlcConnects, PairingFails, StackRegisters, StackAddsDb, StackSetsData, air
  <2> QED
    BY <2>1, <2>2
<1> QED
  BY <1>1, <1>2, <1>3

\* Every step keeps the channels.
LEMMA NextChannels ==
    ASSUME TypeOK, LifeInv, Next
    PROVE  ChannelInv'
<1>1. ChannelInv
  BY DEF LifeInv
<1>2. CASE Rest
  <2>1. /\ Ordered(queue')
        /\ \A c \in Cid : Pending(queue', c) = Pending(queue, c)
        /\ client' = client /\ untold' = untold /\ \A c \in Cid : conn'[c] = conn[c]
        /\ \A c \in Cid : link'[c] = link[c] \/ (link[c] = "up" /\ link'[c] = "ending")
    BY <1>2, RestFacts
  <2>2. ASSUME NEW c \in Cid
        PROVE  Life(c, Pending(queue', c), conn'[c], link'[c], client', untold')
    <3>1. Life(c, Pending(queue, c), conn[c], link[c], client, untold)
      BY <1>1 DEF ChannelInv, Lives
    <3>2. link[c] = "up" => Life(c, Pending(queue, c), conn[c], "ending", client, untold)
      BY <3>1, LifeEnding
    <3> QED
      BY <2>1, <3>1, <3>2
  <2> QED
    BY <2>1, <2>2 DEF ChannelInv, Lives
<1>3. CASE HeadStep
  BY <1>1, <1>3, ClientKeepsChannels, RecordKeepsChannels DEF HeadStep
<1>4. CASE \E c \in Cid : ChannelStepOf(c)
  BY <1>1, <1>4, StackKeepsChannels DEF ChannelStepOf
<1> QED
  BY <1>2, <1>3, <1>4, AllSteps

\* A step of a channel comes after a request for it.
LEMMA StepStarted ==
    ASSUME TypeOK, LifeInv, HeadStep \/ \E c \in Cid : ChannelStepOf(c)
    PROVE  initialised /\ libState = "initialised"
<1>t. initialised \in BOOLEAN
  BY DEF TypeOK
<1> SUFFICES ASSUME NoLink PROVE FALSE
  BY <1>t DEF LifeInv, AskedWhenStarted
<1>1. CASE HeadStep
  <2>1. queue # <<>> /\ Head(queue).id \in Kind
    BY <1>1 DEF HeadStep, HandleConnectSuccess, HandleDisconnectInd, HandleAttInitiating,
       HandleAttSuccess, HandleAttFailure, HandleAttDisconnectInd, HandleDeleteConn, LibNext,
       Next1, Kind, StackKind, AppKind, OwnKind
  <2> QED
    BY <2>1, NoLinkHead
<1>2. CASE \E c \in Cid : ChannelStepOf(c)
  <2>1. stack.connect = 0 /\ \A c \in Cid : link[c] = "free"
    BY DEF NoLink
  <2>2. PICK c \in Cid : ChannelStepOf(c)
    BY <1>2
  <2>3. link[c] # "free" \/ stack.connect > 0
    BY <2>2 DEF ChannelStepOf, StackInitiates, PhoneConnects, ConnectionFails, LinkEnds
  <2> QED
    BY <2>1, <2>3
<1> QED
  BY <1>1, <1>2

\* Nobody asks for a connection before GATT is initialised.
LEMMA NextAsked ==
    ASSUME TypeOK, LifeInv, Next
    PROVE  AskedWhenStarted'
<1>a. AskedWhenStarted /\ ChannelInv
  BY DEF LifeInv
<1>t. /\ queue \in Seq(Message) /\ initialised \in BOOLEAN
      /\ stack \in [register : Nat, add_db : Nat, set_data : Nat, connect : Nat]
  BY Typed DEF TypeOK
<1> DEFINE request == [id |-> "CONNECT_REQ"]
<1>q. \A m : Queued(m) <=> InQ(queue, m)
  BY DEF Queued, InQ
<1>r. \A m : Queued(m)' <=> InQ(queue', m)
  BY DEF Queued, InQ
<1>1. HeadStep \/ (\E c \in Cid : ChannelStepOf(c)) => initialised /\ libState = "initialised"
  BY StepStarted
\* The library is not started again once the application holds it for initialised.
<1>2. ASSUME initialised, libState = "initialised"
      PROVE  initialised' /\ libState' = "initialised"
  <2>1. ~HandleAttRegisterCfm /\ ~HandleAttAddDbCfm
    BY <1>2 DEF HandleAttRegisterCfm, HandleAttAddDbCfm, LibNext
  <2>s. HandleSlcConnected => libState' = libState /\ initialised' = initialised
    BY <1>2, Zenon DEF HandleSlcConnected
  <2>2. libState' = libState
    BY <2>1, <2>s, AllSteps DEF Rest, HeadStep, ChannelStepOf, HandleInitCfm,
       HandleConnectInitialising, HandleConnectFailure, HandleConnectReq, HandleDisconnectReq,
       DropMessage, ReleaseConnectReq, ButtonC, DisableBleAdvertising, WechatConnectInd,
       ResetPairedDeviceList, SlcConnects, PairingFails, StackRegisters, StackAddsDb, StackSetsData,
       HandleConnectSuccess, HandleDisconnectInd, HandleAttInitiating, HandleAttSuccess,
       HandleAttFailure, HandleAttDisconnectInd, HandleDeleteConn, StackInitiates,
       PhoneConnects, ConnectionFails, LinkEnds, lib
  <2>3. CASE HandleInitCfm
    BY <1>2, <2>2, <2>3, Zenon DEF HandleInitCfm
  <2>4. CASE ~HandleInitCfm
    <3>1. initialised' = initialised
      BY <2>1, <2>s, <2>4, AllSteps DEF Rest, HeadStep, ChannelStepOf,
         HandleConnectInitialising, HandleConnectFailure, HandleConnectReq, HandleDisconnectReq,
         DropMessage, ReleaseConnectReq, ButtonC, DisableBleAdvertising, WechatConnectInd,
         ResetPairedDeviceList, SlcConnects, PairingFails, StackRegisters, StackAddsDb, StackSetsData,
         HandleConnectSuccess, HandleDisconnectInd, HandleAttInitiating, HandleAttSuccess,
         HandleAttFailure, HandleAttDisconnectInd, HandleDeleteConn, StackInitiates,
         PhoneConnects, ConnectionFails, LinkEnds, app
    <3> QED
      BY <1>2, <2>2, <3>1
  <2> QED
    BY <2>3, <2>4
\* With no connection, none comes of the rest.
<1>3. ASSUME NoLink, Rest, ~initialised => ~Queued(request),
             ~initialised' \/ libState' # "initialised"
      PROVE  NoLink' /\ (~initialised' => ~Queued(request)')
  <2>1. /\ \A c \in Cid : Pending(queue', c) = Pending(queue, c)
        /\ client' = client /\ \A c \in Cid : conn'[c] = conn[c]
        /\ \A c \in Cid : link'[c] = link[c] \/ (link[c] = "up" /\ link'[c] = "ending")
    BY <1>3, RestFacts
  <2>2. ~HandleConnectReq
    <3> SUFFICES ASSUME HandleConnectReq PROVE FALSE
      OBVIOUS
    <3>1. libState = "initialised" /\ libState' = libState /\ initialised' = initialised
      BY DEF HandleConnectReq, LibNext, app
    <3>2. queue # <<>> /\ Head(queue).id = "CONNECT_REQ"
      BY DEF HandleConnectReq, LibNext, Next1
    <3>3. Head(queue) = request
      <4>1. Head(queue) \in Message
        BY <1>t, <3>2, InTail
      <4> QED
        BY <3>2, <4>1 DEF Message, AppMessage, LibMessage
    <3>4. InQ(queue, request)
      BY <1>t, <3>2, <3>3, InTail
    <3> QED
      BY <1>3, <1>q, <3>1, <3>4
  <2>3. /\ ~ReleaseConnectReq /\ ~ResetPairedDeviceList
        /\ \A c \in Cid : ~PairingFails(c)
    BY <1>3 DEF ReleaseConnectReq, ResetPairedDeviceList, PairingFails, Released, NoLink
  <2>4. held' = held /\ conn_req_task' = conn_req_task
    <3>1. Rest => \/ HandleConnectReq \/ ReleaseConnectReq
                  \/ held' = held /\ conn_req_task' = conn_req_task
      BY Zenon DEF Rest, HandleSlcConnected, HandleInitCfm, HandleConnectInitialising,
         HandleConnectFailure, HandleAttRegisterCfm, HandleAttAddDbCfm, HandleDisconnectReq,
         DropMessage, ButtonC, DisableBleAdvertising, WechatConnectInd, SlcConnects,
         PairingFails, ResetPairedDeviceList, StackRegisters, StackAddsDb, StackSetsData, lib
    <3> QED
      BY <1>3, <2>2, <2>3, <3>1
  <2>5. stack'.connect = stack.connect
    <3>1. HandleSlcConnected => stack'.connect = stack.connect
      BY DEF HandleSlcConnected
    <3>2. HandleAttRegisterCfm => stack'.connect = stack.connect
      BY <1>t DEF HandleAttRegisterCfm
    <3>3. \A ok \in BOOLEAN :
             StackRegisters(ok) \/ StackAddsDb(ok) \/ StackSetsData(ok)
                 => stack'.connect = stack.connect
      BY <1>t DEF StackRegisters, StackAddsDb, StackSetsData
    <3>4. Rest => \/ HandleConnectReq \/ ReleaseConnectReq \/ HandleSlcConnected
                  \/ HandleAttRegisterCfm
                  \/ \E ok \in BOOLEAN : StackRegisters(ok) \/ StackAddsDb(ok) \/ StackSetsData(ok)
                  \/ stack' = stack
      BY Zenon DEF Rest, HandleInitCfm, HandleConnectInitialising, HandleConnectFailure,
         HandleAttAddDbCfm, HandleDisconnectReq, DropMessage, ButtonC, DisableBleAdvertising,
         WechatConnectInd, SlcConnects, PairingFails, ResetPairedDeviceList, air
    <3> QED
      BY <1>3, <2>2, <2>3, <3>1, <3>2, <3>3, <3>4
  <2>6. NoLink'
    <3>1. \A c \in Cid : link'[c] = "free"
      BY <1>3, <2>1 DEF NoLink
    <3>2. \A c \in Cid : conn'[c] = "none" /\ Pending(queue', c) = {}
      BY <1>3, <2>1 DEF NoLink
    <3>3. held' = 0 /\ ~conn_req_task' /\ stack'.connect = 0 /\ client' = NULL
      BY <1>3, <2>1, <2>4, <2>5 DEF NoLink
    <3> QED
      BY <3>1, <3>2, <3>3 DEF NoLink
  <2>7. ASSUME ~initialised', InQ(queue', request)
        PROVE  InQ(queue, request) /\ ~initialised
    <3>i. ~initialised
      BY <1>3, <2>2, <2>3, <2>7, Zenon DEF Rest, HandleSlcConnected, HandleInitCfm,
         HandleConnectInitialising, HandleConnectFailure, HandleAttRegisterCfm,
         HandleAttAddDbCfm, HandleDisconnectReq, DropMessage, ButtonC, DisableBleAdvertising,
         WechatConnectInd, SlcConnects, StackRegisters, StackAddsDb, StackSetsData, app
    <3>h. queue # <<>> => /\ Tail(queue) \in Seq(Message) /\ Head(queue) \in Message
                          /\ \A m : InQ(Tail(queue), m) => InQ(queue, m)
      BY <1>t, InTail
    <3>1. CASE HandleSlcConnected \/ HandleConnectInitialising \/ HandleConnectFailure
               \/ HandleDisconnectReq \/ DropMessage
      <4>1. queue # <<>> /\ queue' = Tail(queue)
        BY <3>1 DEF HandleSlcConnected, HandleConnectInitialising, HandleConnectFailure,
           HandleDisconnectReq, DropMessage, LibNext, Next1, Done
      <4> QED
        BY <2>7, <3>i, <3>h, <4>1
    <3>2. CASE HandleInitCfm
      <4>1. ~Head(queue).ok /\ queue # <<>>
        BY <2>7, <3>2, Zenon DEF HandleInitCfm, Next1
      <4>2. queue' = Tail(queue) \o <<>>
        BY <3>2, <4>1, Zenon DEF HandleInitCfm, DoneAndSend
      <4>3. queue' = Tail(queue)
        BY <3>h, <4>1, <4>2, Concatenated
      <4> QED
        BY <2>7, <3>i, <3>h, <4>1, <4>3
    <3>3. CASE HandleAttRegisterCfm \/ HandleAttAddDbCfm
      <4>1. /\ queue # <<>>
            /\ \E n : queue' \in {Tail(queue), Tail(queue) \o <<n>>} /\ n.id = "GATT_INIT_CFM"
                      /\ n \in Message
        <5>1. CASE HandleAttRegisterCfm
          <6>1. [id |-> "GATT_INIT_CFM", ok |-> FALSE] \in Message
            BY Messages
          <6>2. /\ queue # <<>>
                /\ queue' \in {Tail(queue), Tail(queue) \o <<[id |-> "GATT_INIT_CFM", ok |-> FALSE]>>}
            BY <5>1 DEF HandleAttRegisterCfm, LibNext, Next1, Done, DoneAndSend
          <6> QED
            BY <6>1, <6>2
        <5>2. CASE HandleAttAddDbCfm
          <6> DEFINE n == [id |-> "GATT_INIT_CFM", ok |-> Head(queue).ok]
          <6>1. queue # <<>> /\ Head(queue).id = "ATT_ADD_DB_CFM" /\ queue' = Tail(queue) \o <<n>>
            BY <5>2 DEF HandleAttAddDbCfm, LibNext, Next1, DoneAndSend
          <6>2. Head(queue).ok \in BOOLEAN
            BY <3>h, <6>1, MessageFields
          <6>3. n \in Message /\ n.id = "GATT_INIT_CFM"
            BY <6>2, Messages
          <6> HIDE DEF n
          <6> QED
            BY <6>1, <6>3
        <5> QED
          BY <3>3, <5>1, <5>2
      <4>2. PICK n \in Message : queue' \in {Tail(queue), Tail(queue) \o <<n>>}
                                 /\ n.id = "GATT_INIT_CFM"
        BY <4>1
      <4>3. Tail(queue) \o <<n>> = Append(Tail(queue), n)
        BY <3>h, <4>1, Concatenated
      <4>4. InQ(Append(Tail(queue), n), request) <=> InQ(Tail(queue), request) \/ request = n
        BY <3>h, <4>1, InAppend
      <4>5. request # n
        BY <4>2
      <4> QED
        BY <2>7, <3>i, <3>h, <4>1, <4>2, <4>3, <4>4, <4>5
    <3>4. CASE ButtonC \/ DisableBleAdvertising \/ WechatConnectInd
               \/ \E ok \in BOOLEAN : StackSetsData(ok)
      <4>1. queue' = queue
        BY <3>4 DEF ButtonC, DisableBleAdvertising, WechatConnectInd, StackSetsData
      <4> QED
        BY <2>7, <3>i, <4>1
    <3>5. CASE SlcConnects \/ \E ok \in BOOLEAN : StackRegisters(ok) \/ StackAddsDb(ok)
      <4>1. \E n \in Message : queue' = Append(queue, n) /\ n.id # "CONNECT_REQ"
        <5>1. CASE SlcConnects
          BY <5>1, Messages DEF SlcConnects
        <5>2. ASSUME NEW ok \in BOOLEAN, StackRegisters(ok) \/ StackAddsDb(ok)
              PROVE  \E n \in Message : queue' = Append(queue, n) /\ n.id # "CONNECT_REQ"
          <6> DEFINE n == [id |-> "ATT_REGISTER_CFM", ok |-> ok]
                     p == [id |-> "ATT_ADD_DB_CFM", ok |-> ok]
          <6>1. n \in Message /\ p \in Message /\ n.id # "CONNECT_REQ" /\ p.id # "CONNECT_REQ"
            BY Messages
          <6>2. queue' = Append(queue, n) \/ queue' = Append(queue, p)
            BY <5>2, Zenon DEF StackRegisters, StackAddsDb
          <6> HIDE DEF n, p
          <6> QED
            BY <6>1, <6>2
        <5> QED
          BY <3>5, <5>1, <5>2
      <4>2. PICK n \in Message : queue' = Append(queue, n) /\ n.id # "CONNECT_REQ"
        BY <4>1
      <4>3. InQ(Append(queue, n), request) <=> InQ(queue, request) \/ request = n
        BY <1>t, InAppend
      <4> QED
        BY <2>7, <3>i, <4>2, <4>3
    <3> QED
      BY <1>3, <2>2, <2>3, <3>1, <3>2, <3>3, <3>4, <3>5 DEF Rest
  <2> QED
    BY <1>3, <1>q, <1>r, <2>6, <2>7
<1>4. CASE initialised /\ libState = "initialised"
  BY <1>2, <1>4, Zenon DEF AskedWhenStarted
<1>5. CASE ~(initialised /\ libState = "initialised")
  <2>1. Rest /\ NoLink /\ (~initialised => ~Queued(request))
    BY <1>1, <1>5, <1>a, AllSteps, Zenon DEF AskedWhenStarted
  <2>2. CASE ~initialised' \/ libState' # "initialised"
    BY <1>3, <2>1, <2>2, Zenon DEF AskedWhenStarted
  <2>3. CASE ~(~initialised' \/ libState' # "initialised")
    BY <2>3, Zenon DEF AskedWhenStarted
  <2> QED
    BY <2>2, <2>3
<1> QED
  BY <1>4, <1>5


\* Nothing is queued of what has no connection, at the start.
LEMMA InitLife == Init => LifeInv
<1> SUFFICES ASSUME Init PROVE LifeInv
  OBVIOUS
<1>1. queue = <<>> /\ Len(queue) = 0 /\ client = NULL /\ NULL \notin Cid
  BY CidAssumption DEF Init
<1>2. \A c \in Cid : conn[c] = "none" /\ link[c] = "free"
  BY DEF Init
<1>3. held = 0 /\ stack.connect = 0 /\ libState = "uninitialised"
  BY DEF Init
<1>4. ~conn_req_task
  BY Zenon DEF Init
<1>5. \A c \in Cid : Pending(queue, c) = {}
  BY <1>1 DEF Pending
<1>6. NoLink
  BY <1>1, <1>2, <1>3, <1>4, <1>5 DEF NoLink
<1>7. Ordered(queue)
  BY <1>1 DEF Ordered
<1>8. \A c \in Cid : client # c
  BY <1>1
<1>9. \A c \in Cid : Life(c, Pending(queue, c), conn[c], link[c], client, untold)
  BY <1>2, <1>5, <1>8 DEF Life
<1>10. ~Queued([id |-> "CONNECT_REQ"])
  BY <1>1 DEF Queued
<1> QED
  BY <1>6, <1>7, <1>9, <1>10 DEF LifeInv, ChannelInv, Lives, AskedWhenStarted

\* Every step keeps the connections, the requests for them and the order of what is said.
LEMMA NextLife == IInv /\ LifeInv /\ [Next]_vars => LifeInv'
<1> SUFFICES ASSUME IInv, LifeInv, [Next]_vars PROVE LifeInv'
  OBVIOUS
<1>1. CASE UNCHANGED vars
  <2>1. /\ queue' = queue /\ conn' = conn /\ link' = link /\ client' = client
        /\ held' = held /\ stack' = stack /\ libState' = libState /\ untold' = untold
        /\ conn_req_task' = conn_req_task /\ initialised' = initialised
    BY <1>1 DEF vars, app, lib, air
  <2> QED
    BY <2>1 DEF LifeInv, ChannelInv, Lives, AskedWhenStarted, NoLink, Queued
<1>2. CASE Next
  BY <1>2, NextChannels, NextAsked DEF IInv, LifeInv
<1> QED
  BY <1>1, <1>2

\* What is queued of a channel.
LEMMA QueuedPending ==
    ASSUME NEW id \in Kind, NEW c
    PROVE  Queued([id |-> id, cid |-> c]) <=> id \in Pending(queue, c)
BY DEF Queued, Pending, About

\* The client is known, and a restart finds no connection.
LEMMA LifeSays == TypeOK /\ LifeInv => NoGhostClient /\ RestartFindsNoLink
<1> SUFFICES ASSUME TypeOK, LifeInv PROVE NoGhostClient /\ RestartFindsNoLink
  OBVIOUS
<1>1. \A c \in Cid : Life(c, Pending(queue, c), conn[c], link[c], client, untold)
  BY DEF LifeInv, ChannelInv, Lives
<1>2. {"GATT_DISCONNECT_IND", "ATT_SUCCESS", "ATT_INITIATING"} \subseteq Kind
  BY DEF Kind, StackKind, AppKind
<1>3. NoGhostClient
  <2>1. ASSUME client # NULL
        PROVE  \/ conn[client] = "up" \/ "GATT_DISCONNECT_IND" \in Pending(queue, client)
               \/ client \in untold
    <3>1. client \in Cid
      BY <2>1, Typed
    <3>2. Life(client, Pending(queue, client), conn[client], link[client], client, untold)
      BY <1>1, <3>1
    <3> QED
      BY <3>2 DEF Life
  <2> QED
    BY <1>2, <2>1, QueuedPending DEF NoGhostClient
<1>4. libState # "initialised" => \A c \in Cid : conn[c] = "none"
  BY DEF LifeInv, AskedWhenStarted, NoLink
<1>5. ASSUME NEW c \in Cid, "ATT_SUCCESS" \in Pending(queue, c)
      PROVE  conn[c] # "none" \/ "ATT_INITIATING" \in Pending(queue, c)
  <2>1. Life(c, Pending(queue, c), conn[c], link[c], client, untold)
    BY <1>1
  <2> QED
    BY <1>5, <2>1 DEF Life
<1>6. \A c \in Cid : Queued([id |-> "ATT_SUCCESS", cid |-> c]) => Known(c)
  BY <1>2, <1>5, QueuedPending DEF Known
<1> QED
  BY <1>3, <1>4, <1>6 DEF RestartFindsNoLink

-----------------------------------------------------------------------------
(* The start and the request                                               *)

Answered(id, ok) == [id |-> id, ok |-> ok]
ConnectRequest == [id |-> "CONNECT_REQ"]

\* With the stack's requests s and the queue q, the start goes on.
Starts(s, q) ==
    \/ s.register > 0 \/ s.add_db > 0
    \/ InQ(q, Answered("ATT_REGISTER_CFM", TRUE)) \/ InQ(q, Answered("ATT_ADD_DB_CFM", TRUE))

\* With records r, channels l, conn_req_task t and h requests held, the request goes on.
Connects(t, h, r, s, l, q) ==
    \/ s.connect > 0
    \/ \E c \in Cid : \/ l[c] # "free"
                      \/ /\ InQ(q, About("ATT_DISCONNECT_IND", c))
                         /\ r[c] # "none" \/ InQ(q, About("ATT_INITIATING", c))
    \/ ~t /\ (\/ h > 0 \/ InQ(q, ConnectRequest) \/ InQ(q, Answered("GATT_INIT_CFM", TRUE))
              \/ \E c \in Cid : InQ(q, About("GATT_DISCONNECT_IND", c)))

\* A request that is outstanding is with the stack, or on its way to a connection.
Outstanding(t, s, l, q) ==
    t => \/ s.connect > 0
         \/ \E c \in Cid : l[c] = "initiating" \/ InQ(q, About("ATT_SUCCESS", c))

\* As long as the stack refuses nothing, nobody hears of a refusal, the library is
\* started or its start goes on, and an outstanding request is with the stack or on
\* its way to a connection; and a phone can connect.  i is initialised, L the library's
\* state.
Calm(i, L, t, h, r, s, l, q) ==
    /\ \A id \in {"GATT_INIT_CFM", "ATT_REGISTER_CFM", "ATT_ADD_DB_CFM"} :
          ~InQ(q, Answered(id, FALSE))
    /\ \A c \in Cid : ~InQ(q, About("ATT_FAILURE", c))
    /\ L = "uninitialised" => ~i /\ ~InQ(q, Answered("GATT_INIT_CFM", TRUE))
    /\ L = "initialising" => Starts(s, q)
    /\ Outstanding(t, s, l, q)
    /\ i /\ L = "initialised" => Connects(t, h, r, s, l, q)

AllCalm == Calm(initialised, libState, conn_req_task, held, conn, stack, link, queue)

ReachInv == failures = 0 /\ untold = {} => AllCalm

\* It says that the headset stays reachable.
LEMMA ReachSays == TypeOK /\ ReachInv => StaysReachable
<1> SUFFICES ASSUME TypeOK, ReachInv, initialised, failures = 0, untold = {}
             PROVE  IF libState = "initialised" THEN RequestGoesOn ELSE StartGoesOn
  BY DEF StaysReachable
<1>1. Calm(initialised, libState, conn_req_task, held, conn, stack, link, queue)
  BY DEF ReachInv, AllCalm
<1>2. \A m : Queued(m) <=> InQ(queue, m)
  BY DEF Queued, InQ
<1>3. Starts(stack, queue) => StartGoesOn
  BY <1>2 DEF Starts, StartGoesOn, Answered
<1>4. Connects(conn_req_task, held, conn, stack, link, queue) => RequestGoesOn
  <2>1. \A c \in Cid : InQ(queue, About("ATT_DISCONNECT_IND", c))
                       /\ (conn[c] # "none" \/ InQ(queue, About("ATT_INITIATING", c)))
                       => Queued([id |-> "ATT_DISCONNECT_IND", cid |-> c]) /\ Known(c)
    BY <1>2 DEF Known, About
  <2>2. \A c : InQ(queue, About("GATT_DISCONNECT_IND", c))
               => Queued([id |-> "GATT_DISCONNECT_IND", cid |-> c])
    BY <1>2 DEF About
  <2>3. /\ InQ(queue, ConnectRequest) => Queued([id |-> "CONNECT_REQ"])
        /\ InQ(queue, Answered("GATT_INIT_CFM", TRUE))
           => Queued([id |-> "GATT_INIT_CFM", ok |-> TRUE])
    BY <1>2 DEF ConnectRequest, Answered
  <2> QED
    BY <2>1, <2>2, <2>3 DEF Connects, RequestGoesOn
<1>5. libState = "uninitialised" \/ libState = "initialising" \/ libState = "initialised"
  BY DEF TypeOK
<1> QED
  BY <1>1, <1>3, <1>4, <1>5 DEF Calm

\* Messages are told apart by what they say.
LEMMA Ids ==
    /\ \A id, ok : Answered(id, ok).id = id
    /\ \A id, c : About(id, c).id = id /\ About(id, c).cid = c
    /\ ConnectRequest.id = "CONNECT_REQ"
    /\ \A id, ok, a, c : Answered(id, ok) # About(a, c)
BY DEF Answered, About, ConnectRequest

\* A message was taken and others sent, or only sent.
Took(new) ==
    /\ \A x : InQ(queue', x) => InQ(queue, x) \/ x \in new
    /\ \A x \in new : InQ(queue', x)
    /\ \A x : InQ(queue, x) /\ x # Head(queue) => InQ(queue', x)

Sent(new) == \A x : InQ(queue', x) <=> InQ(queue, x) \/ x \in new

\* Which is what Tail and \\o do to the queue.
LEMMA QueueTaken ==
    ASSUME TypeOK, queue # <<>>, NEW m \in Message, NEW n \in Message
    PROVE  /\ Head(queue) \in Message /\ InQ(queue, Head(queue))
           /\ queue' = Tail(queue) \/ queue' = Tail(queue) \o <<>> => Took({})
           /\ queue' = Tail(queue) \o <<m>> => Took({m})
           /\ queue' = Tail(queue) \o <<m, n>> => Took({m, n})
<1> DEFINE t == Tail(queue)
<1>1. /\ t \in Seq(Message) /\ Head(queue) \in Message /\ InQ(queue, Head(queue))
      /\ \A x : InQ(t, x) => InQ(queue, x)
      /\ \A x : InQ(queue, x) /\ x # Head(queue) => InQ(t, x)
  BY Typed, InTail
<1>2. t \o <<>> = t /\ t \o <<m>> = Append(t, m) /\ t \o <<m, n>> = Append(Append(t, m), n)
  BY <1>1, Concatenated
<1> HIDE DEF t
<1>3. Append(t, m) \in Seq(Message) /\ \A x : InQ(Append(t, m), x) <=> InQ(t, x) \/ x = m
  BY <1>1, InAppend
<1>4. \A x : InQ(Append(Append(t, m), n), x) <=> InQ(Append(t, m), x) \/ x = n
  <2> DEFINE p == Append(t, m)
  <2>1. p \in Seq(Message)
    BY <1>3
  <2> HIDE DEF p
  <2>2. \A x : InQ(Append(p, n), x) <=> InQ(p, x) \/ x = n
    BY <2>1, InAppend
  <2> QED
    BY <2>2 DEF p
<1>5. queue' = t \/ queue' = t \o <<>> => Took({})
  BY <1>1, <1>2 DEF Took
<1>6. queue' = t \o <<m>> => Took({m})
  BY <1>1, <1>2, <1>3 DEF Took
<1>7. queue' = t \o <<m, n>> => Took({m, n})
  BY <1>1, <1>2, <1>3, <1>4 DEF Took
<1> QED
  BY <1>1, <1>5, <1>6, <1>7 DEF t

\* And Append.
LEMMA QueueSentTo ==
    ASSUME TypeOK, NEW m \in Message, queue' = Append(queue, m)
    PROVE  Sent({m})
<1>1. \A x : InQ(Append(queue, m), x) <=> InQ(queue, x) \/ x = m
  BY Typed, InAppend
<1> QED
  BY <1>1 DEF Sent

\* What no part of Calm speaks of changes nothing.
Deciding == {"GATT_INIT_CFM", "ATT_REGISTER_CFM", "ATT_ADD_DB_CFM", "CONNECT_REQ",
             "ATT_SUCCESS", "ATT_FAILURE", "ATT_DISCONNECT_IND", "GATT_DISCONNECT_IND"}

\* A step that says nothing that decides leaves what is decided.
LEMMA CalmUnmoved ==
    ASSUME NEW i, NEW L, NEW t, NEW h, NEW r, NEW r2, NEW s, NEW s2, NEW l, NEW l2,
           NEW q, NEW p,
           Calm(i, L, t, h, r, s, l, q),
           \A x : x.id \in Deciding => (InQ(p, x) <=> InQ(q, x)),
           \A c \in Cid :
               InQ(q, About("ATT_DISCONNECT_IND", c))
               /\ (r[c] # "none" \/ InQ(q, About("ATT_INITIATING", c)))
               => r2[c] # "none" \/ InQ(p, About("ATT_INITIATING", c)),
           \A c \in Cid : (l2[c] = "free" <=> l[c] = "free")
                          /\ (l[c] = "initiating" => l2[c] = "initiating"),
           s2.register = s.register, s2.add_db = s.add_db, s2.connect = s.connect
    PROVE  Calm(i, L, t, h, r2, s2, l2, p)
<1>1. /\ \A id \in {"GATT_INIT_CFM", "ATT_REGISTER_CFM", "ATT_ADD_DB_CFM"} : \A ok :
            InQ(p, Answered(id, ok)) <=> InQ(q, Answered(id, ok))
      /\ \A id \in {"ATT_SUCCESS", "ATT_FAILURE", "ATT_DISCONNECT_IND", "GATT_DISCONNECT_IND"} :
            \A c : InQ(p, About(id, c)) <=> InQ(q, About(id, c))
      /\ InQ(p, ConnectRequest) <=> InQ(q, ConnectRequest)
  BY Ids DEF Deciding
<1>2. Starts(s, q) => Starts(s2, p)
  BY <1>1 DEF Starts
<1>c. s.connect > 0 <=> s2.connect > 0
  OBVIOUS
<1>d. /\ InQ(p, Answered("GATT_INIT_CFM", TRUE)) <=> InQ(q, Answered("GATT_INIT_CFM", TRUE))
      /\ \A c \in Cid : InQ(p, About("ATT_SUCCESS", c)) <=> InQ(q, About("ATT_SUCCESS", c))
      /\ \A c \in Cid : InQ(p, About("ATT_FAILURE", c)) <=> InQ(q, About("ATT_FAILURE", c))
      /\ \A c \in Cid :
            InQ(p, About("ATT_DISCONNECT_IND", c)) <=> InQ(q, About("ATT_DISCONNECT_IND", c))
      /\ \A c \in Cid :
            InQ(p, About("GATT_DISCONNECT_IND", c)) <=> InQ(q, About("GATT_DISCONNECT_IND", c))
      /\ InQ(p, ConnectRequest) <=> InQ(q, ConnectRequest)
  <2>1. InQ(p, Answered("GATT_INIT_CFM", TRUE)) <=> InQ(q, Answered("GATT_INIT_CFM", TRUE))
    BY <1>1, Zenon
  <2>2. \A id \in {"ATT_SUCCESS", "ATT_FAILURE", "ATT_DISCONNECT_IND", "GATT_DISCONNECT_IND"} :
            \A c : InQ(p, About(id, c)) <=> InQ(q, About(id, c))
    BY <1>1, Zenon
  <2> QED
    BY <1>1, <2>1, <2>2, Zenon
<1>e. \A id \in {"GATT_INIT_CFM", "ATT_REGISTER_CFM", "ATT_ADD_DB_CFM"} :
          InQ(p, Answered(id, FALSE)) <=> InQ(q, Answered(id, FALSE))
  BY <1>1
<1>3. Connects(t, h, r, s, l, q) => Connects(t, h, r2, s2, l2, p)
  <2>1. ASSUME NEW c \in Cid,
               \/ l[c] # "free"
               \/ /\ InQ(q, About("ATT_DISCONNECT_IND", c))
                  /\ r[c] # "none" \/ InQ(q, About("ATT_INITIATING", c))
        PROVE  Connects(t, h, r2, s2, l2, p)
    BY <1>d, <2>1, Zenon DEF Connects
  <2>2. ASSUME ~t /\ (\/ h > 0 \/ InQ(q, ConnectRequest) \/ InQ(q, Answered("GATT_INIT_CFM", TRUE))
                      \/ \E c \in Cid : InQ(q, About("GATT_DISCONNECT_IND", c)))
        PROVE  Connects(t, h, r2, s2, l2, p)
    BY <1>d, <2>2, Zenon DEF Connects
  <2>3. s.connect > 0 => Connects(t, h, r2, s2, l2, p)
    BY <1>c, Zenon DEF Connects
  <2> QED
    BY <2>1, <2>2, <2>3, Zenon DEF Connects
<1>4. /\ \A id \in {"GATT_INIT_CFM", "ATT_REGISTER_CFM", "ATT_ADD_DB_CFM"} :
            ~InQ(p, Answered(id, FALSE))
      /\ \A c \in Cid : ~InQ(p, About("ATT_FAILURE", c))
      /\ L = "uninitialised" => ~i /\ ~InQ(p, Answered("GATT_INIT_CFM", TRUE))
  BY <1>d, <1>e, Zenon DEF Calm
<1>5. Outstanding(t, s2, l2, p)
  BY <1>c, <1>d, Zenon DEF Calm, Outstanding
<1> QED
  BY <1>2, <1>3, <1>4, <1>5, Zenon DEF Calm

\* A step that says nothing that decides.
LEMMA Unmoved ==
    ASSUME AllCalm, initialised' = initialised, libState' = libState,
           conn_req_task' = conn_req_task, held' = held,
           \A x : x.id \in Deciding => (InQ(queue', x) <=> InQ(queue, x)),
           \A c \in Cid :
               InQ(queue, About("ATT_DISCONNECT_IND", c))
               /\ (conn[c] # "none" \/ InQ(queue, About("ATT_INITIATING", c)))
               => conn'[c] # "none" \/ InQ(queue', About("ATT_INITIATING", c)),
           \A c \in Cid : (link'[c] = "free" <=> link[c] = "free")
                          /\ (link[c] = "initiating" => link'[c] = "initiating"),
           stack'.register = stack.register, stack'.add_db = stack.add_db,
           stack'.connect = stack.connect
    PROVE  AllCalm'
<1> DEFINE r2 == conn'
           s2 == stack'
           l2 == link'
           p  == queue'
<1>1. Calm(initialised, libState, conn_req_task, held, conn, stack, link, queue)
  BY DEF AllCalm
<1>2. \A c \in Cid :
          InQ(queue, About("ATT_DISCONNECT_IND", c))
          /\ (conn[c] # "none" \/ InQ(queue, About("ATT_INITIATING", c)))
          => r2[c] # "none" \/ InQ(p, About("ATT_INITIATING", c))
  OBVIOUS
<1>3. \A c \in Cid : (l2[c] = "free" <=> link[c] = "free")
                     /\ (link[c] = "initiating" => l2[c] = "initiating")
  OBVIOUS
<1>4. s2.register = stack.register /\ s2.add_db = stack.add_db /\ s2.connect = stack.connect
  OBVIOUS
<1>5. \A x : x.id \in Deciding => (InQ(p, x) <=> InQ(queue, x))
  OBVIOUS
<1> HIDE DEF r2, s2, l2, p
<1>6. Calm(initialised, libState, conn_req_task, held, r2, s2, l2, p)
  BY <1>1, <1>2, <1>3, <1>4, <1>5, CalmUnmoved
<1>7. Calm(initialised', libState', conn_req_task', held', r2, s2, l2, p)
  BY <1>6, Zenon
<1> QED
  BY <1>7 DEF AllCalm, r2, s2, l2, p

\* Such are the switches, and the messages and answers that are only passed on.
LEMMA PassedCalm ==
    ASSUME TypeOK, LifeInv, AllCalm,
           \/ ButtonC \/ DisableBleAdvertising \/ WechatConnectInd \/ StackSetsData(TRUE)
           \/ HandleConnectInitialising \/ HandleConnectFailure \/ HandleConnectSuccess
           \/ SlcConnects \/ ResetPairedDeviceList \/ HandleDisconnectReq
           \/ HandleAttInitiating \/ HandleDeleteConn
    PROVE  AllCalm'
<1>t. /\ queue \in Seq(Message) /\ conn \in [Cid -> Record] /\ NULL \notin Cid
      /\ client \in Cid \cup {NULL}
      /\ link \in [Cid -> {"free", "initiating", "up", "ending"}]
      /\ stack \in [register : Nat, add_db : Nat, set_data : Nat, connect : Nat]
  BY Typed DEF TypeOK
<1>l. \A c \in Cid : Life(c, Pending(queue, c), conn[c], link[c], client, untold)
  BY DEF LifeInv, ChannelInv, Lives
<1>p. \A id \in Kind : \A c : InQ(queue, About(id, c)) <=> id \in Pending(queue, c)
  BY PendingIn
<1>1. /\ initialised' = initialised /\ libState' = libState
      /\ conn_req_task' = conn_req_task /\ held' = held
  BY Zenon DEF ButtonC, DisableBleAdvertising, WechatConnectInd, StackSetsData,
     HandleConnectInitialising, HandleConnectFailure, HandleConnectSuccess, SlcConnects,
     ResetPairedDeviceList, HandleDisconnectReq, HandleAttInitiating, HandleDeleteConn, app, lib
<1>2. /\ stack'.register = stack.register /\ stack'.add_db = stack.add_db
      /\ stack'.connect = stack.connect
  <2>1. StackSetsData(TRUE) => /\ stack'.register = stack.register
                               /\ stack'.add_db = stack.add_db /\ stack'.connect = stack.connect
    BY <1>t DEF StackSetsData
  <2>2. StackSetsData(TRUE) \/ stack' = stack
    BY Zenon DEF ButtonC, DisableBleAdvertising, WechatConnectInd,
       HandleConnectInitialising, HandleConnectFailure, HandleConnectSuccess, SlcConnects,
       ResetPairedDeviceList, HandleDisconnectReq, HandleAttInitiating, HandleDeleteConn, air
  <2> QED
    BY <2>1, <2>2
<1>3. \A c \in Cid : (link'[c] = "free" <=> link[c] = "free")
                     /\ (link[c] = "initiating" => link'[c] = "initiating")
  <2>1. CASE HandleDisconnectReq
    BY <1>t, <2>1 DEF HandleDisconnectReq
  <2>2. HandleDisconnectReq \/ link' = link
    BY Zenon DEF ButtonC, DisableBleAdvertising, WechatConnectInd, StackSetsData,
       HandleConnectInitialising, HandleConnectFailure, HandleConnectSuccess, SlcConnects,
       ResetPairedDeviceList, HandleAttInitiating, HandleDeleteConn, air
  <2> QED
    BY <2>1, <2>2
<1>q. CASE ButtonC \/ DisableBleAdvertising \/ WechatConnectInd \/ StackSetsData(TRUE)
  <2>1. queue' = queue /\ conn' = conn
    BY <1>q, Zenon DEF ButtonC, DisableBleAdvertising, WechatConnectInd, StackSetsData, lib
  <2> QED
    BY <1>1, <1>2, <1>3, <2>1, Unmoved
<1>s. CASE SlcConnects \/ ResetPairedDeviceList
  <2> DEFINE m == [id |-> "SLC_CONNECTED"]
             n == [id |-> "DISCONNECT_REQ", cid |-> client]
  <2>1. m.id \notin Deciding \cup {"ATT_INITIATING"} /\ n.id \notin Deciding \cup {"ATT_INITIATING"}
    BY DEF Deciding
  <2>2. Sent({m}) \/ Sent({n})
    <3>1. CASE SlcConnects
      <4>1. queue' = Append(queue, m) /\ m \in Message
        BY <3>1, Messages DEF SlcConnects
      <4> HIDE DEF m
      <4> QED
        BY <4>1, QueueSentTo
    <3>2. CASE ResetPairedDeviceList
      <4>1. queue' = Append(queue, n) /\ n \in Message
        BY <1>t, <3>2, Messages DEF ResetPairedDeviceList
      <4> HIDE DEF n
      <4> QED
        BY <4>1, QueueSentTo
    <3> QED
      BY <1>s, <3>1, <3>2
  <2> HIDE DEF m, n
  <2>3. /\ \A x : x.id \in Deciding => (InQ(queue', x) <=> InQ(queue, x))
        /\ \A x : InQ(queue, x) => InQ(queue', x)
    BY <2>1, <2>2 DEF Sent
  <2>4. conn' = conn
    BY <1>s DEF SlcConnects, ResetPairedDeviceList, lib
  <2> QED
    BY <1>1, <1>2, <1>3, <2>3, <2>4, Unmoved
<1>h. CASE \/ HandleConnectInitialising \/ HandleConnectFailure \/ HandleConnectSuccess
           \/ HandleDisconnectReq \/ HandleDeleteConn
  <2>1. /\ queue # <<>> /\ queue' = Tail(queue)
        /\ Head(queue).id \notin Deciding \cup {"ATT_INITIATING"}
    BY <1>h DEF HandleConnectInitialising, HandleConnectFailure, HandleConnectSuccess,
       HandleDisconnectReq, HandleDeleteConn, LibNext, Next1, Done, Deciding
  <2>2. Took({})
    BY <2>1, QueueTaken, Messages
  <2>3. /\ \A x : x.id \in Deciding => (InQ(queue', x) <=> InQ(queue, x))
        /\ \A c : InQ(queue, About("ATT_INITIATING", c)) => InQ(queue', About("ATT_INITIATING", c))
    BY <2>1, <2>2, Ids DEF Took
  <2>4. ASSUME NEW c \in Cid, conn'[c] # conn[c]
        PROVE  ~InQ(queue, About("ATT_DISCONNECT_IND", c))
    <3>1. HandleDeleteConn \/ conn' = conn
      BY <1>h DEF HandleConnectInitialising, HandleConnectFailure, HandleConnectSuccess,
         HandleDisconnectReq, lib
    <3>2. HandleDeleteConn /\ Head(queue).id = "DELETE_CONN" /\ c = Head(queue).cid
      BY <1>t, <2>4, <3>1 DEF HandleDeleteConn, DeleteCid, LibNext, Next1
    <3>3. Head(queue) \in Message /\ InQ(queue, Head(queue))
      BY <2>1, QueueTaken, Messages
    <3>4. {"DELETE_CONN", "ATT_DISCONNECT_IND"} \subseteq Kind
      BY DEF Kind, OwnKind, StackKind
    <3>5. Head(queue) = About("DELETE_CONN", c)
      BY <3>2, <3>3, <3>4, KindAbout
    <3>6. "DELETE_CONN" \in Pending(queue, c)
      BY <1>p, <3>3, <3>4, <3>5
    <3>7. Life(c, Pending(queue, c), conn[c], link[c], client, untold)
      BY <1>l
    <3>8. "ATT_DISCONNECT_IND" \notin Pending(queue, c)
      BY <3>6, <3>7 DEF Life
    <3> QED
      BY <1>p, <3>4, <3>8
  <2>5. \A c \in Cid :
            InQ(queue, About("ATT_DISCONNECT_IND", c))
            /\ (conn[c] # "none" \/ InQ(queue, About("ATT_INITIATING", c)))
            => conn'[c] # "none" \/ InQ(queue', About("ATT_INITIATING", c))
    BY <2>3, <2>4
  <2> QED
    BY <1>1, <1>2, <1>3, <2>3, <2>5, Unmoved
<1>i. CASE HandleAttInitiating
  <2> DEFINE c == Head(queue).cid
             n == [id |-> "GATT_CONNECT_INITIALISING", cid |-> c]
  <2>1. queue # <<>> /\ Head(queue).id = "ATT_INITIATING" /\ queue' = Tail(queue) \o <<n>>
    BY <1>i DEF HandleAttInitiating, LibNext, Next1, DoneAndSend
  <2>2. Head(queue) \in Message /\ n.id = "GATT_CONNECT_INITIALISING"
    BY <2>1, QueueTaken, Messages
  <2>3. c \in Cid /\ n \in Message
    BY <2>1, <2>2, MessageFields, Messages
  <2>4. Head(queue) = About("ATT_INITIATING", c)
    BY <2>1, <2>2, KindAbout DEF Kind, StackKind
  <2>5. conn' = [conn EXCEPT ![c] = IF @ = "none" THEN "connecting" ELSE @]
    BY <1>t, <1>i DEF HandleAttInitiating
  <2> HIDE DEF c, n
  <2>6. Took({n})
    BY <2>1, <2>3, QueueTaken
  <2>7. \A x : x.id \in Deciding => (InQ(queue', x) <=> InQ(queue, x))
    BY <2>1, <2>2, <2>6 DEF Took, Deciding
  <2>8. \A e \in Cid : conn[e] # "none" => conn'[e] # "none"
    BY <1>t, <2>3, <2>5
  <2>9. conn'[c] # "none"
    BY <1>t, <2>3, <2>5
  <2>10. \A e \in Cid \ {c} :
             InQ(queue, About("ATT_INITIATING", e)) => InQ(queue', About("ATT_INITIATING", e))
    <3>1. \A e \in Cid \ {c} : About("ATT_INITIATING", e) # Head(queue)
      BY <2>4, AboutDiffers
    <3> QED
      BY <2>6, <3>1 DEF Took
  <2> QED
    BY <1>1, <1>2, <1>3, <2>7, <2>8, <2>9, <2>10, Unmoved
<1> QED
  BY <1>q, <1>s, <1>h, <1>i

\* The answers are told apart, and from what is said of channels.
LEMMA AnswersDiffer ==
    /\ \A a, b : a # b => Answered(a, TRUE) # Answered(b, TRUE)
    /\ \A a, id, c : About(id, c) # Answered(a, TRUE)
BY DEF Answered, About

\* A message of the library's start says whether it was refused.
LEMMA AnsweredHead ==
    ASSUME TypeOK, AllCalm, NEW id \in {"GATT_INIT_CFM", "ATT_REGISTER_CFM", "ATT_ADD_DB_CFM"},
           queue # <<>>, Head(queue).id = id
    PROVE  Head(queue) = Answered(id, TRUE) /\ Head(queue).ok
<1>1. Head(queue) \in Message /\ InQ(queue, Head(queue))
  BY QueueTaken, Messages
<1>2. Head(queue).ok \in BOOLEAN /\ Head(queue) = Answered(id, Head(queue).ok)
  BY <1>1 DEF Message, AppMessage, LibMessage, Answered
<1>3. ~InQ(queue, Answered(id, FALSE))
  BY Zenon DEF AllCalm, Calm
<1>4. Head(queue).ok = TRUE
  BY <1>1, <1>2, <1>3, Zenon
<1> QED
  BY <1>2, <1>4, Zenon

\* What Connects asks for stays.
LEMMA ConnectsStays ==
    ASSUME Connects(conn_req_task, held, conn, stack, link, queue),
           conn_req_task' = conn_req_task, held' = held, conn' = conn, link' = link,
           stack'.connect = stack.connect,
           \A x : InQ(queue, x) => InQ(queue', x)
    PROVE  Connects(conn_req_task', held', conn', stack', link', queue')
<1>1. stack'.connect > 0 <=> stack.connect > 0
  OBVIOUS
<1> QED
  BY <1>1, Zenon DEF Connects

\* What a request is waited for stays.
LEMMA OutstandingStays ==
    ASSUME AllCalm, conn_req_task' = conn_req_task, link' = link,
           stack'.connect = stack.connect,
           \A c : InQ(queue, About("ATT_SUCCESS", c)) => InQ(queue', About("ATT_SUCCESS", c))
    PROVE  Outstanding(conn_req_task', stack', link', queue')
<1>1. stack'.connect > 0 <=> stack.connect > 0
  OBVIOUS
<1>2. conn_req_task => \/ stack.connect > 0
                       \/ \E c \in Cid : \/ link[c] = "initiating"
                                         \/ InQ(queue, About("ATT_SUCCESS", c))
  BY Zenon DEF AllCalm, Calm, Outstanding
<1> QED
  BY <1>1, <1>2, Zenon DEF Outstanding

\* The start goes on until GATT is initialised.
LEMMA StartCalm ==
    ASSUME TypeOK, LifeInv, AllCalm,
           \/ HandleSlcConnected \/ HandleInitCfm \/ HandleAttRegisterCfm \/ HandleAttAddDbCfm
           \/ StackRegisters(TRUE) \/ StackAddsDb(TRUE)
    PROVE  AllCalm'
<1>t. stack \in [register : Nat, add_db : Nat, set_data : Nat, connect : Nat]
  BY DEF TypeOK
<1>n. ~initialised \/ libState # "initialised" => ~conn_req_task
  BY Zenon DEF LifeInv, AskedWhenStarted, NoLink
<1>a. /\ \A id \in {"GATT_INIT_CFM", "ATT_REGISTER_CFM", "ATT_ADD_DB_CFM"} :
            ~InQ(queue, Answered(id, FALSE))
      /\ \A c \in Cid : ~InQ(queue, About("ATT_FAILURE", c))
      /\ libState = "uninitialised" =>
            ~initialised /\ ~InQ(queue, Answered("GATT_INIT_CFM", TRUE))
      /\ libState = "initialising" => Starts(stack, queue)
      /\ initialised /\ libState = "initialised"
            => Connects(conn_req_task, held, conn, stack, link, queue)
  BY Zenon DEF AllCalm, Calm
\* Nothing new is a refusal.
<1>b. ASSUME NEW new, Took(new) \/ Sent(new),
             new \subseteq {ConnectRequest} \cup
                 {Answered(id, TRUE) : id \in {"GATT_INIT_CFM", "ATT_REGISTER_CFM", "ATT_ADD_DB_CFM"}}
      PROVE  /\ \A id \in {"GATT_INIT_CFM", "ATT_REGISTER_CFM", "ATT_ADD_DB_CFM"} :
                   ~InQ(queue', Answered(id, FALSE))
             /\ \A c \in Cid : ~InQ(queue', About("ATT_FAILURE", c))
  <2>1. \A x : InQ(queue', x) => InQ(queue, x) \/ x \in new
    BY <1>b, Zenon DEF Took, Sent
  <2>2. \A x \in new : x = ConnectRequest \/ \E id : x = Answered(id, TRUE)
    BY <1>b
  <2>3. \A id, ok : Answered(id, ok).id = id
    BY Ids
  <2>4. \A id, c : About(id, c).id = id /\ \A a, ok : Answered(a, ok) # About(id, c)
    BY Ids
  <2>5. ConnectRequest.id = "CONNECT_REQ"
    BY Ids
  <2>6. \A id \in {"GATT_INIT_CFM", "ATT_REGISTER_CFM", "ATT_ADD_DB_CFM"} :
            Answered(id, FALSE) \notin new
    <3>1. \A id \in {"GATT_INIT_CFM", "ATT_REGISTER_CFM", "ATT_ADD_DB_CFM"} :
              Answered(id, FALSE) # ConnectRequest
      BY <2>3, <2>5
    <3>2. \A id, a : Answered(id, FALSE) # Answered(a, TRUE)
      BY DEF Answered
    <3> QED
      BY <2>2, <3>1, <3>2, Zenon
  <2>7. \A c \in Cid : About("ATT_FAILURE", c) \notin new
    <3>1. \A c : About("ATT_FAILURE", c) # ConnectRequest
      BY <2>4, <2>5
    <3>2. \A a, c : Answered(a, TRUE) # About("ATT_FAILURE", c)
      BY <2>4
    <3> QED
      BY <2>2, <3>1, <3>2, Zenon
  <2> QED
    BY <1>a, <2>1, <2>6, <2>7, Zenon
<1>1. CASE HandleSlcConnected
  <2>1. queue # <<>> /\ Head(queue).id = "SLC_CONNECTED" /\ queue' = Tail(queue)
    BY <1>1 DEF HandleSlcConnected, Next1, Done
  <2>2. Took({})
    BY <2>1, QueueTaken, Messages
  <2>3. \A x : x.id # "SLC_CONNECTED" => (InQ(queue', x) <=> InQ(queue, x))
    BY <2>1, <2>2 DEF Took
  <2>4. /\ initialised' = initialised /\ conn_req_task' = conn_req_task /\ conn' = conn
        /\ held' = held /\ link' = link
    BY <1>1, Zenon DEF HandleSlcConnected
  <2>5. CASE initialised
    <3>1. libState' = libState /\ stack' = stack
      BY <1>1, <2>5, Zenon DEF HandleSlcConnected
    <3>2. /\ \A x : x.id \in Deciding => (InQ(queue', x) <=> InQ(queue, x))
          /\ \A c : InQ(queue, About("ATT_INITIATING", c)) => InQ(queue', About("ATT_INITIATING", c))
      BY <2>3, Ids DEF Deciding
    <3> QED
      BY <2>4, <3>1, <3>2, Unmoved
  <2>6. CASE ~initialised
    <3>1. /\ libState' = "initialising"
          /\ \E n \in NameSizes :
                 stack' = [register |-> stack.register + 1, add_db |-> stack.add_db,
                           set_data |-> setup_ble_ad_data(n), connect |-> stack.connect]
      BY <1>1, <2>6, Zenon DEF HandleSlcConnected
    <3>2. stack'.register > 0 /\ stack'.connect = stack.connect
      BY <1>t, <3>1
    <3>3. \A c : InQ(queue, About("ATT_SUCCESS", c)) => InQ(queue', About("ATT_SUCCESS", c))
      BY <2>3, Ids
    <3>4. Starts(stack', queue')
      BY <3>2, Zenon DEF Starts
    <3>5. Outstanding(conn_req_task', stack', link', queue')
      BY <2>4, <3>2, <3>3, OutstandingStays
    <3>6. libState' # "uninitialised" /\ libState' # "initialised"
      BY <3>1
    <3>7. {} \subseteq {ConnectRequest} \cup
              {Answered(id, TRUE) : id \in {"GATT_INIT_CFM", "ATT_REGISTER_CFM", "ATT_ADD_DB_CFM"}}
      OBVIOUS
    <3>8. /\ \A id \in {"GATT_INIT_CFM", "ATT_REGISTER_CFM", "ATT_ADD_DB_CFM"} :
                ~InQ(queue', Answered(id, FALSE))
          /\ \A c \in Cid : ~InQ(queue', About("ATT_FAILURE", c))
      BY <1>b, <2>2, <3>7
    <3> QED
      BY <3>4, <3>5, <3>6, <3>8, Zenon DEF AllCalm, Calm
  <2> QED
    BY <2>5, <2>6
<1>2. CASE HandleInitCfm
  <2>1. queue # <<>> /\ Head(queue).id = "GATT_INIT_CFM"
    BY <1>2 DEF HandleInitCfm, Next1
  <2>2. Head(queue) = Answered("GATT_INIT_CFM", TRUE) /\ Head(queue).ok
    BY <2>1, AnsweredHead
  <2>3. initialised' /\ queue' = Tail(queue) \o <<ConnectRequest>>
    BY <1>2, <2>2, Zenon DEF HandleInitCfm, DoneAndSend, ConnectRequest
  <2>4. Took({ConnectRequest})
    <3>1. ConnectRequest \in Message
      BY Messages DEF ConnectRequest
    <3> QED
      BY <2>1, <2>3, <3>1, QueueTaken
  <2>5. /\ libState' = libState /\ conn_req_task' = conn_req_task /\ conn' = conn
        /\ held' = held /\ link' = link /\ stack' = stack
    BY <1>2, Zenon DEF HandleInitCfm, lib, air
  <2>6. libState # "uninitialised"
    BY <1>a, <2>1, <2>2, QueueTaken, Messages
  <2>7. Starts(stack, queue) => Starts(stack', queue')
    <3>1. /\ Answered("ATT_REGISTER_CFM", TRUE) # Head(queue)
          /\ Answered("ATT_ADD_DB_CFM", TRUE) # Head(queue)
      <4>1. "ATT_REGISTER_CFM" # "GATT_INIT_CFM" /\ "ATT_ADD_DB_CFM" # "GATT_INIT_CFM"
        OBVIOUS
      <4> QED
        BY <2>2, <4>1, AnswersDiffer, Zenon
    <3> QED
      BY <2>4, <2>5, <3>1, Zenon DEF Took, Starts
  <2>8. \A id, c : InQ(queue, About(id, c)) => InQ(queue', About(id, c))
    BY <2>2, <2>4, AnswersDiffer, Zenon DEF Took
  <2>9. Connects(conn_req_task', held', conn', stack', link', queue') \/ libState # "initialised"
    <3>1. InQ(queue', ConnectRequest)
      BY <2>4 DEF Took
    <3>2. CASE ~conn_req_task
      BY <2>5, <3>1, <3>2, Zenon DEF Connects
    <3>3. CASE conn_req_task /\ libState = "initialised"
      <4>1. Connects(conn_req_task, held, conn, stack, link, queue)
        BY <1>n, <1>a, <3>3, Zenon
      <4> QED
        BY <2>5, <2>8, <3>3, <4>1, Zenon DEF Connects
    <3> QED
      BY <3>2, <3>3
  <2>10. Outstanding(conn_req_task', stack', link', queue')
    BY <2>5, <2>8, OutstandingStays
  <2>11. {ConnectRequest} \subseteq {ConnectRequest} \cup
              {Answered(id, TRUE) : id \in {"GATT_INIT_CFM", "ATT_REGISTER_CFM", "ATT_ADD_DB_CFM"}}
    OBVIOUS
  <2>12. /\ \A id \in {"GATT_INIT_CFM", "ATT_REGISTER_CFM", "ATT_ADD_DB_CFM"} :
                ~InQ(queue', Answered(id, FALSE))
         /\ \A c \in Cid : ~InQ(queue', About("ATT_FAILURE", c))
    BY <1>b, <2>4, <2>11
  <2> QED
    BY <1>a, <2>5, <2>6, <2>7, <2>9, <2>10, <2>12, Zenon DEF AllCalm, Calm
<1>3. CASE HandleAttRegisterCfm
  <2>1. queue # <<>> /\ Head(queue).id = "ATT_REGISTER_CFM" /\ libState = "initialising"
    BY <1>3 DEF HandleAttRegisterCfm, LibNext, Next1
  <2>2. Head(queue) = Answered("ATT_REGISTER_CFM", TRUE) /\ Head(queue).ok
    BY <2>1, AnsweredHead
  <2>3. /\ stack' = [stack EXCEPT !.add_db = @ + 1] /\ queue' = Tail(queue)
        /\ libState' = libState
    BY <1>3, <2>2, Zenon DEF HandleAttRegisterCfm, Done
  <2>4. Took({})
    BY <2>1, <2>3, QueueTaken, Messages
  <2>5. /\ initialised' = initialised /\ conn_req_task' = conn_req_task
        /\ link' = link
    BY <1>3, Zenon DEF HandleAttRegisterCfm, app
  <2>6. stack'.add_db > 0 /\ stack'.connect = stack.connect
    BY <1>t, <2>3
  <2>7. Starts(stack', queue')
    BY <2>6, Zenon DEF Starts
  <2>8. \A c : InQ(queue, About("ATT_SUCCESS", c)) => InQ(queue', About("ATT_SUCCESS", c))
    BY <2>2, <2>4, AnswersDiffer, Zenon DEF Took
  <2>9. Outstanding(conn_req_task', stack', link', queue')
    BY <2>5, <2>6, <2>8, OutstandingStays
  <2>10. {} \subseteq {ConnectRequest} \cup
              {Answered(id, TRUE) : id \in {"GATT_INIT_CFM", "ATT_REGISTER_CFM", "ATT_ADD_DB_CFM"}}
    OBVIOUS
  <2>11. /\ \A id \in {"GATT_INIT_CFM", "ATT_REGISTER_CFM", "ATT_ADD_DB_CFM"} :
                ~InQ(queue', Answered(id, FALSE))
         /\ \A c \in Cid : ~InQ(queue', About("ATT_FAILURE", c))
    BY <1>b, <2>4, <2>10
  <2>12. libState' # "uninitialised" /\ libState' # "initialised"
    BY <2>1, <2>3
  <2> QED
    BY <2>7, <2>9, <2>11, <2>12, Zenon DEF AllCalm, Calm
<1>4. CASE HandleAttAddDbCfm
  <2>1. queue # <<>> /\ Head(queue).id = "ATT_ADD_DB_CFM" /\ libState = "initialising"
    BY <1>4 DEF HandleAttAddDbCfm, LibNext, Next1
  <2>2. Head(queue) = Answered("ATT_ADD_DB_CFM", TRUE) /\ Head(queue).ok
    BY <2>1, AnsweredHead
  <2> DEFINE n == Answered("GATT_INIT_CFM", TRUE)
  <2>3. libState' = "initialised" /\ queue' = Tail(queue) \o <<n>>
    <3>1. Head(queue).ok = TRUE
      BY <2>2, Zenon DEF Answered
    <3>2. queue' = Tail(queue) \o <<[id |-> "GATT_INIT_CFM", ok |-> Head(queue).ok]>>
      BY <1>4, Zenon DEF HandleAttAddDbCfm, DoneAndSend
    <3> QED
      BY <1>4, <2>2, <3>1, <3>2, Zenon DEF HandleAttAddDbCfm, Answered
  <2>4. conn_req_task' = conn_req_task
    BY <1>4, Zenon DEF HandleAttAddDbCfm
  <2>5. ~conn_req_task'
    BY <1>n, <2>1, <2>4
  <2>6. Took({n})
    <3>1. n \in Message
      BY Messages DEF Answered
    <3> HIDE DEF n
    <3> QED
      BY <2>1, <2>3, <3>1, QueueTaken
  <2>7. Connects(conn_req_task', held', conn', stack', link', queue')
    <3>1. InQ(queue', n)
      BY <2>6 DEF Took
    <3> QED
      BY <2>5, <3>1, Zenon DEF Connects
  <2>8. {n} \subseteq {ConnectRequest} \cup
            {Answered(id, TRUE) : id \in {"GATT_INIT_CFM", "ATT_REGISTER_CFM", "ATT_ADD_DB_CFM"}}
    OBVIOUS
  <2>9. /\ \A id \in {"GATT_INIT_CFM", "ATT_REGISTER_CFM", "ATT_ADD_DB_CFM"} :
                ~InQ(queue', Answered(id, FALSE))
        /\ \A c \in Cid : ~InQ(queue', About("ATT_FAILURE", c))
    BY <1>b, <2>6, <2>8
  <2>10. libState' # "uninitialised" /\ libState' # "initialising"
    BY <2>3
  <2> QED
    BY <2>5, <2>7, <2>9, <2>10, Zenon DEF AllCalm, Calm, Outstanding
<1>5. CASE StackRegisters(TRUE) \/ StackAddsDb(TRUE)
  <2> DEFINE m == Answered("ATT_REGISTER_CFM", TRUE)
             n == Answered("ATT_ADD_DB_CFM", TRUE)
  <2>1. /\ initialised' = initialised /\ libState' = libState /\ conn' = conn
        /\ conn_req_task' = conn_req_task /\ held' = held /\ link' = link
    BY <1>5, Zenon DEF StackRegisters, StackAddsDb, app, lib
  <2>2. stack'.connect = stack.connect
    BY <1>5, <1>t DEF StackRegisters, StackAddsDb
  <2>3. queue' = Append(queue, m) \/ queue' = Append(queue, n)
    BY <1>5, Zenon DEF StackRegisters, StackAddsDb, Answered
  <2>4. m \in Message /\ n \in Message
    BY Messages DEF Answered
  <2>5. {m} \subseteq {ConnectRequest} \cup
            {Answered(id, TRUE) : id \in {"GATT_INIT_CFM", "ATT_REGISTER_CFM", "ATT_ADD_DB_CFM"}}
        /\ {n} \subseteq {ConnectRequest} \cup
            {Answered(id, TRUE) : id \in {"GATT_INIT_CFM", "ATT_REGISTER_CFM", "ATT_ADD_DB_CFM"}}
    OBVIOUS
  <2>6. Starts(stack', queue') <=> \/ stack'.register > 0 \/ stack'.add_db > 0
                                   \/ InQ(queue', m) \/ InQ(queue', n)
    BY Zenon DEF Starts
  <2>7. Answered("GATT_INIT_CFM", TRUE) # m /\ Answered("GATT_INIT_CFM", TRUE) # n
    BY Ids
  <2> HIDE DEF m, n
  <2>8. Sent({m}) \/ Sent({n})
    BY <2>3, <2>4, QueueSentTo
  <2>9. \A x : InQ(queue, x) => InQ(queue', x)
    BY <2>8, Zenon DEF Sent
  <2>10. Starts(stack', queue')
    <3>1. InQ(queue', m) \/ InQ(queue', n)
      BY <2>8 DEF Sent
    <3> QED
      BY <2>6, <3>1
  <2>11. Outstanding(conn_req_task', stack', link', queue')
    BY <2>1, <2>2, <2>9, OutstandingStays
  <2>12. /\ \A id \in {"GATT_INIT_CFM", "ATT_REGISTER_CFM", "ATT_ADD_DB_CFM"} :
                ~InQ(queue', Answered(id, FALSE))
         /\ \A c \in Cid : ~InQ(queue', About("ATT_FAILURE", c))
    <3>1. CASE Sent({m})
      BY <1>b, <2>5, <3>1
    <3>2. CASE Sent({n})
      BY <1>b, <2>5, <3>2
    <3> QED
      BY <2>8, <3>1, <3>2
  <2>13. Connects(conn_req_task, held, conn, stack, link, queue)
            => Connects(conn_req_task', held', conn', stack', link', queue')
    BY <2>1, <2>2, <2>9, ConnectsStays
  <2>14. InQ(queue', Answered("GATT_INIT_CFM", TRUE)) => InQ(queue, Answered("GATT_INIT_CFM", TRUE))
    BY <2>7, <2>8 DEF Sent
  <2> QED
    BY <1>a, <2>1, <2>10, <2>11, <2>12, <2>13, <2>14, Zenon DEF AllCalm, Calm
<1> QED
  BY <1>1, <1>2, <1>3, <1>4, <1>5

\* Nothing that is sent is an answer, or a refusal.
NoAnswer(new) ==
    /\ \A x : InQ(queue', x) => InQ(queue, x) \/ x \in new
    /\ \A x \in new :
          x.id \notin {"GATT_INIT_CFM", "ATT_REGISTER_CFM", "ATT_ADD_DB_CFM", "ATT_FAILURE"}

\* Then none is queued.
LEMMA NoRefusal ==
    ASSUME AllCalm, NEW new, NoAnswer(new)
    PROVE  /\ \A id \in {"GATT_INIT_CFM", "ATT_REGISTER_CFM", "ATT_ADD_DB_CFM"} :
                 ~InQ(queue', Answered(id, FALSE))
           /\ \A c \in Cid : ~InQ(queue', About("ATT_FAILURE", c))
           /\ \A id \in {"GATT_INIT_CFM", "ATT_REGISTER_CFM", "ATT_ADD_DB_CFM"} :
                 InQ(queue', Answered(id, TRUE)) => InQ(queue, Answered(id, TRUE))
<1>1. /\ \A id \in {"GATT_INIT_CFM", "ATT_REGISTER_CFM", "ATT_ADD_DB_CFM"} :
            ~InQ(queue, Answered(id, FALSE))
      /\ \A c \in Cid : ~InQ(queue, About("ATT_FAILURE", c))
  BY Zenon DEF AllCalm, Calm
<1>2. \A id \in {"GATT_INIT_CFM", "ATT_REGISTER_CFM", "ATT_ADD_DB_CFM"} : \A ok :
          Answered(id, ok) \notin new
  BY Ids DEF NoAnswer
<1>3. \A c : About("ATT_FAILURE", c) \notin new
  BY Ids DEF NoAnswer
<1> QED
  BY <1>1, <1>2, <1>3, Zenon DEF NoAnswer

\* In a library that is started, the rest is about the request.
LEMMA CalmStarted ==
    ASSUME AllCalm, NEW new, NoAnswer(new), libState' = "initialised",
           Outstanding(conn_req_task', stack', link', queue'),
           ~initialised' \/ Connects(conn_req_task', held', conn', stack', link', queue')
    PROVE  AllCalm'
<1>1. libState' # "uninitialised" /\ libState' # "initialising"
  OBVIOUS
<1>2. /\ \A id \in {"GATT_INIT_CFM", "ATT_REGISTER_CFM", "ATT_ADD_DB_CFM"} :
                 ~InQ(queue', Answered(id, FALSE))
      /\ \A c \in Cid : ~InQ(queue', About("ATT_FAILURE", c))
  BY NoRefusal
<1> QED
  BY <1>1, <1>2, Zenon DEF AllCalm, Calm

\* Requests, and what becomes of channels.
LEMMA RequestCalm ==
    ASSUME TypeOK, LifeInv, AllCalm,
           \/ HandleConnectReq \/ ReleaseConnectReq \/ HandleDisconnectInd
           \/ HandleAttSuccess \/ HandleAttDisconnectInd
           \/ \E c \in Cid : \/ StackInitiates(c) \/ PhoneConnects(c) \/ LinkEnds(c)
                             \/ PairingFails(c),
           untold' = {}
    PROVE  AllCalm'
<1>t. /\ queue \in Seq(Message) /\ conn \in [Cid -> Record]
      /\ link \in [Cid -> {"free", "initiating", "up", "ending"}]
      /\ stack \in [register : Nat, add_db : Nat, set_data : Nat, connect : Nat]
  BY Typed DEF TypeOK
<1>l. \A c \in Cid : Life(c, Pending(queue, c), conn[c], link[c], client, untold)
  BY DEF LifeInv, ChannelInv, Lives
<1>p. \A id \in Kind : \A c : InQ(queue, About(id, c)) <=> id \in Pending(queue, c)
  BY PendingIn
<1>k. {"ATT_INITIATING", "ATT_SUCCESS", "ATT_DISCONNECT_IND"} \subseteq Kind
  BY DEF Kind, StackKind
<1>c. initialised => Connects(conn_req_task, held, conn, stack, link, queue) \/ libState # "initialised"
  BY Zenon DEF AllCalm, Calm
\* In each of them the library is started.
<1>i. libState = "initialised" /\ libState' = libState
  <2>1. CASE HandleConnectReq
    BY <2>1 DEF HandleConnectReq, LibNext
  <2>2. CASE ReleaseConnectReq
    <3>1. held > 0 /\ libState' = libState
      BY <2>2 DEF ReleaseConnectReq, Released
    <3> QED
      BY <3>1 DEF LifeInv, AskedWhenStarted, NoLink
  <2>3. CASE HandleDisconnectInd \/ HandleAttSuccess \/ HandleAttDisconnectInd
             \/ \E c \in Cid : StackInitiates(c) \/ PhoneConnects(c) \/ LinkEnds(c)
    <3>1. libState = "initialised"
      BY <2>3, StepStarted, Zenon DEF HeadStep, ChannelStepOf
    <3>2. libState' = libState
      BY <2>3 DEF HandleDisconnectInd, HandleAttSuccess, HandleAttDisconnectInd, StackInitiates,
         PhoneConnects, LinkEnds, lib
    <3> QED
      BY <3>1, <3>2
  <2>4. ASSUME NEW c \in Cid, PairingFails(c)
        PROVE  libState = "initialised" /\ libState' = libState
    <3>1. link[c] # "free" /\ libState' = libState
      BY <2>4 DEF PairingFails, lib
    <3> QED
      BY <3>1 DEF LifeInv, AskedWhenStarted, NoLink
  <2> QED
    BY <2>1, <2>2, <2>3, <2>4
<1>1. CASE HandleConnectReq
  <2>1. queue # <<>> /\ Head(queue).id = "CONNECT_REQ" /\ queue' = Tail(queue)
    BY <1>1 DEF HandleConnectReq, LibNext, Next1, Done
  <2>2. Took({})
    BY <2>1, QueueTaken, Messages
  <2>3. \A id \in Kind : \A c : InQ(queue, About(id, c)) => InQ(queue', About(id, c))
    BY <2>1, <2>2, Ids, Others DEF Took
  <2>4. link' = link /\ conn' = conn
    BY <1>1 DEF HandleConnectReq
  <2>5. CASE conn_req_task
    <3>1. conn_req_task' = conn_req_task /\ stack' = stack /\ held' = held + 1
      BY <1>1, <2>5, Zenon DEF HandleConnectReq, ConnectReq
    <3>2. Outstanding(conn_req_task', stack', link', queue')
      BY <1>k, <2>3, <2>4, <3>1, OutstandingStays
    <3>3. initialised' = initialised
      BY <1>1, Zenon DEF HandleConnectReq, app
    <3>4. \A c : /\ InQ(queue, About("ATT_DISCONNECT_IND", c))
                    => InQ(queue', About("ATT_DISCONNECT_IND", c))
                 /\ InQ(queue, About("ATT_INITIATING", c))
                    => InQ(queue', About("ATT_INITIATING", c))
      BY <1>k, <2>3
    <3>5. Connects(conn_req_task, held, conn, stack, link, queue)
              => Connects(conn_req_task', held', conn', stack', link', queue')
      BY <2>4, <2>5, <3>1, <3>4, Zenon DEF Connects
    <3>6. ~initialised' \/ Connects(conn_req_task', held', conn', stack', link', queue')
      BY <1>c, <1>i, <3>3, <3>5, Zenon
    <3>7. NoAnswer({})
      BY <2>2 DEF Took, NoAnswer
    <3> QED
      BY <1>i, <3>2, <3>6, <3>7, CalmStarted, Zenon
  <2>6. CASE ~conn_req_task
    <3>1. stack' = [stack EXCEPT !.connect = @ + 1]
      BY <1>1, <2>6, Zenon DEF HandleConnectReq, ConnectReq
    <3>2. stack'.connect > 0
      BY <1>t, <3>1
    <3>3. Connects(conn_req_task', held', conn', stack', link', queue')
      BY <3>2, Zenon DEF Connects
    <3>4. NoAnswer({})
      BY <2>2 DEF Took, NoAnswer
    <3>5. Outstanding(conn_req_task', stack', link', queue')
      BY <3>2, Zenon DEF Outstanding
    <3> QED
      BY <1>i, <3>3, <3>4, <3>5, CalmStarted, Zenon
  <2> QED
    BY <2>5, <2>6
<1>2. CASE ReleaseConnectReq
  <2>1. queue' = queue
    BY <1>2 DEF ReleaseConnectReq
  <2>2. stack' = [stack EXCEPT !.connect = @ + 1]
    BY <1>2, <1>i, Zenon DEF ReleaseConnectReq, Released, ConnectReq
  <2>3. stack'.connect > 0
    BY <1>t, <2>2
  <2>4. Connects(conn_req_task', held', conn', stack', link', queue')
    BY <2>3, Zenon DEF Connects
  <2>5. NoAnswer({})
    BY <2>1 DEF NoAnswer
  <2>6. Outstanding(conn_req_task', stack', link', queue')
    BY <2>3, Zenon DEF Outstanding
  <2> QED
    BY <1>i, <2>4, <2>5, <2>6, CalmStarted, Zenon
<1>3. CASE HandleDisconnectInd
  <2>1. queue # <<>> /\ Head(queue).id = "GATT_DISCONNECT_IND"
        /\ queue' = Tail(queue) \o <<ConnectRequest>>
    BY <1>3 DEF HandleDisconnectInd, Next1, DoneAndSend, ConnectRequest
  <2>2. Took({ConnectRequest}) /\ ConnectRequest.id = "CONNECT_REQ"
    <3>1. ConnectRequest \in Message
      BY Messages DEF ConnectRequest
    <3> QED
      BY <2>1, <3>1, QueueTaken, Ids
  <2>3. \A c : /\ InQ(queue, About("ATT_DISCONNECT_IND", c))
                  => InQ(queue', About("ATT_DISCONNECT_IND", c))
               /\ InQ(queue, About("ATT_INITIATING", c)) => InQ(queue', About("ATT_INITIATING", c))
               /\ InQ(queue, About("ATT_SUCCESS", c)) => InQ(queue', About("ATT_SUCCESS", c))
    BY <2>1, <2>2, Ids DEF Took
  <2>4. /\ conn_req_task' = conn_req_task /\ stack' = stack /\ held' = held /\ link' = link
        /\ conn' = conn /\ initialised' = initialised
    BY <1>3, Zenon DEF HandleDisconnectInd, lib
  <2>5. Outstanding(conn_req_task', stack', link', queue')
    BY <2>3, <2>4, OutstandingStays
  <2>6. InQ(queue', ConnectRequest)
    BY <2>2 DEF Took
  <2>7. Connects(conn_req_task, held, conn, stack, link, queue)
            => Connects(conn_req_task', held', conn', stack', link', queue')
    BY <2>3, <2>4, <2>6, Zenon DEF Connects
  <2>8. ~initialised' \/ Connects(conn_req_task', held', conn', stack', link', queue')
    BY <1>c, <1>i, <2>4, <2>7, Zenon
  <2>9. NoAnswer({ConnectRequest})
    BY <2>2 DEF Took, NoAnswer
  <2> QED
    BY <1>i, <2>5, <2>8, <2>9, CalmStarted, Zenon
<1>4. CASE HandleAttSuccess
  <2> DEFINE c == Head(queue).cid
             n == About("GATT_CONNECT_SUCCESS", c)
             P == Pending(queue, c)
  <2>1. queue # <<>> /\ Head(queue).id = "ATT_SUCCESS" /\ queue' = Tail(queue) \o <<n>>
    BY <1>4 DEF HandleAttSuccess, LibNext, Next1, DoneAndSend, About
  <2>2. Head(queue) \in Message /\ InQ(queue, Head(queue))
    BY <2>1, QueueTaken, Messages
  <2>3. c \in Cid /\ Head(queue) = About("ATT_SUCCESS", c)
    BY <1>k, <2>1, <2>2, KindAbout
  <2>4. n \in Message /\ n.id = "GATT_CONNECT_SUCCESS"
    BY <2>3, Messages, Ids DEF About
  <2>5. conn' = [conn EXCEPT ![c] = "up"] /\ link' = link
    BY <1>4 DEF HandleAttSuccess, air
  <2>6. ~conn_req_task'
    BY <1>4, Zenon DEF HandleAttSuccess
  <2>7. Life(c, P, conn[c], link[c], client, untold)
    BY <1>l, <2>3
  <2> HIDE DEF c, n
  <2>8. "ATT_SUCCESS" \in P
    BY <1>k, <1>p, <2>2, <2>3
  <2>9. link[c] # "free" \/ "ATT_DISCONNECT_IND" \in P
    <3> HIDE DEF P
    <3> QED
      BY <2>7, <2>8 DEF Life
  <2>10. Took({n})
    BY <2>1, <2>4, QueueTaken
  <2>11. InQ(queue, About("ATT_DISCONNECT_IND", c)) => InQ(queue', About("ATT_DISCONNECT_IND", c))
    BY <2>1, <2>10, Ids DEF Took
  <2>12. conn'[c] # "none"
    BY <1>t, <2>3, <2>5
  <2>13. link'[c] # "free" \/ InQ(queue', About("ATT_DISCONNECT_IND", c))
    BY <1>k, <1>p, <2>5, <2>9, <2>11
  <2>14. Connects(conn_req_task', held', conn', stack', link', queue')
    BY <2>3, <2>12, <2>13, Zenon DEF Connects
  <2>15. NoAnswer({n})
    BY <2>4, <2>10 DEF Took, NoAnswer
  <2>16. Outstanding(conn_req_task', stack', link', queue')
    BY <2>6, Zenon DEF Outstanding
  <2> QED
    BY <1>i, <2>14, <2>15, <2>16, CalmStarted, Zenon
<1>5. CASE HandleAttDisconnectInd
  <2> DEFINE c == Head(queue).cid
             m == About("GATT_DISCONNECT_IND", c)
             n == About("DELETE_CONN", c)
             P == Pending(queue, c)
  <2>1. queue # <<>> /\ Head(queue).id = "ATT_DISCONNECT_IND" /\ Next1("ATT_DISCONNECT_IND")
    BY <1>5 DEF HandleAttDisconnectInd, LibNext, Next1
  <2>2. c \in Cid /\ "ATT_DISCONNECT_IND" \in P
        /\ \A b \in P \ {"ATT_DISCONNECT_IND"} :
               SameSender("ATT_DISCONNECT_IND", b) => Follows("ATT_DISCONNECT_IND", b)
    BY <1>k, <2>1, HeadTaken DEF LifeInv, ChannelInv
  <2>3. "ATT_SUCCESS" \notin P /\ "ATT_INITIATING" \notin P
    <3>1. /\ SameSender("ATT_DISCONNECT_IND", "ATT_SUCCESS")
          /\ SameSender("ATT_DISCONNECT_IND", "ATT_INITIATING")
      BY Senders DEF StackKind
    <3>2. /\ ~Follows("ATT_DISCONNECT_IND", "ATT_SUCCESS")
          /\ ~Follows("ATT_DISCONNECT_IND", "ATT_INITIATING")
      BY DEF Follows
    <3> QED
      BY <2>2, <3>1, <3>2
  <2>4. Life(c, P, conn[c], link[c], client, untold)
    BY <1>l, <2>2
  <2>5. conn[c] = "up"
    <3> HIDE DEF P, c
    <3> QED
      BY <2>2, <2>3, <2>4 DEF Life
  <2>o. c \in owned
    <3>1. c \notin untold'
      OBVIOUS
    <3> QED
      BY <1>5, <2>5, <3>1 DEF HandleAttDisconnectInd
  <2>6. queue' = Tail(queue) \o <<m, n>>
    BY <1>5, <2>5, <2>o DEF HandleAttDisconnectInd, DoneAndSend, About
  <2>7. ~conn_req_task'
    BY <1>5, <2>5, <2>o DEF HandleAttDisconnectInd
  <2>8. m \in Message /\ n \in Message /\ m.id = "GATT_DISCONNECT_IND" /\ n.id = "DELETE_CONN"
    BY <2>2, Messages, Ids DEF About
  <2>9. InQ(queue', m) => InQ(queue', About("GATT_DISCONNECT_IND", c))
    OBVIOUS
  <2> HIDE DEF c, m, n
  <2>10. Took({m, n})
    BY <2>1, <2>6, <2>8, QueueTaken
  <2>11. Connects(conn_req_task', held', conn', stack', link', queue')
    <3>1. InQ(queue', m)
      BY <2>10 DEF Took
    <3> QED
      BY <2>2, <2>7, <2>9, <3>1, Zenon DEF Connects
  <2>12. NoAnswer({m, n})
    BY <2>8, <2>10 DEF Took, NoAnswer
  <2>13. Outstanding(conn_req_task', stack', link', queue')
    BY <2>7, Zenon DEF Outstanding
  <2> QED
    BY <1>i, <2>11, <2>12, <2>13, CalmStarted, Zenon
\* The channel that is paired is up.
<1>7. ASSUME NEW c \in Cid, PairingFails(c)
      PROVE  AllCalm'
  <2>1. /\ queue' = Append(queue, ConnectRequest) /\ link[c] = "up" /\ link' = link
        /\ conn_req_task' = conn_req_task /\ stack' = stack
    BY <1>7 DEF PairingFails, ConnectRequest, air, lib
  <2>2. ConnectRequest \in Message /\ ConnectRequest.id = "CONNECT_REQ"
    BY Messages DEF ConnectRequest
  <2>3. Sent({ConnectRequest})
    BY <2>1, <2>2, QueueSentTo
  <2>4. NoAnswer({ConnectRequest})
    BY <2>2, <2>3 DEF Sent, NoAnswer
  <2>5. Outstanding(conn_req_task', stack', link', queue')
    <3>1. \A x : InQ(queue, x) => InQ(queue', x)
      BY <2>3 DEF Sent
    <3> QED
      BY <2>1, <3>1, OutstandingStays
  <2>6. link'[c] # "free"
    BY <2>1
  <2>7. Connects(conn_req_task', held', conn', stack', link', queue')
    BY <2>6, Zenon DEF Connects
  <2> QED
    BY <1>i, <2>4, <2>5, <2>7, CalmStarted, Zenon
<1>6. ASSUME NEW c \in Cid, StackInitiates(c) \/ PhoneConnects(c) \/ LinkEnds(c)
      PROVE  AllCalm'
  <2>k. \A id \in Kind : About(id, c) \in Message
    BY AboutMessage
  <2>f. \A id, e : About(id, e).id = id
    BY Ids
  <2>1. CASE StackInitiates(c)
    <3> DEFINE n == About("ATT_INITIATING", c)
    <3>1. queue' = Append(queue, n) /\ link'[c] = "initiating"
      BY <1>t, <2>1 DEF StackInitiates, About
    <3>2. n \in Message /\ n.id = "ATT_INITIATING"
      BY <1>k, <2>k, <2>f
    <3> HIDE DEF n
    <3>3. NoAnswer({n})
      BY <3>1, <3>2, QueueSentTo DEF Sent, NoAnswer
    <3>4. Outstanding(conn_req_task', stack', link', queue')
      BY <3>1, Zenon DEF Outstanding
    <3>5. link'[c] # "free"
      BY <3>1
    <3>6. Connects(conn_req_task', held', conn', stack', link', queue')
      BY <3>5, Zenon DEF Connects
    <3> QED
      BY <1>i, <3>3, <3>4, <3>6, CalmStarted, Zenon
  <2>2. CASE PhoneConnects(c)
    <3> DEFINE n == About("ATT_SUCCESS", c)
    <3>1. queue' = Append(queue, n) /\ link'[c] = "up"
      BY <1>t, <2>2 DEF PhoneConnects, About
    <3>2. n \in Message /\ n.id = "ATT_SUCCESS"
      BY <1>k, <2>k, <2>f
    <3>n. n = About("ATT_SUCCESS", c)
      OBVIOUS
    <3> HIDE DEF n
    <3>3. Sent({n})
      BY <3>1, <3>2, QueueSentTo
    <3>4. InQ(queue', About("ATT_SUCCESS", c))
      BY <3>n, <3>3 DEF Sent
    <3>o. Outstanding(conn_req_task', stack', link', queue')
      BY <3>4, Zenon DEF Outstanding
    <3>5. link'[c] # "free" /\ NoAnswer({n})
      BY <3>1, <3>2, <3>3 DEF Sent, NoAnswer
    <3>6. Connects(conn_req_task', held', conn', stack', link', queue')
      BY <3>5, Zenon DEF Connects
    <3> QED
      BY <1>i, <3>5, <3>6, <3>o, CalmStarted, Zenon
  <2>3. CASE LinkEnds(c)
    <3> DEFINE n == About("ATT_DISCONNECT_IND", c)
               P == Pending(queue, c)
    <3>1. queue' = Append(queue, n) /\ link[c] \in {"up", "ending"}
          /\ \A e \in Cid \ {c} : link'[e] = link[e]
      BY <1>t, <2>3 DEF LinkEnds, About
    <3>2. n \in Message /\ n.id = "ATT_DISCONNECT_IND"
      BY <1>k, <2>k, <2>f
    <3>n. n = About("ATT_DISCONNECT_IND", c)
      OBVIOUS
    <3> HIDE DEF n
    <3>3. Sent({n})
      BY <3>1, <3>2, QueueSentTo
    <3>4. /\ conn_req_task' = conn_req_task /\ stack' = stack /\ conn' = conn
      BY <2>3, Zenon DEF LinkEnds, lib
    <3>5. conn[c] # "none" \/ "ATT_INITIATING" \in P
      <4>1. Life(c, P, conn[c], link[c], client, untold)
        BY <1>l
      <4> HIDE DEF P
      <4> QED
        BY <3>1, <4>1 DEF Life
    <3>6. \A x : InQ(queue, x) \/ x = n => InQ(queue', x)
      BY <3>3 DEF Sent
    <3>7. Outstanding(conn_req_task', stack', link', queue')
      <4>1. conn_req_task => \/ stack.connect > 0
                             \/ \E e \in Cid : \/ link[e] = "initiating"
                                               \/ InQ(queue, About("ATT_SUCCESS", e))
        BY Zenon DEF AllCalm, Calm, Outstanding
      <4>2. \A e \in Cid : link[e] = "initiating" => link'[e] = "initiating"
        BY <3>1
      <4> QED
        BY <3>4, <3>6, <4>1, <4>2, Zenon DEF Outstanding
    <3>8. Connects(conn_req_task', held', conn', stack', link', queue')
      <4>1. InQ(queue', About("ATT_DISCONNECT_IND", c))
        BY <3>n, <3>6
      <4>2. conn'[c] # "none" \/ InQ(queue', About("ATT_INITIATING", c))
        BY <1>k, <1>p, <3>4, <3>5, <3>6
      <4> QED
        BY <4>1, <4>2, Zenon DEF Connects
    <3>9. NoAnswer({n})
      BY <3>2, <3>3 DEF Sent, NoAnswer
    <3> QED
      BY <1>i, <3>7, <3>8, <3>9, CalmStarted, Zenon
  <2> QED
    BY <1>6, <2>1, <2>2, <2>3
<1> QED
  BY <1>1, <1>2, <1>3, <1>4, <1>5, <1>6, <1>7

\* A message is dropped, in the state in which nothing waits for it.
LEMMA DropCalm ==
    ASSUME TypeOK, LifeInv, AllCalm, DropMessage
    PROVE  AllCalm'
<1>1. queue # <<>> /\ queue' = Tail(queue)
  BY DEF DropMessage, Done
<1>2. Took({})
  BY <1>1, QueueTaken, Messages
<1>3. /\ initialised' = initialised /\ libState' = libState /\ conn' = conn
      /\ conn_req_task' = conn_req_task /\ held' = held /\ link' = link /\ stack' = stack
  BY Zenon DEF DropMessage, app, lib, air
<1>4. NoAnswer({})
  BY <1>2 DEF Took, NoAnswer
<1>5. ~initialised \/ libState # "initialised" => ~conn_req_task
  BY Zenon DEF LifeInv, AskedWhenStarted, NoLink
<1>6. CASE libState = "initialised"
  <2>1. Head(queue).id \in {"ATT_REGISTER_CFM", "ATT_ADD_DB_CFM"}
    BY <1>6 DEF DropMessage
  <2>2. \A x : x.id \notin {"ATT_REGISTER_CFM", "ATT_ADD_DB_CFM"} /\ InQ(queue, x)
               => InQ(queue', x)
    BY <1>2, <2>1 DEF Took
  <2>3. /\ \A id \in Kind : \A c : InQ(queue, About(id, c)) => InQ(queue', About(id, c))
        /\ InQ(queue, ConnectRequest) => InQ(queue', ConnectRequest)
        /\ InQ(queue, Answered("GATT_INIT_CFM", TRUE))
           => InQ(queue', Answered("GATT_INIT_CFM", TRUE))
    <3>1. \A id \in Kind : \A c : InQ(queue, About(id, c)) => InQ(queue', About(id, c))
      BY <2>2, Ids, Others
    <3>2. Answered("GATT_INIT_CFM", TRUE).id = "GATT_INIT_CFM" /\ ConnectRequest.id = "CONNECT_REQ"
      BY Ids, Zenon
    <3> QED
      BY <2>2, <3>1, <3>2
  <2>4. \A c : /\ InQ(queue, About("ATT_DISCONNECT_IND", c))
                  => InQ(queue', About("ATT_DISCONNECT_IND", c))
               /\ InQ(queue, About("GATT_DISCONNECT_IND", c))
                  => InQ(queue', About("GATT_DISCONNECT_IND", c))
               /\ InQ(queue, About("ATT_INITIATING", c)) => InQ(queue', About("ATT_INITIATING", c))
               /\ InQ(queue, About("ATT_SUCCESS", c)) => InQ(queue', About("ATT_SUCCESS", c))
    BY <2>3 DEF Kind, StackKind, AppKind
  <2>5. Outstanding(conn_req_task', stack', link', queue')
    BY <1>3, <2>4, OutstandingStays
  <2>6. Connects(conn_req_task, held, conn, stack, link, queue)
            => Connects(conn_req_task', held', conn', stack', link', queue')
    BY <1>3, <2>3, <2>4, Zenon DEF Connects
  <2>7. initialised => Connects(conn_req_task, held, conn, stack, link, queue)
    BY <1>6, Zenon DEF AllCalm, Calm
  <2>8. ~initialised' \/ Connects(conn_req_task', held', conn', stack', link', queue')
    BY <1>3, <2>6, <2>7, Zenon
  <2> QED
    BY <1>3, <1>4, <1>6, <2>5, <2>8, CalmStarted, Zenon
<1>7. CASE libState # "initialised"
  <2>1. ~conn_req_task'
    BY <1>3, <1>5, <1>7, Zenon
  <2>2. Outstanding(conn_req_task', stack', link', queue')
    BY <2>1, Zenon DEF Outstanding
  <2>3. /\ \A id \in {"GATT_INIT_CFM", "ATT_REGISTER_CFM", "ATT_ADD_DB_CFM"} :
              ~InQ(queue', Answered(id, FALSE))
        /\ \A c \in Cid : ~InQ(queue', About("ATT_FAILURE", c))
        /\ InQ(queue', Answered("GATT_INIT_CFM", TRUE)) => InQ(queue, Answered("GATT_INIT_CFM", TRUE))
    BY <1>4, NoRefusal, Zenon
  <2>4. libState = "initialising" => Starts(stack', queue')
    <3>1. SUFFICES ASSUME libState = "initialising" PROVE Starts(stack', queue')
      OBVIOUS
    <3>2. Head(queue).id \notin {"ATT_REGISTER_CFM", "ATT_ADD_DB_CFM"}
      BY <3>1 DEF DropMessage
    <3>3. \A ok, id \in {"ATT_REGISTER_CFM", "ATT_ADD_DB_CFM"} : Head(queue) # Answered(id, TRUE)
      BY <3>2, Ids
    <3>4. Starts(stack, queue)
      BY <3>1, Zenon DEF AllCalm, Calm
    <3>5. /\ InQ(queue, Answered("ATT_REGISTER_CFM", TRUE))
             => InQ(queue', Answered("ATT_REGISTER_CFM", TRUE))
          /\ InQ(queue, Answered("ATT_ADD_DB_CFM", TRUE))
             => InQ(queue', Answered("ATT_ADD_DB_CFM", TRUE))
      BY <1>2, <3>3, Zenon DEF Took
    <3> QED
      BY <1>3, <3>4, <3>5, Zenon DEF Starts
  <2>5. libState = "uninitialised"
            => ~initialised' /\ ~InQ(queue', Answered("GATT_INIT_CFM", TRUE))
    BY <1>3, <2>3, Zenon DEF AllCalm, Calm
  <2>6. libState' # "initialised"
    BY <1>3, <1>7
  <2> QED
    BY <1>3, <2>2, <2>3, <2>4, <2>5, <2>6, Zenon DEF AllCalm, Calm
<1> QED
  BY <1>6, <1>7

\* At the start the stack has refused nothing, and nothing is started.
LEMMA InitReach == Init => ReachInv
<1> SUFFICES ASSUME Init PROVE AllCalm
  BY DEF ReachInv
<1>1. queue = <<>> /\ Len(queue) = 0 /\ libState = "uninitialised"
  BY DEF Init
<1>2. ~initialised /\ ~conn_req_task
  BY Zenon DEF Init
<1>3. \A m : ~InQ(queue, m)
  BY <1>1 DEF InQ
<1>4. Outstanding(conn_req_task, stack, link, queue)
  BY <1>2, Zenon DEF Outstanding
<1>5. libState # "initialising"
  BY <1>1
<1> QED
  BY <1>2, <1>3, <1>4, <1>5, Zenon DEF AllCalm, Calm

\* As long as the stack refuses nothing, every step keeps the start and the request.
LEMMA NextReach == IInv /\ LifeInv /\ ReachInv /\ [Next]_vars => ReachInv'
<1> SUFFICES ASSUME IInv, LifeInv, ReachInv, [Next]_vars, failures' = 0, untold' = {}
             PROVE  AllCalm'
  BY DEF ReachInv
<1>t. TypeOK /\ failures \in Nat
  BY BoundAssumption DEF IInv, TypeOK
<1>1. CASE UNCHANGED vars
  <2>1. failures = 0 /\ untold = {}
    BY <1>1 DEF vars, lib
  <2>2. AllCalm
    BY <2>1 DEF ReachInv
  <2>3. /\ initialised' = initialised /\ libState' = libState /\ conn' = conn
        /\ conn_req_task' = conn_req_task /\ held' = held /\ link' = link /\ stack' = stack
        /\ queue' = queue
    BY <1>1, Zenon DEF vars, app, lib, air
  <2> QED
    BY <2>2, <2>3, Unmoved
<1>2. CASE Next
  <2>1. failures' = failures \/ failures' = failures + 1
    BY <1>2, AllSteps DEF Rest, HeadStep, ChannelStepOf, HandleSlcConnected, HandleInitCfm,
       HandleConnectInitialising, HandleConnectFailure, HandleAttRegisterCfm, HandleAttAddDbCfm,
       HandleConnectReq, HandleDisconnectReq, DropMessage, ReleaseConnectReq, ButtonC,
       DisableBleAdvertising, WechatConnectInd, ResetPairedDeviceList, SlcConnects, PairingFails,
       StackRegisters, StackAddsDb, StackSetsData, HandleConnectSuccess, HandleDisconnectInd,
       HandleAttInitiating, HandleAttSuccess, HandleAttFailure, HandleAttDisconnectInd,
       HandleDeleteConn, StackInitiates, PhoneConnects, ConnectionFails, LinkEnds, Answer
  <2>2. failures = 0 /\ failures' # failures + 1
    BY <1>t, <2>1
  <2>u. untold = {}
    <3>1. \/ untold' = untold \/ \E c : untold' = untold \cup {c}
      BY <1>2, AllSteps DEF Rest, HeadStep, ChannelStepOf, HandleSlcConnected, HandleInitCfm,
       HandleConnectInitialising, HandleConnectFailure, HandleAttRegisterCfm, HandleAttAddDbCfm,
       HandleConnectReq, HandleDisconnectReq, DropMessage, ReleaseConnectReq, ButtonC,
       DisableBleAdvertising, WechatConnectInd, ResetPairedDeviceList, SlcConnects, PairingFails,
       StackRegisters, StackAddsDb, StackSetsData, HandleConnectSuccess, HandleDisconnectInd,
       HandleAttInitiating, HandleAttSuccess, HandleAttFailure, HandleAttDisconnectInd,
       HandleDeleteConn, StackInitiates, PhoneConnects, ConnectionFails, LinkEnds, lib
    <3> QED
      BY <3>1
  <2>3. AllCalm
    BY <2>2, <2>u DEF ReachInv
  <2>4. ~HandleAttFailure
    <3> SUFFICES ASSUME HandleAttFailure PROVE FALSE
      OBVIOUS
    <3>1. queue # <<>> /\ Head(queue).id = "ATT_FAILURE"
      BY DEF HandleAttFailure, LibNext, Next1
    <3>2. Head(queue) \in Message /\ InQ(queue, Head(queue))
      BY <1>t, <3>1, QueueTaken, Messages
    <3>3. Head(queue) = About("ATT_FAILURE", Head(queue).cid) /\ Head(queue).cid \in Cid
      BY <3>1, <3>2, KindAbout DEF Kind, StackKind
    <3>4. \A c \in Cid : ~InQ(queue, About("ATT_FAILURE", c))
      BY <2>3, Zenon DEF AllCalm, Calm
    <3> QED
      BY <3>2, <3>3, <3>4, Zenon
  <2>5. \A c \in Cid : ~ConnectionFails(c)
    BY <2>2, Zenon DEF ConnectionFails, Answer
  <2>6. \A ok \in BOOLEAN :
            (StackRegisters(ok) => StackRegisters(TRUE)) /\ (StackAddsDb(ok) => StackAddsDb(TRUE))
            /\ (StackSetsData(ok) => StackSetsData(TRUE))
    <3>1. ~StackRegisters(FALSE) /\ ~StackAddsDb(FALSE) /\ ~StackSetsData(FALSE)
      BY <2>2, Zenon DEF StackRegisters, StackAddsDb, StackSetsData, Answer
    <3> QED
      BY <3>1, Zenon
  <2>7. \/ HandleSlcConnected \/ HandleInitCfm \/ HandleAttRegisterCfm \/ HandleAttAddDbCfm
        \/ StackRegisters(TRUE) \/ StackAddsDb(TRUE)
        \/ ButtonC \/ DisableBleAdvertising \/ WechatConnectInd \/ StackSetsData(TRUE)
        \/ HandleConnectInitialising \/ HandleConnectFailure \/ HandleConnectSuccess
        \/ SlcConnects \/ ResetPairedDeviceList \/ HandleDisconnectReq
        \/ HandleAttInitiating \/ HandleDeleteConn
        \/ HandleConnectReq \/ ReleaseConnectReq \/ HandleDisconnectInd
        \/ HandleAttSuccess \/ HandleAttDisconnectInd \/ DropMessage
        \/ \E c \in Cid : \/ StackInitiates(c) \/ PhoneConnects(c) \/ LinkEnds(c)
                          \/ PairingFails(c)
    BY <1>2, <2>4, <2>5, <2>6, AllSteps, Zenon DEF Rest, HeadStep, ChannelStepOf
  <2> QED
    BY <1>t, <2>3, <2>7, StartCalm, PassedCalm, RequestCalm, DropCalm, Zenon
<1> QED
  BY <1>1, <1>2
-----------------------------------------------------------------------------
(* The task of a connection                                                *)

\* The library will hear of the channel; the channel belongs to a request.
Waits(c) == "ATT_INITIATING" \in Pending(queue, c)
Claimed(c) == link[c] # "free" \/ conn[c] # "none" \/ Waits(c)

\* With one request at a time there is one channel at a time, and its record is
\* made while the request is outstanding.
OneChannel ==
    /\ stack.connect > 0 => \A c \in Cid : ~Claimed(c)
    /\ \A c, d \in Cid : Claimed(c) /\ Claimed(d) => c = d

OneRequest ==
    /\ held = 0
    /\ stack.connect > 0 => stack.connect = 1 /\ conn_req_task
    /\ \A c \in Cid : /\ Waits(c) \/ conn[c] = "connecting" => conn_req_task
                      /\ conn[c] \in {"up", "closing"} => ~conn_req_task

Owned == untold = {} /\ \A c \in Cid : conn[c] # "none" => c \in owned

TaskInv == ~crossed => OneChannel /\ OneRequest /\ Owned

\* It says that the task is kept.
LEMMA TaskSays == TaskInv => TaskKept
BY DEF TaskInv, Owned, TaskKept

\* Only the stack starts a channel.
LEMMA WaitsStep ==
    ASSUME TypeOK, LifeInv, Next, NEW e \in Cid, Waits(e)'
    PROVE  Waits(e) \/ StackInitiates(e)
<1>k. "ATT_INITIATING" \in Kind
  BY DEF Kind, StackKind
<1>n. InQ(queue', About("ATT_INITIATING", e))
  BY <1>k, PendingIn DEF Waits
<1> SUFFICES ASSUME ~InQ(queue, About("ATT_INITIATING", e)) PROVE StackInitiates(e)
  BY <1>k, PendingIn DEF Waits
<1>1. CASE Rest
  <2>1. Pending(queue', e) = Pending(queue, e)
    BY <1>1, RestFacts
  <2> QED
    BY <1>k, <1>n, <2>1, PendingIn
<1>2. CASE HeadStep
  <2>1. queue # <<>> /\ Head(queue) \in Message
    <3>1. queue # <<>>
      BY <1>2 DEF HeadStep, HandleConnectSuccess, HandleDisconnectInd, HandleAttInitiating,
         HandleAttSuccess, HandleAttFailure, HandleAttDisconnectInd, HandleDeleteConn,
         LibNext, Next1
    <3> QED
      BY <3>1, Typed, InTail
  <2>2. \E m \in Message, n \in Message :
            /\ m.id # "ATT_INITIATING" /\ n.id # "ATT_INITIATING"
            /\ queue' \in {Tail(queue), Tail(queue) \o <<m>>, Tail(queue) \o <<m, n>>}
    <3>1. CASE HandleConnectSuccess \/ HandleDeleteConn \/ HandleDisconnectInd
      BY <3>1, Messages DEF HandleConnectSuccess, HandleDisconnectInd, HandleDeleteConn,
         Done, DoneAndSend
    <3>2. CASE HandleAttInitiating \/ HandleAttSuccess \/ HandleAttFailure
               \/ HandleAttDisconnectInd
      <4>1. Head(queue).cid \in Cid
        BY <2>1, <3>2, MessageFields DEF HandleAttInitiating, HandleAttSuccess,
           HandleAttFailure, HandleAttDisconnectInd, LibNext, Next1
      <4> QED
        BY <3>2, <4>1, Messages DEF HandleAttInitiating, HandleAttSuccess,
           HandleAttFailure, HandleAttDisconnectInd, Done, DoneAndSend
    <3> QED
      BY <1>2, <3>1, <3>2 DEF HeadStep
  <2>3. PICK m \in Message, n \in Message :
            /\ m.id # "ATT_INITIATING" /\ n.id # "ATT_INITIATING"
            /\ queue' \in {Tail(queue), Tail(queue) \o <<m>>, Tail(queue) \o <<m, n>>}
    BY <2>2
  <2>4. \E new \in SUBSET {m, n} : Took(new)
    BY <2>1, <2>3, QueueTaken
  <2>5. About("ATT_INITIATING", e) \notin {m, n}
    BY <2>3, Ids
  <2> QED
    BY <1>n, <2>4, <2>5 DEF Took
<1>3. ASSUME NEW c \in Cid, ChannelStepOf(c)
      PROVE  StackInitiates(e)
  <2>1. CASE StackInitiates(c)
    <3>1. queue' = Append(queue, About("ATT_INITIATING", c))
      BY <2>1 DEF StackInitiates, About
    <3>2. Sent({About("ATT_INITIATING", c)})
      BY <1>k, <3>1, QueueSentTo, AboutMessage
    <3>3. e = c
      BY <1>n, <3>2, AboutDiffers DEF Sent
    <3> QED
      BY <2>1, <3>3
  <2>2. CASE PhoneConnects(c) \/ ConnectionFails(c) \/ LinkEnds(c)
    <3>1. PICK id \in {"ATT_SUCCESS", "ATT_FAILURE", "ATT_DISCONNECT_IND"} :
              queue' = Append(queue, About(id, c))
      BY <2>2 DEF PhoneConnects, ConnectionFails, LinkEnds, About
    <3>2. id \in Kind /\ id # "ATT_INITIATING"
      BY DEF Kind, StackKind
    <3>3. Sent({About(id, c)})
      BY <3>1, <3>2, QueueSentTo, AboutMessage
    <3> QED
      BY <1>n, <3>2, <3>3, AboutDiffers DEF Sent
  <2> QED
    BY <1>3, <2>1, <2>2 DEF ChannelStepOf
<1> QED
  BY <1>1, <1>2, <1>3, AllSteps

\* A step that starts no channel and no request leaves what is so.
LEMMA OneChannelLeft ==
    ASSUME OneChannel, \A e \in Cid : Claimed(e)' => Claimed(e),
           stack'.connect > 0 => stack.connect > 0
    PROVE  OneChannel'
BY DEF OneChannel

\* The request's part, in a step with the requests and the records as they were.
LEMMA OneRequestLeft ==
    ASSUME OneRequest, held' = held, stack'.connect = stack.connect,
           conn_req_task' = conn_req_task,
           \A e \in Cid : (Waits(e)' => Waits(e)) /\ conn'[e] = conn[e]
    PROVE  OneRequest'
BY DEF OneRequest

\* The steps that are none of a channel.
LEMMA RestTask ==
    ASSUME TypeOK, LifeInv, TaskInv, Rest, ~crossed',
           \A e \in Cid : Waits(e)' => Waits(e)
    PROVE  OneChannel' /\ OneRequest' /\ Owned'
<1>r. /\ untold' = untold /\ \A c \in Cid : conn'[c] = conn[c]
      /\ \A c \in Cid : link'[c] = link[c] \/ (link[c] = "up" /\ link'[c] = "ending")
  BY RestFacts
<1>1. CASE HandleConnectReq
  <2>1. ~crossed /\ ~conn_req_task /\ \A c \in Cid : conn[c] = "none"
    BY <1>1, Zenon DEF HandleConnectReq
  <2>2. OneRequest /\ Owned
    BY <2>1 DEF TaskInv
  <2>3. ASSUME NEW c \in Cid PROVE ~Waits(c)
    BY <2>1, <2>2 DEF OneRequest
  <2>4. ASSUME NEW c \in Cid PROVE ~Claimed(c)
    <3>1. Life(c, Pending(queue, c), conn[c], link[c], client, untold)
      BY DEF LifeInv, ChannelInv, Lives
    <3>2. link[c] \in {"free", "initiating", "up", "ending"}
      BY Typed
    <3> QED
      BY <2>1, <2>3, <3>1, <3>2 DEF Claimed, Waits, Life
  <2>5. ASSUME NEW c \in Cid PROVE ~Claimed(c)'
    BY <1>r, <2>4 DEF Claimed
  <2>6. stack.connect = 0
    <3>1. stack.connect \in Nat
      BY DEF TypeOK
    <3> QED
      BY <2>1, <2>2, <3>1 DEF OneRequest
  <2>7. conn_req_task' /\ stack'.connect = 1 /\ held' = held /\ owned' = owned
    <3>0. stack \in [register : Nat, add_db : Nat, set_data : Nat, connect : Nat]
      BY DEF TypeOK
    <3>1. conn_req_task' = TRUE /\ stack' = [stack EXCEPT !.connect = @ + 1]
      BY <1>1, <2>1, Zenon DEF HandleConnectReq, ConnectReq
    <3>2. stack'.connect = 1
      BY <2>6, <3>0, <3>1
    <3>3. held' = held /\ owned' = owned
      BY <1>1, <2>1, Zenon DEF HandleConnectReq
    <3> QED
      BY <3>1, <3>2, <3>3, Zenon
  <2>8. OneChannel'
    BY <2>5 DEF OneChannel
  <2>9. OneRequest'
    BY <1>r, <2>1, <2>2, <2>7 DEF OneRequest
  <2>10. Owned'
    BY <1>r, <2>2, <2>7 DEF Owned
  <2> QED
    BY <2>8, <2>9, <2>10
<1>2. CASE Rest /\ ~HandleConnectReq
  <2>1. crossed' = crossed
    BY <1>2 DEF Rest, HandleSlcConnected, HandleInitCfm,
       HandleConnectInitialising, HandleConnectFailure, HandleAttRegisterCfm, HandleAttAddDbCfm,
       HandleDisconnectReq, DropMessage, ReleaseConnectReq, ButtonC,
       DisableBleAdvertising, WechatConnectInd, ResetPairedDeviceList, SlcConnects, PairingFails,
       StackRegisters, StackAddsDb, StackSetsData, lib
  <2>2. OneChannel /\ OneRequest /\ Owned
    BY <2>1 DEF TaskInv
  <2>3. ~ReleaseConnectReq
    BY <2>2 DEF OneRequest, ReleaseConnectReq, Released
  <2>s. stack \in [register : Nat, add_db : Nat, set_data : Nat, connect : Nat]
    BY DEF TypeOK
  <2>4. stack'.connect = stack.connect
    <3>1. CASE HandleSlcConnected \/ HandleAttRegisterCfm
      BY <2>s, <3>1 DEF HandleSlcConnected, HandleAttRegisterCfm
    <3>2. CASE \E ok \in BOOLEAN : StackRegisters(ok) \/ StackAddsDb(ok) \/ StackSetsData(ok)
      BY <2>s, <3>2 DEF StackRegisters, StackAddsDb, StackSetsData
    <3>3. CASE \/ HandleInitCfm \/ HandleConnectInitialising \/ HandleConnectFailure
               \/ HandleAttAddDbCfm \/ HandleDisconnectReq \/ DropMessage \/ ButtonC
               \/ DisableBleAdvertising \/ WechatConnectInd \/ ResetPairedDeviceList
               \/ SlcConnects \/ \E c \in Cid : PairingFails(c)
      <4>1. stack' = stack
        BY <3>3 DEF HandleInitCfm, HandleConnectInitialising, HandleConnectFailure,
           HandleAttAddDbCfm, HandleDisconnectReq, DropMessage, ButtonC,
           DisableBleAdvertising, WechatConnectInd, ResetPairedDeviceList, SlcConnects,
           PairingFails, air
      <4> QED
        BY <4>1
    <3> QED
      BY <1>2, <2>3, <3>1, <3>2, <3>3, Zenon DEF Rest
  <2>5. held' = held /\ conn_req_task' = conn_req_task
    BY <1>2, <2>3, Zenon DEF Rest, HandleSlcConnected, HandleInitCfm,
       HandleConnectInitialising, HandleConnectFailure, HandleAttRegisterCfm, HandleAttAddDbCfm,
       HandleDisconnectReq, DropMessage, ButtonC,
       DisableBleAdvertising, WechatConnectInd, ResetPairedDeviceList, SlcConnects, PairingFails,
       StackRegisters, StackAddsDb, StackSetsData, lib
  <2>6. \A c \in Cid : conn'[c] # "none" => c \in owned'
    <3>1. CASE HandleAttAddDbCfm
      <4>1. libState = "initialising"
        BY <3>1 DEF HandleAttAddDbCfm, LibNext
      <4>2. \A c \in Cid : conn[c] = "none"
        BY <4>1 DEF LifeInv, AskedWhenStarted, NoLink
      <4> QED
        BY <1>r, <4>2
    <3>2. CASE ~HandleAttAddDbCfm
      <4>1. owned' = owned
        BY <1>2, <2>3, <3>2 DEF Rest, HandleSlcConnected, HandleInitCfm,
           HandleConnectInitialising, HandleConnectFailure, HandleAttRegisterCfm,
           HandleDisconnectReq, DropMessage, ButtonC,
           DisableBleAdvertising, WechatConnectInd, ResetPairedDeviceList, SlcConnects,
           PairingFails, StackRegisters, StackAddsDb, StackSetsData, lib
      <4> QED
        BY <1>r, <2>2, <4>1 DEF Owned
    <3> QED
      BY <3>1, <3>2
  <2>7. \A e \in Cid : Claimed(e)' => Claimed(e)
    BY <1>r DEF Claimed
  <2>8. OneChannel'
    BY <2>2, <2>4, <2>7, OneChannelLeft
  <2>9. OneRequest'
    BY <1>r, <2>2, <2>4, <2>5, OneRequestLeft
  <2>10. Owned'
    BY <1>r, <2>2, <2>6 DEF Owned
  <2> QED
    BY <2>8, <2>9, <2>10
<1> QED
  BY <1>1, <1>2

\* The channel of a message at the head, of a kind that has an order.
LEMMA HeadOf ==
    ASSUME TypeOK, LifeInv, NEW id \in Kind, Next1(id)
    PROVE  LET c == Head(queue).cid IN
           /\ c \in Cid /\ id \in Pending(queue, c)
           /\ id \in StackKind \ {"ATT_INITIATING"} => ~Waits(c)
           /\ Life(c, Pending(queue, c), conn[c], link[c], client, untold)
<1> DEFINE c == Head(queue).cid
<1>1. /\ c \in Cid /\ id \in Pending(queue, c)
      /\ \A b \in Pending(queue, c) \ {id} : SameSender(id, b) => Follows(id, b)
  BY Typed, HeadTaken DEF LifeInv, ChannelInv
<1> HIDE DEF c
<1>2. id \in StackKind \ {"ATT_INITIATING"} => ~Waits(c)
  BY <1>1, Senders DEF Waits, StackKind, Follows
<1>3. Life(c, Pending(queue, c), conn[c], link[c], client, untold)
  BY <1>1 DEF LifeInv, ChannelInv, Lives
<1> QED
  BY <1>1, <1>2, <1>3 DEF c

\* The library's handlers of a message about a channel.
LEMMA HeadTask ==
    ASSUME TypeOK, LifeInv, OneChannel, OneRequest, Owned, HeadStep,
           \A e \in Cid : Waits(e)' => Waits(e)
    PROVE  OneChannel' /\ OneRequest' /\ Owned'
<1>t. conn \in [Cid -> Record]
  BY Typed
<1>u. link' = link /\ stack' = stack /\ held' = held
  BY DEF HeadStep, HandleConnectSuccess, HandleDisconnectInd,
     HandleAttInitiating, HandleAttSuccess, HandleAttFailure,
     HandleAttDisconnectInd, HandleDeleteConn, DeleteCid, air, lib
<1>k. /\ {"ATT_INITIATING", "ATT_SUCCESS", "ATT_FAILURE", "ATT_DISCONNECT_IND",
          "DELETE_CONN"} \subseteq Kind
      /\ {"ATT_INITIATING", "ATT_SUCCESS", "ATT_FAILURE", "ATT_DISCONNECT_IND"} = StackKind
  BY DEF Kind, StackKind, OwnKind
<1> DEFINE c == Head(queue).cid
<1>w. /\ c \in Cid /\ ~Waits(c) => "ATT_INITIATING" \notin Pending(queue', c)
      /\ \A e \in Cid : Waits(e)' => Waits(e)
  BY DEF Waits
\* The record of the channel c, which a request has, becomes r.
<1>s. ASSUME c \in Cid, Claimed(c), NEW r, conn' = [conn EXCEPT ![c] = r],
             untold' = untold, r # "none" => c \in owned',
             "ATT_INITIATING" \in Pending(queue', c) \/ r = "connecting" => conn_req_task',
             r \in {"up", "closing"} => ~conn_req_task'
      PROVE  OneChannel' /\ OneRequest' /\ Owned'
  <2> HIDE DEF c
  <2>1. conn'[c] = r /\ \A e \in Cid \ {c} : conn'[e] = conn[e]
    BY <1>t, <1>s
  <2>2. \A e \in Cid \ {c} : ~Claimed(e)
    BY <1>s DEF OneChannel
  <2>3. \A e \in Cid \ {c} : conn'[e] = "none" /\ ~Waits(e)'
    BY <2>1, <2>2 DEF Claimed
  <2>4. \A e \in Cid : Claimed(e)' => Claimed(e)
    <3>1. \A e \in Cid \ {c} : Claimed(e)' => Claimed(e)
      BY <1>u, <2>1 DEF Claimed
    <3> QED
      BY <1>s, <3>1
  <2>5. OneChannel'
    BY <1>u, <2>4, OneChannelLeft
  <2>6. ~(stack.connect > 0)
    BY <1>s DEF OneChannel
  <2>7. OneRequest'
    <3>1. held' = 0 /\ ~(stack'.connect > 0)
      BY <1>u, <2>6 DEF OneRequest
    <3>2. ASSUME NEW e \in Cid
          PROVE  /\ Waits(e)' \/ conn'[e] = "connecting" => conn_req_task'
                 /\ conn'[e] \in {"up", "closing"} => ~conn_req_task'
      <4>1. CASE e = c
        BY <1>s, <2>1, <4>1 DEF Waits
      <4>2. CASE e # c
        BY <2>3, <4>2
      <4> QED
        BY <4>1, <4>2
    <3> QED
      BY <3>1, <3>2 DEF OneRequest
  <2>8. Owned'
    BY <1>s, <2>1, <2>3 DEF Owned
  <2> QED
    BY <2>5, <2>7, <2>8
\* Nothing becomes of the records.
<1>n. ASSUME conn' = conn, conn_req_task' = conn_req_task, untold' = untold, owned' = owned
      PROVE  OneChannel' /\ OneRequest' /\ Owned'
  <2>1. OneChannel'
    BY <1>n, <1>u, OneChannelLeft DEF Claimed
  <2>2. OneRequest'
    BY <1>n, <1>u, OneRequestLeft
  <2>3. Owned'
    BY <1>n DEF Owned
  <2> QED
    BY <2>1, <2>2, <2>3
<1>1. CASE HandleConnectSuccess \/ HandleDisconnectInd
  BY <1>1, <1>n DEF HandleConnectSuccess, HandleDisconnectInd, lib
<1>2. CASE HandleAttInitiating
  <2>1. /\ c \in Cid /\ Waits(c)
        /\ Life(c, Pending(queue, c), conn[c], link[c], client, untold)
    BY <1>2, <1>k, HeadOf DEF HandleAttInitiating, LibNext, Waits
  <2>2. conn[c] = "none" /\ Claimed(c) /\ conn_req_task
    BY <2>1 DEF Life, Waits, Claimed, OneRequest
  <2>3. /\ conn' = [conn EXCEPT ![c] = "connecting"] /\ owned' = owned \cup {c}
        /\ conn_req_task' = conn_req_task /\ untold' = untold
    BY <1>2, <2>2 DEF HandleAttInitiating
  <2> HIDE DEF c
  <2> QED
    BY <1>s, <2>1, <2>2, <2>3
<1>3. CASE HandleAttSuccess
  <2>1. c \in Cid /\ ~Waits(c)
    BY <1>3, <1>k, HeadOf DEF HandleAttSuccess, LibNext
  <2>2. /\ conn[c] # "none" /\ conn' = [conn EXCEPT ![c] = "up"]
        /\ conn_req_task' = FALSE /\ untold' = untold /\ owned' = owned
    BY <1>3 DEF HandleAttSuccess
  <2> HIDE DEF c
  <2>3. Claimed(c) /\ c \in owned
    BY <2>1, <2>2 DEF Claimed, Owned
  <2>4. "ATT_INITIATING" \notin Pending(queue', c)
    BY <1>w, <2>1
  <2> QED
    BY <1>s, <2>1, <2>2, <2>3, <2>4
<1>4. CASE HandleAttFailure
  <2>1. /\ c \in Cid /\ ~Waits(c) /\ "ATT_FAILURE" \in Pending(queue, c)
        /\ Life(c, Pending(queue, c), conn[c], link[c], client, untold)
    BY <1>4, <1>k, HeadOf DEF HandleAttFailure, LibNext
  <2>2. /\ conn' = [conn EXCEPT ![c] = "none"] /\ owned' = owned \ {c}
        /\ conn_req_task' = FALSE /\ untold' = untold
    BY <1>4 DEF HandleAttFailure, DeleteCid
  <2> HIDE DEF c
  <2>3. Claimed(c)
    BY <2>1 DEF Life, Waits, Claimed
  <2>4. "ATT_INITIATING" \notin Pending(queue', c)
    BY <1>w, <2>1
  <2> QED
    BY <1>s, <2>1, <2>2, <2>3, <2>4
<1>5. CASE HandleAttDisconnectInd
  <2>1. c \in Cid /\ ~Waits(c)
    BY <1>5, <1>k, HeadOf DEF HandleAttDisconnectInd, LibNext
  <2>2. CASE conn[c] = "none"
    <3>1. UNCHANGED <<conn_req_task, conn, untold>> /\ owned' = owned
      BY <1>5, <2>2 DEF HandleAttDisconnectInd
    <3> QED
      BY <1>n, <3>1
  <2>3. CASE conn[c] # "none"
    <3>1. c \in owned
      BY <2>1, <2>3 DEF Owned
    <3>2. /\ conn' = [conn EXCEPT ![c] = "closing"] /\ owned' = owned
          /\ conn_req_task' = FALSE /\ untold' = untold
      BY <1>5, <2>3, <3>1 DEF HandleAttDisconnectInd
    <3> HIDE DEF c
    <3>3. Claimed(c) /\ "ATT_INITIATING" \notin Pending(queue', c)
      BY <1>w, <2>1, <2>3 DEF Claimed
    <3> QED
      BY <1>s, <2>1, <3>1, <3>2, <3>3
  <2> QED
    BY <2>2, <2>3
<1>6. CASE HandleDeleteConn
  <2>1. /\ c \in Cid /\ "DELETE_CONN" \in Pending(queue, c)
        /\ Life(c, Pending(queue, c), conn[c], link[c], client, untold)
    BY <1>6, <1>k, HeadOf DEF HandleDeleteConn, LibNext
  <2>2. /\ conn' = [conn EXCEPT ![c] = "none"] /\ owned' = owned \ {c}
        /\ conn_req_task' = conn_req_task /\ untold' = untold
    BY <1>6 DEF HandleDeleteConn, DeleteCid
  <2> HIDE DEF c
  <2>3. conn[c] = "closing" /\ Claimed(c)
    BY <2>1 DEF Life, Claimed
  <2>4. "ATT_INITIATING" \notin Pending(queue', c)
    BY <1>w, <2>1, <2>3 DEF Life, Waits
  <2> QED
    BY <1>s, <2>1, <2>2, <2>3, <2>4
<1> QED
  BY <1>1, <1>2, <1>3, <1>4, <1>5, <1>6 DEF HeadStep

\* What the stack and the phone do to a channel.
LEMMA StackTask ==
    ASSUME TypeOK, OneChannel, OneRequest, Owned, NEW c \in Cid, ChannelStepOf(c),
           \A e \in Cid : Waits(e)' => Waits(e) \/ StackInitiates(e)
    PROVE  OneChannel' /\ OneRequest' /\ Owned'
<1>t. /\ link \in [Cid -> {"free", "initiating", "up", "ending"}]
      /\ stack \in [register : Nat, add_db : Nat, set_data : Nat, connect : Nat]
  BY DEF TypeOK
<1>u. /\ conn' = conn /\ owned' = owned /\ untold' = untold /\ held' = held
      /\ \A e \in Cid \ {c} : link'[e] = link[e]
  BY <1>t DEF ChannelStepOf, StackInitiates, PhoneConnects, ConnectionFails, LinkEnds, lib
<1>v. conn_req_task' = conn_req_task
  BY Zenon DEF ChannelStepOf, StackInitiates, PhoneConnects, ConnectionFails, LinkEnds, lib
<1>o. Owned'
  BY <1>u DEF Owned
<1>1. CASE \E d \in Cid : StackInitiates(d)
  <2>1. PICK d \in Cid : StackInitiates(d)
    BY <1>1
  <2>2. stack.connect > 0 /\ stack' = [stack EXCEPT !.connect = @ - 1]
        /\ link' = [link EXCEPT ![d] = "initiating"]
    BY <2>1 DEF StackInitiates
  <2>3. stack.connect = 1 /\ conn_req_task /\ \A e \in Cid : ~Claimed(e)
    BY <2>2 DEF OneChannel, OneRequest
  <2>4. stack'.connect = 0 /\ \A e \in Cid \ {d} : link'[e] = link[e]
    BY <1>t, <2>2, <2>3
  <2>5. \A e \in Cid : StackInitiates(e) => e = d
    <3> SUFFICES ASSUME NEW e \in Cid, StackInitiates(e), e # d PROVE FALSE
      OBVIOUS
    <3>1. link' = [link EXCEPT ![e] = "initiating"] /\ link[e] = "free"
      BY DEF StackInitiates
    <3> QED
      BY <1>t, <2>2, <3>1
  <2>6. \A e \in Cid \ {d} : ~Claimed(e)'
    BY <1>u, <2>3, <2>4, <2>5 DEF Claimed
  <2>7. OneChannel'
    BY <2>4, <2>6 DEF OneChannel
  <2>8. OneRequest'
    <3>1. \A e \in Cid : conn'[e] = "none"
      BY <1>u, <2>3 DEF Claimed
    <3>2. ~(stack'.connect > 0)
      BY <2>4
    <3> QED
      BY <1>u, <1>v, <2>3, <3>1, <3>2 DEF OneRequest
  <2> QED
    BY <1>o, <2>7, <2>8
<1>2. CASE \A d \in Cid : ~StackInitiates(d)
  <2>1. /\ PhoneConnects(c) \/ ConnectionFails(c) \/ LinkEnds(c)
        /\ \A e \in Cid : Waits(e)' => Waits(e)
    BY <1>2 DEF ChannelStepOf
  <2>2. stack' = stack /\ link[c] # "free"
    BY <2>1 DEF PhoneConnects, ConnectionFails, LinkEnds
  <2>3. \A e \in Cid : Claimed(e)' => Claimed(e)
    BY <1>u, <2>1, <2>2 DEF Claimed
  <2>4. OneChannel'
    BY <2>2, <2>3, OneChannelLeft
  <2>5. OneRequest'
    BY <1>u, <1>v, <2>1, <2>2, OneRequestLeft
  <2> QED
    BY <1>o, <2>4, <2>5
<1> QED
  BY <1>1, <1>2

\* At the start nothing is asked for.
LEMMA InitTask == Init => TaskInv
<1> SUFFICES ASSUME Init PROVE OneChannel /\ OneRequest /\ Owned
  BY DEF TaskInv
<1>1. queue = <<>> /\ Len(queue) = 0 /\ stack.connect = 0 /\ held = 0 /\ untold = {}
      /\ \A c \in Cid : conn[c] = "none" /\ link[c] = "free"
  BY DEF Init
<1>2. \A c \in Cid : ~Waits(c)
  BY <1>1 DEF Waits, Pending
<1> QED
  BY <1>1, <1>2 DEF OneChannel, OneRequest, Owned, Claimed

\* As long as no request crosses another or a channel, every step keeps one channel,
\* one request and the task.
LEMMA NextTask == IInv /\ LifeInv /\ TaskInv /\ [Next]_vars => TaskInv'
<1> SUFFICES ASSUME IInv, LifeInv, TaskInv, [Next]_vars, ~crossed'
             PROVE  OneChannel' /\ OneRequest' /\ Owned'
  BY DEF TaskInv
<1>t. TypeOK
  BY DEF IInv
<1>1. CASE UNCHANGED vars
  <2>1. /\ crossed' = crossed /\ held' = held /\ conn' = conn /\ link' = link /\ stack' = stack
        /\ conn_req_task' = conn_req_task /\ owned' = owned /\ untold' = untold
        /\ queue' = queue
    BY <1>1, Zenon DEF vars, lib, air
  <2>2. OneChannel /\ OneRequest /\ Owned
    BY <2>1 DEF TaskInv
  <2> QED
    BY <2>1, <2>2 DEF OneChannel, OneRequest, Owned, Claimed, Waits
<1>2. CASE Next
  <2>1. \A e \in Cid : Waits(e)' => Waits(e) \/ StackInitiates(e)
    BY <1>t, <1>2, WaitsStep
  <2>2. ASSUME HeadStep \/ \E c \in Cid : ChannelStepOf(c)
        PROVE  OneChannel /\ OneRequest /\ Owned
    <3>1. crossed' = crossed
      BY <2>2 DEF HeadStep, ChannelStepOf, HandleConnectSuccess, HandleDisconnectInd,
         HandleAttInitiating, HandleAttSuccess, HandleAttFailure, HandleAttDisconnectInd,
         HandleDeleteConn, StackInitiates, PhoneConnects, ConnectionFails, LinkEnds, lib
    <3> QED
      BY <3>1 DEF TaskInv
  <2>3. CASE \E c \in Cid : ChannelStepOf(c)
    BY <1>t, <2>1, <2>2, <2>3, StackTask
  <2>4. CASE Rest \/ HeadStep
    <3>1. CASE \E e \in Cid : StackInitiates(e)
      BY <2>3, <3>1 DEF ChannelStepOf
    <3>2. CASE \A e \in Cid : ~StackInitiates(e)
      BY <1>t, <2>1, <2>2, <2>4, <3>2, RestTask, HeadTask
    <3> QED
      BY <3>1, <3>2
  <2> QED
    BY <1>2, <2>3, <2>4, AllSteps
<1> QED
  BY <1>1, <1>2

-----------------------------------------------------------------------------
(* Theorems                                                                *)

\* The inductive invariant.
THEOREM InductiveInvariant == Spec => []IInv
BY InitIInv, NextIInv, PTL DEF Spec

\* The types of the state; timers do not pile up beyond one for each service
\* level connection and one for the advertising.
THEOREM TypeCorrect == Spec => []TypeOK
BY InductiveInvariant, PTL DEF IInv

\* Whatever the local name is, the advertising data fit into a packet.
THEOREM DataAlwaysFit == Spec => []AdDataFits
BY InductiveInvariant, PTL DEF IInv

\* Button, timer, disconnections and RFCOMM never leave the flag set without
\* a timer, nor the radio on behind a clear flag.
THEOREM AlwaysTimed == Spec => []AdvertisingIsTimed
BY InductiveInvariant, PTL DEF IInv


\* What is queued about a channel, its record, its state in the stack and the client
\* agree in every state, and nobody has asked for a connection before the start.
THEOREM ChannelsAgree == Spec => []LifeInv
<1>1. IInv /\ LifeInv /\ [Next]_vars => LifeInv'
  BY NextLife
<1> QED
  BY InductiveInvariant, InitLife, <1>1, PTL DEF Spec

\* The application keeps a client whose channel is gone only until the indication of
\* its end comes, or if the library had no task to send the indication to.
THEOREM ClientsKnown == Spec => []NoGhostClient
BY InductiveInvariant, ChannelsAgree, LifeSays, PTL DEF IInv

\* The library is never started again while it has a connection, and ATT_CONNECT_CFM
\* always finds a record: gattHandleAttConnectCfm does not panic.
THEOREM RestartsSafely == Spec => []RestartFindsNoLink
BY InductiveInvariant, ChannelsAgree, LifeSays, PTL DEF IInv

\* As long as no request crosses another one or a channel, every record of the library
\* names the application's task, and every end was told: the client above never stays,
\* and the headset is never deaf for want of an indication.
THEOREM TaskAlwaysKept == Spec => []TaskKept
<1>1. IInv /\ LifeInv /\ TaskInv /\ [Next]_vars => TaskInv'
  BY NextTask
<1> QED
  BY InductiveInvariant, ChannelsAgree, InitTask, TaskSays, <1>1, PTL DEF Spec

\* As long as the stack refuses nothing and every end is told to the application, the
\* start or a request for a connection goes on in every state: restarts, requests that
\* cross and repeated disconnections never leave the headset deaf.
THEOREM AlwaysReachable == Spec => []StaysReachable
<1>1. Init => ReachInv
  BY InitReach
<1>2. IInv /\ LifeInv /\ ReachInv /\ [Next]_vars => ReachInv'
  BY NextReach
<1>3. IInv /\ ReachInv => StaysReachable
  BY ReachSays DEF IInv
<1> QED
  BY InductiveInvariant, ChannelsAgree, <1>1, <1>2, <1>3, PTL DEF Spec
=============================================================================
