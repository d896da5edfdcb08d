# A verification project for the Koovox headset

The repository is the firmware of a Bluetooth headset built on the CSR ADK: the
*sink* application (`src/apps/sink`) over the ADK's libraries (`src/src/lib`).
What the product adds to the ADK is a small distributed system: a **sensor
controller** (STM8) behind a serial line, a **phone** running a WeChat
application behind BLE or RFCOMM, and the **user** with a button, all served by
one single-threaded event loop that keeps almost no queues. This project models
that part, checks it with TLC and proves the most important facts with TLAPS.
The ADK's vendor code is modelled where the product's behaviour depends on it
(start, connections and indications of the GATT library, the RFCOMM transport,
and how the headset and its phones find and lose each other over HFP) and listed
as not modelled elsewhere.

## 1 Inventory

### How the program runs

Every handler runs to completion on the VM scheduler's queue
(`MessageSend`, `MessageSendLater`); nothing pre-empts it. All concurrency is
therefore between *handlers*: the order in which messages of the links, timers,
the serial line and the user arrive is arbitrary, each handler is one atomic
step. `mallocPanic` and `freePanic` are plain `malloc` and `free` in the release
build (`sink_private.h:809`), and pointers are mostly used unchecked.

| Component | State | Operations | Talks to |
|---|---|---|---|
| Request sharing (`sink_koovox_core.c`, `sink_koovox_uart.c`, `sink_handle_accelerate_data.c`) | `button_req`, `wechat_req`, `koovox.last_cmd`, `koovox.repeat_times` | button M, power on, confirmations, frame errors, self-test result, measurements | STM8 over UART; WeChat session (answers, reports) |
| Heart-rate filter (`sink_heart_rate_calc.c`) | `smooth_var` and its FIFO | start, stop, sample | request sharing; WeChat session |
| UART framing (`sink_koovox_uart.c`) | receive buffer, position | cut frames out of the stream, send | request sharing |
| WeChat session (`koovox_wechat_handle.c`) | `g_wechat` (type, states, `send_data`, `rcv_data`) | connect, disconnect, pack and send, indication confirmed, fragment received, repeat timer | GATT server, WeChat transport, request sharing |
| GATT server (`sink_gatt.c`, `sink_gatt_server.c`) | `indication`, `cid`, client configuration | GATT messages of the library | WeChat session, advertising |
| BLE advertising (`sink_ble_advertising.c`) | `koovox.ble_adv`, `ad_data_valid` | start, stop, 120 s timer | GATT server, connection library |
| Start and connections of GATT (`src/src/lib/gatt`, `sink_gatt.c`) | `gatt.initialised`, `devs[0]`; `theGatt`: state, `conn_req_task`, connections | start, connect request, delete, disconnect | ATT, advertising |
| WeChat transport (`src/src/lib/wechat`) | the service record, one slot per phone: state, RFCOMM channel, sink | start service, connect, disconnect, send | connection library (RFCOMM, SDP), `sink_wechat.c` |
| Indications (`src/src/lib/gatt`) | one indication of a link in flight | request, confirmation, failure, link loss | ATT, GATT server |
| STM8, phone, Bluetooth stack | external | commands confirmed, frames written, links up and down | - |
| Link management (`sink_slc.c`, `sink_devicemanager.c`, `sink_statemanager.c`, `sink_scan.c`) | `gSlcData`, attempts, `connection_in_progress`, `profile_data`, the state, page scan and its timer | search through the paired devices, connection made, failed or ended, power on and off, pairing mode | HFP library, `main.c` |
| HFP library (`src/src/lib/hfp`) | `theHfp->links`: state, address, priority, service | connect and disconnect request, search answered, stream made, refused or ended, call of a phone | link management; SDP and RFCOMM below |
| Calls, audio, user interface, other profiles, charger | many | the ADK's sink application | profile libraries |

### What makes it hard, and what makes it correct

* **Request sharing.** Three clients, one line, two booleans. A request of the
  phone should be accepted one at a time, answered once, and refused only while
  something runs; a frame error should repeat the command that was broken.
  Hazards: overlapping requests of button and phone, repeats that run out,
  answers cut by noise, disconnections with a request open, resets.
* **WeChat session.** A frame goes to the phone in chunks of one indication
  each, the next one sent by the confirmation of the last. Correct means: the
  phone hears whole frames, every buffer is freed once and none is lost, a frame
  that was started is finished, and `indication` tells what is in progress.
  Hazards: reports packed over a frame in flight, failed indications, link loss
  in the middle of a frame, the repeat a second later, two links at once.
* **Transport.** One slot, one channel, one service record at a time: a phone
  should always be able to come back. Hazards: failed connections and
  registrations, both sides disconnecting.
* **Advertising.** While no phone is connected the headset is either
  advertising or its timer has ended it on purpose; a connection can be asked
  for again and again, and the end of each one reaches the application. Hazards:
  a start of the library repeated, requests that cross.
* **Links.** Headset and phones connect to each other, at the same time, over a
  library that names a connection by its priority and an application that keeps
  flags by that priority. Correct means: one link a phone, the application's
  slots are the connections there are, a headset without a phone can be paged,
  and a search goes on until it ends. Hazards: crossing connections, promotion
  of the secondary link, a timer or an answer of an earlier attempt.
* **Framing, reassembly, filter.** Pure algorithms with boundary cases. The
  sensor's data are any octets and nothing escapes the frame's tail in them.

All of them, each at its line, are the `hazards` of `PROJECT.json`.

## 2 Plan

1. `KoovoxRequest` (done), refining `PhoneRequests`; proofs in
   `KoovoxRequestProofs` (done).
2. `WechatSession` over BLE and RFCOMM (done).
3. `WechatTransport` (done): slot, channel and service record of the library,
   with the connection library's handlers and BlueStack external below them.
4. `UartFraming` (done): the frames of the sensor controller in the byte stream.
5. `BleAdvertising` (done): the start of the GATT library, the connect request,
   the one client, the advertising data, the radio and the 120 s timer.
6. `WechatReassembly` and `HeartRateFilter` (done): the two algorithms, against
   what was sent and what was measured.
7. `SlcReconnect` (done): HFP links, the search through the paired devices and
   page scan; proofs in `SlcReconnectProofs` (done for all its properties).
8. Proofs: `WechatSessionProofs` and `BleAdvertisingProofs` (done),
   `HeartRateFilterProofs` on `InductionOverData` (done but for `SmallSteps`),
   `WechatTransportProofs` (done but for `ChannelsAccounted`), `UartFramingProofs`
   (done). Still open: `WechatReassembly`.
9. Compositions: `KoovoxRequest` with `WechatSession` (reports of the one are
   `Report` of the other), `WechatSession` with `WechatTransport`.
10. The vendor part nearest to the product: calls and multipoint, A2DP beside
    HFP, the recovery of a lost link, the audio prompt queue.

## 3 The modules

### KoovoxRequest: three clients on one serial line

| Model | Code |
|---|---|
| `wechat_req`, `button_req` | the two globals of the same name |
| `last_cmd`, `repeat_times` | fields of `koovox` (`sink_koovox_task.h:52`) |
| `session` | `g_wechat # NULL` |
| `smooth_var` | `smooth_var # NULL`, the filter has memory |
| `uartTx`, `uartRx` | the UART sink and the frames `KoovoxMessageStr` cuts out of the source |
| `measuring` | external: the sensor samples the heart rate |
| `forwarded`, `answered`, `lost`, `errors`, `garbled`, `rebooted` | history, for the properties and the bounds |
| `PowerOn`, `PowerOff` | `EventUsrPowerOn`, `EventUsrPowerOff` in `handleUEMessage` |
| `ButtonMClick` | `EventKoovoxButtonMClick` |
| `PushRecvData` | `ECI_push_recvData` in `koovox_rcv_data_handle` |
| `KoovoxResponse*`, `DefaultConfirmation` | the confirmations `KoovoxUartMessageHandle` dispatches |
| `KoovoxResultI2cTest`, `ReportToPhone` | its measurements |
| `StrayAccess`, `SinkFull` | an access through `NULL`, and `Panic()` when `SinkClaim` fails |
| `Sensor*`, `AnswerGarbled` | external: the STM8, from the frames the headset sends and expects |

A frame's payload is reduced to what its handler looks at (`Frame`): the command
confirmed, its result, and whether it is long enough. An access through `NULL`
is undefined, so both outcomes are steps: `StrayAccess` traps, the handler's own
action goes on. `koovox.health` is never written, so the STOP branch of the
button is dead and not modelled.

`PhoneRequests` is the abstract view of the phone: requests are accepted one at
a time and each is closed once. `KoovoxRequest` refines it (`ServesPhone`).

### WechatSession: one phone, two links, one frame

| Model | Code |
|---|---|
| `g_wechat` | `WECHAT_DATA_T` without its buffers: `type`, `connect_state`, `auth_state`, `init_state` |
| `send_data` | `g_wechat->send_data`: buffer, length and offset, counted in indications (chunks) |
| `indication` | `gattServer indication`: `none` or `wechat` |
| `heap` | frame buffers allocated |
| `inbox` | the VM's message queue as far as this task reads it, in order |
| `timers` | `EventKoovoxRepeatSendIndication` messages under way; they are never cancelled |
| `att`, `listening` | external: an ATT link is up, the headset accepts one |
| `ble_adv` | `koovox.ble_adv`, the application's idea of `listening` (the radio itself is in `BleAdvertising`) |
| `air` | indications of the link in the GATT library: the head in flight, the others queued |
| `rfcomm`, `rfcommOut` | the library's slot, and packets it has not sent yet |
| `heard` | history: the last chunk the phone confirmed |
| `torn`, `overlapped`, `failed`, `mixed`, `dropped`, `freedTwice` | history: what has happened to the frames |
| `HandleGatt*`, `HandleClientConfig` | `gatt_message_handler`, `sink_gatt_server.c`, `koovox_wechat_connect` |
| `HandleWechat*` | `handleWechatMessage` of `sink_wechat.c` |
| `Rcv*` | the frames of the phone in `koovox_rcv_data_handle` |
| `RepeatSendIndication` | `EventKoovoxRepeatSendIndication` |
| `Report` | any of the sensor's reports that packs a frame |
| `ButtonCDoubleClick`, `DisableBleAdvertising` | `EventKoovoxButtonCDoubleClick` and the timer's `EventKoovoxDisableBleAdvertise` |
| `WechatSendPacket` | the library's copy of a packet into the RFCOMM stream, and the confirmation that frees it |
| `NoMemory`, `HeapTrap`, `StrayAccess` | a frame packed without memory; a corrupted heap after a double free; an access through `NULL` |
| `Ble*`, `Rfcomm*`, `WechatDisconnect` | the libraries and the phone |

A failed indication is dropped by `server_handle_gatt_indication_cfm`, which
only looks at successes, so `BleFail` queues no message. The confirmation of an
accepted connection (`success_sent`) is ignored by the application as well.
Sequence numbers, checksums and contents are left out: no property tells them
apart. The phone's frames arrive whole here; how they are put together is
`WechatReassembly`.

### WechatTransport: one slot, one channel, one record

| Model | Code |
|---|---|
| `transport` | `wechat->transport[]`: type, sink, channel, connected |
| `spp_sdp_handle` | the field of that name; a record is named by its channel |
| `wechat_transport`, `session` | `wechat_data.wechat_transport` and `g_wechat # NULL` of the application |
| `queue` | VM messages to the connection library, the WeChat library and the application, in the order sent |
| `pending`, `registered`, `records`, `conn` | BlueStack: requests, channels in use, service records, streams |
| `closed`, `refused`, `failed` | history: disconnections asked for here, accepted connections that failed, requests that failed without need |
| `Handle*Cfm`, `Handle*Ind` | the cases of `wechatTransportRfcommHandleMessage` |
| `HandleWechat*` | `handleWechatMessage`, with `WechatDisconnectResponse` |
| `WechatDisconnect` | `wechatDisconnect` at power off, or again after the next power on |
| `ForwardRequest`, `ConnectRes`, `DisconnectReq`, `DisconnectRsp` | `rfc_handler.c`, `sdp_handler.c` |
| `Registers`, `Unregisters`, `Publishes`, `Withdraws` | BlueStack's answer and the confirmation the library makes of it |
| `Phone*`, `Stack*` | BlueStack and phones |
| `NoSlot`, `StrayAccess` | a handler that writes through the slot it did not find |

One FIFO stands for the queues of three tasks, because the VM has one. What
BlueStack tells the connection library becomes a message in one step: the two
hops are FIFO as well, and the event may happen at any time before. RFCOMM and
SDP answer in order, each for itself. The confirmations the application ignores
(`WECHAT_START_SERVICE_CFM`, `WECHAT_DISCONNECT_CFM`, a failed
`WECHAT_CONNECT_IND`) are not messages, and the custom record of
`PSKEY_MOD_MANUF0`, whose confirmation `wechat.c` swallows first, is left out.

### UartFraming: frames in a byte stream

| Model | Code |
|---|---|
| `uart_msg` | the first `uart_offset` bytes of the buffer |
| `KoovoxMessageStr`, `Scan`, `Compare` | the search, its loop, one turn of it |
| `Turn`, `Receive`, `StartOver`, `Copied`, `GiveBack` | the loop of `uart_data_stream_rx_data` with its `uint8` index |
| `MoreData` | `MESSAGE_MORE_DATA` with any number of bytes |
| `wire`, `SensorSends`, `Noise` | external: the sensor controller and the line |
| `handled`, `seen`, `sent`, `due`, `clean`, `noise`, `overrun` | history; `due` is what a receiver makes of each frame sent by itself |

A byte is `{`, `}` or any other, which is all the search tells apart. A frame's
body is any bytes, `{` and `}` included: the sensor's data are not escaped, so that
123 and 125 in a row cut their frame (`Whole` says that they do not). The
reference, `ByteWise`, is a receiver that takes one byte at a time. On the XAP a
`uint8` has 16 bits; the width of the index is a parameter.

### WechatReassembly: frames out of fragments

| Model | Code |
|---|---|
| `g_wechat`, `rcv_data` | `g_wechat # NULL`; `g_wechat->rcv_data`: the length of the frame begun (0 for none) and what has been collected |
| `heap` | frame buffers allocated |
| `Turn`, `Received` | one turn, and all, of the loop of `koovox_rcv_data_from_wechat` |
| `HeadTaken`, `RestAfter`, `Complete` | its conditions: a head turned down, the rest given up after an error, the frame complete |
| `HeadAt`, `ReadsBehind` | a head is read where it begins, also behind the end of the fragment: `Stale` is what lies there |
| `FragmentArrives` | `HANDLE_WRITE_CHARACTERISTIC` or `WECHAT_MESSAGE_MORE_DATA` with the next items of the wire |
| `InitWechat`, `WechatDisconnect`, `SecondLink` | `koovox_init_wechat` and `koovox_wechat_disconnect`, also by another link than the one the fragments come over |
| `link`, `wire`, `PhoneSends` | external: the phone |
| `sent`, `handled`, `last`, `clean`, `trouble`, `cut` | history: frames sent and handled on this link; undisturbed frames in a row; whether anything disturbed the link; sessions that ended within a frame |

An item is what the code reads at once (two bytes for the length, four for
command and sequence number).

### HeartRateFilter: following a noisy rate

| Model | Code |
|---|---|
| `p_smooth_value`, `zero_num`, `smooth_status`, `hb_origin_buff`, `hb_smooth_buff` | the fields of `smooth_var` |
| `measuring` | `smooth_var # NULL` |
| `Start`, `Stop`, `Sample` | `Koovox_init_smooth_var`, `Koovox_free_smooth_var`, `Koovox_heartrate_smooth` |
| `SmoothBefore`, `SmoothMiddle`, `SmoothAfter` | the three stages |
| `Fifo_insert`, `Get_average`, `Plausible`, `Steady`, `Limited`, `ZeroNum` | the helpers and conditions, in the code's unsigned arithmetic |
| `lo`, `hi` | history: the range of the rates since the start |

`KoovoxCalculateHeartRate` (`sink_heart_rate_calc.c:245`) only logs the smoothed
rate and reports the raw one, so the filter decides nothing else today.

### BleAdvertising: being found over BLE

| Model | Code |
|---|---|
| `initialised`, `client` | `gatt.initialised`, `server.devs[0]` of the application |
| `ad_data_valid`, `ble_adv` | the static flag of the advertising data, `koovox.ble_adv` |
| `timers` | `EventKoovoxDisableBleAdvertising` messages pending |
| `libState`, `conn_req_task`, `conn` | `theGatt`: its state, who asked for a connection (the application or nobody), the connections |
| `owned` | the connections whose record names the application's task, and not 0: `gatt_connect.c:256` takes it from `conn_req_task` |
| `held` | connect requests sent conditionally on `conn_req_task` |
| `queue` | the VM's queue, of the application and of the library |
| `setup_ble_ad_data` and its parts | octets used by flags, services, name and maker's data |
| `HandleSlcConnected`, `HandleInitCfm`, `HandleConnect*`, `HandleDisconnectInd` | `HFP_SLC_CONNECT_CFM` as far as it starts GATT; `gatt_message_handler` |
| `ButtonC`, `DisableBleAdvertising`, `WechatConnectInd`, `ResetPairedDeviceList` | the four other places that start or stop advertising |
| `HandleAtt*`, `HandleConnectReq`, `ReleaseConnectReq`, `HandleDeleteConn`, `HandleDisconnectReq`, `DropMessage` | the library's handlers; a message in a state that ignores it |
| `stack`, `link`, `radio`, `Stack*`, `PhoneConnects`, `ConnectionFails`, `LinkEnds` | external: BlueStack, the radio and phones |
| `SlcConnects` | external: another service level connection, which starts GATT again until it is initialised |
| `PairingFails` | a BLE pairing that fails, after which `main.c:475` asks for a connection beside the one there is |
| `untold`, `crossed` | history: connections whose end went to task 0; a request came beside another one, or beside a connection |

### SlcReconnect: phones that come and go

| Model | Code |
|---|---|
| `state`, `EnterConnectable`, `EnterConnected`, `IsConnected` | the state manager, as far as limbo, connectable, discoverable and connected |
| `gListID`, `gPdlSize`, `gSlcConnectRemote` | `gSlcData` |
| `attempts`, `connection_in_progress` | `theSink.NoOfReconnectionAttempts`, `rundata->connection_in_progress` |
| `profile_data` | of each priority `status.connected`, and whether `status.list_id` is valid |
| `pdl` | the connection library's list of paired devices, the latest first |
| `page_scan_enabled`, `timer` | page scan, and `EventSysConnectableTimeout` pending |
| `continues` | `EventSysContinueSlcConnectRequest` messages pending |
| `conf` | the keys of the persistent store, never changed |
| `links`, `held` | `theHfp->links`; a call looked at again in 500 ms |
| `HandleEstablish`, `Continue`, `ContinueSearch`, `NextOfList`, `NextOfLast`, `AttemptConnection` | the search of `sink_slc.c` |
| `HandleConnectInd`, `HandleConnectCfmInLimbo`, `HandleConnectSuccess`, `HandleConnectFail`, `HandleDisconnectInd` | the application's handlers of `HFP_SLC_*` |
| `HandlePowerOn`, `HandlePowerOff`, `HandleEnterPairing`, `PairingEnds`, `ConnectableTimeout` | the user's and the system's events in `handleUEMessage` |
| `HfpSlcConnectRequest`, `HandleDisconnectReq`, `HandleSdpCfm`, `HandleRfcConnectCfm`, `ConnectIndFrom`, `HandleAtComplete`, `HandleRfcDisconnect` | the HFP library |
| `search`, `air`, `closing`, `offered`, `Stack*`, `Phone*`, `UserPresses` | external: BlueStack, the phones, the user |
| `unheard`, `interrupted` | history: a change of a link the application is not told of; a search that met pairing mode, power off or, without multipoint, a connection |

Phones have HFP and nothing else; inquiry, RSSI pairing, calls, A2DP and the
features that open pairing mode by themselves are off, and `link_loss_time` is 0, so
that a lost link is an end like the others. The AT exchange is one step, and its
failures are ends of the stream. The search for the headset profile behind the
one for HFP is part of it. `EventSysPairingFail` and `EventSysPairingSuccessful`
are one action. Events of the queue are in order; `Continue` and the 500 ms
message are delayed ones and may come at any time. Without multipoint
`deviceManagerCanConnect` compares the connected phone with an address it never
wrote: `CanConnect` is then either.

`ListedTrue`, `ConnectedTrue` and `Reachable` speak of a `Settled` headset: no
message of a connection made or ended is on its way. Their other premises name
what the code gets wrong, found with TLC while they were stated:

* `unheard`: the secondary link becomes primary when an *attempt* that was the
  primary one fails (`hfpLinkReset`), of which the application hears nothing; and
  it ignores an `HFP_SLC_DISCONNECT_IND` whose status is `hfp_disconnect_error`.
  Its slots are wrong from then on.
* `Stale`: a lost link, and the copy of the secondary slot over the primary one,
  leave `status.connected` set. A link just being set up then counts as
  connected; the headset may stay in the connected state with no phone, and the
  timeout may switch page scan off (`main.c:1148`).
* `interrupted`: pairing mode cancels `EventSysContinueSlcConnectRequest` and
  leaves `connection_in_progress` set, which blocks the role switch
  (`sink_private.h:579`) until the next search ends.

`EventUsrEstablishSLC` starts another search whatever is under way (the comment in
`main.c` says it checks); `SearchGoesOn` holds all the same.

## 4 The runs

| Run | Shows |
|---|---|
| `request` | Type correctness (also that a repeat puts a command on the line, not the empty word of a fresh boot), `RequestAccounting` (every phone request on the line is closed exactly once or still open), `SampleFindsFilter` (a sample without memory needs a reset or a lost answer before it), `ServesPhone` (refinement). |
| `request_answered` | With a phone asking for objects the code answers: an open request's answer is on the way (`PendingIsRunning`) and the request is eventually closed (`PhoneAnswered`). |
| `request_busy` | **Violated.** The phone is refused as busy while nothing runs: `button_req` outlives the confirmation of the step counter started after every power-on. |
| `session` | `WholeFrames`, `FreedOnce`, `NoLeak`: which histories can tear a frame, free a buffer twice, or lose one; all others cannot. |
| `session_finishes` | A BLE frame is sent to its end, also one queued behind a stale flag. |
| `transport` | `SlotLost` (only a failed connection or request keeps a slot for good), `ChannelsAccounted` (one channel of the pool is lost for each disconnection asked for here, none to phones), `OneRecord`, `NoStray` (a handler without its slot, or a second session, only after the headset's disconnection crossed the phone's). |
| `transport_found` | `Discoverable`: the record comes back as long as there are spare channels. |
| `framing` | `PiecesDoNotMatter` (the result depends on the bytes, not on the pieces they arrive in), `AllHandled` (without noise each frame is handled whole, or in the parts that a tail in its own data makes of it, and no frame affects another), `Recovers` (after noise, the third frame is handled as it was sent, unless its own data cut it; two are not enough). |
| `reassembly` | `StreamKept` (without trouble, what was handled, what is collected and what is on the wire is what the phone sent, however it was cut and joined), `Recovers` (a dropped short fragment, a head read behind the end or a wiped session costs a bounded number of frames), `BuffersAccounted` (a buffer is lost only by a session that ends within a frame, and none holds as much as its frame). |
| `reconnection` | `LinksDistinct` (no phone has two links, no priority is given twice, however calls and attempts cross), `LinkFound` (a stream that ends always finds its link: the library would panic), `ListedTrue` and `ConnectedTrue` (the application's slots and its state are the complete links), `Reachable` (a headset without a phone can be paged), `SearchGoesOn` (a search under way has something that continues or ends it); `TypeOK` has that the attempts never go below zero. |
| `filter` | `Between` (while only plausible rates come, the smoothed value lies among them), `ZerosCounted` (`zero_num` is the run of zeros that ends the stage), `SmallSteps` (a step is at most the filter's width, away from the wrap of `uint8`). |
| `advertising` | `AdDataFits` (no name makes the advertising data wrap or overflow), `AdvertisingIsTimed` (whoever starts it, a timer ends it), `RestartFindsNoLink` (the GATT library is never started again over a connection), `TaskKept` (unless requests cross, the library never loses the task of a connection), `NoGhostClient` (a client is left over only where an end was told to nobody), `StaysReachable` (the connect request is never lost or held for ever, unless the stack refused something or an end was told to nobody). |

The violation is a `finding` of `PROJECT.json`, with the line of the repository
that it contradicts.

One more disagreement is in the model and is named by `untold` rather than shown by a
run of its own. `gatt.h:568` says of `GATT_DISCONNECT_IND` that it is sent to the
task that initialised the library; the handler sends it to the task of the
connection's record, which may be 0. It goes so: the pairing of the
connected phone fails and the application asks for a connection (`main.c:475`);
the phone leaves, its end clears `conn_req_task` (`gatt_disconnect.c:105`), and
next comes the stack's `ATT_CONNECT_CFM` for the second connection, before the
application has asked again: its record takes task 0 (`gatt_connect.c:256`). The
second phone is announced all the same (`gatt_connect.c:308` falls back to the
application), becomes the client, and its end goes to task 0. The application
keeps the client and makes no request for the next connection. The same can come
of two service level connections during the start of the library, each of which
leads to a request. `StaysReachable` and `NoGhostClient` fail in this history
without the words `untold`, `TaskKept` without `crossed`.

More seen on the way has no run: the search for the tail does not compare the
byte that breaks a match with the start of the tail again
(`sink_koovox_uart.c:52`), so that a frame whose last data byte is 123, the code
of `{`, is glued to the next (`HidesTail`, the premise of `AllHandled`); data with
123 and 125 in a row cut their frame, and its parts are handled as two
(`due`; `Whole` tells such frames);
`last_cmd` is not the last command once the phone has sent one
(`sink_koovox_core.c` repeats it all the same); a
connection that fails after it was accepted keeps the transport's only slot
(`SlotLost` counts it as one of the causes); and `indication` may be `none` while
an indication of an earlier frame is in flight.

### Bounds

* `KoovoxRequest`: two frames in the UART sink, one or two answers waiting, one
  repeat before giving up (the code has 3), a few frame errors, garbled answers
  and phone requests. Two clients and one error already give every overlap of
  requests the handlers distinguish; `REPEAT_TIMES = 1` reaches "repeats run
  out" with fewer steps. The invariants are proved without these bounds.
* `WechatSession`: two buffers (one in flight and one that overwrites it; a third
  allocation is the `HeapTrap` case), two chunks a frame (a first and a last, so
  that a frame can be interrupted in the middle), and `MaxLoad` messages and
  timers at once. Overlap, failure, both links, two timers, a full heap and a
  double free are all reached. Buffers are symmetric in the safety run.
* `session_finishes` takes BLE alone: RFCOMM's packet is one message, and a
  session that moves to it is excused from `SendingBle` anyway. No symmetry
  is used for liveness.

* `WechatTransport`: the application's one slot, two streams (one connected, one
  declined or crossing), two channels (in use, spare), two unhandled events at
  once, one request that fails without need, two disconnections by the headset.
  `transport_found` takes one stream, three channels and no symmetry: a spare
  channel more than one disconnection uses up. The pool's size is not in the
  repository; without a spare channel `Discoverable` fails. Deadlock is not
  checked: after a failed registration nothing is left to happen.
* `UartFraming`: a buffer of six bytes and an index of six values (50 and 256 in
  the code), pieces of up to eight bytes, so that both the start over and the
  wrap happen; frames shorter than the buffer (a frame as long as the buffer
  would never be found again after noise) with `{` or `}` at either end of the
  body and with a tail in it, four frames (one spoiled, three to recover), one
  byte changed or lost. It stops when all frames are sent.

* `WechatReassembly`: a frame of four items and one of six (the shorter is no
  longer than a fixed head and one item), a wire of ten items, four frames, two
  links or sessions: every cut and join of two frames. `Recovery = 2` short frames
  fill a long one. Deadlock is not checked: the phone may have sent everything.
* `HeartRateFilter`: both types of 64 values, buffers of 4 and 3, thresholds of 1
  and 3, counts of 3, rates 0, just above `HB_MIN_VALUE`, one and three apart:
  each comparison of `Limited` is met on both sides, and a run of zeros ends each
  stage. Its state is finite without further bounds.
* `BleAdvertising`: two channels (one ends while the next begins), two service
  level connections (a start repeated before or after the library is up, and two
  requests of which one is held), one failed pairing (a request beside a
  connection, or one more beside the two), two events waiting, one refusal by the
  stack; names that fit beside all other data and that push the maker's data out.
  A record without a task and its untold end are reached. The invariants are
  proved without these bounds.
* `SlcReconnect`: two phones (two links, or one and a phone to be refused), lists
  with and without limit and the last connected, with and without multipoint,
  a phone without HFP at either place. Two buttons (power on, then another),
  one call, one end that nobody asked for, two outside events waiting: a call
  that crosses a search or an attempt, both sides ending a connection, and a
  connection ended while the other is set up all happen. Events of the outside
  wait for a short queue; the handlers' own messages do not. Deadlock is not
  checked: phones and user may do nothing more.

### Fairness

Weak fairness of the handlers: the VM scheduler runs every message in its queue.
Of `RepeatSendIndication`: a timer expires. Of `BleConfirm \/ BleFail`: ATT
answers an indication or times out. Of `Reboot`: a panic resets the chip. In
`KoovoxRequest` the sensor's answers have strong fairness: they are blocked only
while `uartRx` is full, a bound of the model and not of the code, and weak
fairness would let that bound starve them. Nothing is assumed of the phone, the
user or the sensor's own measurements. In `WechatSession` a handler without
memory traps or goes on in its turn (`Fatal` stands beside the handler in the
fairness conditions); a corrupted heap (`HeapTrap`) may never show. In
`WechatTransport` BlueStack answers every request and settles every stream it
was told about.

## 5 The proofs

Every theorem below is proved for all values of the constants that meet the
assumptions of the model's module. Each rests on an inductive invariant that TLC
checked before on the run of its model; the module of the proofs states it.

### KoovoxRequestProofs

`TypeCorrect`, `EveryRequestClosedOnce` (`RequestAccounting`), `RepeatsRealCommand`
(`RetryHasCommand`), `ImplementsPhoneRequests` (`ServesPhone`), `SamplesFindFilter`
(`SampleFindsFilter`) and `BusyIsRunning` (`PendingIsRunning`).

The inductive invariant of the first four is `TypeOK /\ RetryHasCommand /\
RequestAccounting`. Each part is disturbed by few actions: the repeat count by the
frame error and the self test, which share `RepeatsLeft`; `RetryHasCommand` by a
handler that sets `button_req`, which always stores a command first; and
`RequestAccounting` by `PushRecvData` and by the two places that answer the phone,
`AnswerPhone` under `wechat_req`. That `TypeOK` is needed for the others is
arithmetic: the counters are natural numbers. The refinement then follows step by
step: `PushRecvData` is the abstract acceptance, `AnswerPhone` the closing, a reset
the abstract reset, and everything else stutters.

A sample finds the filter's memory because of what stands before it on the line:
`FilterInv` says of every place of `uartRx` whether the memory is there when the
frames before it are handled, which the queued confirmations of `START` and `STOP`
decide, and asks it for every sample queued and for those to come.
`PendingIsRunning` is lost only when the repeats are used up. `ErrorInv` counts:
the repeats done and the error frames still on the line are at most the errors
reported. As long as those are no more than the repeats allowed, an error frame is
always answered with the command again, and the phone's request has its command
or its answer on the line.

### WechatSessionProofs

`TypeCorrect`, `FramesWhole` (`WholeFrames`), `FreedOnceOnly` (`FreedOnce`) and
`NothingLeaks` (`NoLeak`). The invariant has four parts, each inductive with those
before it:

* `TypeInv`: the types; a frame that has not left entirely has a buffer; and the
  bound on what waits (`Load`), which every handler keeps without waiting.
* `LinkInv`: the reports of a link's beginning and end stand in the inbox in order,
  each once; a session over BLE exists between them; no indication is on the
  air without a link.
* `ChunkInv`: while nothing disturbs the link, each chunk on the air continues the
  one before, the first of them what the phone has heard, and what the session
  would send next the last of them. `WholeFrames` is inductive from there: what
  tears a frame is a disturbance that the property names.
* `OwnerInv`: unless RFCOMM has taken over a BLE session that was sending, an
  allocated buffer belongs to the session's frame, to a packet with the library, or
  to an answer in the inbox, to one of them only. A buffer freed twice would have
  two owners, a leaked one none.

### WechatTransportProofs

`AtMostOneRecord` (`OneRecord`), for any number of slots, streams and channels;
`SlotComesBack` (`SlotLost`) and `NeverStray` (`NoStray`), for any number of streams
and channels under the hypothesis `MaxConnections = 1`. That is what the
application passes to `WechatInit`. It is needed: with two slots TLC finds both
violated, for a second phone is then announced beside the session, which has one
`wechat_transport`.

* A record is published at the end of a chain of messages, and withdrawn at the
  beginning of the next. `OneToken` says that of all messages a record still comes
  of, with the VM or with BlueStack, there is one at most, and none while there is a
  record.
* `StreamInv` says of each stream in which order the queue holds the messages that
  ask for it, settle it and end it, and how that fits its state in BlueStack. With it
  `KeptInv` is inductive: the slot's stream is connected, or a message that frees the
  slot or passes the stream's end on is queued, or BlueStack has still to free the
  channel. `SlotLost` follows.
* `TurnInv` says that, until the application closes a connection, one turn goes
  round: the acceptance of a stream, the stream, its end, the release of the channel,
  its confirmation, the end of the session. There is one at a time (`OneTurn`), it is
  about the slot's stream and channel (`InPlace`), a free slot has none (`Idle`), and
  the news of a connection stands before its end and never beside a session
  (`Announced`). Each handler takes the turn one step on; who has it finds the slot.
  A disconnection asked for here breaks the turn, because its confirmation drops the
  slot and the session stays: the property excludes it.

### BleAdvertisingProofs

`TypeCorrect` (`TypeOK`), `DataAlwaysFit` (`AdDataFits`), `AlwaysTimed`
(`AdvertisingIsTimed`), `ClientsKnown` (`NoGhostClient`), `RestartsSafely`
(`RestartFindsNoLink`), `TaskAlwaysKept` (`TaskKept`) and `AlwaysReachable`
(`StaysReachable`): all that the passing runs check, for every set of channels,
every set of names and all bounds.

The first three rest on `TypeOK /\ TimersCounted /\ AdDataFits /\
AdvertisingIsTimed`. `TypeOK` alone is not inductive: it bounds `timers`, and each
start of the library adds one. `TimersCounted` counts the starts still queued
against those used up, so that the bound survives. `AdDataFits` rests on the
arithmetic lemma `AdDataFit`: for every natural length of the name, what
`setup_ble_ad_data` puts together has at most 31 octets.

`LifeInv` says what a channel goes through. Three senders speak of it (the stack,
the library to the application, the library to itself); the messages of each
stand in order and once (`Ordered`), and what is queued agrees with the library's
record, the channel's state in the stack and the application's client (`Life`).
Until the application holds the library for initialised, nobody has asked for a
connection (`AskedWhenStarted`). The handlers are then steps in this life, one
lemma each. `ChannelsAgree` states it as a theorem of its own.

`ReachInv` says, while the stack refuses nothing: no refusal is queued, the start
of the library goes on or is done, and `conn_req_task` is set only while the
request is with the stack or on its way to a connection (`Calm`). The difficult
steps are those that take the last sign of life away: a disconnection, after
which the application asks again, and a second start, which is answered at once.
An end that goes to task 0 brings no new request; the property names it
(`untold`), and `ClientsKnown` says that it is also the only way for a client to
stay. `TaskInv` says when there is none: while no request comes beside another
one or beside a connection, a request, a channel with its record, and the end of
that channel take turns (`OneChannel`, `OneRequest`), so that the record made is
always that of the request outstanding. It needs the order of `GATT_DISCONNECT_IND`
and `GATT_INTERNAL_DELETE_CONN` in the queue: the next request is made by the
first, and must not meet the record that the second deletes.

### SlcReconnectProofs

`AlwaysDistinct` (`LinksDistinct`), `EndFindsLink` (`LinkFound`), `AlwaysGoesOn`
(`SearchGoesOn`), `TypeCorrect` (`TypeOK`), `AlwaysListed` (`ListedTrue`),
`AlwaysConnected` (`ConnectedTrue`) and `AlwaysReached` (`Reachable`), for any finite
set of phones, any configuration and all bounds. `ListIds > 1` is assumed, as a
`gListID` of one value could not name the second entry that
`slcEstablishSLCRequest` falls back to.

`LinksInv` adds to `LinksDistinct` the type of a link and that exactly the idle
links have no address and no priority, without which a link set up again might
repeat one. The operators carry the argument: `Reset` keeps the links distinct
because what it promotes is the only secondary one and the link that goes was the
only primary one or is not primary at all; `Setup` because an idle link has no
priority and the phone no link; and a call that crosses a search is a `Reset` and a
`Setup` in one step. Each handler then does one of these, changes a link's state
or touches none. Nothing is needed about the queue: whatever messages come, and in
whatever order, the links stay distinct.

`LinkFound` does need it. `StreamInv` relates, for each phone, BlueStack's stream,
the messages about it that are queued, in their order, and the state of the phone's
link: so the end of a stream is always the last word about a link that still
exists, and `hfpHandleRfcommDisconnect` does not panic.

`SearchGoesOn` is not about one attempt: the application does not know whose result
it hears, and lets the next one continue the search unless it has heard of a call
first (`gSlcConnectRemote`). `SearchInv` therefore counts. `ToCome(n)` says that each
call announced and not yet heard of (`SLC_CONNECT_IND` in the queue) can be given a
result of its own (one queued behind it, or a link with an attempt under way), no two
calls the same, and that `n` more results are left over. `ResultInv` asks for one left
over during a search, and for two once a call has been heard of. The library's steps
turn attempts into results one for one, whichever of them meet; a call that crosses
the search for the same phone ends one attempt, with its result, and starts another.
`PauseInv` and `OnInv` are about `interrupted`: a key that turns the headset on is
queued only while it is off, so a search it starts is a new one.

`TypeOK` rests on the others only in two places: `attempts` is decremented by a result
only where it is not zero, and `held \subseteq offered` needs `CallInv`: the call of a
phone that has no response is queued once or held back, not both.

The last three compare the application's flags, kept by priority, with the library's
links, over whatever is queued between them; `TruthInv` is their invariant.

* `Shown(x, S)` is what a message does to the slots listed: a connection made adds one,
  the end of one takes it away and moves the second up, as `Dropped` does.
  `NoMore(queue, Listed, E)` and `NoLess(queue, Listed, E)` say, by the course of the
  slots over the messages queued, that what is listed in the end is within `E`, or
  contains it. `ListInv` asks for the first of the complete links' priorities, and for
  the second only of those that are to last (`Alive`): in limbo the application undoes a
  connection made without listing it.
* The two sets differ in the links that are `Doomed`: a disconnection is asked for, or
  BlueStack has been asked, or the end of the stream is queued. `DoomKept` shows that
  this leads nowhere but to the end, and that all connections are doomed whenever power
  off, pairing mode or a connection made in limbo asks for it (`DisconnectsAsk`). It
  needs `ATInv`: the AT exchange ends on a link that is connected, before the end of its
  stream is heard of, so no link completes that was to be disconnected.
* The library's steps change complete links only with a message of the same effect
  (`SlotMade`, `SlotLost`), or are in `unheard` (`SlotsStay`: a promotion not told needs an
  attempt on the first priority).
* `SlotInv` is about the application alone: page scan is off, outside limbo and the
  connected state, only with multipoint and a slot that says connected.
* The connected state is left by a disconnection only if no device counts. Were a
  connection to last, `NoLess` would leave the first slot listed, which then counts
  (`FirstIs`); unless another connection made is still queued, which `ListInv` allows. So
  that the answer that there was nothing to disconnect does not do it, `DoomInv` asks for
  such a connection behind it.

When all is settled nothing is queued that changes the slots (`NothingTold`) and
nothing is doomed: listed and complete are the same.

### HeartRateFilterProofs and InductionOverData

`RatesBetween` (`Between`) and `RunsEndStage` (`ZerosCounted`), for all sizes,
thresholds and sets of rates. The assumptions on them are what the code's numbers
meet: a rate and the correction fit a byte of the model's width, the counts fit the
buffers, and a sum of rates fits 16 bits. The invariant is `MemoryInv` (types),
`ZeroInv` (while the newest rates are zeros, `zero_num` is their number) and
`RangeInv` (what is in the buffers is zero or between the lowest and the highest
rate).

An average is in range because of what its loop computes: the partial sums of
`Sum16` are between the count of rates so far times the lowest and times the
highest. That is induction over data, for which the library's theorems cannot be
used here (they take an operator). `InductionOverData` states it with sets instead:
what is in a set `P` for 0, and for `n` if for `n - 1`, is in it up to `N` (`UpTo`),
and a loop of `N` rounds has a course (`Loop`). Both follow from the least element
of a set of numbers. The model writes its sums as recursive functions and its
counts as cardinalities, of which they can speak.

`SequencesIn` is the same for sequences: what is in `P` for the empty sequence, and
for one element more if for the sequence, is in it for all.

### UartFramingProofs

All of `UartFraming`: `TypeCorrect`, `PiecesDoNotMatterAlways`, `RecoversAlways` and
`AllHandledAlways`, for every size of the buffer, every index that counts at least
its bytes (`SizeAssumption`), every set of frames that are shorter than the buffer,
of any bytes (`BodyAssumption`), and any bounds. There are three parts.

* The search. `ScanStops`: it counts the bytes until the first tail ends, and
  nothing behind that changes it. So a buffer without a tail has none in any of its
  beginnings (`StrOfPrefix`), and one byte more completes a tail only as `}` behind
  an open `{` (`StrAppend`).
* The loop. A turn copies some bytes, looks for the tail and gives back those behind
  it. `TurnTakes`: it leaves what the receiver leaves that takes just the bytes
  consumed, one by one; `Fill` and `FillTail` say so for a copy without and with a
  tail. Each turn consumes a byte, so the loop is done after as many turns as there
  are bytes, and (`ReceiveTakes`) has taken all of them, unless the piece is longer
  than the index counts. Even then no tail is left in the buffer (`Calm`) and the
  buffer is not overrun.
* The line. `Then` is the receiver after the bytes still on the wire. A piece that
  arrives does not change it, whatever its size, and a frame sent behind an empty
  buffer adds what it is by itself (`Shifted`, `FrameTaken`), which is the frame
  if its data hold no tail (`NoTail`, `WholeFrame`): so `FramingInv` speaks of
  `Then` instead of the wire. `Recovering` is what makes `Recovers` inductive: after
  one frame at most a `}` is in the buffer (the tail was split by a start over),
  after two it is empty, and each one after that is handled as it is by itself.
  A tail in the data only empties the buffer earlier (`Grows`, `BodyTaken`).

### Only model-checked

* `WechatTransport`: `ChannelsAccounted` counts channels against the disconnections
  asked for in the past.
* `WechatReassembly`: what `Received` computes of every stream cut into fragments in
  every way. The way to prove it is that of `UartFramingProofs`; its loop is not yet
  written as the function that `InductionOverData` speaks of.
* `HeartRateFilter.SmallSteps`: how far an average moves depends on the whole course
  of the corrected values in the buffer, and on rounding.
* Liveness (`PhoneAnswered`, `FrameFinishes`, `Discoverable`): fairness and ENABLED
  are beyond the proof system.

## 6 Not modelled

Listed per component in `PROJECT.json`: the vendor's sink application (calls,
audio, other profiles than HFP, user interface, charger), the profile and
connection libraries (but for what `SlcReconnect`, `WechatSession` and
`WechatTransport` need of them), the DSP, the other applications and the tools. Of the Koovox code: protobuf encoding
and the checksums are data conversions without state; scanning and the GATT
client are compiled out of the headset's role. Whether a search of `SlcReconnect` ends is
not checked: with fairness its state space is beyond TLC at bounds that show
anything, and a last connected device without HFP is asked for over and over
without multipoint (`sink_slc.c:998`).
