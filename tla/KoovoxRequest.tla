--------------------------- MODULE KoovoxRequest ---------------------------
(***************************************************************************)
(* How the Koovox application shares one serial line to the STM8 sensor    *)
(* controller between three clients: the power-on self test, the user's M  *)
(* button, and the WeChat application on the phone.                        *)
(*                                                                         *)
(* The code keeps no queue.  Two booleans say that a request is running    *)
(* (button_req for the headset's own commands, wechat_req for the phone's),*)
(* one word remembers the command to repeat after a frame error (last_cmd) *)
(* and one counter limits the repeats (repeat_times).  Each of the actions *)
(* below is one handler of sink_koovox_uart.c, sink_koovox_core.c,         *)
(* sink_handle_accelerate_data.c, sink_heart_rate_calc.c or                *)
(* koovox_wechat_handle.c, run to completion as the VM scheduler runs it.  *)
(***************************************************************************)
EXTENDS Naturals, Sequences

CONSTANTS
    PhoneCmd,       \* the [cmd, obj] requests the phone may push
    Measured,       \* the objects the sensor measures of its own accord
    REPEAT_TIMES,   \* sink_koovox_uart.h: repeats before the code gives up
    UartRoom,       \* frames the UART sink takes before SinkClaim fails
    RxRoom,         \* bound: answers the sensor leaves waiting
    MaxErr,         \* bound: frame errors and failed I2C tests, ever
    MaxGarbled,     \* bound: truncated or malformed answers, ever
    MaxForwarded    \* bound: phone requests put on the line, per boot

-----------------------------------------------------------------------------
(* Types                                                                   *)

\* The objects of enumObj that steer a handler; "SYSTEM" stands for all those
\* whose confirmation lands in the default branch.
Obj == {"HEALTH_MONITOR", "HEART_RATE", "NECK_PROTECT", "STEP_COUNT",
        "CONST_SEAT", "I2C_TEST", "SYSTEM", "FRAME_ERR"}

Cmd == [cmd : {"START", "STOP"}, obj : Obj \ {"FRAME_ERR"}]

NoCmd == [cmd |-> "NONE", obj |-> "SYSTEM"]

\* A frame the headset has cut out of the byte stream: `ack` and `ok` are the
\* two payload bytes (the command confirmed, and its result), `long` says that
\* the payload is not shorter than the handler asks for.
Frame == [cmd : {"CFM", "ENV", "BAD"}, obj : Obj,
          ack : {"START", "STOP"}, ok : BOOLEAN, long : BOOLEAN]

\* Confirmations whose handlers answer the phone.
AnsweredObj == {"HEALTH_MONITOR", "HEART_RATE", "NECK_PROTECT",
                "STEP_COUNT", "CONST_SEAT"}

\* Measurements that are passed on to the phone.
ReportedObj == {"HEART_RATE", "NECK_PROTECT", "STEP_COUNT", "CONST_SEAT"}

ASSUME PhoneCmdAssumption == PhoneCmd \subseteq Cmd

ASSUME MeasuredAssumption == Measured \subseteq ReportedObj

ASSUME BoundAssumption ==
    /\ REPEAT_TIMES \in Nat
    /\ UartRoom \in Nat \ {0} /\ RxRoom \in Nat \ {0}
    /\ MaxErr \in Nat /\ MaxGarbled \in Nat
    /\ MaxForwarded \in Nat

-----------------------------------------------------------------------------
VARIABLES
    wechat_req,     \* a request of the phone is on the line
    button_req,     \* a request of the headset is on the line
    last_cmd,       \* the command a frame error makes the headset repeat
    repeat_times,   \* repeats so far
    session,        \* g_wechat # NULL: a phone is connected
    smooth_var,     \* smooth_var # NULL: the heart-rate filter has memory
    powered,        \* the power-on event has been handled
    panicked,       \* Panic() was called or an access trapped
    uartTx,         \* frames on their way to the sensor
    uartRx,         \* frames on their way to the headset
    measuring,      \* external: the sensor is sampling the heart rate
    forwarded,      \* history: phone requests put on the line since boot
    answered,       \* history: final answers given to a connected phone
    lost,           \* history: final answers given when no phone was there
    errors,         \* history: errors the sensor reported
    garbled,        \* history: answers that were cut or malformed
    rebooted        \* history: the headset has been reset at least once

flagVars    == <<wechat_req, button_req>>
retryVars   == <<last_cmd, repeat_times>>
replyVars   == <<forwarded, answered, lost>>
sensorVars  == <<measuring, errors, garbled>>
systemVars  == <<powered, panicked, rebooted>>
vars == <<flagVars, retryVars, session, smooth_var, uartTx, uartRx,
          replyVars, sensorVars, systemVars>>

Init ==
    /\ wechat_req = FALSE /\ button_req = FALSE
    /\ last_cmd = NoCmd /\ repeat_times = 0
    /\ session = FALSE /\ smooth_var = FALSE
    /\ powered = FALSE /\ panicked = FALSE
    /\ uartTx = <<>> /\ uartRx = <<>>
    /\ measuring = FALSE
    /\ forwarded = 0 /\ answered = 0 /\ lost = 0
    /\ errors = 0 /\ garbled = 0 /\ rebooted = FALSE

-----------------------------------------------------------------------------
(* Helpers                                                                 *)

I2cTest   == [cmd |-> "START", obj |-> "I2C_TEST"]
StepCount == [cmd |-> "START", obj |-> "STEP_COUNT"]
HeartRate == [cmd |-> "START", obj |-> "HEART_RATE"]

\* A sink without room is fatal: the action SinkFull below takes that case.
KoovoxFillAndSendUartPacket(c) ==
    /\ Len(uartTx) < UartRoom
    /\ uartTx' = Append(uartTx, c)

KoovoxStoreLastCmd(c) == last_cmd' = c

\* Mutants of the limit: one repeat too many, one too few.
RepeatOneMore == repeat_times <= REPEAT_TIMES
RepeatOneLess == repeat_times + 1 < REPEAT_TIMES

\* The limit that the frame-error and the self-test handlers share.
RepeatsLeft == repeat_times < REPEAT_TIMES

\* Mutant: the phone's own request does not count.
BusyWithButton == button_req

\* What refuses a request of the phone.
Busy == wechat_req \/ button_req

\* Mutant: the flag stays set after the answer.
AnswerAndStayBusy ==
    /\ answered' = IF session THEN answered + 1 ELSE answered
    /\ lost' = IF session THEN lost ELSE lost + 1
    /\ UNCHANGED <<wechat_req, forwarded>>

\* The final answer to the phone's request closes it, whoever is connected.
AnswerPhone ==
    /\ wechat_req' = FALSE
    /\ answered' = IF session THEN answered + 1 ELSE answered
    /\ lost' = IF session THEN lost ELSE lost + 1
    /\ UNCHANGED forwarded

\* The next frame of the line is a `cmd` of `obj`, and its handler takes it.
Receive(cmd, obj) ==
    /\ ~panicked
    /\ uartRx # <<>>
    /\ Head(uartRx).cmd = cmd /\ Head(uartRx).obj = obj
    /\ uartRx' = Tail(uartRx)
    /\ UNCHANGED <<session, sensorVars, systemVars>>

-----------------------------------------------------------------------------
(* User and system events                                                  *)

\* EventUsrPowerOn starts the self test of the accelerometer bus.
PowerOn ==
    /\ ~panicked /\ ~powered
    /\ powered' = TRUE
    /\ KoovoxFillAndSendUartPacket(I2cTest)
    /\ KoovoxStoreLastCmd(I2cTest)
    /\ button_req' = TRUE
    /\ UNCHANGED <<wechat_req, repeat_times, session, smooth_var, uartRx,
                   replyVars, sensorVars, panicked, rebooted>>

\* Powering off on the charger keeps the RAM, so nothing here is reset.
PowerOff ==
    /\ ~panicked /\ powered
    /\ powered' = FALSE
    /\ UNCHANGED <<flagVars, retryVars, session, smooth_var, uartTx, uartRx,
                   replyVars, sensorVars, panicked, rebooted>>

\* A click on M asks for the heart rate.  Only button_req holds it back: a
\* request of the phone may be on the line.  (koovox.health is never written,
\* so the branch that sends STOP is dead.)
ButtonMClick ==
    /\ ~panicked /\ powered
    /\ ~button_req
    /\ KoovoxFillAndSendUartPacket(HeartRate)
    /\ KoovoxStoreLastCmd(HeartRate)
    /\ button_req' = TRUE
    /\ UNCHANGED <<wechat_req, repeat_times, session, smooth_var, uartRx,
                   replyVars, sensorVars, systemVars>>

\* koovox_init_wechat, when a transport comes up.
SessionUp ==
    /\ ~panicked /\ ~session
    /\ session' = TRUE
    /\ UNCHANGED <<flagVars, retryVars, smooth_var, uartTx, uartRx,
                   replyVars, sensorVars, systemVars>>

\* koovox_wechat_disconnect frees the session and leaves wechat_req alone.
SessionDown ==
    /\ ~panicked /\ session
    /\ session' = FALSE
    /\ UNCHANGED <<flagVars, retryVars, smooth_var, uartTx, uartRx,
                   replyVars, sensorVars, systemVars>>

\* ECI_push_recvData: refused with S_PROCESS while any request is running, put
\* on the line otherwise.  The command is not stored for a repeat.
PushRecvData(c) ==
    /\ ~panicked /\ session
    /\ ~Busy
    /\ forwarded < MaxForwarded
    /\ KoovoxFillAndSendUartPacket(c)
    /\ wechat_req' = TRUE
    /\ forwarded' = forwarded + 1
    /\ UNCHANGED <<button_req, retryVars, session, smooth_var, uartRx,
                   answered, lost, sensorVars, systemVars>>

-----------------------------------------------------------------------------
(* Confirmations of the sensor                                             *)

\* The only confirmation with an object of its own that clears button_req.
KoovoxResponseHealthMonitor ==
    /\ Receive("CFM", "HEALTH_MONITOR")
    /\ \/ /\ Head(uartRx).long /\ wechat_req
          /\ AnswerPhone
          /\ UNCHANGED button_req
       \/ /\ Head(uartRx).long /\ ~wechat_req
          /\ button_req' = FALSE
          /\ UNCHANGED <<wechat_req, replyVars>>
       \/ /\ ~Head(uartRx).long
          /\ UNCHANGED <<flagVars, replyVars>>
    /\ UNCHANGED <<retryVars, smooth_var, uartTx>>

\* Mutant: the button is served first, as in the health monitor's handler.
AnswerUnlessButton ==
    /\ IF Head(uartRx).long /\ wechat_req /\ ~button_req
       THEN AnswerPhone
       ELSE UNCHANGED <<wechat_req, replyVars>>
    /\ UNCHANGED <<button_req, retryVars, uartTx>>

\* The common tail of the other confirmations: answer a waiting phone.
AnswerIfAsked ==
    /\ IF Head(uartRx).long /\ wechat_req
       THEN AnswerPhone
       ELSE UNCHANGED <<wechat_req, replyVars>>
    /\ UNCHANGED <<button_req, retryVars, uartTx>>

KoovoxResponseStepCount ==
    /\ Receive("CFM", "STEP_COUNT")
    /\ AnswerIfAsked
    /\ UNCHANGED smooth_var

KoovoxResponseNeckProtect ==
    /\ Receive("CFM", "NECK_PROTECT")
    /\ AnswerIfAsked
    /\ UNCHANGED smooth_var

KoovoxResponseConstSeat ==
    /\ Receive("CFM", "CONST_SEAT")
    /\ AnswerIfAsked
    /\ UNCHANGED smooth_var

\* Mutant: a refused STOP frees the memory as well.
FilterAfterAny(f) == IF f.long THEN f.ack = "START" /\ f.ok ELSE smooth_var

\* A successful START gives the filter its memory, a successful STOP frees it.
FilterAfter(f) == IF f.long /\ f.ok THEN f.ack = "START" ELSE smooth_var

KoovoxResponseHeartRate ==
    /\ Receive("CFM", "HEART_RATE")
    /\ smooth_var' = FilterAfter(Head(uartRx))
    /\ AnswerIfAsked

\* A repeat for the headset's own command, a final answer for the phone; after
\* REPEAT_TIMES repeats neither, and both requests stay open.
KoovoxResponseFrameError ==
    /\ Receive("CFM", "FRAME_ERR")
    /\ \/ /\ ~RepeatsLeft
          /\ repeat_times' = 0
          /\ UNCHANGED <<flagVars, last_cmd, uartTx, replyVars>>
       \/ /\ RepeatsLeft
          /\ IF button_req
             THEN /\ KoovoxStoreLastCmd(last_cmd)
                  /\ KoovoxFillAndSendUartPacket(last_cmd)
                  /\ repeat_times' = repeat_times + 1
             ELSE UNCHANGED <<retryVars, uartTx>>
          /\ IF wechat_req
             THEN AnswerPhone
             ELSE UNCHANGED <<wechat_req, replyVars>>
          /\ UNCHANGED button_req
    /\ UNCHANGED smooth_var

\* Every other confirmation frees the button, also one the phone asked for.
DefaultConfirmation ==
    /\ \E obj \in Obj \ (AnsweredObj \cup {"FRAME_ERR"}) : Receive("CFM", obj)
    /\ button_req' = FALSE
    /\ UNCHANGED <<wechat_req, retryVars, smooth_var, uartTx, replyVars>>

-----------------------------------------------------------------------------
(* Measurements and broken frames                                          *)

\* A passing self test starts the step counter; a failing one is repeated.
KoovoxResultI2cTest ==
    /\ Receive("ENV", "I2C_TEST")
    /\ \/ /\ Head(uartRx).ok
          /\ KoovoxFillAndSendUartPacket(StepCount)
          /\ KoovoxStoreLastCmd(StepCount)
          /\ button_req' = TRUE
          /\ UNCHANGED repeat_times
       \/ /\ ~Head(uartRx).ok /\ RepeatsLeft
          /\ KoovoxFillAndSendUartPacket(I2cTest)
          /\ KoovoxStoreLastCmd(I2cTest)
          /\ button_req' = TRUE
          /\ repeat_times' = repeat_times + 1
       \/ /\ ~Head(uartRx).ok /\ ~RepeatsLeft
          /\ repeat_times' = 0
          /\ UNCHANGED <<button_req, last_cmd, uartTx>>
    /\ UNCHANGED <<wechat_req, smooth_var, replyVars>>

\* KoovoxCountStep, KoovoxProtectNeck, KoovoxConstSeat and
\* KoovoxCalculateHeartRate report to the phone and keep the requests; a frame
\* whose length is wrong makes KoovoxUartMessageHandle report an error.
ReportToPhone ==
    /\ \/ \E obj \in ReportedObj : Receive("ENV", obj)
       \/ \E obj \in Obj : Receive("BAD", obj)
    /\ UNCHANGED <<flagVars, retryVars, smooth_var, uartTx, replyVars>>

-----------------------------------------------------------------------------
(* The ends of a run                                                       *)

\* The handler of frame f reaches through g_wechat or smooth_var.
NeedsSession(f) ==
    \/ f.cmd = "BAD"
    \/ f.cmd = "ENV" /\ f.obj \in ReportedObj
    \/ f.cmd = "CFM" /\ f.obj \in AnsweredObj /\ f.long /\ wechat_req
    \/ f.cmd = "CFM" /\ f.obj = "FRAME_ERR" /\ wechat_req
                     /\ RepeatsLeft

NeedsFilter(f) == f.cmd = "ENV" /\ f.obj = "HEART_RATE"

Panic ==
    /\ panicked' = TRUE
    /\ UNCHANGED <<flagVars, retryVars, session, smooth_var, uartTx, uartRx,
                   replyVars, sensorVars, powered, rebooted>>

\* The code does not check either pointer.  What an access through NULL does is
\* undefined: it may trap, which is this action, or hit unused memory, which is
\* the handler's own action.
StrayAccess ==
    /\ ~panicked /\ uartRx # <<>>
    /\ \/ NeedsSession(Head(uartRx)) /\ ~session
       \/ NeedsFilter(Head(uartRx)) /\ ~smooth_var
    /\ Panic

\* SinkClaim fails in a handler that sends: uart_data_stream_tx_data panics.
SinkFull ==
    /\ ~panicked /\ Len(uartTx) = UartRoom
    /\ \/ powered /\ ~button_req
       \/ ~powered
       \/ session /\ ~Busy
       \/ /\ uartRx # <<>>
          /\ LET f == Head(uartRx) IN
             \/ /\ f.cmd = "CFM" /\ f.obj = "FRAME_ERR"
                /\ button_req /\ RepeatsLeft
             \/ /\ f.cmd = "ENV" /\ f.obj = "I2C_TEST"
                /\ f.ok \/ RepeatsLeft
    /\ Panic

\* The reset clears the RAM; what is on the wire to the sensor stays there, and
\* the sensor keeps sampling.
Reboot ==
    /\ panicked
    /\ panicked' = FALSE /\ rebooted' = TRUE
    /\ wechat_req' = FALSE /\ button_req' = FALSE
    /\ last_cmd' = NoCmd /\ repeat_times' = 0
    /\ session' = FALSE /\ smooth_var' = FALSE /\ powered' = FALSE
    /\ uartRx' = <<>>
    /\ forwarded' = 0 /\ answered' = 0 /\ lost' = 0
    /\ UNCHANGED <<uartTx, sensorVars>>

-----------------------------------------------------------------------------
(* The sensor controller, external: its firmware is not in the repository.   *)
(* It takes commands in order, confirms each under its own object or reports *)
(* a frame error, and sends measurements of its own accord.                  *)

Confirmation(c, good, whole) ==
    [cmd |-> "CFM", obj |-> c.obj, ack |-> c.cmd, ok |-> good, long |-> whole]

FrameError == [cmd |-> "CFM", obj |-> "FRAME_ERR", ack |-> "START",
               ok |-> FALSE, long |-> TRUE]

Measurement(o, good) ==
    [cmd |-> "ENV", obj |-> o, ack |-> "START", ok |-> good, long |-> TRUE]

Malformed == [cmd |-> "BAD", obj |-> "SYSTEM", ack |-> "START",
              ok |-> FALSE, long |-> FALSE]

\* Only the heart-rate handler reads the result of a confirmation.
Results(c) == IF c.obj = "HEART_RATE" THEN BOOLEAN ELSE {TRUE}

\* The answer s replaces the command at the head of the line.
Reply(s) ==
    /\ uartTx # <<>> /\ Len(uartRx) < RxRoom
    /\ uartTx' = Tail(uartTx)
    /\ uartRx' = uartRx \o s
    /\ UNCHANGED <<flagVars, retryVars, session, smooth_var, replyVars,
                   systemVars>>

\* The sensor acts on command c, with success or without.
Sample(c, good) ==
    measuring' = IF c.obj = "HEART_RATE" /\ good
                 THEN c.cmd = "START" ELSE measuring

SensorConfirms ==
    /\ uartTx # <<>>
    /\ \E good \in Results(Head(uartTx)) :
          /\ Reply(<<Confirmation(Head(uartTx), good, TRUE)>>)
          /\ Sample(Head(uartTx), good)
    /\ Head(uartTx).obj # "I2C_TEST"
    /\ UNCHANGED <<errors, garbled>>

\* The self test ends in a measurement, with or without a confirmation first.
SensorTests ==
    /\ \E good \in BOOLEAN :
          /\ \/ Reply(<<Measurement("I2C_TEST", good)>>)
             \/ Reply(<<Confirmation(Head(uartTx), TRUE, TRUE),
                        Measurement("I2C_TEST", good)>>)
          /\ errors' = IF good THEN errors ELSE errors + 1
    /\ errors' <= MaxErr
    /\ Head(uartTx).obj = "I2C_TEST"
    /\ UNCHANGED <<measuring, garbled>>

SensorReportsFrameError ==
    /\ errors < MaxErr
    /\ Reply(<<FrameError>>)
    /\ errors' = errors + 1
    /\ UNCHANGED <<measuring, garbled>>

\* The command is carried out, but noise cuts or breaks the answer.
AnswerGarbled ==
    /\ garbled < MaxGarbled
    /\ \/ Reply(<<Confirmation(Head(uartTx), TRUE, FALSE)>>)
       \/ Reply(<<Malformed>>)
    /\ Sample(Head(uartTx), TRUE)
    /\ garbled' = garbled + 1
    /\ UNCHANGED errors

SensorMeasures ==
    /\ Len(uartRx) < RxRoom
    /\ \E o \in Measured :
          /\ o = "HEART_RATE" => measuring
          /\ uartRx' = Append(uartRx, Measurement(o, TRUE))
    /\ UNCHANGED <<flagVars, retryVars, session, smooth_var, uartTx,
                   replyVars, sensorVars, systemVars>>

-----------------------------------------------------------------------------
(* Specification                                                           *)

KoovoxUartMessageHandle ==
    \/ KoovoxResponseHealthMonitor
    \/ KoovoxResponseHeartRate
    \/ KoovoxResponseNeckProtect
    \/ KoovoxResponseStepCount
    \/ KoovoxResponseConstSeat
    \/ KoovoxResponseFrameError
    \/ DefaultConfirmation
    \/ KoovoxResultI2cTest
    \/ ReportToPhone

Sensor ==
    \/ SensorConfirms
    \/ SensorTests
    \/ SensorReportsFrameError
    \/ AnswerGarbled

Fatal == StrayAccess \/ SinkFull

Next ==
    \/ PowerOn \/ PowerOff \/ ButtonMClick
    \/ SessionUp \/ SessionDown
    \/ \E c \in PhoneCmd : PushRecvData(c)
    \/ KoovoxUartMessageHandle
    \/ Sensor \/ SensorMeasures
    \/ Fatal \/ Reboot

Spec == Init /\ [][Next]_vars

\* The scheduler delivers every waiting frame and a panic resets the chip.  The
\* sensor answers every command; fairness is strong for it because RxRoom is a
\* bound of the model: its own measurements may fill the line again and again.
Fairness ==
    /\ WF_vars(KoovoxUartMessageHandle \/ Fatal)
    /\ SF_vars(Sensor)
    /\ WF_vars(Reboot)

FairSpec == Spec /\ Fairness
-----------------------------------------------------------------------------
(* Properties                                                              *)

TypeOK ==
    /\ wechat_req \in BOOLEAN /\ button_req \in BOOLEAN
    /\ last_cmd \in Cmd \cup {NoCmd}
    /\ repeat_times \in 0..REPEAT_TIMES
    /\ session \in BOOLEAN /\ smooth_var \in BOOLEAN
    /\ powered \in BOOLEAN /\ panicked \in BOOLEAN /\ rebooted \in BOOLEAN
    /\ uartTx \in Seq(Cmd) /\ Len(uartTx) <= UartRoom
    /\ uartRx \in Seq(Frame)
    /\ measuring \in BOOLEAN
    /\ forwarded \in 0..MaxForwarded
    /\ answered \in Nat /\ lost \in Nat
    /\ errors \in 0..MaxErr /\ garbled \in 0..MaxGarbled

\* Every request of the phone that reached the line is closed by exactly one
\* final answer: while none is open, the answers given (or lost, because the
\* phone had gone) are as many as the requests forwarded, and while one is
\* open they are one less.  The flag is cleared in six handlers and set in
\* one, and a button request may run at the same time.
RequestAccounting ==
    forwarded = answered + lost + (IF wechat_req THEN 1 ELSE 0)

\* While the button's request is open there is a command to repeat, so that a
\* frame error never puts the empty word of a fresh boot on the line.
RetryHasCommand == button_req => last_cmd # NoCmd

\* Frames that will close the phone's request when they are handled.
Closing(f) ==
    /\ f.cmd = "CFM" /\ f.long
    /\ f.obj \in AnsweredObj \cup {"FRAME_ERR"}

\* Busy is never for ever: while the phone's request is open, the command that
\* will close it is still on the line or the answer is waiting to be read.  It
\* needs the phone to ask only for objects the code answers, no answer to be
\* cut, and no more frame errors than there are repeats.
PendingIsRunning ==
    ( /\ wechat_req
      /\ \A c \in PhoneCmd : c.obj \in AnsweredObj
      /\ errors <= REPEAT_TIMES /\ garbled = 0 )
    => \/ \E i \in 1..Len(uartTx) : uartTx[i].obj \in AnsweredObj
       \/ \E i \in 1..Len(uartRx) : Closing(uartRx[i])

\* A heart-rate sample finds the filter's memory, for as long as the headset
\* has not been reset under a sampling sensor and no confirmation was cut.
SampleFindsFilter ==
    ( /\ ~rebooted /\ garbled = 0
      /\ uartRx # <<>> /\ NeedsFilter(Head(uartRx)) )
    => smooth_var

\* What the phone is told with S_PROCESS (koovox_wechat_handle.c:340, "the
\* last command is running, try again later"): a request flag means that a
\* command or its answer is on the line.
BusyMeansRunning ==
    ~panicked /\ Busy => uartTx # <<>> \/ uartRx # <<>>

\* A request of the phone does not stay open for ever: the sensor's answer, a
\* frame error or a reset closes it.
PhoneAnswered == wechat_req ~> ~wechat_req

\* The life of the phone's requests, without the line.
Requests == INSTANCE PhoneRequests
    WITH accepted <- forwarded, closed <- answered + lost

\* However the button, the sensor and the links interleave, the phone's
\* requests are accepted one at a time and closed once each.
ServesPhone == Requests!Spec
=============================================================================
