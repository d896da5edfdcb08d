------------------------ MODULE KoovoxRequestProofs ------------------------
(***************************************************************************)
(* Proofs about KoovoxRequest, for every set of phone commands and every   *)
(* value of the bounds.                                                    *)
(***************************************************************************)
EXTENDS KoovoxRequest, SequenceTheorems, FiniteSetTheorems, TLAPS

\* TypeOK alone is not inductive: a frame error puts last_cmd on the line, and
\* only RetryHasCommand says that it is a command by then.
IInv == TypeOK /\ RetryHasCommand /\ RequestAccounting

-----------------------------------------------------------------------------
(* Lemmas about the helpers                                                *)

\* Sending keeps the line a sequence of commands within the sink's room.
LEMMA SendKeepsLine ==
    ASSUME NEW c \in Cmd, uartTx \in Seq(Cmd), KoovoxFillAndSendUartPacket(c)
    PROVE  uartTx' \in Seq(Cmd) /\ Len(uartTx') <= UartRoom
BY BoundAssumption DEF KoovoxFillAndSendUartPacket

\* The final answer closes the open request and keeps the books.
LEMMA AnswerKeepsBooks ==
    ASSUME TypeOK, RequestAccounting, wechat_req, AnswerPhone
    PROVE  /\ wechat_req' = FALSE
           /\ forwarded' = forwarded
           /\ answered' \in Nat /\ lost' \in Nat
           /\ answered' + lost' = answered + lost + 1
           /\ RequestAccounting'
BY DEF AnswerPhone, TypeOK, RequestAccounting

\* What a handler of a received frame may assume and has done already.
LEMMA ReceiveKeepsTypes ==
    ASSUME TypeOK, NEW cmd, NEW obj, Receive(cmd, obj)
    PROVE  /\ Head(uartRx) \in Frame
           /\ uartRx' \in Seq(Frame)
           /\ UNCHANGED <<session, sensorVars, systemVars>>
BY DEF Receive, TypeOK

\* The commands the headset makes up itself are commands of the line.
LEMMA OwnCommands == I2cTest \in Cmd /\ StepCount \in Cmd /\ HeartRate \in Cmd
                     /\ NoCmd \notin Cmd
BY DEF I2cTest, StepCount, HeartRate, NoCmd, Cmd, Obj

\* The sensor's answers are frames of the line.
LEMMA SensorFrames ==
    /\ \A c \in Cmd, good \in BOOLEAN, whole \in BOOLEAN :
          Confirmation(c, good, whole) \in Frame
    /\ \A o \in Obj, good \in BOOLEAN : Measurement(o, good) \in Frame
    /\ FrameError \in Frame /\ Malformed \in Frame
BY DEF Confirmation, Measurement, FrameError, Malformed, Frame, Cmd, Obj

-----------------------------------------------------------------------------
(* The inductive invariant                                                 *)

\* The invariant holds after a boot: no command, no frame, no request.
LEMMA InitIInv == Init => IInv
<1> SUFFICES ASSUME Init PROVE IInv
  OBVIOUS
<1>1. TypeOK
  <2>1. uartTx \in Seq(Cmd) /\ Len(uartTx) <= UartRoom /\ uartRx \in Seq(Frame)
    BY BoundAssumption DEF Init
  <2>2. /\ repeat_times \in 0..REPEAT_TIMES /\ forwarded \in 0..MaxForwarded
        /\ errors \in 0..MaxErr /\ garbled \in 0..MaxGarbled
        /\ answered \in Nat /\ lost \in Nat
    BY BoundAssumption DEF Init
  <2> QED
    BY <2>1, <2>2 DEF Init, TypeOK
<1>2. RetryHasCommand
  BY DEF Init, RetryHasCommand
<1>3. RequestAccounting
  BY DEF Init, RequestAccounting
<1> QED
  BY <1>1, <1>2, <1>3 DEF IInv

\* The user's and the system's events.
LEMMA EventsKeepIInv ==
    ASSUME IInv,
           \/ PowerOn \/ PowerOff \/ ButtonMClick \/ SessionUp \/ SessionDown
           \/ \E c \in PhoneCmd : PushRecvData(c)
    PROVE  IInv'
<1> USE DEF IInv
<1>1. CASE PowerOn
  <2>1. uartTx' \in Seq(Cmd) /\ Len(uartTx') <= UartRoom
    BY <1>1, SendKeepsLine, OwnCommands DEF PowerOn, TypeOK
  <2>2. TypeOK'
    BY <1>1, <2>1, OwnCommands
    DEF PowerOn, TypeOK, KoovoxStoreLastCmd, retryVars, replyVars, sensorVars
  <2>3. RetryHasCommand' /\ RequestAccounting'
    BY <1>1, OwnCommands
    DEF PowerOn, RetryHasCommand, RequestAccounting, KoovoxStoreLastCmd,
        replyVars, NoCmd, I2cTest
  <2> QED
    BY <2>2, <2>3
<1>2. CASE ButtonMClick
  <2>1. uartTx' \in Seq(Cmd) /\ Len(uartTx') <= UartRoom
    BY <1>2, SendKeepsLine, OwnCommands DEF ButtonMClick, TypeOK
  <2>2. TypeOK'
    BY <1>2, <2>1, OwnCommands
    DEF ButtonMClick, TypeOK, KoovoxStoreLastCmd, replyVars, sensorVars,
        systemVars
  <2>3. RetryHasCommand' /\ RequestAccounting'
    BY <1>2, OwnCommands
    DEF ButtonMClick, RetryHasCommand, RequestAccounting, KoovoxStoreLastCmd,
        replyVars, NoCmd, HeartRate
  <2> QED
    BY <2>2, <2>3
<1>3. CASE PowerOff \/ SessionUp \/ SessionDown
  <2>1. TypeOK'
    BY <1>3
    DEF PowerOff, SessionUp, SessionDown, TypeOK, flagVars, retryVars,
        replyVars, sensorVars, systemVars
  <2>2. RetryHasCommand' /\ RequestAccounting'
    BY <1>3
    DEF PowerOff, SessionUp, SessionDown, RetryHasCommand, RequestAccounting,
        flagVars, retryVars, replyVars
  <2> QED
    BY <2>1, <2>2
<1>4. ASSUME NEW c \in PhoneCmd, PushRecvData(c)
      PROVE  IInv'
  <2>1. uartTx' \in Seq(Cmd) /\ Len(uartTx') <= UartRoom
    BY <1>4, SendKeepsLine, PhoneCmdAssumption DEF PushRecvData, TypeOK
  <2>2. TypeOK'
    BY <1>4, <2>1, BoundAssumption
    DEF PushRecvData, TypeOK, retryVars, sensorVars, systemVars
  <2>3. RetryHasCommand'
    BY <1>4 DEF PushRecvData, RetryHasCommand, retryVars
  <2>4. RequestAccounting'
    BY <1>4 DEF PushRecvData, RequestAccounting, Busy, TypeOK
  <2> QED
    BY <2>2, <2>3, <2>4
<1> QED
  BY <1>1, <1>2, <1>3, <1>4

\* The handlers that answer a waiting phone and leave the rest alone.
LEMMA AnswerIfAskedKeepsIInv ==
    ASSUME IInv, NEW cmd, NEW obj, Receive(cmd, obj), AnswerIfAsked,
           smooth_var' \in BOOLEAN
    PROVE  IInv'
<1> USE DEF IInv
<1>1. /\ wechat_req' \in BOOLEAN /\ forwarded' = forwarded
      /\ answered' \in Nat /\ lost' \in Nat /\ RequestAccounting'
  <2>1. CASE Head(uartRx).long /\ wechat_req
    BY <2>1, AnswerKeepsBooks DEF AnswerIfAsked
  <2>2. CASE ~(Head(uartRx).long /\ wechat_req)
    BY <2>2 DEF AnswerIfAsked, RequestAccounting, TypeOK, replyVars
  <2> QED
    BY <2>1, <2>2
<1>2. TypeOK'
  BY <1>1, ReceiveKeepsTypes
  DEF AnswerIfAsked, TypeOK, retryVars, sensorVars, systemVars
<1>3. RetryHasCommand'
  BY DEF AnswerIfAsked, RetryHasCommand, retryVars
<1> QED
  BY <1>1, <1>2, <1>3
\* The handlers of confirmations.
LEMMA ConfirmationsKeepIInv ==
    ASSUME IInv,
           \/ KoovoxResponseHealthMonitor \/ KoovoxResponseHeartRate
           \/ KoovoxResponseNeckProtect \/ KoovoxResponseStepCount
           \/ KoovoxResponseConstSeat \/ DefaultConfirmation
    PROVE  IInv'
<1> USE DEF IInv
<1>1. CASE KoovoxResponseHealthMonitor
  <2>1. /\ wechat_req' \in BOOLEAN /\ forwarded' = forwarded
        /\ answered' \in Nat /\ lost' \in Nat /\ RequestAccounting'
    <3>1. CASE wechat_req /\ AnswerPhone
      BY <3>1, AnswerKeepsBooks
    <3>2. CASE UNCHANGED <<wechat_req, replyVars>>
      BY <3>2 DEF RequestAccounting, TypeOK, replyVars
    <3> QED
      BY <1>1, <3>1, <3>2 DEF KoovoxResponseHealthMonitor, flagVars
  <2>2. button_req' = FALSE \/ button_req' = button_req
    BY <1>1 DEF KoovoxResponseHealthMonitor, flagVars
  <2>3. TypeOK'
    BY <1>1, <2>1, <2>2, ReceiveKeepsTypes
    DEF KoovoxResponseHealthMonitor, TypeOK, retryVars, sensorVars, systemVars
  <2>4. RetryHasCommand'
    BY <1>1, <2>2 DEF KoovoxResponseHealthMonitor, RetryHasCommand, retryVars
  <2> QED
    BY <2>1, <2>3, <2>4
<1>2. CASE KoovoxResponseHeartRate
  <2>1. Head(uartRx) \in Frame
    BY <1>2, ReceiveKeepsTypes DEF KoovoxResponseHeartRate
  <2>2. smooth_var' \in BOOLEAN
    BY <1>2, <2>1 DEF KoovoxResponseHeartRate, FilterAfter, TypeOK, Frame
  <2> QED
    BY <1>2, <2>2, AnswerIfAskedKeepsIInv DEF KoovoxResponseHeartRate
<1>3. CASE KoovoxResponseNeckProtect \/ KoovoxResponseStepCount
           \/ KoovoxResponseConstSeat
  <2>1. smooth_var' \in BOOLEAN
    BY <1>3 DEF KoovoxResponseNeckProtect, KoovoxResponseStepCount,
                KoovoxResponseConstSeat, TypeOK
  <2> QED
    BY <1>3, <2>1, AnswerIfAskedKeepsIInv
    DEF KoovoxResponseNeckProtect, KoovoxResponseStepCount,
        KoovoxResponseConstSeat
<1>4. CASE DefaultConfirmation
  <2>1. TypeOK'
    BY <1>4, ReceiveKeepsTypes
    DEF DefaultConfirmation, TypeOK, retryVars, replyVars, sensorVars,
        systemVars
  <2>2. RetryHasCommand' /\ RequestAccounting'
    BY <1>4 DEF DefaultConfirmation, RetryHasCommand, RequestAccounting,
                retryVars, replyVars
  <2> QED
    BY <2>1, <2>2
<1> QED
  BY <1>1, <1>2, <1>3, <1>4

\* A frame error repeats a command only while the button's request is open,
\* which is where RetryHasCommand is needed.
LEMMA FrameErrorKeepsIInv ==
    ASSUME IInv, KoovoxResponseFrameError
    PROVE  IInv'
<1> USE DEF IInv
<1>1. Receive("CFM", "FRAME_ERR")
  BY DEF KoovoxResponseFrameError
<1>2. CASE ~RepeatsLeft
  <2>1. TypeOK'
    BY <1>1, <1>2, ReceiveKeepsTypes, BoundAssumption
    DEF KoovoxResponseFrameError, TypeOK, flagVars, replyVars, sensorVars,
        systemVars
  <2>2. RetryHasCommand' /\ RequestAccounting'
    BY <1>2 DEF KoovoxResponseFrameError, RetryHasCommand, RequestAccounting,
                flagVars, replyVars
  <2> QED
    BY <2>1, <2>2
<1>3. CASE RepeatsLeft
  <2>1. /\ uartTx' \in Seq(Cmd) /\ Len(uartTx') <= UartRoom
        /\ last_cmd' = last_cmd /\ repeat_times' \in 0..REPEAT_TIMES
    <3>1. CASE button_req
      <4>1. last_cmd \in Cmd
        BY <3>1 DEF TypeOK, RetryHasCommand
      <4>2. KoovoxFillAndSendUartPacket(last_cmd)
        BY <1>3, <3>1 DEF KoovoxResponseFrameError
      <4>3. uartTx' \in Seq(Cmd) /\ Len(uartTx') <= UartRoom
        BY <4>1, <4>2, SendKeepsLine DEF TypeOK
      <4>4. last_cmd' = last_cmd /\ repeat_times' = repeat_times + 1
        BY <1>3, <3>1 DEF KoovoxResponseFrameError, KoovoxStoreLastCmd
      <4>5. repeat_times' \in 0..REPEAT_TIMES
        BY <1>3, <4>4, BoundAssumption DEF RepeatsLeft, TypeOK
      <4> QED
        BY <4>3, <4>4, <4>5
    <3>2. CASE ~button_req
      BY <1>3, <3>2 DEF KoovoxResponseFrameError, TypeOK, retryVars
    <3> QED
      BY <3>1, <3>2
  <2>2. /\ wechat_req' \in BOOLEAN /\ forwarded' = forwarded
        /\ answered' \in Nat /\ lost' \in Nat /\ RequestAccounting'
    <3>1. CASE wechat_req
      BY <1>3, <3>1, AnswerKeepsBooks DEF KoovoxResponseFrameError
    <3>2. CASE ~wechat_req
      BY <1>3, <3>2
      DEF KoovoxResponseFrameError, RequestAccounting, TypeOK, replyVars
    <3> QED
      BY <3>1, <3>2
  <2>3. button_req' = button_req /\ smooth_var' = smooth_var
    BY <1>3 DEF KoovoxResponseFrameError
  <2>4. TypeOK'
    BY <1>1, <2>1, <2>2, <2>3, ReceiveKeepsTypes
    DEF TypeOK, sensorVars, systemVars
  <2>5. RetryHasCommand'
    BY <2>1, <2>3 DEF RetryHasCommand
  <2> QED
    BY <2>2, <2>4, <2>5
<1> QED
  BY <1>2, <1>3

\* The measurements: the self test may send, the others only report.
LEMMA MeasurementsKeepIInv ==
    ASSUME IInv, KoovoxResultI2cTest \/ ReportToPhone
    PROVE  IInv'
<1> USE DEF IInv
<1>1. CASE KoovoxResultI2cTest
  <2>1. \A c \in {StepCount, I2cTest} :
           KoovoxFillAndSendUartPacket(c)
           => uartTx' \in Seq(Cmd) /\ Len(uartTx') <= UartRoom
    BY SendKeepsLine, OwnCommands DEF TypeOK
  <2>2. uartTx' \in Seq(Cmd) /\ Len(uartTx') <= UartRoom
    BY <1>1, <2>1 DEF KoovoxResultI2cTest, TypeOK
  <2>3. \/ /\ last_cmd' \in {StepCount, I2cTest} /\ button_req' = TRUE
           /\ \/ repeat_times' = repeat_times
              \/ RepeatsLeft /\ repeat_times' = repeat_times + 1
        \/ /\ last_cmd' = last_cmd /\ button_req' = button_req
           /\ repeat_times' = 0
    BY <1>1 DEF KoovoxResultI2cTest, KoovoxStoreLastCmd
  <2>6. repeat_times' \in 0..REPEAT_TIMES
    BY <2>3, BoundAssumption DEF RepeatsLeft, TypeOK
  <2>7. last_cmd' \in Cmd \cup {NoCmd} /\ button_req' \in BOOLEAN
    BY <2>3, OwnCommands DEF TypeOK
  <2>8. RetryHasCommand'
    BY <2>3, OwnCommands DEF RetryHasCommand
  <2>4. TypeOK'
    BY <1>1, <2>2, <2>6, <2>7, ReceiveKeepsTypes
    DEF KoovoxResultI2cTest, TypeOK, replyVars, sensorVars, systemVars
  <2>5. RequestAccounting'
    BY <1>1 DEF KoovoxResultI2cTest, RequestAccounting, replyVars
  <2> QED
    BY <2>4, <2>5, <2>8
<1>2. CASE ReportToPhone
  <2>1. TypeOK'
    BY <1>2, ReceiveKeepsTypes
    DEF ReportToPhone, TypeOK, flagVars, retryVars, replyVars, sensorVars,
        systemVars
  <2>2. RetryHasCommand' /\ RequestAccounting'
    BY <1>2 DEF ReportToPhone, RetryHasCommand, RequestAccounting, flagVars,
                retryVars, replyVars
  <2> QED
    BY <2>1, <2>2
<1> QED
  BY <1>1, <1>2

\* A panic changes one flag; the reset starts the books again.
LEMMA EndsKeepIInv ==
    ASSUME IInv, Fatal \/ Reboot
    PROVE  IInv'
<1> USE DEF IInv
<1>1. CASE Fatal
  <2>1. Panic
    BY <1>1 DEF Fatal, StrayAccess, SinkFull
  <2> QED
    BY <2>1 DEF Panic, TypeOK, RetryHasCommand, RequestAccounting, flagVars,
                retryVars, replyVars, sensorVars
<1>2. CASE Reboot
  <2>1. uartRx' \in Seq(Frame)
    BY <1>2 DEF Reboot
  <2>2. repeat_times' \in 0..REPEAT_TIMES /\ forwarded' \in 0..MaxForwarded
    BY <1>2, BoundAssumption DEF Reboot
  <2>3. TypeOK'
    BY <1>2, <2>1, <2>2 DEF Reboot, TypeOK, sensorVars
  <2>4. RetryHasCommand' /\ RequestAccounting'
    BY <1>2 DEF Reboot, RetryHasCommand, RequestAccounting
  <2> QED
    BY <2>3, <2>4
<1> QED
  BY <1>1, <1>2
\* The sensor takes commands off the line and puts frames on it.
LEMMA SensorKeepsIInv ==
    ASSUME IInv, Sensor \/ SensorMeasures
    PROVE  IInv'
<1> USE DEF IInv
<1>1. ASSUME NEW s \in Seq(Frame), Reply(s), measuring' \in BOOLEAN,
             errors' \in 0..MaxErr, garbled' \in 0..MaxGarbled
      PROVE  IInv'
  <2>1. /\ uartTx' \in Seq(Cmd) /\ Len(uartTx') <= UartRoom
        /\ uartRx' \in Seq(Frame)
    <3>1. uartTx # <<>> /\ uartTx' = Tail(uartTx) /\ uartRx' = uartRx \o s
      BY <1>1 DEF Reply
    <3>2. uartTx \in Seq(Cmd) /\ Len(uartTx) <= UartRoom /\ UartRoom \in Nat
      BY BoundAssumption DEF TypeOK
    <3>3. Tail(uartTx) \in Seq(Cmd) /\ Len(Tail(uartTx)) = Len(uartTx) - 1
      BY <3>1, <3>2
    <3>4. uartRx \o s \in Seq(Frame)
      BY <1>1 DEF TypeOK
    <3> QED
      BY <3>1, <3>2, <3>3, <3>4
  <2>2. TypeOK'
    BY <1>1, <2>1 DEF Reply, TypeOK, flagVars, retryVars, replyVars, systemVars
  <2>3. RetryHasCommand' /\ RequestAccounting'
    BY <1>1 DEF Reply, RetryHasCommand, RequestAccounting, flagVars, retryVars,
                replyVars
  <2> QED
    BY <2>2, <2>3
<1>2. ASSUME uartTx # <<>>
      PROVE  Head(uartTx) \in Cmd
  BY <1>2 DEF TypeOK
<1>3. /\ \A f \in Frame : <<f>> \in Seq(Frame)
      /\ \A f, g \in Frame : <<f, g>> \in Seq(Frame)
      /\ \A f \in Frame : Append(uartRx, f) \in Seq(Frame)
  BY DEF TypeOK
<1>4. CASE SensorConfirms
  <2>1. PICK good \in Results(Head(uartTx)) :
              /\ Reply(<<Confirmation(Head(uartTx), good, TRUE)>>)
              /\ Sample(Head(uartTx), good)
    BY <1>4 DEF SensorConfirms
  <2>2. good \in BOOLEAN
    BY DEF Results
  <2>5. Confirmation(Head(uartTx), good, TRUE) \in Frame
    BY <1>2, <1>4, <2>2, SensorFrames DEF SensorConfirms
  <2>3. <<Confirmation(Head(uartTx), good, TRUE)>> \in Seq(Frame)
    BY <1>3, <2>5
  <2>4. errors' \in 0..MaxErr /\ garbled' \in 0..MaxGarbled
    BY <1>4 DEF SensorConfirms, TypeOK
  <2> QED
    <3>1. measuring' \in BOOLEAN
      BY <2>1 DEF Sample, TypeOK
    <3> QED
      BY <1>1, <2>1, <2>3, <2>4, <3>1
<1>5. CASE SensorTests
  <2>1. PICK good \in BOOLEAN :
              /\ \/ Reply(<<Measurement("I2C_TEST", good)>>)
                 \/ Reply(<<Confirmation(Head(uartTx), TRUE, TRUE),
                            Measurement("I2C_TEST", good)>>)
              /\ errors' = IF good THEN errors ELSE errors + 1
    BY <1>5 DEF SensorTests
  <2>2. uartTx # <<>>
    BY <2>1 DEF Reply
  <2>3. Measurement("I2C_TEST", good) \in Frame
    BY SensorFrames DEF Obj
  <2>4. Confirmation(Head(uartTx), TRUE, TRUE) \in Frame
    BY <1>2, <2>2, SensorFrames
  <2>5. measuring' \in BOOLEAN /\ garbled' \in 0..MaxGarbled
    BY <1>5 DEF SensorTests, TypeOK
  <2>6. errors' \in 0..MaxErr
    BY <1>5, <2>1, BoundAssumption DEF SensorTests, TypeOK
  <2> QED
    <3>1. <<Measurement("I2C_TEST", good)>> \in Seq(Frame)
      BY <2>3, <1>3
    <3>2. <<Confirmation(Head(uartTx), TRUE, TRUE),
            Measurement("I2C_TEST", good)>> \in Seq(Frame)
      BY <1>3, <2>3, <2>4
    <3> QED
      BY <1>1, <2>1, <2>5, <2>6, <3>1, <3>2
<1>6. CASE SensorReportsFrameError
  <2>1. errors' \in 0..MaxErr
    BY <1>6, BoundAssumption DEF SensorReportsFrameError, TypeOK
  <2> QED
    <3>1. measuring' \in BOOLEAN /\ garbled' \in 0..MaxGarbled
      BY <1>6 DEF SensorReportsFrameError, TypeOK
    <3>2. <<FrameError>> \in Seq(Frame) /\ Reply(<<FrameError>>)
      BY <1>6, <1>3, SensorFrames DEF SensorReportsFrameError
    <3> QED
      BY <1>1, <2>1, <3>1, <3>2
<1>7. CASE AnswerGarbled
  <2>1. garbled' \in 0..MaxGarbled /\ errors' \in 0..MaxErr
    BY <1>7, BoundAssumption DEF AnswerGarbled, TypeOK
  <2>2. measuring' \in BOOLEAN
    BY <1>7 DEF AnswerGarbled, Sample, TypeOK
  <2>3. PICK f \in {Confirmation(Head(uartTx), TRUE, FALSE), Malformed} :
              Reply(<<f>>)
    BY <1>7 DEF AnswerGarbled
  <2>4. f \in Frame
    BY <1>2, <2>3, SensorFrames DEF Reply
  <2> QED
    <3>1. <<f>> \in Seq(Frame)
      BY <1>3, <2>4
    <3> QED
      BY <1>1, <2>1, <2>2, <2>3, <3>1
<1>8. CASE SensorMeasures
  <2>1. PICK o \in Measured : uartRx' = Append(uartRx, Measurement(o, TRUE))
    BY <1>8 DEF SensorMeasures
  <2>2. Measurement(o, TRUE) \in Frame
    BY SensorFrames, MeasuredAssumption DEF ReportedObj, Obj
  <2>5. uartRx' \in Seq(Frame)
    BY <1>3, <2>1, <2>2
  <2>3. TypeOK'
    BY <1>8, <2>5
    DEF SensorMeasures, TypeOK, flagVars, retryVars, replyVars, sensorVars,
        systemVars
  <2>4. RetryHasCommand' /\ RequestAccounting'
    BY <1>8 DEF SensorMeasures, RetryHasCommand, RequestAccounting, flagVars,
                retryVars, replyVars
  <2> QED
    BY <2>3, <2>4
<1> QED
  BY <1>4, <1>5, <1>6, <1>7, <1>8 DEF Sensor

\* Every step keeps the invariant: the handlers, the events, the sensor, the ends.
LEMMA NextIInv == IInv /\ [Next]_vars => IInv'
<1> SUFFICES ASSUME IInv, [Next]_vars PROVE IInv'
  OBVIOUS
<1>1. CASE UNCHANGED vars
  BY <1>1 DEF vars, IInv, TypeOK, RetryHasCommand, RequestAccounting, flagVars,
              retryVars, replyVars, sensorVars, systemVars
<1>2. CASE KoovoxUartMessageHandle
  BY <1>2, ConfirmationsKeepIInv, FrameErrorKeepsIInv, MeasurementsKeepIInv
  DEF KoovoxUartMessageHandle
<1>3. CASE Next /\ ~KoovoxUartMessageHandle
  BY <1>3, EventsKeepIInv, SensorKeepsIInv, EndsKeepIInv DEF Next
<1> QED
  BY <1>1, <1>2, <1>3

-----------------------------------------------------------------------------
(* Theorems                                                                *)

THEOREM InductiveInvariant == Spec => []IInv
BY InitIInv, NextIInv, PTL DEF Spec

\* The types of the state, whatever the phone asks and the line drops.
THEOREM TypeCorrect == Spec => []TypeOK
BY InductiveInvariant, PTL DEF IInv

\* Every request of the phone that reached the line is closed by exactly one
\* final answer or is the one still open.
THEOREM EveryRequestClosedOnce == Spec => []RequestAccounting
BY InductiveInvariant, PTL DEF IInv

\* A frame error never makes the headset repeat a command it has not sent.
THEOREM RepeatsRealCommand == Spec => []RetryHasCommand
BY InductiveInvariant, PTL DEF IInv
-----------------------------------------------------------------------------
(* Refinement of PhoneRequests                                             *)

\* What a handler may do to the phone's books: nothing, or one final answer to
\* the open request.
LEMMA HandlersAnswerOnce ==
    ASSUME KoovoxUartMessageHandle
    PROVE  UNCHANGED replyVars \/ (wechat_req /\ AnswerPhone)
<1>1. CASE \/ KoovoxResponseHealthMonitor \/ KoovoxResponseFrameError
           \/ DefaultConfirmation \/ KoovoxResultI2cTest \/ ReportToPhone
  BY <1>1 DEF KoovoxResponseHealthMonitor, KoovoxResponseFrameError,
              DefaultConfirmation, KoovoxResultI2cTest, ReportToPhone
<1>2. CASE AnswerIfAsked
  BY <1>2 DEF AnswerIfAsked
<1> QED
  BY <1>1, <1>2 DEF KoovoxUartMessageHandle, KoovoxResponseHeartRate,
     KoovoxResponseNeckProtect, KoovoxResponseStepCount, KoovoxResponseConstSeat

LEMMA StepRefines ==
    ASSUME IInv, [Next]_vars
    PROVE  [Requests!Next]_<<forwarded, answered + lost>>
<1> USE DEF Requests!Next
<1>1. CASE wechat_req /\ AnswerPhone
  <2>1. /\ answered + lost < forwarded
        /\ answered' + lost' = answered + lost + 1 /\ forwarded' = forwarded
    <3>1. /\ answered' + lost' = answered + lost + 1 /\ forwarded' = forwarded
      BY <1>1, AnswerKeepsBooks DEF IInv
    <3>2. forwarded = answered + lost + 1 /\ answered + lost \in Nat
      BY <1>1 DEF IInv, RequestAccounting, TypeOK
    <3> QED
      BY <3>1, <3>2
  <2> QED
    BY <2>1 DEF Requests!Close
<1>2. CASE UNCHANGED replyVars
  BY <1>2 DEF replyVars
<1>3. ASSUME NEW c \in PhoneCmd, PushRecvData(c)
      PROVE  Requests!Accept
  BY <1>3 DEF PushRecvData, Busy, Requests!Accept, IInv, RequestAccounting, TypeOK
<1>4. CASE Reboot
  BY <1>4 DEF Reboot, Requests!Reset
<1>5. CASE \/ PowerOn \/ PowerOff \/ ButtonMClick \/ SessionUp \/ SessionDown
           \/ Sensor \/ SensorMeasures \/ Fatal \/ UNCHANGED vars
  <2>1. UNCHANGED replyVars
    BY <1>5
    DEF PowerOn, PowerOff, ButtonMClick, SessionUp, SessionDown, Sensor,
        SensorConfirms, SensorTests, SensorReportsFrameError, AnswerGarbled,
        Reply, SensorMeasures, Fatal, StrayAccess, SinkFull, Panic, vars
  <2> QED
    BY <1>2, <2>1
<1>6. CASE KoovoxUartMessageHandle
  BY <1>1, <1>2, <1>6, HandlersAnswerOnce
<1> QED
  BY <1>3, <1>4, <1>5, <1>6 DEF Next

\* However the clients of the line interleave, the phone sees its requests
\* accepted one at a time and closed once each.
THEOREM ImplementsPhoneRequests == Spec => ServesPhone
<1>1. Init => Requests!Init
  BY DEF Init, Requests!Init
<1>2. IInv /\ [Next]_vars => [Requests!Next]_<<forwarded, answered + lost>>
  BY StepRefines
<1> QED
  BY <1>1, <1>2, InductiveInvariant, PTL DEF Spec, ServesPhone, Requests!Spec

-----------------------------------------------------------------------------
(* Samples find the filter                                                 *)

\* The confirmations that give the filter its memory, and those that free it.
Switches(f, ack) ==
    f.cmd = "CFM" /\ f.obj = "HEART_RATE" /\ f.long /\ f.ok /\ f.ack = ack

\* With k frames of q handled the filter has its memory, if it has it now for `has`.
FilterOn(q, k, has) ==
    \/ has /\ \A i \in 1..k : ~Switches(q[i], "STOP")
    \/ \E j \in 1..k : /\ Switches(q[j], "START")
                       /\ \A i \in (j + 1)..k : ~Switches(q[i], "STOP")

\* Every sample in q, and every sample still to come, finds the memory.
SamplesServed(q, has, sampling) ==
    /\ \A k \in 1..Len(q) : NeedsFilter(q[k]) => FilterOn(q, k - 1, has)
    /\ sampling => FilterOn(q, Len(q), has)

FilterInv == ~rebooted /\ garbled = 0 => SamplesServed(uartRx, smooth_var, measuring)

\* Two frames put on the line are put there one after the other.
LEMMA TwoFrames ==
    ASSUME NEW q \in Seq(Frame), NEW f \in Frame, NEW g \in Frame
    PROVE  q \o <<f>> = Append(q, f) /\ q \o <<f, g>> = Append(Append(q, f), g)
<1>1. <<f>> \in Seq(Frame) /\ <<g>> \in Seq(Frame) /\ Append(q, f) \in Seq(Frame)
  BY AppendProperties
<1>2. q \o <<f>> = Append(q, f) /\ Append(Append(q, f), g) = Append(q, f) \o <<g>>
  BY <1>1, AppendIsConcat
<1>3. (q \o <<f>>) \o <<g>> = q \o (<<f>> \o <<g>>)
  BY <1>1, ConcatAssociative
<1>4. <<f>> \o <<g>> = <<f, g>>
  <2>1. <<f>> \o <<g>> = Append(<<f>>, g)
    BY <1>1, AppendIsConcat
  <2>2. Append(<<f>>, g) \in Seq(Frame) /\ <<f, g>> \in Seq(Frame) /\ Len(<<f, g>>) = 2
    BY <1>1, AppendProperties
  <2>3. /\ Len(Append(<<f>>, g)) = 2
        /\ Append(<<f>>, g)[1] = f /\ Append(<<f>>, g)[2] = g
    BY <1>1, AppendProperties
  <2>4. \A i \in 1..2 : Append(<<f>>, g)[i] = <<f, g>>[i]
    BY <2>3
  <2>5. Append(<<f>>, g) = <<f, g>>
    BY <2>2, <2>3, <2>4, SeqEqual
  <2> QED
    BY <2>1, <2>5
<1> QED
  BY <1>2, <1>3, <1>4

\* A frame that does not concern the filter, or a sample while sampling.
LEMMA ServedAdded ==
    ASSUME NEW q \in Seq(Frame), NEW f \in Frame, NEW has, NEW on, NEW on2,
           SamplesServed(q, has, on),
           NeedsFilter(f) => on,
           on2 => \/ Switches(f, "START")
                  \/ on /\ ~Switches(f, "STOP")
    PROVE  SamplesServed(Append(q, f), has, on2)
<1>1. /\ Len(q) \in Nat /\ Len(Append(q, f)) = Len(q) + 1
      /\ \A i \in 1..Len(q) : Append(q, f)[i] = q[i]
      /\ Append(q, f)[Len(q) + 1] = f
  BY AppendProperties, LenProperties
<1>2. \A k \in 0..Len(q) : FilterOn(q, k, has) => FilterOn(Append(q, f), k, has)
  BY <1>1 DEF FilterOn
<1>3. ASSUME NEW k \in 1..(Len(q) + 1), NeedsFilter(Append(q, f)[k])
      PROVE  FilterOn(Append(q, f), k - 1, has)
  <2>1. CASE k = Len(q) + 1
    <3>1. FilterOn(q, Len(q), has)
      BY <1>1, <1>3, <2>1 DEF SamplesServed
    <3> QED
      BY <1>1, <1>2, <2>1, <3>1
  <2>2. CASE k # Len(q) + 1
    <3>1. k \in 1..Len(q) /\ k - 1 \in 0..Len(q)
      BY <1>1, <2>2
    <3>2. FilterOn(q, k - 1, has)
      BY <1>1, <1>3, <3>1 DEF SamplesServed
    <3> QED
      BY <1>2, <3>1, <3>2
  <2> QED
    BY <2>1, <2>2
<1>4. ASSUME on2 PROVE FilterOn(Append(q, f), Len(q) + 1, has)
  <2>1. CASE Switches(f, "START")
    BY <1>1, <2>1 DEF FilterOn
  <2>2. CASE on /\ ~Switches(f, "STOP")
    <3>1. FilterOn(q, Len(q), has)
      BY <2>2 DEF SamplesServed
    <3>2. \A i \in 1..(Len(q) + 1) : i # Len(q) + 1 => i \in 1..Len(q)
      BY <1>1
    <3> QED
      BY <1>1, <2>2, <3>1, <3>2 DEF FilterOn
  <2> QED
    BY <1>4, <2>1, <2>2
<1> QED
  BY <1>1, <1>3, <1>4 DEF SamplesServed

\* A frame handled, whose confirmation the filter has followed.
LEMMA ServedTaken ==
    ASSUME NEW q \in Seq(Frame), q # <<>>, NEW has, NEW has2, NEW on,
           SamplesServed(q, has, on),
           Switches(Head(q), "START") => has2,
           has /\ ~Switches(Head(q), "STOP") => has2
    PROVE  SamplesServed(Tail(q), has2, on)
<1>1. /\ Len(q) \in Nat \ {0} /\ Head(q) = q[1] /\ Len(Tail(q)) = Len(q) - 1
      /\ \A i \in 1..Len(Tail(q)) : i + 1 \in 1..Len(q) /\ Tail(q)[i] = q[i + 1]
  BY HeadTailProperties, EmptySeq
<1>2. ASSUME NEW k \in 1..Len(q), FilterOn(q, k, has)
      PROVE  FilterOn(Tail(q), k - 1, has2)
  <2>1. CASE has /\ \A i \in 1..k : ~Switches(q[i], "STOP")
    <3>1. has2
      BY <1>1, <2>1
    <3>2. \A i \in 1..(k - 1) : ~Switches(Tail(q)[i], "STOP")
      BY <1>1, <2>1
    <3> QED
      BY <3>1, <3>2 DEF FilterOn
  <2>2. ASSUME NEW j \in 1..k, Switches(q[j], "START"),
               \A i \in (j + 1)..k : ~Switches(q[i], "STOP")
        PROVE  FilterOn(Tail(q), k - 1, has2)
    <3>1. \A i \in j..(k - 1) : ~Switches(Tail(q)[i], "STOP")
      BY <1>1, <2>2
    <3>2. CASE j = 1
      BY <1>1, <2>2, <3>1, <3>2 DEF FilterOn
    <3>3. CASE j # 1
      <4>1. j - 1 \in 1..(k - 1) /\ Tail(q)[j - 1] = q[j] /\ (j - 1) + 1 = j
        BY <1>1, <3>3
      <4> QED
        BY <2>2, <3>1, <4>1 DEF FilterOn
    <3> QED
      BY <3>2, <3>3
  <2> QED
    BY <1>2, <2>1, <2>2 DEF FilterOn
<1>3. ASSUME NEW k \in 1..Len(Tail(q)), NeedsFilter(Tail(q)[k])
      PROVE  FilterOn(Tail(q), k - 1, has2)
  <2>1. k + 1 \in 1..Len(q) /\ NeedsFilter(q[k + 1]) /\ (k + 1) - 1 = k /\ k \in 1..Len(q)
    BY <1>1, <1>3
  <2>2. FilterOn(q, k, has)
    BY <2>1 DEF SamplesServed
  <2> QED
    BY <1>2, <2>1, <2>2
<1>4. ASSUME on PROVE FilterOn(Tail(q), Len(Tail(q)), has2)
  <2>1. FilterOn(q, Len(q), has) /\ Len(q) \in 1..Len(q)
    BY <1>1, <1>4 DEF SamplesServed
  <2> QED
    BY <1>1, <1>2, <2>1
<1> QED
  BY <1>3, <1>4 DEF SamplesServed

\* What every handler of a frame does to the line and to the filter.
LEMMA HandlerTakes ==
    ASSUME IInv, KoovoxUartMessageHandle
    PROVE  /\ uartRx \in Seq(Frame) /\ uartRx # <<>> /\ Head(uartRx) \in Frame
           /\ uartRx' = Tail(uartRx)
           /\ UNCHANGED <<measuring, errors, garbled, rebooted>>
           /\ \/ smooth_var' = FilterAfter(Head(uartRx))
              \/ smooth_var' = smooth_var
                 /\ ~(Head(uartRx).cmd = "CFM" /\ Head(uartRx).obj = "HEART_RATE")
<1>1. ASSUME NEW cmd, NEW obj, Receive(cmd, obj)
      PROVE  /\ uartRx \in Seq(Frame) /\ uartRx # <<>> /\ Head(uartRx) \in Frame
             /\ Head(uartRx).cmd = cmd /\ Head(uartRx).obj = obj
             /\ uartRx' = Tail(uartRx)
             /\ UNCHANGED <<measuring, errors, garbled, rebooted>>
  BY <1>1, ReceiveKeepsTypes DEF Receive, IInv, TypeOK, sensorVars, systemVars
<1>2. CASE KoovoxResponseHeartRate
  BY <1>1, <1>2 DEF KoovoxResponseHeartRate
<1>3. CASE \/ KoovoxResponseHealthMonitor \/ KoovoxResponseNeckProtect
           \/ KoovoxResponseStepCount \/ KoovoxResponseConstSeat
  BY <1>1, <1>3 DEF KoovoxResponseHealthMonitor, KoovoxResponseNeckProtect,
     KoovoxResponseStepCount, KoovoxResponseConstSeat
<1>4. CASE KoovoxResponseFrameError \/ KoovoxResultI2cTest
  BY <1>1, <1>4 DEF KoovoxResponseFrameError, KoovoxResultI2cTest
<1>5. CASE DefaultConfirmation
  BY <1>1, <1>5 DEF DefaultConfirmation, AnsweredObj
<1>6. CASE ReportToPhone
  BY <1>1, <1>6 DEF ReportToPhone
<1> QED
  BY <1>2, <1>3, <1>4, <1>5, <1>6 DEF KoovoxUartMessageHandle

\* Events of the user and the system, and panics, leave the line from the sensor.
LEMMA OthersLeaveRx ==
    ASSUME \/ PowerOn \/ PowerOff \/ ButtonMClick \/ SessionUp \/ SessionDown
           \/ (\E c \in PhoneCmd : PushRecvData(c)) \/ Fatal \/ UNCHANGED vars
    PROVE  UNCHANGED <<uartRx, smooth_var, measuring, errors, garbled, rebooted>>
BY DEF PowerOn, PowerOff, ButtonMClick, SessionUp, SessionDown, PushRecvData, Fatal,
       StrayAccess, SinkFull, Panic, vars, sensorVars, systemVars

\* What the sensor puts on the line: one frame, or the confirmation of a self
\* test and its result.
LEMMA SensorSends ==
    ASSUME IInv, Sensor
    PROVE  \E c \in Cmd, f \in Frame :
              /\ c = Head(uartTx) /\ uartTx # <<>> /\ uartTx' = Tail(uartTx)
              /\ \/ /\ uartRx' = Append(uartRx, f)
                    /\ \/ \E good \in BOOLEAN :
                             /\ f = Confirmation(c, good, TRUE) /\ Sample(c, good)
                             /\ UNCHANGED <<errors, garbled>>
                       \/ /\ f = FrameError /\ errors' = errors + 1
                          /\ UNCHANGED <<measuring, garbled>>
                 \/ /\ c.obj = "I2C_TEST" /\ UNCHANGED <<measuring, garbled>>
                    /\ \E good \in BOOLEAN :
                          /\ f = Measurement("I2C_TEST", good)
                          /\ errors' = IF good THEN errors ELSE errors + 1
                    /\ \/ uartRx' = Append(uartRx, f)
                       \/ uartRx' = Append(Append(uartRx, Confirmation(c, TRUE, TRUE)), f)
                 \/ /\ f = Confirmation(c, TRUE, FALSE) \/ f = Malformed
                    /\ uartRx' = Append(uartRx, f)
                    /\ garbled' = garbled + 1 /\ errors' = errors
<1> DEFINE c == Head(uartTx)
<1>1. uartTx # <<>> /\ uartTx' = Tail(uartTx)
  BY DEF Sensor, SensorConfirms, SensorTests, SensorReportsFrameError, AnswerGarbled, Reply
<1>2. c \in Cmd /\ uartRx \in Seq(Frame)
  BY <1>1 DEF IInv, TypeOK
<1>3. \A f \in Frame : Reply(<<f>>) => uartRx' = Append(uartRx, f)
  BY <1>2, TwoFrames DEF Reply
<1>4. \A f, g \in Frame : Reply(<<f, g>>) => uartRx' = Append(Append(uartRx, f), g)
  BY <1>2, TwoFrames DEF Reply
<1> HIDE DEF c
<1>5. CASE SensorConfirms
  <2>1. PICK good \in BOOLEAN : Reply(<<Confirmation(c, good, TRUE)>>) /\ Sample(c, good)
    BY <1>5 DEF SensorConfirms, Results, c
  <2>2. Confirmation(c, good, TRUE) \in Frame
    BY <1>2, <2>1, SensorFrames
  <2>3. UNCHANGED <<errors, garbled>>
    BY <1>5 DEF SensorConfirms
  <2>4. uartRx' = Append(uartRx, Confirmation(c, good, TRUE))
    BY <1>3, <2>1, <2>2
  <2> QED
    BY <1>1, <1>2, <2>1, <2>2, <2>3, <2>4 DEF c
<1>6. CASE SensorReportsFrameError
  <2>1. uartRx' = Append(uartRx, FrameError) /\ FrameError \in Frame
    BY <1>3, <1>6, SensorFrames DEF SensorReportsFrameError
  <2> QED
    BY <1>1, <1>2, <1>6, <2>1 DEF SensorReportsFrameError, c
<1>7. CASE SensorTests
  <2>1. PICK good \in BOOLEAN :
           /\ \/ Reply(<<Measurement("I2C_TEST", good)>>)
              \/ Reply(<<Confirmation(c, TRUE, TRUE), Measurement("I2C_TEST", good)>>)
           /\ errors' = IF good THEN errors ELSE errors + 1
    BY <1>7 DEF SensorTests, c
  <2>2. Measurement("I2C_TEST", good) \in Frame /\ Confirmation(c, TRUE, TRUE) \in Frame
    BY <1>2, SensorFrames DEF Obj
  <2>3. \/ uartRx' = Append(uartRx, Measurement("I2C_TEST", good))
        \/ uartRx' = Append(Append(uartRx, Confirmation(c, TRUE, TRUE)),
                            Measurement("I2C_TEST", good))
    BY <1>3, <1>4, <2>1, <2>2
  <2>4. c.obj = "I2C_TEST" /\ UNCHANGED <<measuring, garbled>>
    BY <1>7 DEF SensorTests, c
  <2> QED
    BY <1>1, <1>2, <2>1, <2>2, <2>3, <2>4 DEF c
<1>8. CASE AnswerGarbled
  <2>1. PICK f \in {Confirmation(c, TRUE, FALSE), Malformed} : Reply(<<f>>)
    BY <1>8 DEF AnswerGarbled, c
  <2>2. f \in Frame
    BY <1>2, <2>1, SensorFrames
  <2>3. uartRx' = Append(uartRx, f) /\ garbled' = garbled + 1 /\ errors' = errors
    BY <1>3, <1>8, <2>1, <2>2 DEF AnswerGarbled
  <2> QED
    BY <1>1, <1>2, <2>1, <2>2, <2>3 DEF c
<1> QED
  BY <1>5, <1>6, <1>7, <1>8 DEF Sensor

\* Whatever the sensor confirms, and whenever it samples, the samples on the
\* line find the memory that the confirmations before them have left.
LEMMA NextFilterInv == IInv /\ FilterInv /\ [Next]_vars => FilterInv'
<1> SUFFICES ASSUME IInv, FilterInv, [Next]_vars, ~rebooted', garbled' = 0
             PROVE  SamplesServed(uartRx', smooth_var', measuring')
  BY DEF FilterInv
<1>0. uartRx \in Seq(Frame) /\ garbled \in Nat
  BY BoundAssumption DEF IInv, TypeOK
<1>1. CASE KoovoxUartMessageHandle
  <2> DEFINE f == Head(uartRx)
  <2>1. /\ uartRx # <<>> /\ f \in Frame /\ uartRx' = Tail(uartRx)
        /\ UNCHANGED <<measuring, garbled, rebooted>>
        /\ smooth_var' = FilterAfter(f)
           \/ (smooth_var' = smooth_var /\ ~(f.cmd = "CFM" /\ f.obj = "HEART_RATE"))
    BY <1>1, HandlerTakes
  <2>2. SamplesServed(uartRx, smooth_var, measuring)
    BY <2>1 DEF FilterInv
  <2>3. Switches(f, "START") => smooth_var'
    BY <2>1 DEF Switches, FilterAfter
  <2>4. smooth_var /\ ~Switches(f, "STOP") => smooth_var'
    <3>1. CASE smooth_var' = smooth_var
      BY <3>1
    <3>2. CASE smooth_var' = FilterAfter(f) /\ f.cmd = "CFM" /\ f.obj = "HEART_RATE"
      BY <2>1, <3>2 DEF Switches, FilterAfter, Frame
    <3>3. CASE smooth_var' = FilterAfter(f) /\ ~(f.cmd = "CFM" /\ f.obj = "HEART_RATE")
      <4>1. KoovoxResponseHeartRate \/ smooth_var' = smooth_var
        BY <1>1 DEF KoovoxUartMessageHandle, KoovoxResponseHealthMonitor,
           KoovoxResponseNeckProtect, KoovoxResponseStepCount, KoovoxResponseConstSeat,
           KoovoxResponseFrameError, DefaultConfirmation, KoovoxResultI2cTest, ReportToPhone
      <4>2. ~KoovoxResponseHeartRate
        BY <3>3 DEF KoovoxResponseHeartRate, Receive
      <4> QED
        BY <4>1, <4>2
    <3> QED
      BY <2>1, <3>1, <3>2, <3>3
  <2> HIDE DEF f
  <2> QED
    BY <1>0, <2>1, <2>2, <2>3, <2>4, ServedTaken DEF f
<1>2. CASE \/ PowerOn \/ PowerOff \/ ButtonMClick \/ SessionUp \/ SessionDown
           \/ (\E c \in PhoneCmd : PushRecvData(c)) \/ Fatal \/ UNCHANGED vars
  BY <1>2, OthersLeaveRx DEF FilterInv
<1>3. CASE Sensor
  <2>1. PICK c \in Cmd, f \in Frame :
              \/ /\ uartRx' = Append(uartRx, f)
                 /\ \/ \E good \in BOOLEAN :
                          /\ f = Confirmation(c, good, TRUE) /\ Sample(c, good)
                          /\ UNCHANGED <<errors, garbled>>
                    \/ /\ f = FrameError /\ errors' = errors + 1
                       /\ UNCHANGED <<measuring, garbled>>
              \/ /\ c.obj = "I2C_TEST" /\ UNCHANGED <<measuring, garbled>>
                 /\ \E good \in BOOLEAN :
                       /\ f = Measurement("I2C_TEST", good)
                       /\ errors' = IF good THEN errors ELSE errors + 1
                 /\ \/ uartRx' = Append(uartRx, f)
                    \/ uartRx' = Append(Append(uartRx, Confirmation(c, TRUE, TRUE)), f)
              \/ garbled' = garbled + 1
    BY <1>3, SensorSends
  <2>2. garbled' # garbled + 1
    BY <1>0
  <2>3. smooth_var' = smooth_var /\ rebooted' = rebooted
    BY <1>3 DEF Sensor, SensorConfirms, SensorTests, SensorReportsFrameError,
       AnswerGarbled, Reply, systemVars
  <2>4. garbled = 0 /\ SamplesServed(uartRx, smooth_var, measuring)
    BY <2>1, <2>2, <2>3 DEF FilterInv
  <2>5. ASSUME NEW good \in BOOLEAN, f = Confirmation(c, good, TRUE), Sample(c, good),
               uartRx' = Append(uartRx, f)
        PROVE  SamplesServed(uartRx', smooth_var', measuring')
    <3>1. /\ f.cmd = "CFM" /\ f.obj = c.obj /\ f.ack = c.cmd /\ f.ok = good /\ f.long
          /\ ~NeedsFilter(f)
      BY <2>5 DEF Confirmation, NeedsFilter
    <3>2. measuring' => Switches(f, "START") \/ (measuring /\ ~Switches(f, "STOP"))
      BY <2>5, <3>1 DEF Sample, Switches
    <3> QED
      BY <1>0, <2>3, <2>4, <2>5, <3>1, <3>2, ServedAdded
  <2>6. CASE f = FrameError /\ uartRx' = Append(uartRx, f) /\ measuring' = measuring
    <3>1. ~NeedsFilter(f) /\ ~Switches(f, "STOP")
      BY <2>6 DEF FrameError, NeedsFilter, Switches
    <3> QED
      BY <1>0, <2>3, <2>4, <2>6, <3>1, ServedAdded
  <2>7. ASSUME NEW good \in BOOLEAN, f = Measurement("I2C_TEST", good),
               c.obj = "I2C_TEST", measuring' = measuring,
               \/ uartRx' = Append(uartRx, f)
               \/ uartRx' = Append(Append(uartRx, Confirmation(c, TRUE, TRUE)), f)
        PROVE  SamplesServed(uartRx', smooth_var', measuring')
    <3> DEFINE g == Confirmation(c, TRUE, TRUE)
    <3>1. ~NeedsFilter(f) /\ ~Switches(f, "STOP") /\ ~NeedsFilter(g) /\ ~Switches(g, "STOP")
      BY <2>7 DEF Measurement, Confirmation, NeedsFilter, Switches
    <3>2. g \in Frame
      BY SensorFrames
    <3> HIDE DEF g
    <3>3. /\ Append(uartRx, g) \in Seq(Frame)
          /\ SamplesServed(Append(uartRx, g), smooth_var, measuring)
      BY <1>0, <2>4, <3>1, <3>2, ServedAdded, AppendProperties
    <3>4. CASE uartRx' = Append(uartRx, f)
      BY <1>0, <2>3, <2>4, <2>7, <3>1, <3>4, ServedAdded
    <3>5. CASE uartRx' = Append(Append(uartRx, g), f)
      BY <2>3, <2>7, <3>1, <3>3, <3>5, ServedAdded
    <3> QED
      BY <2>7, <3>4, <3>5 DEF g
  <2> QED
    BY <2>1, <2>2, <2>5, <2>6, <2>7
<1>4. CASE SensorMeasures
  <2>1. PICK o \in Measured : /\ o = "HEART_RATE" => measuring
                              /\ uartRx' = Append(uartRx, Measurement(o, TRUE))
    BY <1>4 DEF SensorMeasures
  <2>2. UNCHANGED <<smooth_var, measuring, garbled, rebooted>>
    BY <1>4 DEF SensorMeasures, sensorVars, systemVars
  <2>3. Measurement(o, TRUE) \in Frame
    BY SensorFrames, MeasuredAssumption DEF ReportedObj, Obj
  <2>4. /\ NeedsFilter(Measurement(o, TRUE)) => measuring
        /\ ~Switches(Measurement(o, TRUE), "STOP")
    BY <2>1 DEF Measurement, NeedsFilter, Switches
  <2>5. SamplesServed(uartRx, smooth_var, measuring)
    BY <2>2 DEF FilterInv
  <2> QED
    BY <1>0, <2>1, <2>2, <2>3, <2>4, <2>5, ServedAdded
<1>5. CASE Reboot
  BY <1>5 DEF Reboot
<1> QED
  BY <1>1, <1>2, <1>3, <1>4, <1>5 DEF Next

\* A heart-rate sample finds the filter's memory, as long as the headset has not
\* been reset under a sampling sensor and no answer was cut or broken: for every
\* backlog, and however the button, the phone and the sensor interleave.
THEOREM SamplesFindFilter == Spec => []SampleFindsFilter
<1>1. Init => FilterInv
  <2> SUFFICES ASSUME Init PROVE SamplesServed(uartRx, smooth_var, measuring)
    BY DEF FilterInv
  <2>1. uartRx = <<>> /\ ~measuring
    BY DEF Init
  <2> QED
    BY <2>1 DEF SamplesServed
<1>2. IInv /\ FilterInv => SampleFindsFilter
  <2> SUFFICES ASSUME IInv, FilterInv, ~rebooted, garbled = 0, uartRx # <<>>,
                      NeedsFilter(Head(uartRx))
               PROVE  smooth_var
    BY DEF SampleFindsFilter
  <2>1. Len(uartRx) \in Nat \ {0} /\ Head(uartRx) = uartRx[1]
    BY EmptySeq DEF IInv, TypeOK
  <2>2. FilterOn(uartRx, 0, smooth_var)
    BY <2>1 DEF FilterInv, SamplesServed
  <2> QED
    BY <2>2 DEF FilterOn
<1> QED
  BY <1>1, <1>2, InductiveInvariant, NextFilterInv, PTL DEF Spec

-----------------------------------------------------------------------------
(* Busy ends                                                               *)

\* The places of the line q where a member of S waits.
Places(q, S) == {i \in 1..Len(q) : q[i] \in S}

\* The commands whose confirmation answers the phone, and the frames that do.
Asking == {c \in Cmd : c.obj \in AnsweredObj}
ClosingFrames == {f \in Frame : Closing(f)}

\* The frames that may count one repeat more.
ErrorFrames ==
    {f \in Frame : \/ f.cmd = "CFM" /\ f.obj = "FRAME_ERR"
                   \/ f.cmd = "ENV" /\ f.obj = "I2C_TEST" /\ ~f.ok}

\* Every repeat was made for an error reported before, and every error still on
\* the line was reported as well.
ErrorInv == repeat_times + Cardinality(Places(uartRx, ErrorFrames)) <= errors

\* The answer to the phone's request is on its way, one way or the other.
Coming == Places(uartTx, Asking) # {} \/ Places(uartRx, ClosingFrames) # {}

\* The places of a line are finitely many.
LEMMA PlacesFinite ==
    ASSUME NEW T, NEW q \in Seq(T), NEW S
    PROVE  IsFiniteSet(Places(q, S)) /\ Cardinality(Places(q, S)) \in Nat
<1>1. Len(q) \in Nat
  BY LenProperties
<1>2. IsFiniteSet(1..Len(q))
  BY <1>1, FS_Interval
<1>3. Places(q, S) \subseteq 1..Len(q)
  BY DEF Places
<1> QED
  BY <1>2, <1>3, FS_Subset, FS_CardinalityType

\* An element put on the line takes the last place.
LEMMA PlaceAdded ==
    ASSUME NEW T, NEW q \in Seq(T), NEW e \in T, NEW S
    PROVE  /\ Places(q, S) \subseteq Places(Append(q, e), S)
           /\ e \in S => Places(Append(q, e), S) # {}
           /\ Cardinality(Places(Append(q, e), S)) =
                 Cardinality(Places(q, S)) + (IF e \in S THEN 1 ELSE 0)
<1>1. /\ Len(q) \in Nat /\ Len(Append(q, e)) = Len(q) + 1
      /\ \A i \in 1..Len(q) : Append(q, e)[i] = q[i]
      /\ Append(q, e)[Len(q) + 1] = e
  BY AppendProperties, LenProperties
<1>2. CASE e \in S
  <2>1. Places(Append(q, e), S) = Places(q, S) \cup {Len(q) + 1}
    BY <1>1, <1>2 DEF Places
  <2>2. Len(q) + 1 \notin Places(q, S)
    BY <1>1 DEF Places
  <2> QED
    BY <1>2, <2>1, <2>2, PlacesFinite, FS_AddElement
<1>3. CASE e \notin S
  <2>1. Places(Append(q, e), S) = Places(q, S)
    BY <1>1, <1>3 DEF Places
  <2> QED
    BY <1>3, <2>1, PlacesFinite
<1> QED
  BY <1>2, <1>3

\* The element taken off the line leaves the others, one place nearer.
LEMMA PlaceTaken ==
    ASSUME NEW T, NEW q \in Seq(T), q # <<>>, NEW S
    PROVE  /\ Places(q, S) # {} /\ Head(q) \notin S => Places(Tail(q), S) # {}
           /\ Cardinality(Places(Tail(q), S)) <=
                 Cardinality(Places(q, S)) - (IF Head(q) \in S THEN 1 ELSE 0)
<1> DEFINE P == Places(q, S)
           R == Places(Tail(q), S)
           up == [k \in P \ {1} |-> k - 1]
<1>1. /\ Len(q) \in Nat \ {0} /\ Head(q) = q[1] /\ Len(Tail(q)) = Len(q) - 1
      /\ \A i \in 1..Len(Tail(q)) : Tail(q)[i] = q[i + 1]
  BY HeadTailProperties, EmptySeq
<1>2. 1 \in P <=> Head(q) \in S
  BY <1>1 DEF Places
<1>3. \A k \in P \ {1} : k - 1 \in R
  BY <1>1 DEF Places
<1>4. \A k \in R : k + 1 \in P \ {1} /\ up[k + 1] = k
  BY <1>1 DEF Places
<1>5. up \in Surjection(P \ {1}, R)
  BY <1>3, <1>4, Zenon DEF Surjection
<1>6. IsFiniteSet(P) /\ Cardinality(P) \in Nat
  BY PlacesFinite
<1>7. /\ IsFiniteSet(P \ {1})
      /\ Cardinality(P \ {1}) = IF 1 \in P THEN Cardinality(P) - 1 ELSE Cardinality(P)
  BY <1>6, FS_RemoveElement
<1>8. Cardinality(R) <= Cardinality(P \ {1}) /\ IsFiniteSet(R)
  BY <1>5, <1>7, FS_Surjection
<1>9. Cardinality(R) \in Nat
  BY <1>8, FS_CardinalityType
<1>10. Cardinality(R) <= Cardinality(P) - (IF Head(q) \in S THEN 1 ELSE 0)
  BY <1>2, <1>6, <1>7, <1>8, <1>9
<1>11. P # {} /\ Head(q) \notin S => R # {}
  <2> SUFFICES ASSUME P # {}, Head(q) \notin S PROVE R # {}
    OBVIOUS
  <2>1. PICK k \in P : TRUE
    OBVIOUS
  <2>2. k \in P \ {1}
    BY <1>2, <2>1
  <2> QED
    BY <1>3, <2>2
<1> QED
  BY <1>10, <1>11

\* What handling a frame does to the phone's flag, the repeats and the line to
\* the sensor.
LEMMA HandlerCloses ==
    ASSUME IInv, KoovoxUartMessageHandle
    PROVE  /\ \/ uartTx' = uartTx
              \/ \E c \in Cmd : uartTx' = Append(uartTx, c)
           /\ \/ repeat_times' \in {0, repeat_times}
              \/ Head(uartRx) \in ErrorFrames /\ repeat_times' = repeat_times + 1
           /\ wechat_req' => wechat_req
           /\ \/ Head(uartRx) \notin ClosingFrames
              \/ ~wechat_req'
              \/ ~RepeatsLeft /\ Head(uartRx) \in ErrorFrames
<1> DEFINE f == Head(uartRx)
<1>0. f \in Frame
  BY HandlerTakes
<1>1. CASE KoovoxResponseHealthMonitor
  <2>1. uartTx' = uartTx /\ repeat_times' = repeat_times
    BY <1>1 DEF KoovoxResponseHealthMonitor, retryVars
  <2>2. \/ f.long /\ ~wechat_req'
        \/ ~f.long /\ wechat_req' = wechat_req
    BY <1>1 DEF KoovoxResponseHealthMonitor, AnswerPhone, flagVars
  <2>3. ~f.long => f \notin ClosingFrames
    BY DEF ClosingFrames, Closing
  <2>4. wechat_req' => wechat_req
    BY <2>2
  <2> QED
    BY <2>1, <2>2, <2>3, <2>4
<1>2. CASE AnswerIfAsked
  <2>1. uartTx' = uartTx /\ repeat_times' = repeat_times
    BY <1>2 DEF AnswerIfAsked, retryVars
  <2>2. \/ f.long /\ ~wechat_req'
        \/ ~f.long /\ wechat_req' = wechat_req
    BY <1>2 DEF AnswerIfAsked, AnswerPhone
  <2>3. ~f.long => f \notin ClosingFrames
    BY DEF ClosingFrames, Closing
  <2>4. wechat_req' => wechat_req
    BY <2>2
  <2> QED
    BY <2>1, <2>2, <2>3, <2>4
<1>3. CASE KoovoxResponseFrameError
  <2>1. f.cmd = "CFM" /\ f.obj = "FRAME_ERR" /\ f \in ErrorFrames
    BY <1>0, <1>3 DEF KoovoxResponseFrameError, Receive, ErrorFrames
  <2>2. CASE ~RepeatsLeft
    <3>1. uartTx' = uartTx /\ repeat_times' = 0 /\ wechat_req' = wechat_req
      BY <1>3, <2>2 DEF KoovoxResponseFrameError, flagVars
    <3> QED
      BY <2>1, <2>2, <3>1
  <2>3. CASE RepeatsLeft
    <3>1. ~wechat_req'
      BY <1>3, <2>3 DEF KoovoxResponseFrameError, AnswerPhone
    <3>2. CASE button_req
      <4>1. last_cmd \in Cmd
        BY <3>2 DEF IInv, TypeOK, RetryHasCommand
      <4>2. uartTx' = Append(uartTx, last_cmd) /\ repeat_times' = repeat_times + 1
        BY <1>3, <2>3, <3>2 DEF KoovoxResponseFrameError, KoovoxFillAndSendUartPacket
      <4> QED
        BY <2>1, <3>1, <4>1, <4>2
    <3>3. CASE ~button_req
      <4>1. uartTx' = uartTx /\ repeat_times' = repeat_times
        BY <1>3, <2>3, <3>3 DEF KoovoxResponseFrameError, retryVars
      <4> QED
        BY <3>1, <4>1
    <3> QED
      BY <3>2, <3>3
  <2> QED
    BY <2>2, <2>3
<1>4. CASE DefaultConfirmation \/ ReportToPhone
  <2>1. uartTx' = uartTx /\ repeat_times' = repeat_times /\ wechat_req' = wechat_req
    BY <1>4 DEF DefaultConfirmation, ReportToPhone, retryVars, flagVars
  <2>2. f \notin ClosingFrames
    BY <1>4 DEF DefaultConfirmation, ReportToPhone, Receive, ClosingFrames, Closing
  <2> QED
    BY <2>1, <2>2
<1>5. CASE KoovoxResultI2cTest
  <2>1. f.cmd = "ENV" /\ f.obj = "I2C_TEST" /\ f \notin ClosingFrames
    BY <1>5 DEF KoovoxResultI2cTest, Receive, ClosingFrames, Closing
  <2>2. wechat_req' = wechat_req
    BY <1>5 DEF KoovoxResultI2cTest
  <2>3. \/ uartTx' = uartTx \/ uartTx' = Append(uartTx, StepCount)
        \/ uartTx' = Append(uartTx, I2cTest)
    BY <1>5 DEF KoovoxResultI2cTest, KoovoxFillAndSendUartPacket
  <2>4. \/ repeat_times' \in {0, repeat_times}
        \/ ~f.ok /\ repeat_times' = repeat_times + 1
    BY <1>5 DEF KoovoxResultI2cTest
  <2>5. ~f.ok => f \in ErrorFrames
    BY <1>0, <2>1 DEF ErrorFrames
  <2> QED
    BY <2>1, <2>2, <2>3, <2>4, <2>5, OwnCommands
<1> QED
  BY <1>1, <1>2, <1>3, <1>4, <1>5 DEF KoovoxUartMessageHandle, KoovoxResponseHeartRate,
     KoovoxResponseNeckProtect, KoovoxResponseStepCount, KoovoxResponseConstSeat

\* Events and panics: a command may go on the line, and one the phone asked for
\* does.
LEMMA EventAsks ==
    ASSUME \/ PowerOn \/ PowerOff \/ ButtonMClick \/ SessionUp \/ SessionDown
           \/ (\E c \in PhoneCmd : PushRecvData(c)) \/ Fatal \/ UNCHANGED vars
    PROVE  /\ repeat_times' = repeat_times
           /\ \/ uartTx' = uartTx /\ wechat_req' = wechat_req
              \/ \E c \in Cmd : /\ uartTx' = Append(uartTx, c)
                                /\ wechat_req' = wechat_req \/ c \in PhoneCmd
<1>1. CASE PowerOn \/ ButtonMClick
  BY <1>1, OwnCommands DEF PowerOn, ButtonMClick, KoovoxFillAndSendUartPacket
<1>2. CASE PowerOff \/ SessionUp \/ SessionDown \/ Fatal \/ UNCHANGED vars
  BY <1>2 DEF PowerOff, SessionUp, SessionDown, Fatal, StrayAccess, SinkFull, Panic, vars,
              flagVars, retryVars
<1>3. ASSUME NEW c \in PhoneCmd, PushRecvData(c)
      PROVE  repeat_times' = repeat_times /\ uartTx' = Append(uartTx, c) /\ c \in Cmd
  BY <1>3, PhoneCmdAssumption DEF PushRecvData, KoovoxFillAndSendUartPacket, retryVars
<1> QED
  BY <1>1, <1>2, <1>3

\* The sensor reports each error once, and each error is repeated once at most.
LEMMA NextErrorInv == IInv /\ ErrorInv /\ [Next]_vars => ErrorInv'
<1> SUFFICES ASSUME IInv, ErrorInv, [Next]_vars
             PROVE  repeat_times' + Cardinality(Places(uartRx', ErrorFrames)) <= errors'
  BY DEF ErrorInv
<1> DEFINE n == Cardinality(Places(uartRx, ErrorFrames))
           m == Cardinality(Places(uartRx', ErrorFrames))
<1>0. /\ uartRx \in Seq(Frame) /\ n \in Nat /\ repeat_times \in Nat /\ errors \in Nat
      /\ repeat_times + n <= errors
  BY PlacesFinite, BoundAssumption DEF IInv, TypeOK, ErrorInv
<1>1. CASE KoovoxUartMessageHandle
  <2>1. uartRx # <<>> /\ uartRx' = Tail(uartRx) /\ errors' = errors
    BY <1>1, HandlerTakes
  <2>2. m <= n - (IF Head(uartRx) \in ErrorFrames THEN 1 ELSE 0)
    BY <1>0, <2>1, PlaceTaken
  <2>3. m \in Nat
    <3>1. uartRx' \in Seq(Frame)
      BY <1>0, <2>1, HeadTailProperties
    <3> QED
      BY <3>1, PlacesFinite
  <2>4. \/ repeat_times' \in {0, repeat_times}
        \/ Head(uartRx) \in ErrorFrames /\ repeat_times' = repeat_times + 1
    BY <1>1, HandlerCloses
  <2> HIDE DEF n, m
  <2>5. repeat_times' + m <= errors'
    BY <1>0, <2>1, <2>2, <2>3, <2>4
  <2> QED
    BY <2>5 DEF m
<1>2. CASE \/ PowerOn \/ PowerOff \/ ButtonMClick \/ SessionUp \/ SessionDown
           \/ (\E c \in PhoneCmd : PushRecvData(c)) \/ Fatal \/ UNCHANGED vars
  BY <1>0, <1>2, OthersLeaveRx, EventAsks
<1>3. CASE Sensor
  <2>1. PICK c \in Cmd, f \in Frame :
              \/ /\ uartRx' = Append(uartRx, f)
                 /\ \/ \E good \in BOOLEAN :
                          /\ f = Confirmation(c, good, TRUE) /\ Sample(c, good)
                          /\ UNCHANGED <<errors, garbled>>
                    \/ /\ f = FrameError /\ errors' = errors + 1
                       /\ UNCHANGED <<measuring, garbled>>
              \/ /\ c.obj = "I2C_TEST" /\ UNCHANGED <<measuring, garbled>>
                 /\ \E good \in BOOLEAN :
                       /\ f = Measurement("I2C_TEST", good)
                       /\ errors' = IF good THEN errors ELSE errors + 1
                 /\ \/ uartRx' = Append(uartRx, f)
                    \/ uartRx' = Append(Append(uartRx, Confirmation(c, TRUE, TRUE)), f)
              \/ /\ f = Confirmation(c, TRUE, FALSE) \/ f = Malformed
                 /\ uartRx' = Append(uartRx, f)
                 /\ garbled' = garbled + 1 /\ errors' = errors
    BY <1>3, SensorSends
  <2>2. repeat_times' = repeat_times
    BY <1>3 DEF Sensor, SensorConfirms, SensorTests, SensorReportsFrameError,
       AnswerGarbled, Reply, retryVars
  <2> DEFINE k == IF f \in ErrorFrames THEN 1 ELSE 0
  <2>3. \A good \in BOOLEAN, whole \in BOOLEAN : Confirmation(c, good, whole) \notin ErrorFrames
    BY DEF Confirmation, ErrorFrames, Cmd, Obj
  <2>4. Malformed \notin ErrorFrames /\ Measurement("I2C_TEST", TRUE) \notin ErrorFrames
    BY DEF Malformed, Measurement, ErrorFrames
  <2>5. errors' = errors + k \/ errors' = errors + 1
    <3>1. CASE \E good \in BOOLEAN : f = Measurement("I2C_TEST", good)
                     /\ errors' = IF good THEN errors ELSE errors + 1
      <4>1. PICK good \in BOOLEAN : /\ f = Measurement("I2C_TEST", good)
                                    /\ errors' = IF good THEN errors ELSE errors + 1
        BY <3>1
      <4>2. CASE good = TRUE
        BY <1>0, <2>4, <4>1, <4>2
      <4>3. CASE good = FALSE
        BY <4>1, <4>3
      <4> QED
        BY <4>2, <4>3
    <3>2. CASE f \notin ErrorFrames /\ errors' = errors
      BY <1>0, <3>2
    <3> QED
      BY <2>1, <2>3, <2>4, <3>1, <3>2
  <2>6. CASE uartRx' = Append(uartRx, f)
    <3>1. m = n + k
      BY <1>0, <2>6, PlaceAdded
    <3> HIDE DEF m, n
    <3>2. repeat_times' + m <= errors'
      BY <1>0, <2>2, <2>5, <3>1
    <3> QED
      BY <3>2 DEF m
  <2>7. CASE uartRx' = Append(Append(uartRx, Confirmation(c, TRUE, TRUE)), f)
    <3> DEFINE g == Confirmation(c, TRUE, TRUE)
    <3>1. g \in Frame /\ g \notin ErrorFrames
      BY <2>3, SensorFrames
    <3> HIDE DEF g
    <3>2. /\ Append(uartRx, g) \in Seq(Frame)
          /\ Cardinality(Places(Append(uartRx, g), ErrorFrames)) = n + 0
      BY <1>0, <3>1, PlaceAdded, AppendProperties
    <3>3. m = n + k
      <4>1. Cardinality(Places(Append(Append(uartRx, g), f), ErrorFrames)) =
               Cardinality(Places(Append(uartRx, g), ErrorFrames)) + k
        <5>1. \A q \in Seq(Frame) :
                 Cardinality(Places(Append(q, f), ErrorFrames)) =
                 Cardinality(Places(q, ErrorFrames)) + k
          BY PlaceAdded
        <5> HIDE DEF k
        <5> QED
          BY <3>2, <5>1
      <4>2. uartRx' = Append(Append(uartRx, g), f)
        BY <2>7 DEF g
      <4>3. Cardinality(Places(Append(uartRx, g), ErrorFrames)) = n
        BY <1>0, <3>2
      <4> QED
        BY <4>1, <4>2, <4>3
    <3> HIDE DEF m, n
    <3>4. repeat_times' + m <= errors'
      BY <1>0, <2>2, <2>5, <3>3
    <3> QED
      BY <3>4 DEF m
  <2> QED
    BY <2>1, <2>6, <2>7
<1>4. CASE SensorMeasures
  <2>1. PICK o \in Measured : uartRx' = Append(uartRx, Measurement(o, TRUE))
    BY <1>4 DEF SensorMeasures
  <2>2. repeat_times' = repeat_times /\ errors' = errors
    BY <1>4 DEF SensorMeasures, sensorVars, retryVars
  <2>3. Measurement(o, TRUE) \in Frame /\ Measurement(o, TRUE) \notin ErrorFrames
    BY SensorFrames, MeasuredAssumption DEF ReportedObj, Obj, Measurement, ErrorFrames
  <2>4. m = n + 0
    BY <1>0, <2>1, <2>3, PlaceAdded
  <2> QED
    BY <1>0, <2>2, <2>4
<1>5. CASE Reboot
  <2>1. uartRx' = <<>> /\ repeat_times' = 0 /\ errors' = errors
    BY <1>5 DEF Reboot, sensorVars
  <2>2. Places(uartRx', ErrorFrames) = {}
    BY <2>1 DEF Places
  <2>3. m = 0
    BY <2>2, FS_EmptySet
  <2> QED
    BY <1>0, <2>1, <2>3
<1> QED
  BY <1>1, <1>2, <1>3, <1>4, <1>5 DEF Next

\* An open request of the phone has its answer coming, step by step.  The step
\* that would lose the answer, a frame error with no repeat left, needs more
\* errors than there are repeats.
LEMMA NextPending == IInv /\ ErrorInv /\ PendingIsRunning /\ [Next]_vars => PendingIsRunning'
<1> SUFFICES ASSUME IInv, ErrorInv, PendingIsRunning, [Next]_vars
             PROVE  PendingIsRunning'
  OBVIOUS
<1> SUFFICES ASSUME wechat_req', \A c \in PhoneCmd : c.obj \in AnsweredObj,
                    errors' <= REPEAT_TIMES, garbled' = 0
             PROVE  Coming'
  <2>1. IInv'
    BY NextIInv
  <2>2. uartTx' \in Seq(Cmd) /\ uartRx' \in Seq(Frame)
    BY <2>1 DEF IInv, TypeOK
  <2>3. ASSUME Places(uartTx', Asking) # {} PROVE \E i \in 1..Len(uartTx') : uartTx'[i].obj \in AnsweredObj
    BY <2>3 DEF Places, Asking
  <2>4. ASSUME Places(uartRx', ClosingFrames) # {} PROVE \E i \in 1..Len(uartRx') : Closing(uartRx'[i])
    BY <2>4 DEF Places, ClosingFrames
  <2> QED
    BY <2>3, <2>4 DEF PendingIsRunning, Coming
<1>1. /\ uartTx \in Seq(Cmd) /\ uartRx \in Seq(Frame)
      /\ repeat_times \in Nat /\ errors \in Nat /\ garbled \in Nat
      /\ Cardinality(Places(uartRx, ErrorFrames)) \in Nat
      /\ repeat_times + Cardinality(Places(uartRx, ErrorFrames)) <= errors
      /\ REPEAT_TIMES \in Nat
  BY PlacesFinite, BoundAssumption DEF IInv, TypeOK, ErrorInv
<1>2. ASSUME wechat_req, errors <= REPEAT_TIMES, garbled = 0
      PROVE  Coming
  <2>1. CASE \E i \in 1..Len(uartTx) : uartTx[i].obj \in AnsweredObj
    <3>1. PICK i \in 1..Len(uartTx) : uartTx[i].obj \in AnsweredObj
      BY <2>1
    <3>2. uartTx[i] \in Asking
      BY <1>1, <3>1 DEF Asking
    <3> QED
      BY <3>2 DEF Coming, Places
  <2>2. CASE \E i \in 1..Len(uartRx) : Closing(uartRx[i])
    <3>1. PICK i \in 1..Len(uartRx) : Closing(uartRx[i])
      BY <2>2
    <3>2. uartRx[i] \in ClosingFrames
      BY <1>1, <3>1 DEF ClosingFrames
    <3> QED
      BY <3>2 DEF Coming, Places
  <2> QED
    BY <1>2, <2>1, <2>2 DEF PendingIsRunning
<1>3. \A q \in Seq(Cmd), c \in Cmd : Places(q, Asking) \subseteq Places(Append(q, c), Asking)
  BY PlaceAdded
<1>4. \A q \in Seq(Frame), f \in Frame :
         /\ Places(q, ClosingFrames) \subseteq Places(Append(q, f), ClosingFrames)
         /\ f \in ClosingFrames => Places(Append(q, f), ClosingFrames) # {}
  BY PlaceAdded
<1>5. CASE KoovoxUartMessageHandle
  <2>1. /\ uartRx # <<>> /\ uartRx' = Tail(uartRx) /\ Head(uartRx) \in Frame
        /\ UNCHANGED <<errors, garbled>>
    BY <1>5, HandlerTakes
  <2>2. /\ uartTx' = uartTx \/ \E c \in Cmd : uartTx' = Append(uartTx, c)
        /\ wechat_req' => wechat_req
        /\ Head(uartRx) \notin ClosingFrames \/ ~wechat_req'
           \/ (~RepeatsLeft /\ Head(uartRx) \in ErrorFrames)
    BY <1>5, HandlerCloses
  <2>3. Coming
    BY <1>2, <2>1, <2>2
  <2>4. Places(uartTx, Asking) \subseteq Places(uartTx', Asking)
    BY <1>1, <1>3, <2>2
  <2>5. Head(uartRx) \in ErrorFrames => RepeatsLeft
    <3> SUFFICES ASSUME Head(uartRx) \in ErrorFrames PROVE RepeatsLeft
      OBVIOUS
    <3>1. /\ Cardinality(Places(Tail(uartRx), ErrorFrames)) <=
                Cardinality(Places(uartRx, ErrorFrames)) - 1
    BY <1>1, <2>1, PlaceTaken
    <3>2. Cardinality(Places(Tail(uartRx), ErrorFrames)) \in Nat
      BY <1>1, <2>1, HeadTailProperties, PlacesFinite
    <3>3. repeat_times < REPEAT_TIMES
      BY <1>1, <2>1, <3>1, <3>2
    <3> QED
      BY <3>3 DEF RepeatsLeft
  <2>6. Head(uartRx) \notin ClosingFrames
    BY <2>2, <2>5
  <2>7. Places(uartRx, ClosingFrames) # {} => Places(uartRx', ClosingFrames) # {}
    BY <1>1, <2>1, <2>6, PlaceTaken
  <2> QED
    BY <2>3, <2>4, <2>7 DEF Coming
<1>6. CASE \/ PowerOn \/ PowerOff \/ ButtonMClick \/ SessionUp \/ SessionDown
           \/ (\E c \in PhoneCmd : PushRecvData(c)) \/ Fatal \/ UNCHANGED vars
  <2>1. UNCHANGED <<uartRx, errors, garbled>>
    BY <1>6, OthersLeaveRx
  <2>2. \/ uartTx' = uartTx /\ wechat_req' = wechat_req
        \/ \E c \in Cmd : /\ uartTx' = Append(uartTx, c)
                          /\ wechat_req' = wechat_req \/ c \in PhoneCmd
    BY <1>6, EventAsks
  <2>3. CASE uartTx' = uartTx /\ wechat_req' = wechat_req
    BY <1>2, <2>1, <2>3 DEF Coming
  <2>4. ASSUME NEW c \in Cmd, uartTx' = Append(uartTx, c), wechat_req' = wechat_req
        PROVE  Coming'
    <3>1. Coming
      BY <1>2, <2>1, <2>4
    <3>2. Places(uartTx, Asking) \subseteq Places(uartTx', Asking)
      BY <1>1, <1>3, <2>4
    <3> QED
      BY <2>1, <3>1, <3>2 DEF Coming
  <2>5. ASSUME NEW c \in Cmd, uartTx' = Append(uartTx, c), c \in PhoneCmd
        PROVE  Coming'
    <3>1. c \in Asking
      BY <2>5 DEF Asking
    <3>2. Places(Append(uartTx, c), Asking) # {}
      BY <1>1, <3>1, PlaceAdded
    <3> QED
      BY <2>5, <3>2 DEF Coming
  <2> QED
    BY <2>2, <2>3, <2>4, <2>5
<1>7. CASE Sensor
  <2>1. PICK c \in Cmd, f \in Frame :
              /\ c = Head(uartTx) /\ uartTx # <<>> /\ uartTx' = Tail(uartTx)
              /\ \/ /\ uartRx' = Append(uartRx, f)
                    /\ \/ \E good \in BOOLEAN :
                             /\ f = Confirmation(c, good, TRUE) /\ Sample(c, good)
                             /\ UNCHANGED <<errors, garbled>>
                       \/ /\ f = FrameError /\ errors' = errors + 1
                          /\ UNCHANGED <<measuring, garbled>>
                 \/ /\ c.obj = "I2C_TEST" /\ UNCHANGED <<measuring, garbled>>
                    /\ \E good \in BOOLEAN :
                          /\ f = Measurement("I2C_TEST", good)
                          /\ errors' = IF good THEN errors ELSE errors + 1
                    /\ \/ uartRx' = Append(uartRx, f)
                       \/ uartRx' = Append(Append(uartRx, Confirmation(c, TRUE, TRUE)), f)
                 \/ /\ f = Confirmation(c, TRUE, FALSE) \/ f = Malformed
                    /\ uartRx' = Append(uartRx, f)
                    /\ garbled' = garbled + 1 /\ errors' = errors
    BY <1>7, SensorSends
  <2>2. wechat_req' = wechat_req
    BY <1>7 DEF Sensor, SensorConfirms, SensorTests, SensorReportsFrameError,
       AnswerGarbled, Reply, flagVars
  <2>3. garbled' = garbled /\ errors <= errors'
    <3>1. garbled' # garbled + 1
      BY <1>1
    <3>2. errors' \in {errors, errors + 1} /\ garbled' = garbled
      BY <2>1, <3>1, Zenon
    <3> QED
      BY <1>1, <3>2
  <2>4. Coming
    <3>1. errors <= REPEAT_TIMES /\ garbled = 0 /\ wechat_req
      <4>1. errors' \in Nat
        BY NextIInv DEF IInv, TypeOK
      <4> QED
        BY <1>1, <2>2, <2>3, <4>1
    <3> QED
      BY <1>2, <3>1
  <2>5. Confirmation(c, TRUE, TRUE) \in Frame
    BY SensorFrames
  <2>6. Places(uartRx, ClosingFrames) \subseteq Places(uartRx', ClosingFrames)
    <3>1. CASE uartRx' = Append(uartRx, f)
      BY <1>1, <1>4, <3>1
    <3>2. CASE uartRx' = Append(Append(uartRx, Confirmation(c, TRUE, TRUE)), f)
      <4>1. Append(uartRx, Confirmation(c, TRUE, TRUE)) \in Seq(Frame)
        BY <1>1, <2>5, AppendProperties
      <4> QED
        BY <1>1, <1>4, <2>5, <3>2, <4>1
    <3> QED
      BY <2>1, <3>1, <3>2
  <2>7. CASE c \in Asking
    <3>1. c.obj \in AnsweredObj /\ c.obj # "I2C_TEST"
      BY <2>7 DEF Asking, AnsweredObj
    <3>2. uartRx' = Append(uartRx, f) /\ f \in ClosingFrames
      <4>1. ASSUME NEW good \in BOOLEAN, f = Confirmation(c, good, TRUE)
            PROVE  f \in ClosingFrames
        BY <3>1, <4>1 DEF ClosingFrames, Closing, Confirmation
      <4>2. ASSUME f = FrameError PROVE f \in ClosingFrames
        BY <4>2 DEF ClosingFrames, Closing, FrameError
      <4>3. garbled' # garbled + 1
        BY <1>1, <2>3
      <4> QED
        BY <2>1, <3>1, <4>1, <4>2, <4>3
    <3> QED
      BY <1>1, <1>4, <3>2 DEF Coming
  <2>8. CASE c \notin Asking
    <3>1. Places(uartTx, Asking) # {} => Places(uartTx', Asking) # {}
      BY <1>1, <2>1, <2>8, PlaceTaken
    <3> QED
      BY <2>4, <2>6, <3>1 DEF Coming
  <2> QED
    BY <2>7, <2>8
<1>8. CASE SensorMeasures
  <2>1. PICK o \in Measured : uartRx' = Append(uartRx, Measurement(o, TRUE))
    BY <1>8 DEF SensorMeasures
  <2>2. UNCHANGED <<wechat_req, uartTx, errors, garbled>>
    BY <1>8 DEF SensorMeasures, sensorVars, flagVars
  <2>3. Measurement(o, TRUE) \in Frame
    BY SensorFrames, MeasuredAssumption DEF ReportedObj, Obj
  <2>4. Coming /\ Places(uartRx, ClosingFrames) \subseteq Places(uartRx', ClosingFrames)
    BY <1>1, <1>2, <1>4, <2>1, <2>2, <2>3
  <2> QED
    BY <2>2, <2>4 DEF Coming
<1>9. CASE Reboot
  BY <1>9 DEF Reboot
<1> QED
  BY <1>5, <1>6, <1>7, <1>8, <1>9 DEF Next

\* Busy is never for ever: while the phone's request is open, its command or its
\* answer is on the line, for every number of repeats, every room and every set
\* of answered commands.
THEOREM BusyIsRunning == Spec => []PendingIsRunning
<1>1. Init => ErrorInv /\ PendingIsRunning
  <2> SUFFICES ASSUME Init PROVE ErrorInv /\ PendingIsRunning
    OBVIOUS
  <2>1. Places(uartRx, ErrorFrames) = {} /\ repeat_times = 0 /\ errors = 0 /\ ~wechat_req
    BY DEF Init, Places
  <2> QED
    BY <2>1, FS_EmptySet DEF ErrorInv, PendingIsRunning
<1> QED
  BY <1>1, InductiveInvariant, NextErrorInv, NextPending, PTL DEF Spec
=============================================================================
