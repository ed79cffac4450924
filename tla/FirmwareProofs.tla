--------------------------- MODULE FirmwareProofs ---------------------------
(* What the firmware keeps to for every set of sessions, whatever it is sent *)
(* and whenever its tasks run: a wheel is driven only with authority, and    *)
(* nothing moves after an emergency stop.                                    *)
(*                                                                           *)
(* Authority is not inductive: the control law drives what was targeted      *)
(* earlier, so a target needs the same grounds, all but the two latches the  *)
(* control law asks for itself. Nor are the frozen jaws: the ramp would go   *)
(* on if the stop left a goal, and a pulse train that is on would pull jaws  *)
(* that are elsewhere.                                                       *)
EXTENDS Firmware, TLAPS

FirmwareTypeOK == mcu \in Mcu

Grounds(m) == m.session # None /\ m.hbSeen /\ m.cmdSeen /\ ~m.hbOut /\ ~m.cmdOut

Entitled(m) ==
    /\ m.target => Grounds(m)
    /\ m.driven => Grounds(m) /\ ~m.estop /\ ~m.safety

\* A servo that is pulsed stands where the ramp is, and a stopped one has
\* nowhere to go.
Settled(m) ==
    /\ m.pulsed => m.jaws = m.current
    /\ m.estop => m.goal = m.current

Sound(m) == Entitled(m) /\ Settled(m)

\* From m to n nothing goes wrong, and after an emergency stop nothing moves.
Keeps(m, n) == Sound(n) /\ (m.estop => n.jaws = m.jaws)

LEMMA CodeKinds ==
  /\ CommunicationTimeout \subseteq Code /\ RequiresNewSession \subseteq Code
  /\ Physical \subseteq Code
  /\ "REQUIRED" \in Code /\ "ESTOP_LATCHED" \in Code /\ "UART_RX_ERROR" \in Code
  /\ "HEARTBEAT_TIMEOUT" \in Code /\ "COMMAND_TIMEOUT" \in Code
  /\ "WHEEL_DIR_MISMATCH" \in Code /\ "LIFT_WHILE_MOVING" \in Code
  /\ "SERVO_NOT_ATTACHED" \in Code
  BY DEF Code, CommunicationTimeout, RequiresNewSession, Physical

LEMMA AnswerKinds ==
  /\ [kind |-> "other"] \in Answer /\ [kind |-> "attach"] \in Answer
  /\ [kind |-> "GRIP_DONE"] \in Answer /\ [kind |-> "RELEASE_DONE"] \in Answer
  /\ \A s \in Session : /\ [kind |-> "HELLO", session |-> s] \in Answer
                        /\ [kind |-> "HB", session |-> s] \in Answer
                        /\ [kind |-> "zero", session |-> s] \in Answer
  /\ \A s \in Session : [kind |-> "HB", session |-> s] \in HeartbeatAnswer
  /\ HeartbeatAnswer \subseteq Answer
  /\ \A code \in Code : [kind |-> "ERR", code |-> code] \in Answer
  BY DEF Answer, HeartbeatAnswer

-----------------------------------------------------------------------------
(* Every operation yields a state of the MCU.                                *)

LEMMA StoppedType == ASSUME NEW m \in Mcu PROVE Stopped(m) \in Mcu
  BY DEF Mcu, Stopped

LEMMA HeldType == ASSUME NEW m \in Mcu PROVE Held(m) \in Mcu
  BY DEF Mcu, Held

LEMMA ClosedType ==
  ASSUME NEW n \in Mcu
  PROVE  [n EXCEPT !.session = None, !.hbSeen = FALSE, !.cmdSeen = FALSE,
                   !.manual = FALSE, !.attached = FALSE] \in Mcu
  BY DEF Mcu

LEMMA FailedType == ASSUME NEW m \in Mcu, NEW code \in Code PROVE Failed(m, code) \in Mcu
<1> DEFINE lost == code \in CommunicationTimeout \cup RequiresNewSession
           stopped == IF code \in Physical \cup {"ESTOP_LATCHED"} THEN m ELSE Stopped(m)
           held == IF lost THEN Held(stopped) ELSE stopped
           closed == IF code \in RequiresNewSession
                     THEN [held EXCEPT !.session = None, !.hbSeen = FALSE, !.cmdSeen = FALSE,
                                       !.manual = FALSE, !.attached = FALSE]
                     ELSE held
<1>1. held \in Mcu
  BY StoppedType, HeldType
<1>2. closed \in Mcu
  BY <1>1, ClosedType
<1>3. ASSUME NEW n \in Mcu, NEW latched \in BOOLEAN
      PROVE  [n EXCEPT !.safety = latched, !.err = code] \in Mcu
  BY DEF Mcu
<1>4. (closed.safety \/ code \in Physical) \in BOOLEAN
  OBVIOUS
<1>5. [closed EXCEPT !.safety = closed.safety \/ code \in Physical, !.err = code] \in Mcu
  <2> HIDE DEF closed
  <2> QED BY <1>2, <1>3, <1>4
<1> QED BY <1>5 DEF Failed

LEMMA AckedType ==
  ASSUME NEW m \in Mcu, NEW answer \in Answer PROVE Acked(m, answer) \in Mcu
  BY DEF Mcu, Acked

LEMMA OutType ==
  ASSUME NEW m \in Mcu, NEW hb \in BOOLEAN, NEW cmd \in BOOLEAN
  PROVE  [m EXCEPT !.hbOut = hb, !.cmdOut = cmd] \in Mcu
  BY DEF Mcu

LEMMA LateType == ASSUME NEW m \in Mcu, NEW code \in Code PROVE Late(m, code) \in Mcu
<1>1. (m.hbOut \/ code = "HEARTBEAT_TIMEOUT") \in BOOLEAN
      /\ (m.cmdOut \/ code = "COMMAND_TIMEOUT") \in BOOLEAN
  OBVIOUS
<1>2. [m EXCEPT !.hbOut = @ \/ code = "HEARTBEAT_TIMEOUT",
                !.cmdOut = @ \/ code = "COMMAND_TIMEOUT"] \in Mcu
  BY <1>1, OutType
<1> QED
  BY <1>2, FailedType DEF Late

LEMMA RefusalType == ASSUME NEW m \in Mcu PROVE Refusal(m) \in Code \cup {None}
  BY CodeKinds DEF Refusal

LEMMA GatedType ==
  ASSUME NEW m \in Mcu, NEW allowed \in Mcu PROVE Gated(m, allowed) \in Mcu
  BY RefusalType, LateType, StoppedType DEF Gated

LEMMA EstopType == ASSUME NEW m \in Mcu PROVE Estop(m) \in Mcu
<1>1. [m EXCEPT !.estop = TRUE] \in Mcu
  BY DEF Mcu
<1> QED
  BY <1>1, StoppedType, HeldType, AckedType, AnswerKinds DEF Estop

LEMMA ClearedType ==
  ASSUME NEW n \in Mcu, NEW session \in Session
  PROVE  [n EXCEPT !.session = session, !.hbSeen = FALSE, !.hbOld = FALSE, !.hbOut = FALSE] \in Mcu
  BY DEF Mcu

LEMMA ForgottenType ==
  ASSUME NEW n \in Mcu
  PROVE  [n EXCEPT !.cmdSeen = FALSE, !.cmdOld = FALSE, !.cmdOut = FALSE,
                   !.manual = FALSE, !.attached = FALSE] \in Mcu
  BY DEF Mcu

LEMMA AnsweredType ==
  ASSUME NEW n \in Mcu, NEW err \in Code \cup {None}, NEW ack \in Answer
  PROVE  [n EXCEPT !.err = err, !.ack = ack] \in Mcu
  BY DEF Mcu

LEMMA OpenedType ==
  ASSUME NEW n \in Mcu, NEW session \in Session, NEW err \in Code \cup {None}, NEW ack \in Answer
  PROVE  [n EXCEPT
            !.session = session,
            !.hbSeen = FALSE, !.hbOld = FALSE, !.hbOut = FALSE,
            !.cmdSeen = FALSE, !.cmdOld = FALSE, !.cmdOut = FALSE,
            !.manual = FALSE, !.attached = FALSE,
            !.err = err, !.ack = ack] \in Mcu
<1> DEFINE cleared == [n EXCEPT !.session = session, !.hbSeen = FALSE, !.hbOld = FALSE,
                                !.hbOut = FALSE]
           forgotten == [cleared EXCEPT !.cmdSeen = FALSE, !.cmdOld = FALSE, !.cmdOut = FALSE,
                                        !.manual = FALSE, !.attached = FALSE]
           opened == [forgotten EXCEPT !.err = err, !.ack = ack]
<1>1. opened \in Mcu
  BY ClearedType, ForgottenType, AnsweredType
<1>2. opened = [n EXCEPT
            !.session = session,
            !.hbSeen = FALSE, !.hbOld = FALSE, !.hbOut = FALSE,
            !.cmdSeen = FALSE, !.cmdOld = FALSE, !.cmdOut = FALSE,
            !.manual = FALSE, !.attached = FALSE,
            !.err = err, !.ack = ack]
  OBVIOUS
<1> QED
  BY <1>1, <1>2

LEMMA HelloType == ASSUME NEW m \in Mcu, NEW session \in Session PROVE Hello(m, session) \in Mcu
<1> DEFINE same == m.session = session
           hbLate == same /\ (m.hbOut \/ (m.hbSeen /\ m.hbOld))
           cmdLate == same /\ (m.cmdOut \/ (m.cmdSeen /\ m.cmdOld))
           s == Stopped(m)
           late == [s EXCEPT !.hbOut = @ \/ hbLate, !.cmdOut = @ \/ cmdLate]
           opened == [s EXCEPT
                !.session = session,
                !.hbSeen = FALSE, !.hbOld = FALSE, !.hbOut = FALSE,
                !.cmdSeen = FALSE, !.cmdOld = FALSE, !.cmdOut = FALSE,
                !.manual = FALSE, !.attached = FALSE,
                !.err = IF @ \in CommunicationTimeout THEN None ELSE @,
                !.ack = [kind |-> "HELLO", session |-> session]]
<1>1. s \in Mcu
  BY StoppedType
<1>2. late \in Mcu
  <2>1. (s.hbOut \/ hbLate) \in BOOLEAN /\ (s.cmdOut \/ cmdLate) \in BOOLEAN
    OBVIOUS
  <2> HIDE DEF s, hbLate, cmdLate
  <2> QED BY <1>1, <2>1, OutType
<1>3. (IF s.err \in CommunicationTimeout THEN None ELSE s.err) \in Code \cup {None}
  BY <1>1 DEF Mcu
<1>4. opened \in Mcu
  <2> HIDE DEF s
  <2> QED BY <1>1, OpenedType, <1>3, AnswerKinds
<1>5. Hello(m, session) =
        IF m.estop THEN Failed(s, "ESTOP_LATCHED")
        ELSE IF m.txFault THEN s
        ELSE IF m.safety THEN Failed(s, "WHEEL_DIR_MISMATCH")
        ELSE IF hbLate \/ cmdLate
        THEN Failed(late, IF hbLate THEN "HEARTBEAT_TIMEOUT" ELSE "COMMAND_TIMEOUT")
        ELSE opened
  BY DEF Hello
<1> HIDE DEF s, late, opened, hbLate, cmdLate
<1> QED
  BY <1>1, <1>2, <1>4, <1>5, CodeKinds, FailedType

LEMMA HeartbeatType ==
  ASSUME NEW m \in Mcu, NEW session \in Session PROVE Heartbeat(m, session) \in Mcu
<1>1. [m EXCEPT !.hbSeen = TRUE, !.hbOld = FALSE,
                !.hback = [kind |-> "HB", session |-> session]] \in Mcu
  BY AnswerKinds DEF Mcu
<1> QED
  BY <1>1, CodeKinds, FailedType, LateType DEF Heartbeat

LEMMA DrivingType ==
  ASSUME NEW n \in Mcu, NEW drive \in BOOLEAN, NEW ack \in Answer \cup {None}
  PROVE  [n EXCEPT !.target = drive, !.cmdSeen = TRUE, !.cmdOld = FALSE,
                   !.manual = FALSE, !.openLoop = FALSE, !.ack = ack] \in Mcu
<1> DEFINE driving == [n EXCEPT !.target = drive, !.cmdSeen = TRUE, !.cmdOld = FALSE,
                                !.manual = FALSE, !.openLoop = FALSE]
<1>1. driving \in Mcu
  BY DEF Mcu
<1>2. ASSUME NEW d \in Mcu PROVE [d EXCEPT !.ack = ack] \in Mcu
  BY DEF Mcu
<1>3. [driving EXCEPT !.ack = ack]
        = [n EXCEPT !.target = drive, !.cmdSeen = TRUE, !.cmdOld = FALSE,
                    !.manual = FALSE, !.openLoop = FALSE, !.ack = ack]
  OBVIOUS
<1> QED
  BY <1>1, <1>2, <1>3

LEMMA VelocityType ==
  ASSUME NEW m \in Mcu, NEW drive \in BOOLEAN, NEW session \in Session \cup {None}
  PROVE  Velocity(m, drive, session) \in Mcu
<1> DEFINE ack == IF session = None THEN m.ack ELSE [kind |-> "zero", session |-> session]
           driving == [m EXCEPT !.target = drive, !.cmdSeen = TRUE, !.cmdOld = FALSE,
                                !.manual = FALSE, !.openLoop = FALSE, !.ack = ack]
<1>1. ack \in Answer \cup {None}
  BY AnswerKinds DEF Mcu
<1>2. driving \in Mcu
  <2> HIDE DEF ack
  <2> QED BY <1>1, DrivingType
<1>3. driving = [m EXCEPT !.target = drive, !.cmdSeen = TRUE, !.cmdOld = FALSE,
                   !.manual = FALSE, !.openLoop = FALSE,
                   !.ack = IF session = None THEN @ ELSE [kind |-> "zero", session |-> session]]
  OBVIOUS
<1> HIDE DEF driving
<1> QED
  BY <1>2, <1>3, CodeKinds, FailedType, LateType DEF Velocity

LEMMA ManualType ==
  ASSUME NEW n \in Mcu
  PROVE  [n EXCEPT !.manual = TRUE, !.cmdOld = FALSE] \in Mcu
  BY DEF Mcu

LEMMA MotorStopType == ASSUME NEW m \in Mcu PROVE MotorStop(m) \in Mcu
<1> QED
  BY ManualType, CodeKinds, AnswerKinds, StoppedType, AckedType, FailedType DEF MotorStop

LEMMA TestedType ==
  ASSUME NEW n \in Mcu
  PROVE  [n EXCEPT !.driven = TRUE, !.manual = TRUE, !.openLoop = TRUE,
                   !.cmdSeen = TRUE, !.cmdOld = FALSE] \in Mcu
  BY DEF Mcu

LEMMA MotorTestType == ASSUME NEW m \in Mcu PROVE MotorTest(m) \in Mcu
<1> QED
  BY TestedType, CodeKinds, AnswerKinds, StoppedType, AckedType, FailedType, GatedType DEF MotorTest

LEMMA PutOutType ==
  ASSUME NEW n \in Mcu, NEW pulse \in Pulse
  PROVE  [n EXCEPT !.current = pulse, !.goal = pulse, !.jaws = pulse,
                   !.moving = FALSE, !.servo = "attach",
                   !.pulsed = TRUE, !.attached = TRUE] \in Mcu
  BY DEF Mcu

LEMMA AttachType == ASSUME NEW m \in Mcu, NEW pulse \in Pulse PROVE Attach(m, pulse) \in Mcu
<1> QED
  BY PutOutType, CodeKinds, AnswerKinds, StoppedType, AckedType, FailedType DEF Attach

LEMMA LiftingType ==
  ASSUME NEW n \in Mcu, NEW action \in {"grip", "release"}, NEW to \in Pulse
  PROVE  [n EXCEPT !.servo = action, !.moving = TRUE, !.goal = to] \in Mcu
  BY DEF Mcu

LEMMA DoneType ==
  ASSUME NEW n \in Mcu, NEW grip \in BOOLEAN, NEW release \in BOOLEAN
  PROVE  [n EXCEPT !.gripDone = grip, !.releaseDone = release] \in Mcu
  BY DEF Mcu

LEMMA PulsedType ==
  ASSUME NEW n \in Mcu, NEW at \in Pulse, NEW pulse \in Pulse
  PROVE  [n EXCEPT !.pulsed = TRUE, !.jaws = at, !.goal = pulse] \in Mcu
  BY DEF Mcu

LEMMA PulseOffType ==
  ASSUME NEW n \in Mcu PROVE [n EXCEPT !.pulsed = FALSE, !.attached = FALSE] \in Mcu
  BY DEF Mcu

LEMMA LiftType ==
  ASSUME NEW m \in Mcu, NEW action \in {"grip", "release"} PROVE Lift(m, action) \in Mcu
<1> DEFINE on == [m EXCEPT !.pulsed = TRUE, !.jaws = m.current]
           started == [on EXCEPT !.servo = action, !.moving = TRUE,
                                 !.goal = IF action = "grip" THEN "grip" ELSE "open"]
           done == ~on.moving
           again == [on EXCEPT !.gripDone = @ \/ (done /\ action = "grip"),
                               !.releaseDone = @ \/ (done /\ action = "release")]
<1>1. on \in Mcu
  BY DEF Mcu
<1>2. started \in Mcu
  <2>1. (IF action = "grip" THEN "grip" ELSE "open") \in Pulse
    BY DEF Pulse
  <2> HIDE DEF on
  <2> QED BY <1>1, LiftingType, <2>1
<1>3. again \in Mcu
  <2>1. /\ (on.gripDone \/ (done /\ action = "grip")) \in BOOLEAN
        /\ (on.releaseDone \/ (done /\ action = "release")) \in BOOLEAN
    OBVIOUS
  <2> HIDE DEF on, done
  <2> QED BY <1>1, DoneType, <2>1
<1>4. Lift(m, action) =
        IF m.estop THEN Failed(m, "ESTOP_LATCHED")
        ELSE IF ~IsStopped(m) THEN Failed(m, "LIFT_WHILE_MOVING")
        ELSE IF ~m.attached THEN Failed(m, "SERVO_NOT_ATTACHED")
        ELSE Acked(IF m.servo = action THEN again ELSE started, [kind |-> "other"])
  BY DEF Lift
<1> HIDE DEF started, again
<1> QED
  BY <1>2, <1>3, <1>4, CodeKinds, AnswerKinds, AckedType, FailedType

LEMMA LegacyType == ASSUME NEW m \in Mcu PROVE Legacy(m) \in Mcu
  BY DEF Mcu, Legacy

LEMMA SinglesType ==
  ASSUME NEW m \in Mcu, NEW pulse \in Pulse
  PROVE  /\ LegacyStop(m) \in Mcu /\ LegacyVector(m) \in Mcu /\ LegacyOpenLoop(m) \in Mcu
         /\ LegacyPulse(m, pulse) \in Mcu /\ LegacyPulseOff(m) \in Mcu
<1>1. LegacyStop(m) \in Mcu
  BY StoppedType, LegacyType DEF LegacyStop
<1>2. [m EXCEPT !.target = TRUE, !.manual = TRUE, !.openLoop = FALSE] \in Mcu
  BY DEF Mcu
<1>3. [m EXCEPT !.target = FALSE, !.driven = TRUE, !.manual = TRUE, !.openLoop = TRUE] \in Mcu
  BY DEF Mcu
<1>4. m.current \in Pulse
  BY DEF Mcu
<1>5. LegacyVector(m) \in Mcu
  BY <1>2, LegacyType, GatedType DEF LegacyVector
<1>6. LegacyOpenLoop(m) \in Mcu
  BY <1>3, LegacyType, GatedType DEF LegacyOpenLoop
<1>7. LegacyPulse(m, pulse) \in Mcu
  BY PulsedType, <1>4, CodeKinds, StoppedType, FailedType, LegacyType, GatedType DEF LegacyPulse
<1>8. LegacyPulseOff(m) \in Mcu
  BY PulseOffType, StoppedType, LegacyType, GatedType DEF LegacyPulseOff
<1> QED
  BY <1>1, <1>5, <1>6, <1>7, <1>8

\* A frame is well typed, whoever sends it.
LEMMA ExecutedType ==
  ASSUME NEW m \in Mcu, NEW frame \in Frame PROVE Executed(m, frame) \in Mcu
<1>1. CASE frame.kind \in {"HELLO", "HB", "zero"}
  <2>1. frame.session \in Session
    BY <1>1 DEF Frame
  <2> QED
    BY <1>1, <2>1, HelloType, HeartbeatType, VelocityType DEF Executed
<1>2. CASE frame.kind = "V"
  <2>1. frame.drive \in BOOLEAN
    BY <1>2 DEF Frame
  <2> QED
    BY <1>2, <2>1, VelocityType DEF Executed
<1>3. CASE frame.kind \in {"attach", "pulse"}
  <2>1. frame.pulse \in Pulse
    BY <1>3 DEF Frame
  <2> QED
    BY <1>3, <2>1, AttachType, SinglesType DEF Executed
<1>4. CASE frame.kind \in {"ESTOP", "M", "M,STOP", "grip", "release", "unknown", "malformed",
                           "vector", "open loop", "pulse off", "stop"}
  <2>1. "open" \in Pulse
    BY DEF Pulse
  <2> QED
    BY <1>4, <2>1, EstopType, MotorStopType, MotorTestType, LiftType, SinglesType,
       FailedType, CodeKinds DEF Executed
<1>5. frame.kind \in {"HELLO", "HB", "zero", "V", "attach", "pulse"}
                     \cup {"ESTOP", "M", "M,STOP", "grip", "release", "unknown", "malformed",
                           "vector", "open loop", "pulse off", "stop"}
  BY DEF Frame
<1> QED
  BY <1>1, <1>2, <1>3, <1>4, <1>5

LEMMA WatchedType == ASSUME NEW m \in Mcu PROVE Watched(m) \in Mcu
  BY CodeKinds, LateType DEF Watched

LEMMA DrivenType ==
  ASSUME NEW n \in Mcu, NEW driven \in BOOLEAN PROVE [n EXCEPT !.driven = driven] \in Mcu
  BY DEF Mcu

LEMMA ControlledType == ASSUME NEW m \in Mcu PROVE Controlled(m) \in Mcu
<1>1. m.target \in BOOLEAN
  BY DEF Mcu
<1> QED
  BY <1>1, WatchedType, StoppedType, DrivenType DEF Controlled

LEMMA RampedType ==
  ASSUME NEW n \in Mcu, NEW at \in Pulse, NEW jaws \in Pulse, NEW moving \in BOOLEAN,
         NEW grip \in BOOLEAN, NEW release \in BOOLEAN
  PROVE  [n EXCEPT !.current = at, !.jaws = jaws, !.moving = moving,
                   !.gripDone = grip, !.releaseDone = release] \in Mcu
  BY DEF Mcu

LEMMA ServoSteppedType == ASSUME NEW m \in Mcu PROVE ServoStepped(m) \in Mcu
<1> DEFINE next == IF m.current = m.goal THEN m.goal
                   ELSE IF m.current = "between" THEN m.goal ELSE "between"
           there == m.moving /\ next = m.goal
           jaws == IF m.pulsed THEN next ELSE m.jaws
           moving == m.moving /\ ~there
           grip == m.gripDone \/ (there /\ m.servo # "release")
           release == m.releaseDone \/ (there /\ m.servo = "release")
<1>1. next \in Pulse /\ jaws \in Pulse
  BY DEF Mcu, Pulse
<1>2. moving \in BOOLEAN /\ grip \in BOOLEAN /\ release \in BOOLEAN
  OBVIOUS
<1>3. ServoStepped(m) = [m EXCEPT !.current = next, !.jaws = jaws, !.moving = moving,
                                  !.gripDone = grip, !.releaseDone = release]
  BY DEF ServoStepped
<1> DEFINE stepped == [m EXCEPT !.current = next, !.jaws = jaws, !.moving = moving,
                                !.gripDone = grip, !.releaseDone = release]
<1>4. stepped \in Mcu
  <2> HIDE DEF next, there, jaws, moving, grip, release
  <2> QED BY <1>1, <1>2, RampedType
<1> HIDE DEF stepped
<1> QED
  BY <1>3, <1>4 DEF stepped

LEMMA SentType == ASSUME NEW m \in Mcu PROVE Sent(m) \in Mcu
<1>1. [m EXCEPT !.err = None] \in Mcu
  BY DEF Mcu
<1>2. [m EXCEPT !.hback = None] \in Mcu
  BY DEF Mcu
<1>3. [m EXCEPT !.ack = None] \in Mcu
  BY DEF Mcu
<1>4. [m EXCEPT !.gripDone = FALSE] \in Mcu
  BY DEF Mcu
<1>5. [m EXCEPT !.releaseDone = FALSE] \in Mcu
  BY DEF Mcu
<1> QED
  BY <1>1, <1>2, <1>3, <1>4, <1>5 DEF Sent

LEMMA StartedType == ASSUME NEW jaws \in Pulse PROVE Started(jaws) \in Mcu
  BY DEF Mcu, Started, Pulse

LEMMA FirmwareTypeInit == FirmwareInit => FirmwareTypeOK
  BY StartedType DEF FirmwareInit, FirmwareTypeOK, Pulse

LEMMA FirmwareTypeStep == FirmwareTypeOK /\ [FirmwareNext]_mcu => FirmwareTypeOK'
<1> SUFFICES ASSUME mcu \in Mcu, [FirmwareNext]_mcu PROVE mcu' \in Mcu
  BY DEF FirmwareTypeOK
<1>1. ASSUME NEW frame \in Frame, Receive(frame) PROVE mcu' \in Mcu
  BY <1>1, ExecutedType DEF Receive
<1>2. CASE HeartbeatGrowsOld \/ CommandGrowsOld
  <2>1. [mcu EXCEPT !.hbOld = TRUE] \in Mcu /\ [mcu EXCEPT !.cmdOld = TRUE] \in Mcu
    BY DEF Mcu
  <2> QED BY <1>2, <2>1 DEF HeartbeatGrowsOld, CommandGrowsOld
<1>3. CASE MotorTask \/ WheelRunsWrong
  BY <1>3, ControlledType, StoppedType, FailedType, CodeKinds
  DEF MotorTask, WheelRunsWrong, WrongDirection
<1>4. CASE WheelsFollow
  <2>1. [mcu EXCEPT !.turning = mcu.driven] \in Mcu
    BY DEF Mcu
  <2> QED BY <1>4, <2>1 DEF WheelsFollow
<1>5. CASE ServoTask \/ SendPending
  BY <1>5, ServoSteppedType, SentType DEF ServoTask, SendPending
<1>6. CASE TransmitFails
  <2>1. ASSUME NEW n \in Mcu PROVE [n EXCEPT !.txFault = TRUE] \in Mcu
    BY DEF Mcu
  <2> QED BY <1>6, <2>1, StoppedType DEF TransmitFails
<1>7. CASE ReceiveFails
  BY <1>7, FailedType, CodeKinds DEF ReceiveFails
<1>8. CASE Restart
  <2>1. mcu.jaws \in Pulse
    BY DEF Mcu
  <2> QED BY <1>8, <2>1, StartedType DEF Restart
<1> QED
  BY <1>1, <1>2, <1>3, <1>4, <1>5, <1>6, <1>7, <1>8 DEF FirmwareNext

\* Every state the firmware reaches is one of the MCU's.
THEOREM FirmwareTypes == FirmwareSpec => []FirmwareTypeOK
  BY FirmwareTypeInit, FirmwareTypeStep, PTL DEF FirmwareSpec

-----------------------------------------------------------------------------
(* No operation drives a wheel without authority, or moves what is frozen.   *)

LEMMA StoppedKeeps ==
  ASSUME NEW m \in Mcu, Settled(m)
  PROVE  /\ Keeps(m, Stopped(m))
         /\ ~Stopped(m).driven /\ ~Stopped(m).target
         /\ Stopped(m).estop <=> m.estop
<1>1. Entitled(Stopped(m)) /\ ~Stopped(m).driven /\ ~Stopped(m).target
  BY DEF Mcu, Stopped, Entitled
<1>2. Settled(Stopped(m))
  BY DEF Mcu, Stopped, Sound, Settled
<1>3. Stopped(m).jaws = m.jaws /\ (Stopped(m).estop <=> m.estop)
  BY DEF Mcu, Stopped
<1> QED
  BY <1>1, <1>2, <1>3 DEF Keeps, Sound

LEMMA HeldKeeps ==
  ASSUME NEW m \in Mcu, Sound(m)
  PROVE  /\ Keeps(m, Held(m))
         /\ Held(m).driven <=> m.driven
         /\ Held(m).target <=> m.target
         /\ Held(m).estop <=> m.estop
<1>1. Entitled(Held(m))
  BY DEF Mcu, Held, Sound, Entitled, Grounds
<1>2. Settled(Held(m))
  BY DEF Mcu, Held, Sound, Settled
<1>3. Held(m).jaws = m.jaws /\ (Held(m).driven <=> m.driven)
      /\ (Held(m).target <=> m.target) /\ (Held(m).estop <=> m.estop)
  BY DEF Mcu, Held
<1> QED
  BY <1>1, <1>2, <1>3 DEF Keeps, Sound

\* Closing the session of wheels at rest.
LEMMA ClosedKeeps ==
  ASSUME NEW m \in Mcu, Sound(m), ~m.driven, ~m.target
  PROVE  LET closed == [m EXCEPT !.session = None, !.hbSeen = FALSE, !.cmdSeen = FALSE,
                                 !.manual = FALSE, !.attached = FALSE]
         IN Keeps(m, closed) /\ ~closed.driven /\ ~closed.target /\ (closed.estop <=> m.estop)
<1> DEFINE closed == [m EXCEPT !.session = None, !.hbSeen = FALSE, !.cmdSeen = FALSE,
                               !.manual = FALSE, !.attached = FALSE]
<1>1. ~closed.driven /\ ~closed.target /\ closed.jaws = m.jaws /\ (closed.estop <=> m.estop)
  BY DEF Mcu
<1>2. Settled(closed)
  BY DEF Mcu, Sound, Settled
<1>3. Entitled(closed)
  <2> HIDE DEF closed
  <2> QED BY <1>1 DEF Entitled
<1> QED
  BY <1>1, <1>2, <1>3 DEF Keeps, Sound

LEMMA LatchedKeeps ==
  ASSUME NEW m \in Mcu, Sound(m), NEW latched \in BOOLEAN, latched => m.safety \/ ~m.driven,
         NEW code \in Code
  PROVE  LET failed == [m EXCEPT !.safety = latched, !.err = code]
         IN Keeps(m, failed) /\ (failed.driven <=> m.driven) /\ (failed.target <=> m.target)
<1> DEFINE failed == [m EXCEPT !.safety = latched, !.err = code]
<1>1. failed.jaws = m.jaws /\ (failed.driven <=> m.driven) /\ (failed.target <=> m.target)
  BY DEF Mcu
<1>2. Settled(failed)
  BY DEF Mcu, Sound, Settled
<1>3. Entitled(failed)
  BY DEF Mcu, Sound, Entitled, Grounds
<1> QED
  BY <1>1, <1>2, <1>3 DEF Keeps, Sound

\* A failure may close the session of wheels it has stopped, and latch only
\* what no wheel is driven under.
LEMMA FailedKeeps ==
  ASSUME NEW m \in Mcu, Settled(m), NEW code \in Code, code \in Physical => ~m.driven,
         Entitled(m) \/ code \in CommunicationTimeout \cup RequiresNewSession
  PROVE  Keeps(m, Failed(m, code))
<1> DEFINE lost == code \in CommunicationTimeout \cup RequiresNewSession
           stopped == IF code \in Physical \cup {"ESTOP_LATCHED"} THEN m ELSE Stopped(m)
           held == IF lost THEN Held(stopped) ELSE stopped
           closed == IF code \in RequiresNewSession
                     THEN [held EXCEPT !.session = None, !.hbSeen = FALSE, !.cmdSeen = FALSE,
                                       !.manual = FALSE, !.attached = FALSE]
                     ELSE held
           latched == closed.safety \/ code \in Physical
<1>1. /\ stopped \in Mcu /\ Keeps(m, stopped)
      /\ code \in Physical => ~stopped.driven
      /\ lost => ~stopped.driven /\ ~stopped.target
      /\ stopped.estop <=> m.estop
  BY StoppedType, StoppedKeeps DEF Keeps, Sound, CommunicationTimeout, RequiresNewSession, Physical
<1>2. /\ held \in Mcu /\ Keeps(m, held)
      /\ code \in Physical => ~held.driven
      /\ lost => ~held.driven /\ ~held.target
      /\ held.estop <=> m.estop
  <2> HIDE DEF stopped, lost
  <2>1. CASE lost
    BY <1>1, <2>1, HeldType, HeldKeeps DEF Keeps
  <2>2. CASE ~lost
    BY <1>1, <2>2
  <2> QED BY <2>1, <2>2
<1>3. /\ closed \in Mcu /\ Keeps(m, closed)
      /\ code \in Physical => ~closed.driven
  <2> HIDE DEF held
  <2>1. CASE code \in RequiresNewSession
    BY <1>2, <2>1, ClosedType, ClosedKeeps DEF Keeps
  <2>2. CASE code \notin RequiresNewSession
    BY <1>2, <2>2
  <2> QED BY <2>1, <2>2
<1>4. latched \in BOOLEAN /\ (latched => closed.safety \/ ~closed.driven)
  BY <1>3
<1>5. Failed(m, code) = [closed EXCEPT !.safety = latched, !.err = code]
  BY DEF Failed
<1> DEFINE failed == [closed EXCEPT !.safety = latched, !.err = code]
<1>6. Keeps(closed, failed)
  <2> HIDE DEF closed, latched
  <2> QED BY <1>3, <1>4, LatchedKeeps DEF Keeps
<1>7. closed.estop <=> m.estop
  BY <1>2, ClosedKeeps DEF Keeps
<1> HIDE DEF closed, latched, failed
<1> QED
  BY <1>3, <1>5, <1>6, <1>7 DEF Keeps, failed

LEMMA KeepsOn ==
  ASSUME NEW m, NEW n, NEW o, Keeps(m, n), m.estop => n.estop, Keeps(n, o)
  PROVE  Keeps(m, o)
  BY DEF Keeps

LEMMA FailedAtOnce ==
  ASSUME NEW m \in Mcu, Sound(m), NEW code \in Code \ Physical
  PROVE  Keeps(m, Failed(m, code))
  BY FailedKeeps DEF Sound

LEMMA AckedKeeps ==
  ASSUME NEW m \in Mcu, Sound(m), NEW answer \in Answer
  PROVE  Keeps(m, Acked(m, answer))
<1>1. Entitled(Acked(m, answer))
  BY DEF Mcu, Sound, Entitled, Grounds, Acked
<1>2. Settled(Acked(m, answer)) /\ Acked(m, answer).jaws = m.jaws
  BY DEF Mcu, Sound, Settled, Acked
<1> QED
  BY <1>1, <1>2 DEF Keeps, Sound

\* A watchdog that strikes takes the grounds of a wheel, and stops it.
LEMMA LateKeeps ==
  ASSUME NEW m \in Mcu, Settled(m), NEW code \in Code,
         code \notin CommunicationTimeout => ~m.driven /\ ~m.target
  PROVE  Keeps(m, Late(m, code))
<1> DEFINE struck == [m EXCEPT !.hbOut = @ \/ code = "HEARTBEAT_TIMEOUT",
                               !.cmdOut = @ \/ code = "COMMAND_TIMEOUT"]
<1>1. struck \in Mcu
  <2>1. (m.hbOut \/ code = "HEARTBEAT_TIMEOUT") \in BOOLEAN
        /\ (m.cmdOut \/ code = "COMMAND_TIMEOUT") \in BOOLEAN
    OBVIOUS
  <2> QED BY <2>1, OutType
<1>2. /\ Settled(struck) /\ struck.jaws = m.jaws /\ (struck.estop <=> m.estop)
      /\ (struck.driven <=> m.driven) /\ (struck.target <=> m.target)
  BY DEF Mcu, Settled
<1>3. Entitled(struck) \/ code \in CommunicationTimeout
  BY <1>2 DEF Entitled
<1>4. code \in Physical => ~struck.driven
  BY <1>2 DEF Physical, CommunicationTimeout
<1>5. Late(m, code) = Failed(struck, code)
  BY DEF Late
<1> HIDE DEF struck
<1>6. Keeps(struck, Failed(struck, code))
  BY <1>1, <1>2, <1>3, <1>4, FailedKeeps
<1> QED
  BY <1>2, <1>5, <1>6 DEF Keeps

LEMMA TimedOutKeeps ==
  ASSUME NEW m \in Mcu, Sound(m), NEW code \in CommunicationTimeout
  PROVE  Keeps(m, Late(m, code))
<1>1. code \in Code
  BY CodeKinds
<1>2. Settled(m)
  BY DEF Sound
<1> QED
  BY <1>1, <1>2, LateKeeps

\* What a command that is not refused may rely on.
LEMMA Authorised ==
  ASSUME NEW m \in Mcu, Refusal(m) = None
  PROVE  Grounds(m) /\ ~m.estop /\ ~m.safety
  BY NoneAssumption, CodeKinds DEF Refusal, Grounds

LEMMA GatedKeeps ==
  ASSUME NEW m \in Mcu, Sound(m), NEW allowed, Refusal(m) = None => Keeps(m, allowed)
  PROVE  Keeps(m, Gated(m, allowed))
<1>1. CASE Refusal(m) = None
  BY <1>1 DEF Gated
<1>2. CASE Refusal(m) # None
  <2>1. Refusal(m) \in Code
    BY <1>2, RefusalType
  <2>2. /\ Stopped(m) \in Mcu /\ Keeps(m, Stopped(m)) /\ (Stopped(m).estop <=> m.estop)
        /\ ~Stopped(m).driven /\ ~Stopped(m).target
    BY StoppedType, StoppedKeeps DEF Sound
  <2>3. Keeps(Stopped(m), Late(Stopped(m), Refusal(m)))
    BY <2>1, <2>2, LateKeeps DEF Keeps, Sound
  <2> QED
    BY <1>2, <2>2, <2>3, KeepsOn DEF Gated
<1> QED
  BY <1>1, <1>2

LEMMA StoppedSame ==
  ASSUME NEW n \in Mcu
  PROVE  /\ Stopped(n).jaws = n.jaws /\ Stopped(n).current = n.current
         /\ Stopped(n).estop <=> n.estop
         /\ Stopped(n).pulsed <=> n.pulsed
         /\ ~Stopped(n).driven /\ ~Stopped(n).target
  BY DEF Mcu, Stopped

LEMMA EstopKeeps == ASSUME NEW m \in Mcu, Sound(m) PROVE Keeps(m, Estop(m))
<1> DEFINE hit == [m EXCEPT !.estop = TRUE]
           stopped == Stopped(hit)
           held == Held(stopped)
<1>1. hit \in Mcu /\ hit.jaws = m.jaws /\ hit.estop /\ hit.current = m.current
      /\ (hit.pulsed => hit.jaws = hit.current)
  BY DEF Mcu, Sound, Settled
<1>2. /\ stopped \in Mcu /\ stopped.jaws = m.jaws /\ stopped.estop
      /\ ~stopped.driven /\ ~stopped.target
      /\ (stopped.pulsed => stopped.jaws = stopped.current)
  <2> HIDE DEF hit
  <2> QED BY <1>1, StoppedType, StoppedSame
<1>3. /\ held \in Mcu /\ held.jaws = m.jaws /\ Settled(held)
      /\ ~held.driven /\ ~held.target
  <2> HIDE DEF stopped
  <2>1. held \in Mcu
    BY <1>2, HeldType
  <2> QED BY <2>1, <1>2 DEF Mcu, Held, Settled
<1>4. Keeps(m, held)
  <2> HIDE DEF held
  <2> QED BY <1>3 DEF Keeps, Sound, Entitled
<1>5. held.estop
  BY <1>2 DEF Mcu, Held
<1> HIDE DEF held
<1> QED
  BY <1>3, <1>4, <1>5, AckedKeeps, KeepsOn, AnswerKinds DEF Keeps, Estop, held, stopped, hit

LEMMA HelloKeeps ==
  ASSUME NEW m \in Mcu, Sound(m), NEW session \in Session PROVE Keeps(m, Hello(m, session))
<1> DEFINE same == m.session = session
           hbLate == same /\ (m.hbOut \/ (m.hbSeen /\ m.hbOld))
           cmdLate == same /\ (m.cmdOut \/ (m.cmdSeen /\ m.cmdOld))
           s == Stopped(m)
           late == [s EXCEPT !.hbOut = @ \/ hbLate, !.cmdOut = @ \/ cmdLate]
           opened == [s EXCEPT
                !.session = session,
                !.hbSeen = FALSE, !.hbOld = FALSE, !.hbOut = FALSE,
                !.cmdSeen = FALSE, !.cmdOld = FALSE, !.cmdOut = FALSE,
                !.manual = FALSE, !.attached = FALSE,
                !.err = IF @ \in CommunicationTimeout THEN None ELSE @,
                !.ack = [kind |-> "HELLO", session |-> session]]
<1>1. /\ s \in Mcu /\ Keeps(m, s) /\ (s.estop <=> m.estop)
      /\ ~s.driven /\ ~s.target
  BY StoppedType, StoppedKeeps DEF Sound
<1>2. late \in Mcu /\ Keeps(s, late) /\ ~late.driven /\ (late.estop <=> s.estop)
  <2>1. (s.hbOut \/ hbLate) \in BOOLEAN /\ (s.cmdOut \/ cmdLate) \in BOOLEAN
    OBVIOUS
  <2> HIDE DEF s, hbLate, cmdLate
  <2>2. late \in Mcu
    BY <1>1, <2>1, OutType
  <2>3. Settled(late) /\ late.jaws = s.jaws /\ (late.estop <=> s.estop)
        /\ ~late.driven /\ ~late.target
    BY <1>1 DEF Mcu, Keeps, Sound, Settled
  <2> QED BY <2>2, <2>3 DEF Keeps, Sound, Entitled
<1>3. Keeps(s, opened)
  <2> HIDE DEF s
  <2>1. Settled(opened) /\ opened.jaws = s.jaws /\ ~opened.driven /\ ~opened.target
    BY <1>1 DEF Mcu, Keeps, Sound, Settled
  <2> HIDE DEF opened
  <2> QED BY <2>1 DEF Keeps, Sound, Entitled
<1>4. Hello(m, session) =
        IF m.estop THEN Failed(s, "ESTOP_LATCHED")
        ELSE IF m.txFault THEN s
        ELSE IF m.safety THEN Failed(s, "WHEEL_DIR_MISMATCH")
        ELSE IF hbLate \/ cmdLate
        THEN Failed(late, IF hbLate THEN "HEARTBEAT_TIMEOUT" ELSE "COMMAND_TIMEOUT")
        ELSE opened
  BY DEF Hello
<1> HIDE DEF s, late, opened, hbLate, cmdLate
<1>5. \A code \in Code : Keeps(s, Failed(s, code)) /\ Keeps(late, Failed(late, code))
  BY <1>1, <1>2, FailedKeeps DEF Keeps, Sound
<1> QED
  BY <1>1, <1>2, <1>3, <1>4, <1>5, CodeKinds DEF Keeps

LEMMA HeartbeatKeeps ==
  ASSUME NEW m \in Mcu, Sound(m), NEW session \in Session PROVE Keeps(m, Heartbeat(m, session))
<1> DEFINE heard == [m EXCEPT !.hbSeen = TRUE, !.hbOld = FALSE,
                              !.hback = [kind |-> "HB", session |-> session]]
<1>1. Settled(heard) /\ heard.jaws = m.jaws
  BY DEF Mcu, Sound, Settled
<1>2. Entitled(heard)
  BY DEF Mcu, Sound, Entitled, Grounds
<1>3. Keeps(m, heard)
  BY <1>1, <1>2 DEF Keeps, Sound
<1>4. Keeps(m, Failed(m, "REQUIRED"))
  BY FailedAtOnce, CodeKinds DEF Physical
<1>5. Keeps(m, Late(m, "HEARTBEAT_TIMEOUT"))
  BY TimedOutKeeps DEF CommunicationTimeout
<1> QED
  BY <1>3, <1>4, <1>5 DEF Heartbeat

LEMMA VelocityKeeps ==
  ASSUME NEW m \in Mcu, Sound(m), NEW drive \in BOOLEAN, NEW session \in Session \cup {None}
  PROVE  Keeps(m, Velocity(m, drive, session))
<1> DEFINE ack == IF session = None THEN m.ack ELSE [kind |-> "zero", session |-> session]
           driving == [m EXCEPT !.target = drive, !.cmdSeen = TRUE, !.cmdOld = FALSE,
                                !.manual = FALSE, !.openLoop = FALSE, !.ack = ack]
<1>1. \A code \in Code \ Physical : Keeps(m, Failed(m, code))
  BY FailedAtOnce
<1>2. Keeps(m, Late(m, "COMMAND_TIMEOUT"))
  BY TimedOutKeeps DEF CommunicationTimeout
<1>3. CASE m.session # None /\ m.hbSeen /\ ~m.hbOut /\ ~m.cmdOut
  <2> HIDE DEF ack
  <2>1. Settled(driving) /\ driving.jaws = m.jaws
    BY DEF Mcu, Sound, Settled
  <2>2. Entitled(driving)
    BY <1>3 DEF Mcu, Sound, Entitled, Grounds
  <2>3. Keeps(m, driving)
    BY <2>1, <2>2 DEF Keeps, Sound
  <2>4. driving = [m EXCEPT !.target = drive, !.cmdSeen = TRUE, !.cmdOld = FALSE,
                     !.manual = FALSE, !.openLoop = FALSE,
                     !.ack = IF session = None THEN @ ELSE [kind |-> "zero", session |-> session]]
    BY DEF ack
  <2> HIDE DEF driving
  <2> QED
    BY <1>1, <1>2, <2>3, <2>4, CodeKinds DEF Velocity, Physical
<1>4. CASE ~(m.session # None /\ m.hbSeen /\ ~m.hbOut /\ ~m.cmdOut)
  BY <1>1, <1>2, <1>4, CodeKinds DEF Velocity, Physical
<1> QED
  BY <1>3, <1>4

LEMMA MotorStopKeeps == ASSUME NEW m \in Mcu, Sound(m) PROVE Keeps(m, MotorStop(m))
<1> DEFINE s == Stopped(m)
           manual == [s EXCEPT !.manual = TRUE, !.cmdOld = FALSE]
<1>1. s \in Mcu /\ Keeps(m, s) /\ (s.estop <=> m.estop) /\ ~s.driven /\ ~s.target
  BY StoppedType, StoppedKeeps DEF Sound
<1> HIDE DEF s
<1>2. manual \in Mcu
  BY <1>1, ManualType
<1>3. Settled(manual) /\ manual.jaws = s.jaws /\ (manual.estop <=> s.estop)
      /\ ~manual.driven /\ ~manual.target
  BY <1>1 DEF Mcu, Keeps, Sound, Settled
<1> HIDE DEF manual
<1>4. Sound(manual)
  BY <1>3 DEF Sound, Entitled
<1>5. Keeps(manual, Acked(manual, [kind |-> "other"]))
  BY <1>2, <1>4, AckedKeeps, AnswerKinds
<1>6. Keeps(m, Failed(m, "ESTOP_LATCHED"))
  BY FailedAtOnce, CodeKinds DEF Physical
<1>7. MotorStop(m) = IF m.estop THEN Failed(m, "ESTOP_LATCHED") ELSE Acked(manual, [kind |-> "other"])
  BY DEF MotorStop, manual, s
<1> QED
  BY <1>1, <1>3, <1>5, <1>6, <1>7 DEF Keeps

LEMMA MotorTestKeeps == ASSUME NEW m \in Mcu, Sound(m) PROVE Keeps(m, MotorTest(m))
<1> DEFINE s == Stopped(m)
           tested == [s EXCEPT !.driven = TRUE, !.manual = TRUE, !.openLoop = TRUE,
                               !.cmdSeen = TRUE, !.cmdOld = FALSE]
<1>1. s \in Mcu /\ Keeps(m, s) /\ (s.estop <=> m.estop)
  BY StoppedType, StoppedKeeps DEF Sound
<1>2. /\ s.session = m.session /\ ~s.target /\ (s.safety <=> m.safety)
      /\ (s.hbSeen <=> m.hbSeen) /\ (s.hbOut <=> m.hbOut) /\ (s.cmdOut <=> m.cmdOut)
  BY DEF Mcu, Stopped
<1> HIDE DEF s
<1>3. tested \in Mcu
  BY <1>1, TestedType
<1>4. Settled(tested) /\ tested.jaws = s.jaws /\ (tested.estop <=> s.estop)
  BY <1>1 DEF Mcu, Keeps, Sound, Settled
<1>5. ASSUME Refusal(m) = None PROVE Entitled(tested)
  <2>1. Grounds(m) /\ ~m.estop /\ ~m.safety
    BY <1>5, Authorised
  <2>2. /\ tested.session = s.session /\ ~tested.target /\ tested.cmdSeen
        /\ (tested.safety <=> s.safety) /\ (tested.hbSeen <=> s.hbSeen)
        /\ (tested.hbOut <=> s.hbOut) /\ (tested.cmdOut <=> s.cmdOut)
    BY <1>1, <1>2 DEF Mcu
  <2> HIDE DEF tested
  <2> QED BY <1>1, <1>2, <1>4, <2>1, <2>2 DEF Entitled, Grounds
<1> HIDE DEF tested
<1>6. ASSUME Refusal(m) = None PROVE Keeps(m, Acked(tested, [kind |-> "other"]))
  <2>1. Keeps(tested, Acked(tested, [kind |-> "other"]))
    BY <1>3, <1>4, <1>5, <1>6, AckedKeeps, AnswerKinds DEF Sound
  <2> QED BY <1>1, <1>4, <2>1 DEF Keeps
<1>7. Keeps(m, Gated(m, Acked(tested, [kind |-> "other"])))
  BY <1>6, GatedKeeps
<1>8. Keeps(m, Failed(m, "ESTOP_LATCHED"))
  BY FailedAtOnce, CodeKinds DEF Physical
<1>9. MotorTest(m) = IF m.estop THEN Failed(m, "ESTOP_LATCHED")
                     ELSE Gated(m, Acked(tested, [kind |-> "other"]))
  BY DEF MotorTest, tested, s
<1> QED
  BY <1>7, <1>8, <1>9

LEMMA AttachKeeps ==
  ASSUME NEW m \in Mcu, Sound(m), NEW pulse \in Pulse PROVE Keeps(m, Attach(m, pulse))
<1> DEFINE s == Stopped(m)
           put == [s EXCEPT !.current = pulse, !.goal = pulse, !.jaws = pulse,
                            !.moving = FALSE, !.servo = "attach",
                            !.pulsed = TRUE, !.attached = TRUE]
<1>1. s \in Mcu /\ ~s.driven /\ ~s.target
  BY StoppedType, StoppedKeeps DEF Sound
<1> HIDE DEF s
<1>2. put \in Mcu
  BY <1>1, PutOutType
<1>3. Settled(put) /\ ~put.driven /\ ~put.target
  BY <1>1 DEF Mcu, Settled
<1> HIDE DEF put
<1>4. Sound(Acked(put, [kind |-> "attach"]))
  BY <1>2, <1>3, AckedKeeps, AnswerKinds DEF Keeps, Sound, Entitled
<1>5. \A code \in Code \ Physical : Keeps(m, Failed(m, code))
  BY FailedAtOnce
<1>6. Attach(m, pulse) =
        IF m.estop THEN Failed(m, "ESTOP_LATCHED")
        ELSE IF ~IsStopped(m) THEN Failed(m, "LIFT_WHILE_MOVING")
        ELSE IF m.session = None \/ ~m.hbSeen \/ ~m.cmdSeen \/ m.hbOut \/ m.cmdOut
        THEN Failed(m, "REQUIRED")
        ELSE Acked(put, [kind |-> "attach"])
  BY DEF Attach, put, s
<1>7. ~m.estop => Keeps(m, Acked(put, [kind |-> "attach"]))
  BY <1>4 DEF Keeps
<1> QED
  BY <1>5, <1>6, <1>7, CodeKinds DEF Physical

LEMMA LiftKeeps ==
  ASSUME NEW m \in Mcu, Sound(m), NEW action \in {"grip", "release"}
  PROVE  Keeps(m, Lift(m, action))
<1> DEFINE on == [m EXCEPT !.pulsed = TRUE, !.jaws = m.current]
           goal == IF action = "grip" THEN "grip" ELSE "open"
           started == [on EXCEPT !.servo = action, !.moving = TRUE, !.goal = goal]
           done == ~on.moving
           grip == on.gripDone \/ (done /\ action = "grip")
           release == on.releaseDone \/ (done /\ action = "release")
           again == [on EXCEPT !.gripDone = grip, !.releaseDone = release]
<1>1. on \in Mcu
  BY DEF Mcu
<1>2. Entitled(on) /\ (on.estop <=> m.estop) /\ on.jaws = on.current
  BY DEF Mcu, Sound, Entitled, Grounds
<1>3. started \in Mcu /\ again \in Mcu
  <2>1. goal \in Pulse
    BY DEF Pulse
  <2>2. grip \in BOOLEAN /\ release \in BOOLEAN
    OBVIOUS
  <2> HIDE DEF on, done, goal, grip, release
  <2> QED BY <1>1, LiftingType, <2>1, DoneType, <2>2
<1>4. ASSUME ~m.estop PROVE Sound(started) /\ Sound(again)
  <2> HIDE DEF on, goal, grip, release
  <2>1. Settled(started) /\ Settled(again)
    BY <1>1, <1>2, <1>4 DEF Mcu, Settled
  <2>2. Entitled(started)
    BY <1>1, <1>2 DEF Mcu, Entitled, Grounds
  <2>3. Entitled(again)
    BY <1>1, <1>2 DEF Mcu, Entitled, Grounds
  <2> QED BY <2>1, <2>2, <2>3 DEF Sound
<1>5. \A code \in Code \ Physical : Keeps(m, Failed(m, code))
  BY FailedAtOnce
<1>6. Lift(m, action) =
        IF m.estop THEN Failed(m, "ESTOP_LATCHED")
        ELSE IF ~IsStopped(m) THEN Failed(m, "LIFT_WHILE_MOVING")
        ELSE IF ~m.attached THEN Failed(m, "SERVO_NOT_ATTACHED")
        ELSE Acked(IF m.servo = action THEN again ELSE started, [kind |-> "other"])
  BY DEF Lift
<1> HIDE DEF started, again
<1>7. ASSUME ~m.estop
      PROVE  /\ Keeps(m, Acked(again, [kind |-> "other"]))
             /\ Keeps(m, Acked(started, [kind |-> "other"]))
  BY <1>3, <1>4, <1>7, AckedKeeps, AnswerKinds DEF Keeps
<1> QED
  BY <1>5, <1>6, <1>7, CodeKinds DEF Physical

LEMMA LegacyKeeps == ASSUME NEW m \in Mcu, Sound(m) PROVE Keeps(m, Legacy(m))
<1>1. Entitled(Legacy(m))
  BY DEF Mcu, Sound, Entitled, Grounds, Legacy
<1>2. Settled(Legacy(m)) /\ Legacy(m).jaws = m.jaws
  BY DEF Mcu, Sound, Settled, Legacy
<1> QED
  BY <1>1, <1>2 DEF Keeps, Sound

LEMMA LegacyDriveKeeps ==
  ASSUME NEW m \in Mcu, Sound(m) PROVE Keeps(m, LegacyVector(m)) /\ Keeps(m, LegacyOpenLoop(m))
<1> DEFINE vector == [m EXCEPT !.target = TRUE, !.manual = TRUE, !.openLoop = FALSE]
           loop == [m EXCEPT !.target = FALSE, !.driven = TRUE, !.manual = TRUE, !.openLoop = TRUE]
<1>1. vector \in Mcu
  BY DEF Mcu
<1>2. loop \in Mcu
  BY DEF Mcu
<1>3. ASSUME Refusal(m) = None PROVE Entitled(vector) /\ Entitled(loop)
  <2>1. Grounds(m) /\ ~m.estop /\ ~m.safety
    BY <1>3, Authorised
  <2>2. Entitled(vector)
    BY <2>1 DEF Mcu, Entitled, Grounds
  <2>3. Entitled(loop)
    BY <2>1 DEF Mcu, Entitled, Grounds
  <2> QED BY <2>2, <2>3
<1>4. Settled(vector) /\ vector.jaws = m.jaws /\ (vector.estop <=> m.estop)
  BY DEF Mcu, Sound, Settled
<1>5. Settled(loop) /\ loop.jaws = m.jaws /\ (loop.estop <=> m.estop)
  BY DEF Mcu, Sound, Settled
<1>6. LegacyVector(m) = Gated(m, Legacy(vector)) /\ LegacyOpenLoop(m) = Gated(m, Legacy(loop))
  BY DEF LegacyVector, LegacyOpenLoop
<1> HIDE DEF vector, loop
<1>7. ASSUME Refusal(m) = None PROVE Keeps(m, Legacy(vector)) /\ Keeps(m, Legacy(loop))
  BY <1>1, <1>2, <1>3, <1>4, <1>5, <1>7, LegacyKeeps DEF Keeps, Sound
<1> QED
  BY <1>6, <1>7, GatedKeeps

LEMMA LegacyPulseKeeps ==
  ASSUME NEW m \in Mcu, Sound(m), NEW pulse \in Pulse
  PROVE  Keeps(m, LegacyPulse(m, pulse)) /\ Keeps(m, LegacyPulseOff(m))
<1> DEFINE s == Stopped(m)
           put == [s EXCEPT !.pulsed = TRUE, !.jaws = m.current, !.goal = pulse]
           off == [s EXCEPT !.pulsed = FALSE, !.attached = FALSE]
<1>1. /\ s \in Mcu /\ Keeps(m, s) /\ (s.estop <=> m.estop) /\ s.current = m.current
      /\ ~s.driven /\ ~s.target
  BY StoppedType, StoppedKeeps, StoppedSame DEF Sound
<1> HIDE DEF s
<1>2. put \in Mcu /\ off \in Mcu
  <2>1. m.current \in Pulse
    BY DEF Mcu
  <2> QED BY <1>1, PulsedType, PulseOffType, <2>1
<1>3. ~put.driven /\ ~put.target /\ (~s.estop => Settled(put))
  BY <1>1 DEF Mcu, Settled
<1>4. Settled(off) /\ ~off.driven /\ ~off.target /\ off.jaws = s.jaws /\ (off.estop <=> s.estop)
  BY <1>1 DEF Mcu, Keeps, Sound, Settled
<1>5. LegacyPulse(m, pulse) = Gated(m, IF m.attached THEN Legacy(put)
                                       ELSE Failed(s, "SERVO_NOT_ATTACHED"))
  BY DEF LegacyPulse, put, s
<1>6. LegacyPulseOff(m) = Gated(m, Legacy(off))
  BY DEF LegacyPulseOff, off, s
<1> HIDE DEF put, off
<1>7. ASSUME ~m.estop PROVE Keeps(m, Legacy(put))
  BY <1>1, <1>2, <1>3, <1>7, LegacyKeeps DEF Keeps, Sound, Entitled
<1>8. Keeps(m, Legacy(off))
  BY <1>1, <1>2, <1>4, LegacyKeeps DEF Keeps, Sound, Entitled
<1>9. Keeps(m, Failed(s, "SERVO_NOT_ATTACHED"))
  <2>1. Keeps(s, Failed(s, "SERVO_NOT_ATTACHED"))
    BY <1>1, FailedAtOnce, CodeKinds DEF Keeps, Physical
  <2> QED BY <1>1, <2>1 DEF Keeps
<1>10. Refusal(m) = None => ~m.estop
  BY Authorised
<1> QED
  BY <1>5, <1>6, <1>7, <1>8, <1>9, <1>10, GatedKeeps

\* Whatever is sent.
LEMMA ExecutedKeeps ==
  ASSUME NEW m \in Mcu, Sound(m), NEW frame \in Frame PROVE Keeps(m, Executed(m, frame))
<1>1. CASE frame.kind \in {"HELLO", "HB", "zero"}
  <2>1. frame.session \in Session
    BY <1>1 DEF Frame
  <2> QED
    BY <1>1, <2>1, HelloKeeps, HeartbeatKeeps, VelocityKeeps DEF Executed
<1>2. CASE frame.kind = "V"
  <2>1. frame.drive \in BOOLEAN
    BY <1>2 DEF Frame
  <2> QED
    BY <1>2, <2>1, VelocityKeeps DEF Executed
<1>3. CASE frame.kind \in {"attach", "pulse"}
  <2>1. frame.pulse \in Pulse
    BY <1>3 DEF Frame
  <2> QED
    BY <1>3, <2>1, AttachKeeps, LegacyPulseKeeps DEF Executed
<1>4. CASE frame.kind \in {"ESTOP", "M", "M,STOP", "grip", "release"}
  BY <1>4, EstopKeeps, MotorStopKeeps, MotorTestKeeps, LiftKeeps DEF Executed
<1>5. CASE frame.kind \in {"unknown", "malformed", "vector", "open loop", "pulse off", "stop"}
  <2>1. "open" \in Pulse
    BY DEF Pulse
  <2>2. Keeps(m, Failed(m, "UART_RX_ERROR")) /\ Keeps(m, Failed(m, "REQUIRED"))
    BY FailedAtOnce, CodeKinds DEF Physical
  <2>3. Keeps(m, LegacyStop(m))
    <3>1. /\ Stopped(m) \in Mcu /\ Keeps(m, Stopped(m)) /\ (Stopped(m).estop <=> m.estop)
      BY StoppedType, StoppedKeeps DEF Sound
    <3> QED BY <3>1, LegacyKeeps DEF LegacyStop, Keeps
  <2> QED
    BY <1>5, <2>1, <2>2, <2>3, LegacyDriveKeeps, LegacyPulseKeeps DEF Executed
<1>6. frame.kind \in {"HELLO", "HB", "zero", "V", "attach", "pulse"}
                     \cup {"ESTOP", "M", "M,STOP", "grip", "release"}
                     \cup {"unknown", "malformed", "vector", "open loop", "pulse off", "stop"}
  BY DEF Frame
<1> QED
  BY <1>1, <1>2, <1>3, <1>4, <1>5, <1>6

LEMMA WatchedKeeps == ASSUME NEW m \in Mcu, Sound(m) PROVE Keeps(m, Watched(m))
<1>1. Keeps(m, m)
  BY DEF Keeps
<1>2. Keeps(m, Late(m, "HEARTBEAT_TIMEOUT")) /\ Keeps(m, Late(m, "COMMAND_TIMEOUT"))
  BY TimedOutKeeps DEF CommunicationTimeout
<1> QED
  BY <1>1, <1>2 DEF Watched

\* A watchdog latches no emergency stop.
LEMMA WatchedEstop == ASSUME NEW m \in Mcu, m.estop PROVE Watched(m) = m
  BY DEF Watched

LEMMA ControlledKeeps == ASSUME NEW m \in Mcu, Sound(m) PROVE Keeps(m, Controlled(m))
<1>1. CASE Stopping(m)
  <2>1. Watched(m) \in Mcu /\ Keeps(m, Watched(m)) /\ (m.estop => Watched(m).estop)
    BY WatchedType, WatchedKeeps, WatchedEstop
  <2>2. Keeps(Watched(m), Stopped(Watched(m)))
    BY <2>1, StoppedKeeps DEF Keeps, Sound
  <2> QED BY <1>1, <2>1, <2>2, KeepsOn DEF Controlled
<1>2. CASE ~Stopping(m) /\ m.openLoop
  BY <1>2 DEF Controlled, Keeps
<1>3. CASE ~Stopping(m) /\ ~m.openLoop
  <2> DEFINE driving == [m EXCEPT !.driven = m.target]
  <2>1. Settled(driving) /\ driving.jaws = m.jaws
    BY DEF Mcu, Sound, Settled
  <2>2. ~m.estop /\ ~m.safety
    BY <1>3 DEF Stopping
  <2>3. Entitled(driving)
    BY <2>2 DEF Mcu, Sound, Entitled, Grounds
  <2> QED BY <1>3, <2>1, <2>3 DEF Controlled, Keeps, Sound
<1> QED
  BY <1>1, <1>2, <1>3

LEMMA ServoSteppedKeeps == ASSUME NEW m \in Mcu, Sound(m) PROVE Keeps(m, ServoStepped(m))
<1> DEFINE next == IF m.current = m.goal THEN m.goal
                   ELSE IF m.current = "between" THEN m.goal ELSE "between"
           there == m.moving /\ next = m.goal
           jaws == IF m.pulsed THEN next ELSE m.jaws
           moving == m.moving /\ ~there
           grip == m.gripDone \/ (there /\ m.servo # "release")
           release == m.releaseDone \/ (there /\ m.servo = "release")
           stepped == [m EXCEPT !.current = next, !.jaws = jaws, !.moving = moving,
                                !.gripDone = grip, !.releaseDone = release]
<1>1. ServoStepped(m) = stepped
  BY DEF ServoStepped
<1>2. /\ m.pulsed => jaws = next
      /\ m.estop => next = m.goal /\ jaws = m.jaws
  BY DEF Sound, Settled
<1> HIDE DEF next, there, jaws, moving, grip, release
<1>3. Settled(stepped) /\ stepped.jaws = jaws
  BY <1>2 DEF Mcu, Settled
<1>4. Entitled(stepped)
  BY DEF Mcu, Sound, Entitled, Grounds
<1> HIDE DEF stepped
<1> QED
  BY <1>1, <1>2, <1>3, <1>4 DEF Keeps, Sound

LEMMA SentKeeps == ASSUME NEW m \in Mcu, Sound(m) PROVE Keeps(m, Sent(m))
<1>1. Entitled(Sent(m))
  BY DEF Mcu, Sound, Entitled, Grounds, Sent
<1>2. Settled(Sent(m)) /\ Sent(m).jaws = m.jaws
  BY DEF Mcu, Sound, Settled, Sent
<1> QED
  BY <1>1, <1>2 DEF Keeps, Sound

FirmwareInv == FirmwareTypeOK /\ Sound(mcu)

\* A step that is no restart keeps what is promised.
LEMMA StepKeeps ==
  ASSUME FirmwareInv, FirmwareNext
  PROVE  Keeps(mcu, mcu') \/ (Restart /\ ~mcu'.estop)
<1> USE DEF FirmwareInv, FirmwareTypeOK
<1>1. ASSUME NEW frame \in Frame, Receive(frame) PROVE Keeps(mcu, mcu')
  BY <1>1, ExecutedKeeps DEF Receive
<1>2. CASE HeartbeatGrowsOld \/ CommandGrowsOld
  <2>1. Entitled(mcu')
    BY <1>2 DEF HeartbeatGrowsOld, CommandGrowsOld, Mcu, Sound, Entitled, Grounds
  <2>2. Settled(mcu') /\ mcu'.jaws = mcu.jaws
    BY <1>2 DEF HeartbeatGrowsOld, CommandGrowsOld, Mcu, Sound, Settled
  <2> QED BY <2>1, <2>2 DEF Keeps, Sound
<1>3. CASE MotorTask \/ ServoTask \/ SendPending
  BY <1>3, ControlledKeeps, ServoSteppedKeeps, SentKeeps DEF MotorTask, ServoTask, SendPending
<1>4. CASE WheelRunsWrong
  <2>1. /\ Stopped(mcu) \in Mcu /\ Keeps(mcu, Stopped(mcu)) /\ (Stopped(mcu).estop <=> mcu.estop)
        /\ ~Stopped(mcu).driven
    BY StoppedType, StoppedKeeps DEF Sound
  <2>2. Keeps(Stopped(mcu), Failed(Stopped(mcu), "WHEEL_DIR_MISMATCH"))
    BY <2>1, FailedKeeps, CodeKinds DEF Keeps, Sound
  <2> QED BY <1>4, <2>1, <2>2 DEF WheelRunsWrong, WrongDirection, Keeps
<1>5. CASE WheelsFollow
  <2>1. Entitled(mcu')
    BY <1>5 DEF WheelsFollow, Mcu, Sound, Entitled, Grounds
  <2>2. Settled(mcu') /\ mcu'.jaws = mcu.jaws
    BY <1>5 DEF WheelsFollow, Mcu, Sound, Settled
  <2> QED BY <2>1, <2>2 DEF Keeps, Sound
<1>6. CASE TransmitFails
  <2> DEFINE s == Stopped(mcu)
  <2>1. s \in Mcu /\ Keeps(mcu, s) /\ (s.estop <=> mcu.estop) /\ ~s.driven /\ ~s.target
    BY StoppedType, StoppedKeeps DEF Sound
  <2> HIDE DEF s
  <2> DEFINE failed == [s EXCEPT !.txFault = TRUE]
  <2>2. Settled(failed) /\ failed.jaws = s.jaws /\ ~failed.driven /\ ~failed.target
    BY <2>1 DEF Mcu, Keeps, Sound, Settled
  <2>3. mcu' = failed
    BY <1>6 DEF TransmitFails, s
  <2> HIDE DEF failed
  <2> QED BY <2>1, <2>2, <2>3 DEF Keeps, Sound, Entitled
<1>7. CASE ReceiveFails
  BY <1>7, FailedAtOnce, CodeKinds DEF ReceiveFails, Physical
<1>8. CASE Restart
  BY <1>8 DEF Restart, Started
<1> QED
  BY <1>1, <1>2, <1>3, <1>4, <1>5, <1>6, <1>7, <1>8 DEF FirmwareNext

LEMMA SoundInit == FirmwareInit => Sound(mcu)
  BY DEF FirmwareInit, Started, Sound, Entitled, Settled

LEMMA FirmwareInvStep == FirmwareInv /\ [FirmwareNext]_mcu => FirmwareInv'
<1> SUFFICES ASSUME FirmwareInv, [FirmwareNext]_mcu PROVE Sound(mcu')
  BY FirmwareTypeStep DEF FirmwareInv
<1>1. CASE FirmwareNext
  <2>1. ASSUME Restart PROVE Sound(mcu')
    BY <2>1 DEF Restart, Started, Sound, Entitled, Settled
  <2> QED BY <1>1, <2>1, StepKeeps DEF Keeps
<1>2. CASE UNCHANGED mcu
  BY <1>2 DEF FirmwareInv
<1> QED
  BY <1>1, <1>2

LEMMA FirmwareInvHolds == FirmwareSpec => []FirmwareInv
<1>1. FirmwareInit => FirmwareInv
  BY FirmwareTypeInit, SoundInit DEF FirmwareInv
<1> QED
  BY <1>1, FirmwareInvStep, PTL DEF FirmwareSpec

\* A wheel is driven only in a session whose two proofs of life have come in
\* and are in force, with no emergency stop and no physical fault.
THEOREM AuthorityHolds == FirmwareSpec => []Authority
<1>1. FirmwareInv => Authority
  BY DEF FirmwareInv, Sound, Entitled, Grounds, Authority
<1> QED
  BY <1>1, FirmwareInvHolds, PTL

\* After an emergency stop nothing that is sent, late or queued, moves the jaws
\* or drives a wheel, until the MCU starts again.
THEOREM EstopHolds == FirmwareSpec => EstopFreezes
<1>1. FirmwareInv /\ [FirmwareNext]_mcu
      => [mcu.estop /\ mcu'.estop => mcu'.jaws = mcu.jaws /\ ~mcu'.driven]_mcu
  <2> SUFFICES ASSUME FirmwareInv, FirmwareNext, mcu.estop, mcu'.estop
               PROVE  mcu'.jaws = mcu.jaws /\ ~mcu'.driven
    OBVIOUS
  <2> QED BY StepKeeps DEF Keeps, Sound, Entitled
<1> QED
  BY <1>1, FirmwareInvHolds, PTL DEF FirmwareSpec, EstopFreezes
=============================================================================
