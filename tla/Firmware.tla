------------------------------ MODULE Firmware ------------------------------
(* What the main loop of the firmware does with a command, with time and     *)
(* with the wheels and the jaws: the session gates, the two watchdogs, the   *)
(* servo, the emergency stop and the mailbox of answers.                     *)
(*                                                                           *)
(* A wheel is asked to turn or not, driven or not, turning or not; a pulse   *)
(* width is that of open jaws, of closed ones or one between. The moment a   *)
(* heartbeat or a command is too old is any moment after it came in. Errors  *)
(* that the code treats alike have one code.                                 *)
EXTENDS Naturals, Sequences, FiniteSets

CONSTANTS
    Session,    \* session ids
    None        \* no session, no answer, nothing

Pulse == {"open", "between", "grip"}

CommunicationTimeout == {"HEARTBEAT_TIMEOUT", "COMMAND_TIMEOUT"}
RequiresNewSession == {"UART_RX_ERROR"}
Physical == {"WHEEL_DIR_MISMATCH"}
\* REQUIRED stands for HELLO_, HEARTBEAT_ and COMMAND_REQUIRED,
\* STARTUP_SEQUENCE and the malformed frames; UART_RX_ERROR also for
\* RX_QUEUE_OVERFLOW and UNKNOWN_COMMAND.
Code == CommunicationTimeout \cup RequiresNewSession \cup Physical
        \cup {"REQUIRED", "LIFT_WHILE_MOVING", "SERVO_NOT_ATTACHED", "ESTOP_LATCHED"}

Frame == [kind : {"ESTOP", "M", "M,STOP", "grip", "release", "unknown", "malformed",
                  "vector", "open loop", "pulse off", "stop"}]
         \cup [kind : {"HELLO", "HB", "zero"}, session : Session]
         \cup [kind : {"V"}, drive : BOOLEAN]
         \cup [kind : {"attach", "pulse"}, pulse : Pulse]

HeartbeatAnswer == [kind : {"HB"}, session : Session]
Answer == HeartbeatAnswer
          \cup [kind : {"HELLO", "zero"}, session : Session]
          \cup [kind : {"ERR"}, code : Code]
          \cup [kind : {"attach", "other", "GRIP_DONE", "RELEASE_DONE"}]

ASSUME NoneAssumption == None \notin Session \cup Code \cup Answer

-----------------------------------------------------------------------------
(* The state of the MCU, and of the wheels and the jaws it moves.            *)

Mcu == [session : Session \cup {None},
        hbSeen : BOOLEAN, hbOld : BOOLEAN, hbOut : BOOLEAN,
        cmdSeen : BOOLEAN, cmdOld : BOOLEAN, cmdOut : BOOLEAN,
        estop : BOOLEAN, safety : BOOLEAN, txFault : BOOLEAN,
        manual : BOOLEAN, openLoop : BOOLEAN,
        target : BOOLEAN, driven : BOOLEAN, turning : BOOLEAN,
        servo : {"attach", "grip", "release"}, moving : BOOLEAN, attached : BOOLEAN,
        current : Pulse, goal : Pulse, pulsed : BOOLEAN, jaws : Pulse,
        err : Code \cup {None}, hback : HeartbeatAnswer \cup {None}, ack : Answer \cup {None},
        gripDone : BOOLEAN, releaseDone : BOOLEAN]

\* Robot_Init: the RAM starts with open pulses and the servo pulse train off;
\* jaws that stood somewhere stay there.
Started(jaws) ==
    [session |-> None,
     hbSeen |-> FALSE, hbOld |-> FALSE, hbOut |-> FALSE,
     cmdSeen |-> FALSE, cmdOld |-> FALSE, cmdOut |-> FALSE,
     estop |-> FALSE, safety |-> FALSE, txFault |-> FALSE,
     manual |-> FALSE, openLoop |-> FALSE,
     target |-> FALSE, driven |-> FALSE, turning |-> FALSE,
     servo |-> "release", moving |-> FALSE, attached |-> FALSE,
     current |-> "open", goal |-> "open", pulsed |-> FALSE, jaws |-> jaws,
     err |-> None, hback |-> None, ack |-> None, gripDone |-> FALSE, releaseDone |-> FALSE]

\* Robot_StopMotorsImmediate, Robot_HoldServosImmediate and Robot_IsStopped.
Stopped(m) == [m EXCEPT !.target = FALSE, !.driven = FALSE, !.openLoop = FALSE]
Held(m) == [m EXCEPT !.moving = FALSE, !.goal = m.current]
IsStopped(m) == ~m.target /\ ~m.turning

\* QueueError: all but a physical fault stop the wheels at once (an emergency
\* stop has done it), a lost connection holds the servo, a broken byte stream
\* closes the session as well, and a physical fault latches.
Failed(m, code) ==
    LET lost == code \in CommunicationTimeout \cup RequiresNewSession
        stopped == IF code \in Physical \cup {"ESTOP_LATCHED"} THEN m ELSE Stopped(m)
        held == IF lost THEN Held(stopped) ELSE stopped
        closed == IF code \in RequiresNewSession
                  THEN [held EXCEPT !.session = None, !.hbSeen = FALSE, !.cmdSeen = FALSE,
                                    !.manual = FALSE, !.attached = FALSE]
                  ELSE held
    IN [closed EXCEPT !.safety = @ \/ code \in Physical, !.err = code]

\* A watchdog that finds its evidence too old says so, once and for the session.
Late(m, code) ==
    Failed([m EXCEPT !.hbOut = @ \/ code = "HEARTBEAT_TIMEOUT",
                     !.cmdOut = @ \/ code = "COMMAND_TIMEOUT"], code)

Acked(m, answer) == [m EXCEPT !.ack = answer]

-----------------------------------------------------------------------------
(* The commands.                                                             *)

\* ProtocolActuationAllowed: the first reason to refuse an actuation, or None.
Refusal(m) ==
    IF m.estop THEN "ESTOP_LATCHED"
    ELSE IF m.safety THEN "WHEEL_DIR_MISMATCH"
    ELSE IF m.session = None THEN "REQUIRED"
    ELSE IF m.hbOut \/ (m.hbSeen /\ m.hbOld) THEN "HEARTBEAT_TIMEOUT"
    ELSE IF ~m.hbSeen THEN "REQUIRED"
    ELSE IF m.cmdOut \/ (m.cmdSeen /\ m.cmdOld) THEN "COMMAND_TIMEOUT"
    ELSE IF ~m.cmdSeen THEN "REQUIRED"
    ELSE None

Gated(m, allowed) ==
    IF Refusal(m) = None THEN allowed ELSE Late(Stopped(m), Refusal(m))

\* Mutant: the wheels stop and the jaws go on.
EstopWheelsOnly(m) == Acked(Stopped([m EXCEPT !.estop = TRUE]), [kind |-> "other"])

Estop(m) == Acked(Held(Stopped([m EXCEPT !.estop = TRUE])), [kind |-> "other"])

\* Mutant: the wheels go on turning while the session changes.
HelloOnTheMove(m, session) ==
    IF m.estop \/ m.safety \/ m.txFault THEN m
    ELSE [m EXCEPT
             !.session = session,
             !.hbSeen = FALSE, !.hbOld = FALSE, !.hbOut = FALSE,
             !.cmdSeen = FALSE, !.cmdOld = FALSE, !.cmdOut = FALSE,
             !.manual = FALSE, !.attached = FALSE,
             !.ack = [kind |-> "HELLO", session |-> session]]

\* A new session clears the watchdogs and what only they had latched; the one
\* that timed out cannot be opened again.
Hello(m, session) ==
    LET same == m.session = session
        hbLate == same /\ (m.hbOut \/ (m.hbSeen /\ m.hbOld))
        cmdLate == same /\ (m.cmdOut \/ (m.cmdSeen /\ m.cmdOld))
        stopped == Stopped(m)
    IN IF m.estop THEN Failed(stopped, "ESTOP_LATCHED")
       ELSE IF m.txFault THEN stopped
       ELSE IF m.safety THEN Failed(stopped, "WHEEL_DIR_MISMATCH")
       ELSE IF hbLate \/ cmdLate
       THEN Failed([stopped EXCEPT !.hbOut = @ \/ hbLate, !.cmdOut = @ \/ cmdLate],
                   IF hbLate THEN "HEARTBEAT_TIMEOUT" ELSE "COMMAND_TIMEOUT")
       ELSE [stopped EXCEPT
                !.session = session,
                !.hbSeen = FALSE, !.hbOld = FALSE, !.hbOut = FALSE,
                !.cmdSeen = FALSE, !.cmdOld = FALSE, !.cmdOut = FALSE,
                !.manual = FALSE, !.attached = FALSE,
                !.err = IF @ \in CommunicationTimeout THEN None ELSE @,
                !.ack = [kind |-> "HELLO", session |-> session]]

Heartbeat(m, session) ==
    IF m.session # session THEN Failed(m, "REQUIRED")
    ELSE IF m.hbOut \/ (m.hbSeen /\ m.hbOld) THEN Late(m, "HEARTBEAT_TIMEOUT")
    ELSE [m EXCEPT !.hbSeen = TRUE, !.hbOld = FALSE,
                   !.hback = [kind |-> "HB", session |-> session]]

\* V, and the zero probe, a V of no speed that names its session.
Velocity(m, drive, session) ==
    IF m.estop THEN Failed(m, "ESTOP_LATCHED")
    ELSE IF m.session = None THEN Failed(m, "REQUIRED")
    ELSE IF ~m.hbSeen \/ m.hbOut
    THEN Failed(m, IF m.hbOut THEN "HEARTBEAT_TIMEOUT" ELSE "REQUIRED")
    ELSE IF m.cmdOut \/ (m.cmdSeen /\ m.cmdOld) THEN Late(m, "COMMAND_TIMEOUT")
    ELSE IF session \notin {None, m.session} THEN Failed(m, "REQUIRED")
    ELSE [m EXCEPT !.target = drive, !.cmdSeen = TRUE, !.cmdOld = FALSE,
                   !.manual = FALSE, !.openLoop = FALSE,
                   !.ack = IF session = None THEN @ ELSE [kind |-> "zero", session |-> session]]

\* M, the maintenance of one wheel; its stop is accepted without a session.
MotorStop(m) ==
    IF m.estop THEN Failed(m, "ESTOP_LATCHED")
    ELSE Acked([Stopped(m) EXCEPT !.manual = TRUE, !.cmdOld = FALSE], [kind |-> "other"])

MotorTest(m) ==
    IF m.estop THEN Failed(m, "ESTOP_LATCHED")
    ELSE Gated(m, Acked([Stopped(m) EXCEPT !.driven = TRUE, !.manual = TRUE, !.openLoop = TRUE,
                                           !.cmdSeen = TRUE, !.cmdOld = FALSE],
                        [kind |-> "other"]))

\* S,attach: the pulse the sender remembers is put out at once.
Attach(m, pulse) ==
    IF m.estop THEN Failed(m, "ESTOP_LATCHED")
    ELSE IF ~IsStopped(m) THEN Failed(m, "LIFT_WHILE_MOVING")
    ELSE IF m.session = None \/ ~m.hbSeen \/ ~m.cmdSeen \/ m.hbOut \/ m.cmdOut
    THEN Failed(m, "REQUIRED")
    ELSE Acked([Stopped(m) EXCEPT !.current = pulse, !.goal = pulse, !.jaws = pulse,
                                  !.moving = FALSE, !.servo = "attach",
                                  !.pulsed = TRUE, !.attached = TRUE],
               [kind |-> "attach"])

\* S,grip and S,release: a command that is repeated does not start again, and
\* is answered as done when nothing moves. They ask for neither watchdog.
Lift(m, action) ==
    LET on == [m EXCEPT !.pulsed = TRUE, !.jaws = m.current]
        started == [on EXCEPT !.servo = action, !.moving = TRUE,
                              !.goal = IF action = "grip" THEN "grip" ELSE "open"]
        done == ~on.moving
        again == [on EXCEPT !.gripDone = @ \/ (done /\ action = "grip"),
                            !.releaseDone = @ \/ (done /\ action = "release")]
    IN IF m.estop THEN Failed(m, "ESTOP_LATCHED")
       ELSE IF ~IsStopped(m) THEN Failed(m, "LIFT_WHILE_MOVING")
       ELSE IF ~m.attached THEN Failed(m, "SERVO_NOT_ATTACHED")
       ELSE Acked(IF m.servo = action THEN again ELSE started, [kind |-> "other"])

\* Legacy_ApplyCommand, the single letters: stop, drive closed or open loop,
\* move the servo, switch its pulses off.
Legacy(m) == [m EXCEPT !.cmdOld = FALSE]

LegacyStop(m) == Legacy(Stopped(m))

LegacyVector(m) == Gated(m, Legacy([m EXCEPT !.target = TRUE, !.manual = TRUE, !.openLoop = FALSE]))

LegacyOpenLoop(m) ==
    Gated(m, Legacy([m EXCEPT !.target = FALSE, !.driven = TRUE, !.manual = TRUE, !.openLoop = TRUE]))

LegacyPulse(m, pulse) ==
    Gated(m, IF m.attached
             THEN Legacy([Stopped(m) EXCEPT !.pulsed = TRUE, !.jaws = m.current, !.goal = pulse])
             ELSE Failed(Stopped(m), "SERVO_NOT_ATTACHED"))

LegacyPulseOff(m) == Gated(m, Legacy([Stopped(m) EXCEPT !.pulsed = FALSE, !.attached = FALSE]))

\* UART_ParseCommand.
Executed(m, frame) ==
    CASE frame.kind = "ESTOP" -> Estop(m)
      [] frame.kind = "HELLO" -> Hello(m, frame.session)
      [] frame.kind = "HB" -> Heartbeat(m, frame.session)
      [] frame.kind = "V" -> Velocity(m, frame.drive, None)
      [] frame.kind = "zero" -> Velocity(m, FALSE, frame.session)
      [] frame.kind = "M,STOP" -> MotorStop(m)
      [] frame.kind = "M" -> MotorTest(m)
      [] frame.kind = "attach" -> Attach(m, frame.pulse)
      [] frame.kind \in {"grip", "release"} -> Lift(m, frame.kind)
      [] frame.kind = "stop" -> LegacyStop(m)
      [] frame.kind = "vector" -> LegacyVector(m)
      [] frame.kind = "open loop" -> LegacyOpenLoop(m)
      [] frame.kind = "pulse" -> LegacyPulse(m, frame.pulse)
      [] frame.kind = "pulse off" -> LegacyPulseOff(m)
      [] frame.kind = "unknown" -> Failed(m, "UART_RX_ERROR")
      [] frame.kind = "malformed" -> Failed(m, "REQUIRED")

-----------------------------------------------------------------------------
(* The tasks.                                                                *)

\* Mutant: the task leaves the watchdogs to the commands.
StoppingByCommandOnly(m) ==
    \/ m.estop \/ m.safety \/ m.txFault
    \/ ~m.manual /\ ~(m.hbSeen /\ m.cmdSeen)

\* Motor_PID_Task up to the control law: whoever lost authority is stopped,
\* and a watchdog strikes once.
Stopping(m) ==
    \/ m.estop \/ m.safety \/ m.txFault
    \/ ~m.manual /\ ~(m.hbSeen /\ m.cmdSeen)
    \/ ~m.manual /\ m.hbOld
    \/ m.cmdOld

Watched(m) ==
    IF m.estop \/ m.safety \/ m.txFault \/ (~m.manual /\ ~(m.hbSeen /\ m.cmdSeen)) THEN m
    ELSE IF ~m.manual /\ m.hbOld THEN IF m.hbOut THEN m ELSE Late(m, "HEARTBEAT_TIMEOUT")
    ELSE IF m.cmdOut THEN m ELSE Late(m, "COMMAND_TIMEOUT")

\* The control law drives a wheel that is asked to turn, and brings one that
\* is not to rest after some rounds.
Controlled(m) ==
    IF Stopping(m) THEN Stopped(Watched(m))
    ELSE IF m.openLoop THEN m
    ELSE [m EXCEPT !.driven = m.target]

\* A wheel that turns against its target for some rounds is a physical fault.
Regulated(m) == ~Stopping(m) /\ ~m.openLoop /\ m.driven

WrongDirection(m) == Failed(Stopped(m), "WHEEL_DIR_MISMATCH")

\* Servo_Lift_Task: one step towards the goal, and the answer when it is there.
\* A ramp lasts a second at most, so SERVO_TIMEOUT_MS (5 s) does not strike.
ServoStepped(m) ==
    LET next == IF m.current = m.goal THEN m.goal
                ELSE IF m.current = "between" THEN m.goal ELSE "between"
        there == m.moving /\ next = m.goal
    IN [m EXCEPT !.current = next, !.jaws = IF m.pulsed THEN next ELSE @,
                 !.moving = @ /\ ~there,
                 !.gripDone = @ \/ (there /\ m.servo # "release"),
                 !.releaseDone = @ \/ (there /\ m.servo = "release")]

\* UART_SendPending: one answer, the errors first.
Pending(m) ==
    IF m.txFault THEN <<>>
    ELSE IF m.err # None THEN <<[kind |-> "ERR", code |-> m.err]>>
    ELSE IF m.hback # None THEN <<m.hback>>
    ELSE IF m.ack # None THEN <<m.ack>>
    ELSE IF m.gripDone THEN <<[kind |-> "GRIP_DONE"]>>
    ELSE IF m.releaseDone THEN <<[kind |-> "RELEASE_DONE"]>>
    ELSE <<>>

Sent(m) ==
    IF m.txFault THEN m
    ELSE IF m.err # None THEN [m EXCEPT !.err = None]
    ELSE IF m.hback # None THEN [m EXCEPT !.hback = None]
    ELSE IF m.ack # None THEN [m EXCEPT !.ack = None]
    ELSE IF m.gripDone THEN [m EXCEPT !.gripDone = FALSE]
    ELSE [m EXCEPT !.releaseDone = FALSE]

-----------------------------------------------------------------------------
(* The firmware, whatever it is sent and whenever its tasks run.             *)

VARIABLE mcu

FirmwareInit == mcu = Started("open")

Receive(frame) == mcu' = Executed(mcu, frame)

\* Evidence that has come in grows too old.
HeartbeatGrowsOld == mcu.hbSeen /\ mcu' = [mcu EXCEPT !.hbOld = TRUE]
CommandGrowsOld == (mcu.cmdSeen \/ mcu.manual) /\ mcu' = [mcu EXCEPT !.cmdOld = TRUE]

MotorTask == mcu' = Controlled(mcu)
WheelRunsWrong == Regulated(mcu) /\ mcu' = WrongDirection(mcu)
WheelsFollow == mcu' = [mcu EXCEPT !.turning = mcu.driven]
ServoTask == mcu' = ServoStepped(mcu)

SendPending == Pending(mcu) # <<>> /\ mcu' = Sent(mcu)
TransmitFails == mcu' = [Stopped(mcu) EXCEPT !.txFault = TRUE]

\* UART_MaintainRx after a receive error.
ReceiveFails == mcu' = Failed(mcu, "UART_RX_ERROR")

Restart == mcu' = Started(mcu.jaws)

FirmwareNext ==
    \/ \E frame \in Frame : Receive(frame)
    \/ HeartbeatGrowsOld \/ CommandGrowsOld
    \/ MotorTask \/ WheelRunsWrong \/ WheelsFollow \/ ServoTask
    \/ SendPending \/ TransmitFails \/ ReceiveFails \/ Restart

FirmwareSpec == FirmwareInit /\ [][FirmwareNext]_mcu
-----------------------------------------------------------------------------
(* What it promises to whoever is at the other end.                          *)

\* A wheel is driven only inside a session in which a heartbeat and a zero
\* probe have come in, before either watchdog strikes and before a physical
\* fault or an emergency stop, whatever is sent and in whatever order.
Authority ==
    mcu.driven => /\ mcu.session # None
                  /\ mcu.hbSeen /\ mcu.cmdSeen
                  /\ ~mcu.hbOut /\ ~mcu.cmdOut
                  /\ ~mcu.estop /\ ~mcu.safety

\* After an emergency stop nothing moves the jaws or drives a wheel, whatever
\* is still in the queue, until the MCU starts again.
EstopFreezes ==
    [][mcu.estop /\ mcu'.estop => mcu'.jaws = mcu.jaws /\ ~mcu'.driven]_mcu
=============================================================================
