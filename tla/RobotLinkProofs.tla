-------------------------- MODULE RobotLinkProofs --------------------------
(* What the link keeps to for every set of sessions, every length of the     *)
(* line and any number of troubles: its types, that the firmware inside it   *)
(* is the firmware of Firmware.tla, and that both ends agree on the session. *)
EXTENDS RobotLink, FirmwareProofs, SequenceTheorems

-----------------------------------------------------------------------------
(* Types.                                                                    *)

LEMMA FrameKinds ==
  /\ [kind |-> "ESTOP"] \in Frame
  /\ [kind |-> "grip"] \in Frame /\ [kind |-> "release"] \in Frame
  /\ \A s \in Session : /\ [kind |-> "HELLO", session |-> s] \in Frame
                        /\ [kind |-> "HB", session |-> s] \in Frame
                        /\ [kind |-> "zero", session |-> s] \in Frame
  /\ \A d \in BOOLEAN : [kind |-> "V", drive |-> d] \in Frame
  /\ \A p \in Pulse : [kind |-> "attach", pulse |-> p] \in Frame
  BY DEF Frame

LEMMA FramesOf ==
  ASSUME NEW b \in Bridges
  PROVE  HelloOf(b) \in Frame /\ HeartbeatOf(b) \in Frame /\ ZeroOf(b) \in Frame /\ AttachOf(b) \in Frame
<1>1. b.session \in Session /\ b.baseline \in Pulse
  BY DEF Bridges
<1> QED
  BY <1>1, FrameKinds DEF HelloOf, HeartbeatOf, ZeroOf, AttachOf

LEMMA WithType ==
  ASSUME NEW frames \in SUBSET Frame, NEW frame \in Frame
  PROVE  With(frames, frame) \subseteq Frame
  BY DEF With

LEMMA LatchedType ==
  ASSUME NEW b \in Bridges, NEW class \in {"recoverable", "emergency"}
  PROVE  Latched(b, class) \in Bridges
  BY DEF Bridges, Latched

LEMMA ResetType ==
  ASSUME NEW b \in Bridges, NEW session \in Session, NEW acks \in 0..Acks
  PROVE  [b EXCEPT !.session = session, !.recovering = TRUE, !.recovered = FALSE, !.acks = acks]
           \in Bridges
  BY DEF Bridges

LEMMA UnprovenType ==
  ASSUME NEW b \in Bridges
  PROVE  [b EXCEPT !.hello = FALSE, !.overdue = FALSE, !.fresh = "none", !.zeroAcked = FALSE,
                   !.attachSent = FALSE] \in Bridges
  BY DEF Bridges

LEMMA RenewedType ==
  ASSUME NEW b \in Bridges, NEW session \in Session
  PROVE  [b EXCEPT !.session = session, !.recovering = TRUE, !.recovered = FALSE, !.acks = 0,
                   !.hello = FALSE, !.overdue = FALSE, !.fresh = "none", !.zeroAcked = FALSE,
                   !.attachSent = FALSE] \in Bridges
<1> DEFINE reset == [b EXCEPT !.session = session, !.recovering = TRUE, !.recovered = FALSE,
                              !.acks = 0]
<1>1. 0 \in 0..Acks
  BY LinkAssumption
<1>2. [reset EXCEPT !.hello = FALSE, !.overdue = FALSE, !.fresh = "none", !.zeroAcked = FALSE,
                    !.attachSent = FALSE] \in Bridges
  BY <1>1, ResetType, UnprovenType
<1> QED
  BY <1>2

\* The scheduler, the mission, and what a step of the bridge leaves to the line.
Queued == out \in SUBSET Frame /\ actions \in Seq({"grip", "release"}) /\ Len(actions) <= Backlog
Staged == mission \in Mission /\ halt \in {None, "recoverable", "emergency"}
Typed == bridge \in Bridges /\ Queued /\ Staged /\ luck \in 0..Luck

LEMMA HaltsType ==
  ASSUME Staged, NEW class \in {"recoverable", "emergency"}, Halts(class) PROVE Staged'
  BY DEF Staged, Halts, Mission

LEMMA NoActions == <<>> \in Seq({"grip", "release"}) /\ Len(<<>>) <= Backlog
  BY LinkAssumption

LEMMA QueuesType ==
  ASSUME Queued, NEW frame \in Frame, UNCHANGED actions,
         out' = out \/ out' = With(out, frame)
  PROVE  Queued'
  BY WithType DEF Queued

LEMMA RecoverType ==
  ASSUME NEW b \in Bridges, Queued, Staged, Recover(b)
  PROVE  bridge' \in Bridges /\ Queued' /\ Staged'
<1>1. CASE b.recovering \/ b.estop
  BY <1>1 DEF Recover, Queued, Staged, scheduler
<1>2. CASE ~b.recovering /\ ~b.estop
  <2> DEFINE new == CHOOSE session \in Unused : TRUE
  <2>1. new \in Session
    BY <1>2 DEF Recover, Unused
  <2> HIDE DEF new
  <2>2. bridge' = [Latched(b, "recoverable") EXCEPT
                     !.session = new, !.recovering = TRUE, !.recovered = FALSE, !.acks = 0,
                     !.hello = FALSE, !.overdue = FALSE, !.fresh = "none", !.zeroAcked = FALSE,
                     !.attachSent = FALSE]
        /\ out' = {HelloOf(bridge')} /\ actions' = <<>> /\ Halts("recoverable")
    BY <1>2 DEF Recover, new
  <2>3. bridge' \in Bridges
    BY <2>1, <2>2, LatchedType, RenewedType
  <2>4. Queued'
    BY <2>2, <2>3, FramesOf, NoActions DEF Queued
  <2> QED BY <2>2, <2>3, <2>4, HaltsType
<1> QED
  BY <1>1, <1>2

LEMMA PendingType ==
  ASSUME NEW m \in Mcu, Pending(m) # <<>>
  PROVE  Pending(m) \in Seq(Answer) /\ Len(Pending(m)) = 1
<1>1. /\ m.err # None => [kind |-> "ERR", code |-> m.err] \in Answer
      /\ m.hback # None => m.hback \in Answer
      /\ m.ack # None => m.ack \in Answer
  BY AnswerKinds DEF Mcu
<1>2. \A answer \in Answer : <<answer>> \in Seq(Answer) /\ Len(<<answer>>) = 1
  OBVIOUS
<1> QED
  BY <1>1, <1>2, AnswerKinds DEF Pending

LEMMA LineType ==
  ASSUME NEW S, NEW line \in Seq(S), Len(line) < Line, NEW x \in S
  PROVE  Append(line, x) \in Seq(S) /\ Len(Append(line, x)) <= Line
  BY LinkAssumption

LEMMA LongerType ==
  ASSUME NEW S, NEW line \in Seq(S), Len(line) < Line, NEW more \in Seq(S), Len(more) = 1
  PROVE  line \o more \in Seq(S) /\ Len(line \o more) <= Line
<1>1. line \o more \in Seq(S) /\ Len(line \o more) = Len(line) + Len(more)
  BY ConcatProperties
<1>2. Len(line) \in Nat
  BY LenProperties
<1> QED
  BY <1>1, <1>2, LinkAssumption

LEMMA ShorterType ==
  ASSUME NEW S, NEW line \in Seq(S), line # <<>>, Len(line) <= Line
  PROVE  Tail(line) \in Seq(S) /\ Len(Tail(line)) <= Line /\ Head(line) \in S
  BY LinkAssumption

LEMMA StruckType ==
  ASSUME luck \in 0..Luck, NEW trouble, Strikes(trouble) PROVE luck' \in 0..Luck
  BY LinkAssumption DEF Strikes

LEMMA TypedParts == TypeOK => Typed
  BY DEF TypeOK, Typed, Queued, Staged

LEMMA OrdersType ==
  ASSUME Queued, luck \in 0..Luck, Orders PROVE actions' \in Seq({"grip", "release"})
                                                  /\ Len(actions') <= Backlog /\ luck' \in 0..Luck
<1>1. CASE bridge.connected /\ Healthy(bridge) /\ bridge.attached
  <2>1. luck' \in 0..Luck
    BY <1>1, StruckType DEF Orders
  <2>2. Len(actions) < Backlog /\ actions' = Append(actions, Asked)
    BY <1>1 DEF Orders
  <2>3. Asked \in {"grip", "release"}
    BY DEF Asked
  <2> QED BY <2>1, <2>2, <2>3, LinkAssumption DEF Queued
<1>2. CASE ~(bridge.connected /\ Healthy(bridge) /\ bridge.attached)
  BY <1>2 DEF Orders, Queued
<1> QED
  BY <1>1, <1>2

LEMMA BridgeStepType == ASSUME TypeOK, BridgeStep PROVE Typed'
<1>1. bridge \in Bridges /\ Queued /\ Staged /\ luck \in 0..Luck
  BY TypedParts DEF Typed
<1>2. CASE SendHello
  <2>1. UNCHANGED <<bridge, actions, mission, halt>> /\ out' = With(out, HelloOf(bridge))
        /\ luck' \in 0..Luck
    BY <1>1, <1>2, StruckType DEF SendHello, Repeats
  <2> QED BY <1>1, <2>1, FramesOf, QueuesType DEF Typed, Staged
<1>3. CASE HandshakeTimeout
  <2>1. bridge' = Latched(bridge, "emergency") /\ Halts("emergency")
        /\ UNCHANGED <<out, actions, luck>>
    BY <1>3 DEF HandshakeTimeout, scheduler
  <2> QED BY <1>1, <2>1, LatchedType, HaltsType DEF Typed, Queued
<1>4. CASE SendZero
  <2>1. UNCHANGED <<bridge, actions, mission, halt>> /\ out' = With(out, ZeroOf(bridge))
        /\ luck' \in 0..Luck
    BY <1>1, <1>4, StruckType DEF SendZero, Repeats
  <2> QED BY <1>1, <2>1, FramesOf, QueuesType DEF Typed, Staged
<1>5. CASE SendAttach
  <2>1. bridge' = [bridge EXCEPT !.attachSent = TRUE] /\ out' = With(out, AttachOf(bridge))
        /\ UNCHANGED <<actions, mission, halt>> /\ luck' \in 0..Luck
    BY <1>1, <1>5, StruckType DEF SendAttach, Repeats
  <2>2. [bridge EXCEPT !.attachSent = TRUE] \in Bridges
    BY <1>1 DEF Bridges
  <2> QED BY <1>1, <2>1, <2>2, FramesOf, QueuesType DEF Typed, Staged
<1>6. CASE SendHeartbeat
  <2>1. UNCHANGED <<bridge, actions, mission, halt, luck>> /\ out' = With(out, HeartbeatOf(bridge))
    BY <1>6 DEF SendHeartbeat
  <2> QED BY <1>1, <2>1, FramesOf, QueuesType DEF Typed, Staged
<1>7. CASE HeartbeatLate
  <2>1. Recover(bridge) /\ UNCHANGED luck
    BY <1>7 DEF HeartbeatLate
  <2> QED BY <1>1, <2>1, RecoverType DEF Typed
<1>8. CASE SendVelocity
  <2> DEFINE drive == Up(bridge) /\ halt = None /\ mission \in {"empty", "carry"}
  <2>1. UNCHANGED <<bridge, actions, mission, halt, luck>>
        /\ out' = With(out, [kind |-> "V", drive |-> drive])
    BY <1>8 DEF SendVelocity
  <2>2. drive \in BOOLEAN
    OBVIOUS
  <2> HIDE DEF drive
  <2>3. [kind |-> "V", drive |-> drive] \in Frame
    BY <2>2, FrameKinds
  <2> QED BY <1>1, <2>1, <2>3, QueuesType DEF Typed, Staged
<1>9. CASE SendGrip
  <2> DEFINE baseline == IF Asked = "grip" THEN "grip" ELSE "open"
             moved == [bridge EXCEPT !.action = Asked, !.baseline = baseline]
  <2>1. bridge' = moved /\ Orders /\ UNCHANGED <<out, mission, halt>>
    BY <1>9 DEF SendGrip
  <2>2. Asked \in {"grip", "release"} /\ baseline \in Pulse
    BY DEF Asked, Pulse
  <2> HIDE DEF baseline
  <2>3. moved \in Bridges
    BY <1>1, <2>2 DEF Bridges
  <2> HIDE DEF moved
  <2>4. Queued' /\ luck' \in 0..Luck
    BY <1>1, <2>1, OrdersType DEF Queued
  <2> QED BY <1>1, <2>1, <2>3, <2>4 DEF Typed, Staged
<1> QED
  BY <1>2, <1>3, <1>4, <1>5, <1>6, <1>7, <1>8, <1>9 DEF BridgeStep

LEMMA HelloAckType ==
  ASSUME TypeOK, NEW answer, HelloAck(answer) PROVE bridge' \in Bridges /\ Queued'
<1>1. [bridge EXCEPT !.hello = TRUE] \in Bridges
  BY DEF TypeOK, Bridges
<1>2. /\ bridge' \in {bridge, [bridge EXCEPT !.hello = TRUE]}
      /\ UNCHANGED actions /\ (out' = out \/ out' = With(out, HeartbeatOf(bridge)))
  BY DEF HelloAck, scheduler
<1>3. bridge \in Bridges /\ Queued
  BY DEF TypeOK, Queued
<1> QED
  BY <1>1, <1>2, <1>3, FramesOf, QueuesType

LEMMA AckedTypes ==
  ASSUME NEW b \in Bridges, NEW acks \in 0..Acks, NEW recovering \in BOOLEAN,
         NEW recovered \in BOOLEAN, NEW fault \in {None, "recoverable", "emergency"},
         NEW blocked \in BOOLEAN
  PROVE  [b EXCEPT !.fresh = "fresh", !.acks = acks, !.recovering = recovering,
                   !.recovered = recovered, !.fault = fault, !.blocked = blocked] \in Bridges
  BY DEF Bridges

LEMMA HeartbeatAckType ==
  ASSUME TypeOK, NEW answer, HeartbeatAck(answer)
  PROVE  bridge' \in Bridges /\ Queued'
<1> USE DEF TypeOK
<1>1. CASE answer.session # bridge.session \/ ~bridge.hello \/ Silenced(bridge)
  BY <1>1 DEF HeartbeatAck, scheduler, Queued
<1>2. CASE ~(answer.session # bridge.session \/ ~bridge.hello \/ Silenced(bridge))
  <2> DEFINE done == bridge.recovering /\ bridge.acks + 1 >= Acks
             acks == IF done \/ ~bridge.recovering THEN 0 ELSE bridge.acks + 1
             recovering == bridge.recovering /\ ~done
             recovered == bridge.recovered \/ done
             fault == IF done /\ bridge.fault = "recoverable" THEN None ELSE bridge.fault
             blocked == bridge.blocked /\ ~done
             b == [bridge EXCEPT !.fresh = "fresh", !.acks = acks, !.recovering = recovering,
                                 !.recovered = recovered, !.fault = fault, !.blocked = blocked]
  <2>1. bridge.acks \in 0..Acks /\ bridge.fault \in {None, "recoverable", "emergency"}
    BY DEF Bridges
  <2>2. acks \in 0..Acks
    BY <2>1, LinkAssumption
  <2>3. recovering \in BOOLEAN /\ recovered \in BOOLEAN /\ blocked \in BOOLEAN
        /\ fault \in {None, "recoverable", "emergency"}
    BY <2>1
  <2>4. bridge' = b /\ UNCHANGED actions /\ (out' = out \/ out' = With(out, ZeroOf(b)))
    BY <1>2 DEF HeartbeatAck
  <2> HIDE DEF done, acks, recovering, recovered, fault, blocked
  <2>5. b \in Bridges
    BY <2>2, <2>3, AckedTypes
  <2> HIDE DEF b
  <2>6. ZeroOf(b) \in Frame /\ Queued
    BY <2>5, FramesOf DEF Queued
  <2> QED BY <2>4, <2>5, <2>6, QueuesType
<1> QED
  BY <1>1, <1>2

LEMMA ZeroAckType ==
  ASSUME TypeOK, NEW answer, ZeroAck(answer) PROVE bridge' \in Bridges /\ Queued'
<1> USE DEF TypeOK
<1>1. CASE answer.session # bridge.session \/ ~Fresh(bridge) \/ ~Healthy(bridge)
  BY <1>1 DEF ZeroAck, scheduler, Queued
<1>2. CASE ~(answer.session # bridge.session \/ ~Fresh(bridge) \/ ~Healthy(bridge))
  <2> DEFINE b == [bridge EXCEPT !.zeroAcked = TRUE]
             sent == b.attachSent \/ MayAttach(b)
             c == [b EXCEPT !.attachSent = sent]
  <2>1. b \in Bridges
    BY DEF Bridges
  <2>2. bridge' = c /\ UNCHANGED actions /\ (out' = out \/ out' = With(out, AttachOf(b)))
    BY <1>2 DEF ZeroAck
  <2>3. sent \in BOOLEAN
    OBVIOUS
  <2> HIDE DEF b, sent
  <2>4. c \in Bridges
    BY <2>1, <2>3 DEF Bridges
  <2>5. AttachOf(b) \in Frame /\ Queued
    BY <2>1, FramesOf DEF Queued
  <2> QED BY <2>2, <2>4, <2>5, QueuesType
<1> QED
  BY <1>1, <1>2

LEMMA AttachAckType ==
  ASSUME TypeOK, AttachAck PROVE bridge' \in Bridges /\ Queued'
<1> DEFINE attached == bridge.attached \/ (/\ bridge.attachSent /\ bridge.zeroAcked
                                           /\ Fresh(bridge) /\ ~bridge.blocked
                                           /\ Healthy(bridge))
<1>1. bridge' = [bridge EXCEPT !.attached = attached] /\ UNCHANGED <<out, actions>>
  BY DEF AttachAck, scheduler
<1>2. attached \in BOOLEAN
  OBVIOUS
<1> HIDE DEF attached
<1>3. [bridge EXCEPT !.attached = attached] \in Bridges
  BY <1>2 DEF TypeOK, Bridges
<1> QED
  BY <1>1, <1>3 DEF TypeOK, Queued

LEMMA ErrorType ==
  ASSUME TypeOK, NEW code, Error(code) PROVE bridge' \in Bridges /\ Queued' /\ Staged'
<1> USE DEF TypeOK, scheduler
<1> DEFINE Fine == bridge' \in Bridges /\ Queued' /\ Staged'
<1>1. Queued /\ Staged /\ bridge \in Bridges
  BY DEF Queued, Staged
<1>6. ASSUME UNCHANGED scheduler PROVE Queued'
  BY <1>1, <1>6 DEF Queued
<1>2. [bridge EXCEPT !.attached = FALSE, !.blocked = FALSE] \in Bridges
  BY DEF Bridges
<1>3. ASSUME Recover(bridge) PROVE Fine
  BY <1>1, <1>3, RecoverType
<1>4. \A estop \in BOOLEAN : Latched([bridge EXCEPT !.estop = estop], "emergency") \in Bridges
  <2> SUFFICES ASSUME NEW estop \in BOOLEAN
               PROVE  Latched([bridge EXCEPT !.estop = estop], "emergency") \in Bridges
    OBVIOUS
  <2>1. [bridge EXCEPT !.estop = estop] \in Bridges
    BY DEF Bridges
  <2> QED BY <2>1, LatchedType
<1>5. (bridge.estop \/ code = "ESTOP_LATCHED") \in BOOLEAN
  OBVIOUS
<1>7. CASE UNCHANGED <<bridge, scheduler, mission, halt>>
  BY <1>1, <1>6, <1>7 DEF Staged
<1>8. CASE bridge' = [bridge EXCEPT !.attached = FALSE, !.blocked = FALSE]
           /\ Halts("recoverable") /\ UNCHANGED scheduler
  BY <1>1, <1>2, <1>6, <1>8, HaltsType
<1>9. CASE /\ bridge' = Latched([bridge EXCEPT !.estop = @ \/ code = "ESTOP_LATCHED"], "emergency")
           /\ Halts("emergency") /\ UNCHANGED scheduler
  BY <1>1, <1>4, <1>5, <1>6, <1>9, HaltsType
<1> QED
  BY <1>3, <1>7, <1>8, <1>9 DEF Error

LEMMA LiftedType ==
  ASSUME TypeOK, NEW action, Lifted(action)
  PROVE  bridge' \in Bridges /\ Queued' /\ Staged'
<1> DEFINE next == IF bridge.action = action THEN None ELSE bridge.action
<1>1. next \in {None, "grip", "release"}
  BY DEF TypeOK, Bridges
<1>2. bridge' = [bridge EXCEPT !.action = next] /\ UNCHANGED <<out, actions, halt>>
  BY DEF Lifted, scheduler
<1>3. mission' \in Mission
  BY DEF TypeOK, Mission, Lifted
<1> HIDE DEF next
<1>4. [bridge EXCEPT !.action = next] \in Bridges
  BY <1>1 DEF TypeOK, Bridges
<1> QED
  BY <1>2, <1>3, <1>4 DEF TypeOK, Queued, Staged

LEMMA ReadAnswerType == ASSUME TypeOK, ReadAnswer PROVE Typed'
<1> DEFINE answer == Head(toPi)
<1>1. UNCHANGED luck /\ Typed
  BY TypedParts DEF ReadAnswer
<1> HIDE DEF answer
<1>2. \/ HelloAck(answer) /\ UNCHANGED <<mission, halt>>
      \/ HeartbeatAck(answer) /\ UNCHANGED <<mission, halt>>
      \/ ZeroAck(answer) /\ UNCHANGED <<mission, halt>>
      \/ AttachAck /\ UNCHANGED <<mission, halt>>
      \/ Error(answer.code)
      \/ Lifted("grip") \/ Lifted("release")
      \/ UNCHANGED <<bridge, out, actions, mission, halt>>
  BY DEF ReadAnswer, answer, scheduler
<1>3. bridge' \in Bridges /\ Queued'
  BY <1>1, <1>2, HelloAckType, HeartbeatAckType, ZeroAckType, AttachAckType, ErrorType, LiftedType
  DEF Typed, Queued
<1>4. Staged'
  BY <1>1, <1>2, ErrorType, LiftedType DEF Typed, Staged
<1> QED
  BY <1>1, <1>3, <1>4 DEF Typed

\* The steps that send and take nothing but change what the bridge and the
\* mission have; the answers of an overdue handshake may be lost.
LEMMA QuietStepType ==
  ASSUME TypeOK, \/ ReadTelemetry \/ NextStage \/ Rearm \/ Reconnect \/ AckGrowsOld
                 \/ HandshakeGrowsOld \/ EmergencyStop
  PROVE  Typed' /\ UNCHANGED <<toMcu, mcu>> /\ toPi' \in {toPi, <<>>}
<1>0. bridge \in Bridges /\ Queued /\ Staged /\ luck \in 0..Luck
  BY TypedParts DEF Typed
<1> USE DEF Typed, scheduler
<1>1. CASE ReadTelemetry
  <2>1. mcu.current \in Pulse
    BY DEF TypeOK, Mcu
  <2>2. \A pulse \in Pulse : [bridge EXCEPT !.baseline = pulse] \in Bridges
    BY <1>0 DEF Bridges
  <2> QED BY <1>0, <1>1, <2>1, <2>2 DEF ReadTelemetry, Queued, Staged
<1>2. CASE NextStage \/ Rearm
  BY <1>0, <1>2 DEF NextStage, Rearm, Queued, Staged, Mission
<1>3. CASE Reconnect
  <2> DEFINE fault == IF bridge.fault = "recoverable" THEN None ELSE bridge.fault
             b == [bridge EXCEPT !.connected = TRUE, !.blocked = FALSE, !.fault = fault]
  <2>1. fault \in {None, "recoverable", "emergency"}
    BY <1>0 DEF Bridges
  <2>2. Recover(b) /\ UNCHANGED <<mcu, toMcu, toPi, luck>>
    BY <1>3 DEF Reconnect
  <2> HIDE DEF fault
  <2>3. b \in Bridges
    BY <1>0, <2>1 DEF Bridges
  <2> HIDE DEF b
  <2> QED BY <1>0, <2>2, <2>3, RecoverType
<1>4. CASE AckGrowsOld \/ HandshakeGrowsOld
  <2>1. /\ [bridge EXCEPT !.fresh = "old"] \in Bridges
        /\ [bridge EXCEPT !.overdue = TRUE] \in Bridges
    BY <1>0 DEF Bridges
  <2>2. luck' \in 0..Luck
    BY <1>0, <1>4, StruckType DEF AckGrowsOld, HandshakeGrowsOld
  <2> QED BY <1>0, <1>4, <2>1, <2>2 DEF AckGrowsOld, HandshakeGrowsOld, Queued, Staged
<1>5. CASE EmergencyStop
  <2>1. [bridge EXCEPT !.estop = TRUE, !.attached = FALSE, !.blocked = TRUE] \in Bridges
    BY <1>0 DEF Bridges
  <2>2. (IF bridge.connected THEN {[kind |-> "ESTOP"]} ELSE {}) \in SUBSET Frame
    BY FrameKinds
  <2>3. luck' \in 0..Luck /\ Staged'
    BY <1>0, <1>5, StruckType, HaltsType DEF EmergencyStop
  <2>4. Queued'
    BY <1>5, <2>2, NoActions DEF EmergencyStop, Queued
  <2> QED BY <1>5, <2>1, <2>3, <2>4 DEF EmergencyStop
<1> QED
  BY <1>1, <1>2, <1>3, <1>4, <1>5

\* The steps at the end of the line, and what happens to the MCU.
LEMMA FirmwareEndStep ==
  ASSUME TypeOK, \/ ReceiveCommand \/ Answers \/ Task \/ EvidenceGrowsOld \/ WheelMismatch
                 \/ Garbled \/ McuRestarts
  PROVE  /\ FirmwareNext /\ Typed'
         /\ toMcu' = toMcu \/ toMcu' = <<>> \/ (toMcu # <<>> /\ toMcu' = Tail(toMcu))
         /\ toPi' = toPi \/ (Len(toPi) < Line /\ Pending(mcu) # <<>> /\ toPi' = toPi \o Pending(mcu))
<1> USE DEF TypeOK, Typed, Queued, Staged, scheduler
<1>1. CASE ReceiveCommand
  <2>1. Head(toMcu) \in Frame
    BY <1>1, ShorterType DEF ReceiveCommand
  <2> QED BY <1>1, <2>1 DEF ReceiveCommand, FirmwareNext
<1>2. CASE Answers
  BY <1>2 DEF Answers, SendPending, FirmwareNext
<1>3. CASE Task
  BY <1>3 DEF Task, FirmwareNext
<1>4. CASE EvidenceGrowsOld
  BY <1>4, StruckType DEF EvidenceGrowsOld, FirmwareNext
<1>5. CASE WheelMismatch
  BY <1>5, StruckType DEF WheelMismatch, FirmwareNext
<1>6. CASE Garbled
  BY <1>6, StruckType DEF Garbled, FirmwareNext
<1>7. CASE McuRestarts
  BY <1>7, StruckType DEF McuRestarts, FirmwareNext
<1> QED
  BY <1>1, <1>2, <1>3, <1>4, <1>5, <1>6, <1>7

\* Whatever the link does, it does nothing to the firmware that the firmware
\* alone, sent anything at any time, could not do.
LEMMA LinkStep == TypeOK /\ [Next]_vars => [FirmwareNext]_mcu
<1> SUFFICES ASSUME TypeOK, Next PROVE FirmwareNext \/ UNCHANGED mcu
  BY DEF vars
<1>1. CASE WriteNext \/ BridgeStep \/ ReadAnswer \/ Lost \/ Unplugged
  BY <1>1 DEF WriteNext, BridgeStep, ReadAnswer, Lost, Unplugged
<1>2. CASE \/ ReadTelemetry \/ NextStage \/ Rearm \/ Reconnect \/ AckGrowsOld
           \/ HandshakeGrowsOld \/ EmergencyStop
  BY <1>2, QuietStepType
<1>3. CASE \/ ReceiveCommand \/ Answers \/ Task \/ EvidenceGrowsOld \/ WheelMismatch
           \/ Garbled \/ McuRestarts
  BY <1>3, FirmwareEndStep
<1> QED
  BY <1>1, <1>2, <1>3 DEF Next, Trouble

LEMMA LinkTypeInit == Init => TypeOK
<1> SUFFICES ASSUME Init PROVE TypeOK
  OBVIOUS
<1>1. mcu \in Mcu
  BY FirmwareTypeInit DEF Init, FirmwareTypeOK
<1>2. FirstSession \in Session /\ 0 \in 0..Acks /\ "open" \in Pulse
  BY LinkAssumption DEF FirstSession, Pulse
<1>3. bridge \in Bridges
  BY <1>2 DEF Init, Bridges
<1>4. /\ out \in SUBSET Frame /\ mission \in Mission /\ luck \in 0..Luck
      /\ actions \in Seq({"grip", "release"}) /\ Len(actions) <= Backlog
      /\ halt \in {None, "recoverable", "emergency"}
  BY LinkAssumption, NoActions DEF Init, Mission
<1>5. toMcu \in Seq(Frame) /\ Len(toMcu) <= Line /\ toPi \in Seq(Answer) /\ Len(toPi) <= Line
  BY LinkAssumption DEF Init
<1> QED
  BY <1>1, <1>3, <1>4, <1>5 DEF TypeOK

LEMMA EmptyType == \A S : <<>> \in Seq(S) /\ Len(<<>>) <= Line
  BY LinkAssumption

LEMMA PopsType == ASSUME Queued, NEW frame, Pops(frame) PROVE Queued'
<1>1. CASE out' = out \ {frame} /\ UNCHANGED actions
  BY <1>1 DEF Queued
<1>2. CASE actions # <<>> /\ actions' = Tail(actions) /\ UNCHANGED out
  BY <1>2, LinkAssumption DEF Queued
<1> QED
  BY <1>1, <1>2 DEF Pops

LEMMA LinkTypeStep == TypeOK /\ [Next]_vars => TypeOK'
<1> SUFFICES ASSUME TypeOK, [Next]_vars PROVE TypeOK'
  OBVIOUS
<1>1. mcu' \in Mcu
  BY LinkStep, FirmwareTypeStep DEF TypeOK, FirmwareTypeOK
<1> DEFINE Lines == /\ toMcu \in Seq(Frame) /\ Len(toMcu) <= Line
                    /\ toPi \in Seq(Answer) /\ Len(toPi) <= Line
<1>2. Lines /\ Typed
  BY TypedParts DEF TypeOK
<1>3. SUFFICES Lines' /\ Typed'
  BY <1>1 DEF TypeOK, Typed, Queued, Staged
<1>4. CASE WriteNext
  <2>1. PICK frame \in Frame : Pops(frame) /\ toMcu' = Append(toMcu, frame)
    BY <1>4 DEF WriteNext
  <2>2. Queued'
    BY <1>2, <2>1, PopsType DEF Typed
  <2> QED BY <1>2, <1>4, <2>1, <2>2, LineType DEF WriteNext, Typed, Staged
<1>5. CASE BridgeStep
  BY <1>2, <1>5, BridgeStepType DEF BridgeStep
<1>6. CASE ReadAnswer
  <2>1. Typed'
    BY <1>6, ReadAnswerType
  <2>2. toPi # <<>> /\ toPi' = Tail(toPi) /\ UNCHANGED toMcu
    BY <1>6 DEF ReadAnswer
  <2> QED BY <1>2, <2>1, <2>2, ShorterType
<1>7. CASE \/ ReadTelemetry \/ NextStage \/ Rearm \/ Reconnect \/ AckGrowsOld
           \/ HandshakeGrowsOld \/ EmergencyStop
  BY <1>2, <1>7, QuietStepType, EmptyType
<1>8. CASE \/ ReceiveCommand \/ Answers \/ Task \/ EvidenceGrowsOld \/ WheelMismatch
           \/ Garbled \/ McuRestarts
  <2>1. toMcu' \in Seq(Frame) /\ Len(toMcu') <= Line
    BY <1>2, <1>8, FirmwareEndStep, ShorterType, EmptyType
  <2>2. toPi' \in Seq(Answer) /\ Len(toPi') <= Line
    <3>1. CASE toPi' = toPi
      BY <1>2, <3>1
    <3>2. CASE Len(toPi) < Line /\ Pending(mcu) # <<>> /\ toPi' = toPi \o Pending(mcu)
      <4>1. Pending(mcu) \in Seq(Answer) /\ Len(Pending(mcu)) = 1
        BY <3>2, PendingType DEF TypeOK
      <4> QED BY <1>2, <3>2, <4>1, LongerType
    <3> QED BY <1>8, <3>1, <3>2, FirmwareEndStep
  <2> QED BY <1>8, <2>1, <2>2, FirmwareEndStep
<1>9. CASE Lost
  <2>1. toPi # <<>> /\ toPi' = Tail(toPi) /\ UNCHANGED <<bridge, out, actions, toMcu, mission, halt>>
        /\ luck' \in 0..Luck
    BY <1>2, <1>9, StruckType DEF Lost, Typed, scheduler
  <2> QED BY <1>2, <2>1, ShorterType DEF Typed, Queued, Staged
<1>10. CASE Unplugged
  <2>1. [bridge EXCEPT !.connected = FALSE] \in Bridges
    BY <1>2 DEF Typed, Bridges
  <2>2. bridge' \in Bridges /\ out' = {} /\ actions' = <<>> /\ toPi' = <<>>
        /\ toMcu' \in {toMcu, <<>>} /\ Staged' /\ luck' \in 0..Luck
    BY <1>2, <1>10, <2>1, LatchedType, HaltsType, StruckType DEF Unplugged, Typed
  <2>3. Queued'
    BY <2>2, NoActions DEF Queued
  <2> QED BY <1>2, <2>2, <2>3, EmptyType DEF Typed
<1>11. CASE UNCHANGED vars
  BY <1>2, <1>11 DEF vars, Typed, Queued, Staged
<1> QED
  BY <1>4, <1>5, <1>6, <1>7, <1>8, <1>9, <1>10, <1>11 DEF Next, Trouble

\* The link keeps its types: nothing but frames and answers on the lines, and
\* no line longer than it is.
THEOREM LinkTypes == Spec => []TypeOK
  BY LinkTypeInit, LinkTypeStep, PTL DEF Spec

\* The firmware in the link is the firmware of any sender.
THEOREM LinkIsFirmware == Spec => FirmwareSpec
<1>1. Init => FirmwareInit
  BY DEF Init
<1> QED
  BY <1>1, LinkStep, LinkTypes, PTL DEF Spec, FirmwareSpec

\* So it drives a wheel only with authority, and freezes after a stop.
THEOREM LinkAuthority == Spec => []Authority
  BY LinkIsFirmware, AuthorityHolds

THEOREM LinkEstop == Spec => EstopFreezes
  BY LinkIsFirmware, EstopHolds

-----------------------------------------------------------------------------
(* The session. No operation of the firmware opens one but HELLO, and none   *)
(* acknowledges a HELLO but that one.                                        *)

Greets(answer) == answer # None /\ answer.kind = "HELLO"

Quiet(m, n) == n.session \in {m.session, None} /\ (Greets(n.ack) => n.ack = m.ack)

LEMMA QuietOn == ASSUME NEW m, NEW n, NEW o, Quiet(m, n), Quiet(n, o) PROVE Quiet(m, o)
  BY DEF Quiet

LEMMA QuietSame ==
  ASSUME NEW m, NEW n, n.session = m.session, n.ack = m.ack PROVE Quiet(m, n)
  BY DEF Quiet

LEMMA QuietStopped == ASSUME NEW m \in Mcu PROVE Quiet(m, Stopped(m))
  BY DEF Mcu, Stopped, Quiet

LEMMA QuietHeld == ASSUME NEW m \in Mcu PROVE Quiet(m, Held(m))
  BY DEF Mcu, Held, Quiet

LEMMA QuietClosed ==
  ASSUME NEW m \in Mcu
  PROVE  Quiet(m, [m EXCEPT !.session = None, !.hbSeen = FALSE, !.cmdSeen = FALSE,
                            !.manual = FALSE, !.attached = FALSE])
  BY DEF Mcu, Quiet

LEMMA QuietLatched ==
  ASSUME NEW m \in Mcu, NEW latched, NEW code
  PROVE  Quiet(m, [m EXCEPT !.safety = latched, !.err = code])
  BY DEF Mcu, Quiet

LEMMA QuietFailed == ASSUME NEW m \in Mcu, NEW code \in Code PROVE Quiet(m, Failed(m, code))
<1> DEFINE lost == code \in CommunicationTimeout \cup RequiresNewSession
           stopped == IF code \in Physical \cup {"ESTOP_LATCHED"} THEN m ELSE Stopped(m)
           held == IF lost THEN Held(stopped) ELSE stopped
           closed == IF code \in RequiresNewSession
                     THEN [held EXCEPT !.session = None, !.hbSeen = FALSE, !.cmdSeen = FALSE,
                                       !.manual = FALSE, !.attached = FALSE]
                     ELSE held
           latched == closed.safety \/ code \in Physical
<1>1. stopped \in Mcu /\ Quiet(m, stopped)
  BY StoppedType, QuietStopped, QuietSame
<1>2. held \in Mcu /\ Quiet(m, held)
  <2> HIDE DEF stopped, lost
  <2> QED BY <1>1, HeldType, QuietHeld, QuietOn
<1>3. closed \in Mcu /\ Quiet(m, closed)
  <2> HIDE DEF held
  <2> QED BY <1>2, ClosedType, QuietClosed, QuietOn
<1>4. Failed(m, code) = [closed EXCEPT !.safety = latched, !.err = code]
  BY DEF Failed
<1> HIDE DEF closed, latched
<1> QED
  BY <1>3, <1>4, QuietLatched, QuietOn

LEMMA QuietLate == ASSUME NEW m \in Mcu, NEW code \in Code PROVE Quiet(m, Late(m, code))
<1> DEFINE struck == [m EXCEPT !.hbOut = @ \/ code = "HEARTBEAT_TIMEOUT",
                               !.cmdOut = @ \/ code = "COMMAND_TIMEOUT"]
<1>1. struck \in Mcu
  <2>1. (m.hbOut \/ code = "HEARTBEAT_TIMEOUT") \in BOOLEAN
        /\ (m.cmdOut \/ code = "COMMAND_TIMEOUT") \in BOOLEAN
    OBVIOUS
  <2> QED BY <2>1, OutType
<1>2. Quiet(m, struck)
  BY DEF Mcu, Quiet
<1>3. Late(m, code) = Failed(struck, code)
  BY DEF Late
<1> HIDE DEF struck
<1> QED
  BY <1>1, <1>2, <1>3, QuietFailed, QuietOn

LEMMA QuietGated ==
  ASSUME NEW m \in Mcu, NEW allowed, Quiet(m, allowed) PROVE Quiet(m, Gated(m, allowed))
<1>1. Refusal(m) # None => Quiet(m, Late(Stopped(m), Refusal(m)))
  BY RefusalType, StoppedType, QuietStopped, QuietLate, QuietOn
<1> QED
  BY <1>1 DEF Gated

LEMMA QuietAcked ==
  ASSUME NEW m \in Mcu, NEW kind \in {"other", "attach"}
  PROVE  Quiet(m, Acked(m, [kind |-> kind]))
  BY DEF Mcu, Acked, Quiet, Greets

LEMMA QuietEstop == ASSUME NEW m \in Mcu PROVE Quiet(m, Estop(m))
<1> DEFINE hit == [m EXCEPT !.estop = TRUE]
<1>1. hit \in Mcu /\ Quiet(m, hit)
  BY DEF Mcu, Quiet
<1> HIDE DEF hit
<1>2. Held(Stopped(hit)) \in Mcu /\ Quiet(m, Held(Stopped(hit)))
  BY <1>1, StoppedType, HeldType, QuietStopped, QuietHeld, QuietOn
<1> QED
  BY <1>2, QuietAcked, QuietOn DEF Estop, hit

LEMMA QuietHeartbeat ==
  ASSUME NEW m \in Mcu, NEW session \in Session PROVE Quiet(m, Heartbeat(m, session))
<1>1. Quiet(m, [m EXCEPT !.hbSeen = TRUE, !.hbOld = FALSE,
                         !.hback = [kind |-> "HB", session |-> session]])
  BY DEF Mcu, Quiet
<1> QED
  BY <1>1, QuietFailed, QuietLate, CodeKinds DEF Heartbeat

LEMMA QuietVelocity ==
  ASSUME NEW m \in Mcu, NEW drive \in BOOLEAN, NEW session \in Session \cup {None}
  PROVE  Quiet(m, Velocity(m, drive, session))
<1> DEFINE ack == IF session = None THEN m.ack ELSE [kind |-> "zero", session |-> session]
           driving == [m EXCEPT !.target = drive, !.cmdSeen = TRUE, !.cmdOld = FALSE,
                                !.manual = FALSE, !.openLoop = FALSE, !.ack = ack]
<1>1. Greets(ack) => ack = m.ack
  BY DEF Greets
<1>2. driving = [m EXCEPT !.target = drive, !.cmdSeen = TRUE, !.cmdOld = FALSE,
                   !.manual = FALSE, !.openLoop = FALSE,
                   !.ack = IF session = None THEN @ ELSE [kind |-> "zero", session |-> session]]
  OBVIOUS
<1> HIDE DEF ack
<1>3. Quiet(m, driving)
  BY <1>1 DEF Mcu, Quiet
<1> HIDE DEF driving
<1> QED
  BY <1>2, <1>3, QuietFailed, QuietLate, CodeKinds DEF Velocity

LEMMA QuietMotor == ASSUME NEW m \in Mcu PROVE Quiet(m, MotorStop(m)) /\ Quiet(m, MotorTest(m))
<1> DEFINE s == Stopped(m)
           manual == [s EXCEPT !.manual = TRUE, !.cmdOld = FALSE]
           tested == [s EXCEPT !.driven = TRUE, !.manual = TRUE, !.openLoop = TRUE,
                               !.cmdSeen = TRUE, !.cmdOld = FALSE]
           other == [kind |-> "other"]
<1>1. s \in Mcu /\ Quiet(m, s)
  BY StoppedType, QuietStopped
<1> HIDE DEF s
<1>2. manual \in Mcu /\ tested \in Mcu
  BY <1>1, ManualType, TestedType
<1>3. Quiet(s, manual)
  BY <1>1 DEF Mcu, Quiet
<1>4. Quiet(s, tested)
  BY <1>1 DEF Mcu, Quiet
<1>5. /\ MotorStop(m) = IF m.estop THEN Failed(m, "ESTOP_LATCHED") ELSE Acked(manual, other)
      /\ MotorTest(m) = IF m.estop THEN Failed(m, "ESTOP_LATCHED")
                        ELSE Gated(m, Acked(tested, other))
  BY DEF MotorStop, MotorTest, s
<1> HIDE DEF manual, tested
<1>6. Quiet(m, Acked(manual, other)) /\ Quiet(m, Acked(tested, other))
  BY <1>1, <1>2, <1>3, <1>4, QuietAcked, QuietOn
<1> QED
  BY <1>5, <1>6, QuietGated, QuietFailed, CodeKinds

LEMMA QuietAttach ==
  ASSUME NEW m \in Mcu, NEW pulse \in Pulse PROVE Quiet(m, Attach(m, pulse))
<1> DEFINE s == Stopped(m)
           put == [s EXCEPT !.current = pulse, !.goal = pulse, !.jaws = pulse,
                            !.moving = FALSE, !.servo = "attach",
                            !.pulsed = TRUE, !.attached = TRUE]
<1>1. s \in Mcu /\ Quiet(m, s)
  BY StoppedType, QuietStopped
<1> HIDE DEF s
<1>2. put \in Mcu /\ Quiet(s, put)
  <2>1. put \in Mcu
    BY <1>1, PutOutType
  <2>2. Quiet(s, put)
    BY <1>1 DEF Mcu, Quiet
  <2> QED BY <2>1, <2>2
<1>3. Attach(m, pulse) =
        IF m.estop THEN Failed(m, "ESTOP_LATCHED")
        ELSE IF ~IsStopped(m) THEN Failed(m, "LIFT_WHILE_MOVING")
        ELSE IF m.session = None \/ ~m.hbSeen \/ ~m.cmdSeen \/ m.hbOut \/ m.cmdOut
        THEN Failed(m, "REQUIRED")
        ELSE Acked(put, [kind |-> "attach"])
  BY DEF Attach, s
<1> HIDE DEF put
<1>4. Quiet(m, Acked(put, [kind |-> "attach"]))
  BY <1>1, <1>2, QuietAcked, QuietOn
<1> QED
  BY <1>3, <1>4, QuietFailed, CodeKinds

LEMMA QuietLift ==
  ASSUME NEW m \in Mcu, NEW action \in {"grip", "release"} PROVE Quiet(m, Lift(m, action))
<1> DEFINE on == [m EXCEPT !.pulsed = TRUE, !.jaws = m.current]
           goal == IF action = "grip" THEN "grip" ELSE "open"
           started == [on EXCEPT !.servo = action, !.moving = TRUE, !.goal = goal]
           done == ~on.moving
           grip == on.gripDone \/ (done /\ action = "grip")
           release == on.releaseDone \/ (done /\ action = "release")
           again == [on EXCEPT !.gripDone = grip, !.releaseDone = release]
<1>1. Lift(m, action) =
        IF m.estop THEN Failed(m, "ESTOP_LATCHED")
        ELSE IF ~IsStopped(m) THEN Failed(m, "LIFT_WHILE_MOVING")
        ELSE IF ~m.attached THEN Failed(m, "SERVO_NOT_ATTACHED")
        ELSE Acked(IF m.servo = action THEN again ELSE started, [kind |-> "other"])
  BY DEF Lift
<1>2. on \in Mcu /\ goal \in Pulse
  BY DEF Mcu, Pulse
<1>3. Quiet(m, on)
  BY DEF Mcu, Quiet
<1>4. grip \in BOOLEAN /\ release \in BOOLEAN
  OBVIOUS
<1> HIDE DEF on, goal, done, grip, release
<1>5. started \in Mcu /\ again \in Mcu
  <2> QED BY <1>2, <1>4, LiftingType, DoneType
<1>6. Quiet(on, started) /\ Quiet(on, again)
  BY <1>2 DEF Mcu, Quiet
<1> HIDE DEF started, again
<1>7. Quiet(m, Acked(again, [kind |-> "other"])) /\ Quiet(m, Acked(started, [kind |-> "other"]))
  BY <1>3, <1>5, <1>6, QuietAcked, QuietOn
<1> QED
  BY <1>1, <1>7, QuietFailed, CodeKinds

LEMMA QuietLegacy == ASSUME NEW m \in Mcu PROVE Quiet(m, Legacy(m))
  BY DEF Mcu, Legacy, Quiet

LEMMA QuietSingles ==
  ASSUME NEW m \in Mcu, NEW pulse \in Pulse
  PROVE  /\ Quiet(m, LegacyStop(m)) /\ Quiet(m, LegacyVector(m)) /\ Quiet(m, LegacyOpenLoop(m))
         /\ Quiet(m, LegacyPulse(m, pulse)) /\ Quiet(m, LegacyPulseOff(m))
<1> DEFINE s == Stopped(m)
           vector == [m EXCEPT !.target = TRUE, !.manual = TRUE, !.openLoop = FALSE]
           loop == [m EXCEPT !.target = FALSE, !.driven = TRUE, !.manual = TRUE, !.openLoop = TRUE]
           put == [s EXCEPT !.pulsed = TRUE, !.jaws = m.current, !.goal = pulse]
           off == [s EXCEPT !.pulsed = FALSE, !.attached = FALSE]
<1>1. s \in Mcu /\ Quiet(m, s)
  BY StoppedType, QuietStopped
<1> HIDE DEF s
<1>2. vector \in Mcu
  BY DEF Mcu
<1>3. loop \in Mcu
  BY DEF Mcu
<1>4. put \in Mcu /\ off \in Mcu
  <2>1. m.current \in Pulse
    BY DEF Mcu
  <2> QED BY <1>1, PulsedType, PulseOffType, <2>1
<1>5. Quiet(m, vector) /\ Quiet(m, loop)
  BY DEF Mcu, Quiet
<1>6. Quiet(s, put) /\ Quiet(s, off)
  BY <1>1 DEF Mcu, Quiet
<1>7. /\ LegacyStop(m) = Legacy(s)
      /\ LegacyVector(m) = Gated(m, Legacy(vector))
      /\ LegacyOpenLoop(m) = Gated(m, Legacy(loop))
      /\ LegacyPulse(m, pulse) = Gated(m, IF m.attached THEN Legacy(put)
                                          ELSE Failed(s, "SERVO_NOT_ATTACHED"))
      /\ LegacyPulseOff(m) = Gated(m, Legacy(off))
  BY DEF LegacyStop, LegacyVector, LegacyOpenLoop, LegacyPulse, LegacyPulseOff, s
<1> HIDE DEF vector, loop, put, off
<1>8. /\ Quiet(m, Legacy(s)) /\ Quiet(m, Legacy(vector)) /\ Quiet(m, Legacy(loop))
      /\ Quiet(m, Legacy(put)) /\ Quiet(m, Legacy(off))
      /\ Quiet(m, Failed(s, "SERVO_NOT_ATTACHED"))
  BY <1>1, <1>2, <1>3, <1>4, <1>5, <1>6, QuietLegacy, QuietFailed, QuietOn, CodeKinds
<1> QED
  BY <1>7, <1>8, QuietGated

\* What the steps of the firmware that execute no command leave alone.
LEMMA QuietTask ==
  ASSUME TypeOK, \/ Answers \/ Task \/ EvidenceGrowsOld \/ WheelMismatch \/ Garbled \/ McuRestarts
  PROVE  Quiet(mcu, mcu')
<1>1. mcu \in Mcu
  BY DEF TypeOK
<1>2. CASE Answers
  <2>1. Quiet(mcu, Sent(mcu))
    BY <1>1 DEF Mcu, Sent, Quiet, Greets
  <2> QED BY <1>2, <2>1 DEF Answers, SendPending
<1>3. CASE Task
  <2>1. mcu' = Controlled(mcu) => Quiet(mcu, mcu')
    <3>1. Watched(mcu) \in Mcu /\ Quiet(mcu, Watched(mcu))
      BY <1>1, WatchedType, QuietLate, QuietSame, CodeKinds DEF Watched
    <3>2. Quiet(mcu, Stopped(Watched(mcu)))
      BY <3>1, QuietStopped, QuietOn
    <3>3. Quiet(mcu, [mcu EXCEPT !.driven = mcu.target])
      BY <1>1 DEF Mcu, Quiet
    <3> QED BY <3>2, <3>3, QuietSame DEF Controlled
  <2>2. mcu' = ServoStepped(mcu) => Quiet(mcu, mcu')
    BY <1>1 DEF Mcu, ServoStepped, Quiet
  <2>3. mcu' = [mcu EXCEPT !.turning = mcu.driven] => Quiet(mcu, mcu')
    BY <1>1 DEF Mcu, Quiet
  <2> QED BY <1>3, <2>1, <2>2, <2>3 DEF Task, MotorTask, ServoTask, WheelsFollow
<1>4. CASE EvidenceGrowsOld
  BY <1>1, <1>4 DEF EvidenceGrowsOld, HeartbeatGrowsOld, CommandGrowsOld, Mcu, Quiet
<1>5. CASE WheelMismatch
  BY <1>1, <1>5, StoppedType, QuietStopped, QuietFailed, QuietOn, CodeKinds
  DEF WheelMismatch, WheelRunsWrong, WrongDirection
<1>6. CASE Garbled
  BY <1>1, <1>6, QuietFailed, CodeKinds DEF Garbled, ReceiveFails
<1>7. CASE McuRestarts
  BY <1>7 DEF McuRestarts, Restart, Started, Quiet, Greets
<1> QED
  BY <1>2, <1>3, <1>4, <1>5, <1>6, <1>7

LEMMA QuietExecuted ==
  ASSUME NEW m \in Mcu, NEW frame \in Frame, frame.kind # "HELLO"
  PROVE  Quiet(m, Executed(m, frame))
<1>1. CASE frame.kind \in {"HB", "zero"}
  <2>1. frame.session \in Session
    BY <1>1 DEF Frame
  <2> QED
    BY <1>1, <2>1, QuietHeartbeat, QuietVelocity DEF Executed
<1>2. CASE frame.kind = "V"
  <2>1. frame.drive \in BOOLEAN
    BY <1>2 DEF Frame
  <2> QED
    BY <1>2, <2>1, QuietVelocity DEF Executed
<1>3. CASE frame.kind \in {"attach", "pulse"}
  <2>1. frame.pulse \in Pulse
    BY <1>3 DEF Frame
  <2> QED
    BY <1>3, <2>1, QuietAttach, QuietSingles DEF Executed
<1>4. CASE frame.kind \in {"ESTOP", "M", "M,STOP", "grip", "release"}
  BY <1>4, QuietEstop, QuietMotor, QuietLift DEF Executed
<1>5. CASE frame.kind \in {"unknown", "malformed", "vector", "open loop", "pulse off", "stop"}
  <2>1. "open" \in Pulse
    BY DEF Pulse
  <2>2. Quiet(m, Failed(m, "UART_RX_ERROR")) /\ Quiet(m, Failed(m, "REQUIRED"))
    BY QuietFailed, CodeKinds
  <2> QED
    BY <1>5, <2>1, <2>2, QuietSingles DEF Executed
<1>6. frame.kind \in {"HB", "zero", "V", "attach", "pulse"}
                     \cup {"ESTOP", "M", "M,STOP", "grip", "release"}
                     \cup {"unknown", "malformed", "vector", "open loop", "pulse off", "stop"}
  BY DEF Frame
<1> QED
  BY <1>1, <1>2, <1>3, <1>4, <1>5, <1>6

\* A HELLO opens its session and says so, or changes neither.
LEMMA HelloOpens ==
  ASSUME NEW m \in Mcu, NEW session \in Session
  PROVE  \/ Quiet(m, Hello(m, session))
         \/ /\ Hello(m, session).session = session
            /\ Hello(m, session).ack = [kind |-> "HELLO", session |-> session]
<1> DEFINE same == m.session = session
           hbLate == same /\ (m.hbOut \/ (m.hbSeen /\ m.hbOld))
           cmdLate == same /\ (m.cmdOut \/ (m.cmdSeen /\ m.cmdOld))
           s == Stopped(m)
           late == [s EXCEPT !.hbOut = @ \/ hbLate, !.cmdOut = @ \/ cmdLate]
           opened == [s EXCEPT
                !.session = session,
                !.hbSeen = FALSE, !.hbOld = FALSE, !.hbOut = FALSE,
                !.cmdSeen = FALSE, !.cmdOld = FALSE, !.cmdOut = FALSE,
                !.manual = FALSE, !.attached = FALSE,
                !.err = IF @ \in CommunicationTimeout THEN None ELSE @,
                !.ack = [kind |-> "HELLO", session |-> session]]
<1>1. Hello(m, session) =
        IF m.estop THEN Failed(s, "ESTOP_LATCHED")
        ELSE IF m.txFault THEN s
        ELSE IF m.safety THEN Failed(s, "WHEEL_DIR_MISMATCH")
        ELSE IF hbLate \/ cmdLate
        THEN Failed(late, IF hbLate THEN "HEARTBEAT_TIMEOUT" ELSE "COMMAND_TIMEOUT")
        ELSE opened
  BY DEF Hello
<1>2. s \in Mcu /\ Quiet(m, s)
  BY StoppedType, QuietStopped
<1> HIDE DEF s
<1>3. late \in Mcu /\ Quiet(m, late)
  <2>1. (s.hbOut \/ hbLate) \in BOOLEAN /\ (s.cmdOut \/ cmdLate) \in BOOLEAN
    OBVIOUS
  <2> HIDE DEF hbLate, cmdLate
  <2>2. late \in Mcu
    BY <1>2, <2>1, OutType
  <2>3. Quiet(s, late)
    BY <1>2 DEF Mcu, Quiet
  <2> QED BY <1>2, <2>2, <2>3, QuietOn
<1>4. opened.session = session /\ opened.ack = [kind |-> "HELLO", session |-> session]
  BY <1>2 DEF Mcu
<1> HIDE DEF late, opened, hbLate, cmdLate
<1>5. \A code \in Code : Quiet(m, Failed(s, code)) /\ Quiet(m, Failed(late, code))
  BY <1>2, <1>3, QuietFailed, QuietOn
<1> QED
  BY <1>1, <1>2, <1>4, <1>5, CodeKinds

-----------------------------------------------------------------------------
(* Why both ends agree. A bridge that took a new session has nothing but     *)
(* HELLOs of it to send; on the line an older one may be ahead of them, and  *)
(* none is behind. So once the firmware has read or acknowledged the new one *)
(* there is no older HELLO left that could take it back.                     *)

Acknowledged(answer) == Greets(answer) /\ answer.session = bridge.session

Known ==
    \/ bridge.hello \/ mcu.session = bridge.session
    \/ Acknowledged(mcu.ack) \/ \E i \in DOMAIN toPi : Acknowledged(toPi[i])

Ours(frame) == frame.kind = "HELLO" => frame.session = bridge.session

SessionInv ==
    /\ \A frame \in out : Ours(frame)
    /\ \A i, j \in DOMAIN toMcu :
         i < j /\ toMcu[i].kind = "HELLO" /\ toMcu[i].session = bridge.session => Ours(toMcu[j])
    /\ Known => /\ mcu.session \in {bridge.session, None}
                /\ \A i \in DOMAIN toMcu : Ours(toMcu[i])

\* The line after a step: as it was, shorter by its first frame, or empty.
Drains(line, next) == next = line \/ next = <<>> \/ (line # <<>> /\ next = Tail(line))

LEMMA Drained ==
  ASSUME NEW S, NEW line \in Seq(S), NEW next, Drains(line, next)
  PROVE  \/ next = line
         \/ next = <<>>
         \/ /\ line # <<>> /\ 1 \in DOMAIN line /\ next \in Seq(S)
            /\ \A i \in DOMAIN next : i + 1 \in DOMAIN line /\ next[i] = line[i + 1] /\ i \in Nat
  BY DEF Drains

\* The session stays, and nothing new is sent or acknowledged.
LEMMA SessionCalm ==
  ASSUME TypeOK, SessionInv, bridge'.session = bridge.session, bridge'.hello => Known,
         Quiet(mcu, mcu'), \A frame \in out' : Ours(frame),
         Drains(toMcu, toMcu'), \A i \in DOMAIN toPi' : Acknowledged(toPi'[i]) => Known
  PROVE  SessionInv'
<1>1. toMcu \in Seq(Frame) /\ bridge.session # None
  BY NoneAssumption DEF TypeOK, Bridges
<1>2. \A i \in DOMAIN toMcu' : \E j \in DOMAIN toMcu : toMcu'[i] = toMcu[j]
  BY <1>1, Drained
<1>3. Known' => Known
  BY <1>1 DEF Known, Acknowledged, Quiet
<1>4. \A i, j \in DOMAIN toMcu' :
        i < j /\ toMcu'[i].kind = "HELLO" /\ toMcu'[i].session = bridge.session => Ours(toMcu'[j])
  <2>1. CASE toMcu' = toMcu
    BY <2>1 DEF SessionInv
  <2>2. CASE toMcu' = <<>>
    BY <2>2
  <2>3. CASE \A i \in DOMAIN toMcu' : i + 1 \in DOMAIN toMcu /\ toMcu'[i] = toMcu[i + 1] /\ i \in Nat
    BY <2>3 DEF SessionInv
  <2> QED BY <1>1, <2>1, <2>2, <2>3, Drained
<1>5. Known => /\ mcu'.session \in {bridge.session, None}
               /\ \A i \in DOMAIN toMcu' : Ours(toMcu'[i])
  BY <1>2 DEF SessionInv, Quiet
<1> QED
  BY <1>3, <1>4, <1>5 DEF SessionInv, Ours

\* A new session is one nobody holds, so nothing can have known it.
LEMMA SessionRenewed ==
  ASSUME TypeOK, SessionInv, bridge'.session \notin About, ~bridge'.hello,
         UNCHANGED <<mcu, toMcu>>, Drains(toPi, toPi'),
         \A frame \in out' : frame.kind = "HELLO" => frame.session = bridge'.session
  PROVE  SessionInv'
<1>1. toMcu \in Seq(Frame) /\ toPi \in Seq(Answer)
  BY DEF TypeOK
<1>2. \A i \in DOMAIN toMcu : toMcu[i].kind = "HELLO" => toMcu[i].session \in About
  <2>1. \A i \in DOMAIN toMcu : toMcu[i] \in Elements(toMcu)
    BY DEF Elements
  <2> QED BY <2>1 DEF About
<1>3. \A i \in DOMAIN toPi : Greets(toPi[i]) => toPi[i].session \in About
  <2>1. \A i \in DOMAIN toPi : toPi[i] \in Elements(toPi)
    BY DEF Elements
  <2> QED BY <2>1 DEF About, Greets
<1>4. mcu.session \in About /\ (Greets(mcu.ack) => mcu.ack.session \in About)
  BY DEF About, Greets
<1>5. \A i \in DOMAIN toPi' : \E j \in DOMAIN toPi : toPi'[i] = toPi[j]
  BY <1>1, Drained
<1>6. ~Known'
  BY <1>3, <1>4, <1>5 DEF Known, Acknowledged
<1>7. \A i \in DOMAIN toMcu' : ~(toMcu'[i].kind = "HELLO" /\ toMcu'[i].session = bridge'.session)
  BY <1>2
<1> QED
  BY <1>6, <1>7 DEF SessionInv, Ours

\* What the bridge does to the session: nothing, or renew it.
Stays ==
    /\ bridge'.session = bridge.session
    /\ bridge'.hello => Known
    /\ \A frame \in out' : Ours(frame)

Renews ==
    /\ bridge'.session \notin About /\ ~bridge'.hello
    /\ \A frame \in out' : frame.kind = "HELLO" => frame.session = bridge'.session

LEMMA RecoverStays ==
  ASSUME TypeOK, SessionInv, NEW b \in Bridges, b.session = bridge.session,
         b.hello => bridge.hello, Recover(b)
  PROVE  Stays \/ Renews
<1>1. CASE b.recovering \/ b.estop
  BY <1>1 DEF Recover, Stays, Known, SessionInv, scheduler
<1>2. CASE ~b.recovering /\ ~b.estop
  <2> DEFINE new == CHOOSE session \in Unused : TRUE
             l == Latched(b, "recoverable")
  <2>1. new \in Unused
    BY <1>2 DEF Recover
  <2> HIDE DEF new
  <2>2. l \in Bridges
    BY LatchedType
  <2> HIDE DEF l
  <2>3. bridge' = [l EXCEPT
                     !.session = new, !.recovering = TRUE, !.recovered = FALSE, !.acks = 0,
                     !.hello = FALSE, !.overdue = FALSE, !.fresh = "none", !.zeroAcked = FALSE,
                     !.attachSent = FALSE]
        /\ out' = {HelloOf(bridge')}
    BY <1>2 DEF Recover, new, l
  <2>4. bridge'.session = new /\ ~bridge'.hello
    BY <2>2, <2>3 DEF Bridges
  <2> QED BY <2>1, <2>3, <2>4 DEF Renews, Unused, HelloOf
<1> QED
  BY <1>1, <1>2

LEMMA WithOurs ==
  ASSUME SessionInv, NEW frame, Ours(frame) PROVE \A f \in With(out, frame) : Ours(f)
  BY DEF SessionInv, With

LEMMA OursOf ==
  /\ Ours(HelloOf(bridge)) /\ Ours(HeartbeatOf(bridge)) /\ Ours(ZeroOf(bridge))
  /\ \A b : Ours(HeartbeatOf(b)) /\ Ours(ZeroOf(b)) /\ Ours(AttachOf(b))
  /\ Ours([kind |-> "ESTOP"])
  /\ \A drive : Ours([kind |-> "V", drive |-> drive])
  BY DEF Ours, HelloOf, HeartbeatOf, ZeroOf, AttachOf

\* A bridge that is changed but for its session and its HELLO.
LEMMA SameSession ==
  ASSUME SessionInv, bridge'.session = bridge.session, bridge'.hello => bridge.hello,
         out' = out \/ \E frame : Ours(frame) /\ out' = With(out, frame)
  PROVE  Stays
  BY WithOurs DEF Stays, Known, SessionInv

LEMMA BridgeStepSession == ASSUME TypeOK, SessionInv, BridgeStep PROVE Stays \/ Renews
<1>1. bridge \in Bridges
  BY DEF TypeOK
<1>2. CASE SendHello \/ SendZero \/ SendHeartbeat \/ SendVelocity
  <2>1. UNCHANGED bridge /\ \E frame : Ours(frame) /\ out' = With(out, frame)
    BY <1>2, OursOf DEF SendHello, SendZero, SendHeartbeat, SendVelocity
  <2> QED BY <2>1, SameSession
<1>3. CASE HandshakeTimeout
  <2>1. Latched(bridge, "emergency").session = bridge.session
        /\ (Latched(bridge, "emergency").hello <=> bridge.hello)
    BY <1>1 DEF Bridges, Latched
  <2> QED BY <1>3, <2>1, SameSession DEF HandshakeTimeout, scheduler
<1>4. CASE SendAttach
  <2>1. bridge' = [bridge EXCEPT !.attachSent = TRUE] /\ out' = With(out, AttachOf(bridge))
    BY <1>4 DEF SendAttach
  <2>2. bridge'.session = bridge.session /\ (bridge'.hello <=> bridge.hello)
    BY <1>1, <2>1 DEF Bridges
  <2> QED BY <2>1, <2>2, OursOf, SameSession
<1>5. CASE HeartbeatLate
  BY <1>1, <1>5, RecoverStays DEF HeartbeatLate
<1>6. CASE SendGrip
  <2> DEFINE moved == [bridge EXCEPT !.action = Asked,
                                     !.baseline = IF Asked = "grip" THEN "grip" ELSE "open"]
  <2>1. bridge' = moved /\ UNCHANGED out
    BY <1>6 DEF SendGrip
  <2>2. moved.session = bridge.session /\ (moved.hello <=> bridge.hello)
    BY <1>1 DEF Bridges
  <2> HIDE DEF moved
  <2> QED BY <2>1, <2>2, SameSession
<1> QED
  BY <1>2, <1>3, <1>4, <1>5, <1>6 DEF BridgeStep

\* An acknowledged HELLO is one that is known of.
LEMMA HelloAckSession ==
  ASSUME TypeOK, SessionInv, NEW i \in DOMAIN toPi, toPi[i].kind = "HELLO", toPi[i] # None,
         HelloAck(toPi[i])
  PROVE  Stays
<1>1. CASE UNCHANGED <<bridge, out>>
  BY <1>1 DEF Stays, Known, SessionInv
<1>2. CASE /\ toPi[i].session = bridge.session
           /\ bridge' = [bridge EXCEPT !.hello = TRUE]
           /\ out' = out \/ out' = With(out, HeartbeatOf(bridge))
  <2>1. Known
    BY <1>2 DEF Known, Acknowledged, Greets
  <2>2. bridge'.session = bridge.session
    BY <1>2 DEF TypeOK, Bridges
  <2>3. \A frame \in out' : Ours(frame)
    BY <1>2, WithOurs, OursOf DEF SessionInv
  <2> QED BY <2>1, <2>2, <2>3 DEF Stays
<1> QED
  BY <1>1, <1>2 DEF HelloAck, scheduler

LEMMA HeartbeatAckSession ==
  ASSUME TypeOK, SessionInv, NEW answer, HeartbeatAck(answer) PROVE Stays
<1>1. CASE UNCHANGED <<bridge, out>>
  BY <1>1 DEF Stays, Known, SessionInv
<1>2. CASE ~(answer.session # bridge.session \/ ~bridge.hello \/ Silenced(bridge))
  <2> DEFINE done == bridge.recovering /\ bridge.acks + 1 >= Acks
             b == [bridge EXCEPT
                     !.fresh = "fresh",
                     !.acks = IF done \/ ~bridge.recovering THEN 0 ELSE @ + 1,
                     !.recovering = @ /\ ~done,
                     !.recovered = @ \/ done,
                     !.fault = IF done /\ @ = "recoverable" THEN None ELSE @,
                     !.blocked = @ /\ ~done]
  <2>1. bridge' = b /\ (out' = out \/ out' = With(out, ZeroOf(b)))
    BY <1>2 DEF HeartbeatAck
  <2>2. b.session = bridge.session /\ (b.hello <=> bridge.hello)
    BY DEF TypeOK, Bridges
  <2> HIDE DEF b
  <2> QED BY <2>1, <2>2, OursOf, SameSession
<1> QED
  BY <1>1, <1>2 DEF HeartbeatAck, scheduler

LEMMA ZeroAckSession ==
  ASSUME TypeOK, SessionInv, NEW answer, ZeroAck(answer) PROVE Stays
<1>1. CASE UNCHANGED <<bridge, out>>
  BY <1>1 DEF Stays, Known, SessionInv
<1>2. CASE ~(answer.session # bridge.session \/ ~Fresh(bridge) \/ ~Healthy(bridge))
  <2> DEFINE b == [bridge EXCEPT !.zeroAcked = TRUE]
             c == [b EXCEPT !.attachSent = @ \/ MayAttach(b)]
  <2>1. bridge' = c /\ (out' = out \/ out' = With(out, AttachOf(b)))
    BY <1>2 DEF ZeroAck
  <2>2. c.session = bridge.session /\ (c.hello <=> bridge.hello)
    BY DEF TypeOK, Bridges
  <2> HIDE DEF b, c
  <2> QED BY <2>1, <2>2, OursOf, SameSession
<1> QED
  BY <1>1, <1>2 DEF ZeroAck, scheduler

LEMMA ErrorSession == ASSUME TypeOK, SessionInv, NEW code, Error(code) PROVE Stays \/ Renews
<1>1. CASE UNCHANGED <<bridge, out>>
  BY <1>1, SameSession
<1>2. CASE bridge' = [bridge EXCEPT !.attached = FALSE, !.blocked = FALSE] /\ UNCHANGED out
  <2>1. bridge'.session = bridge.session /\ (bridge'.hello <=> bridge.hello)
    BY <1>2 DEF TypeOK, Bridges
  <2> QED BY <1>2, <2>1, SameSession
<1>3. CASE Recover(bridge)
  BY <1>3, RecoverStays DEF TypeOK
<1>4. CASE /\ bridge' = Latched([bridge EXCEPT !.estop = @ \/ code = "ESTOP_LATCHED"], "emergency")
           /\ UNCHANGED out
  <2>1. bridge'.session = bridge.session /\ (bridge'.hello <=> bridge.hello)
    BY <1>4 DEF TypeOK, Bridges, Latched
  <2> QED BY <1>4, <2>1, SameSession
<1> QED
  BY <1>1, <1>2, <1>3, <1>4 DEF Error, scheduler

LEMMA ReadAnswerSession == ASSUME TypeOK, SessionInv, ReadAnswer PROVE Stays \/ Renews
<1> DEFINE answer == Head(toPi)
<1>1. 1 \in DOMAIN toPi /\ answer = toPi[1] /\ answer \in Answer /\ answer # None
  BY NoneAssumption DEF TypeOK, ReadAnswer
<1>2. CASE answer.kind = "HELLO" /\ HelloAck(answer)
  BY <1>1, <1>2, HelloAckSession
<1>3. CASE HeartbeatAck(answer)
  BY <1>3, HeartbeatAckSession
<1>4. CASE ZeroAck(answer)
  BY <1>4, ZeroAckSession
<1>5. CASE AttachAck \/ Lifted("grip") \/ Lifted("release") \/ UNCHANGED <<bridge, out>>
  <2>1. bridge'.session = bridge.session /\ (bridge'.hello <=> bridge.hello) /\ UNCHANGED out
    BY <1>5 DEF TypeOK, Bridges, AttachAck, Lifted, scheduler
  <2> QED BY <2>1, SameSession
<1>6. CASE Error(answer.code)
  BY <1>6, ErrorSession
<1> HIDE DEF answer
<1> QED
  BY <1>2, <1>3, <1>4, <1>5, <1>6 DEF ReadAnswer, answer, scheduler

LEMMA QuietStepSession ==
  ASSUME TypeOK, SessionInv,
         \/ ReadTelemetry \/ NextStage \/ Rearm \/ Reconnect \/ AckGrowsOld
         \/ HandshakeGrowsOld \/ EmergencyStop
  PROVE  Stays \/ Renews
<1> USE DEF TypeOK, scheduler
<1>1. CASE ReadTelemetry
  <2>1. bridge'.session = bridge.session /\ (bridge'.hello <=> bridge.hello) /\ UNCHANGED out
    BY <1>1 DEF ReadTelemetry, Bridges
  <2> QED BY <2>1, SameSession
<1>2. CASE NextStage \/ Rearm
  BY <1>2, SameSession DEF NextStage, Rearm
<1>3. CASE Reconnect
  <2> DEFINE fault == IF bridge.fault = "recoverable" THEN None ELSE bridge.fault
             b == [bridge EXCEPT !.connected = TRUE, !.blocked = FALSE, !.fault = fault]
  <2>1. fault \in {None, "recoverable", "emergency"}
    BY DEF Bridges
  <2>2. Recover(b)
    BY <1>3 DEF Reconnect
  <2> HIDE DEF fault
  <2>3. b \in Bridges
    BY <2>1 DEF Bridges
  <2>4. b.session = bridge.session /\ (b.hello <=> bridge.hello)
    BY DEF Bridges
  <2> HIDE DEF b
  <2> QED BY <2>2, <2>3, <2>4, RecoverStays
<1>4. CASE AckGrowsOld \/ HandshakeGrowsOld
  <2>1. bridge'.session = bridge.session /\ (bridge'.hello <=> bridge.hello) /\ UNCHANGED out
    BY <1>4 DEF AckGrowsOld, HandshakeGrowsOld, Bridges
  <2> QED BY <2>1, SameSession
<1>5. CASE EmergencyStop
  <2>1. bridge'.session = bridge.session /\ (bridge'.hello <=> bridge.hello)
    BY <1>5 DEF EmergencyStop, Bridges
  <2>2. \A frame \in out' : Ours(frame)
    BY <1>5, OursOf DEF EmergencyStop
  <2> QED BY <2>1, <2>2 DEF Stays, Known
<1> QED
  BY <1>1, <1>2, <1>3, <1>4, <1>5

LEMMA UnpluggedSession == ASSUME TypeOK, Unplugged PROVE Stays
<1>1. bridge' = Latched([bridge EXCEPT !.connected = FALSE], "recoverable") /\ out' = {}
  BY DEF Unplugged
<1>2. bridge'.session = bridge.session /\ (bridge'.hello <=> bridge.hello)
  BY <1>1 DEF TypeOK, Bridges, Latched
<1> QED
  BY <1>1, <1>2 DEF Stays, Known

\* A frame of the scheduler is written behind what is on the line.
LEMMA WriteNextSession == ASSUME TypeOK, SessionInv, WriteNext PROVE SessionInv'
<1>1. PICK frame \in Frame : Pops(frame) /\ toMcu' = Append(toMcu, frame)
  BY DEF WriteNext
<1>2. UNCHANGED <<mcu, bridge, toPi>>
  BY DEF WriteNext
<1>3. toMcu \in Seq(Frame)
  BY DEF TypeOK
<1>4. Ours(frame)
  <2>1. CASE frame \in out
    BY <2>1 DEF SessionInv
  <2>2. CASE actions # <<>> /\ frame = [kind |-> Head(actions)]
    <3>1. Head(actions) \in {"grip", "release"}
      BY <2>2 DEF TypeOK
    <3> QED BY <2>2, <3>1 DEF Ours
  <2> QED BY <1>1, <2>1, <2>2 DEF Pops
<1>5. \A i \in DOMAIN toMcu' : \/ i \in DOMAIN toMcu /\ toMcu'[i] = toMcu[i]
                               \/ i = Len(toMcu) + 1 /\ toMcu'[i] = frame
  BY <1>1, <1>3
<1>6. Known' <=> Known
  BY <1>2 DEF Known, Acknowledged
<1>7. \A f \in out' : Ours(f)
  BY <1>1 DEF SessionInv, Pops
<1>8. \A i, j \in DOMAIN toMcu' :
        i < j /\ toMcu'[i].kind = "HELLO" /\ toMcu'[i].session = bridge.session => Ours(toMcu'[j])
  <2> SUFFICES ASSUME NEW i \in DOMAIN toMcu', NEW j \in DOMAIN toMcu', i < j,
                      toMcu'[i].kind = "HELLO", toMcu'[i].session = bridge.session
               PROVE  Ours(toMcu'[j])
    OBVIOUS
  <2>1. CASE toMcu'[j] = frame
    BY <1>4, <2>1
  <2>2. CASE j \in DOMAIN toMcu /\ toMcu'[j] = toMcu[j]
    <3>1. i \in DOMAIN toMcu /\ toMcu'[i] = toMcu[i]
      BY <1>3, <1>5, <2>2
    <3> QED BY <2>2, <3>1 DEF SessionInv
  <2> QED BY <1>5, <2>1, <2>2
<1>9. Known => /\ mcu.session \in {bridge.session, None}
               /\ \A i \in DOMAIN toMcu' : Ours(toMcu'[i])
  BY <1>4, <1>5 DEF SessionInv
<1> QED
  BY <1>2, <1>6, <1>7, <1>8, <1>9 DEF SessionInv, Ours

\* A HELLO that is read: ours is followed by ours only, and an older one comes
\* in only while nobody knows of ours.
LEMMA ReceiveSession == ASSUME TypeOK, SessionInv, ReceiveCommand PROVE SessionInv'
<1> DEFINE frame == Head(toMcu)
<1>1. /\ toMcu \in Seq(Frame) /\ toMcu # <<>> /\ frame \in Frame /\ frame = toMcu[1]
      /\ toMcu' = Tail(toMcu) /\ mcu' = Executed(mcu, frame) /\ UNCHANGED <<bridge, out, toPi>>
      /\ mcu \in Mcu /\ bridge.session \in Session
  BY DEF TypeOK, ReceiveCommand, Receive, Bridges, scheduler
<1>2. ASSUME Quiet(mcu, mcu') PROVE SessionInv'
  <2>1. \A f \in out' : Ours(f)
    BY <1>1 DEF SessionInv
  <2>2. Drains(toMcu, toMcu') /\ \A i \in DOMAIN toPi' : Acknowledged(toPi'[i]) => Known
    BY <1>1 DEF Drains, Known
  <2>3. bridge'.session = bridge.session /\ (bridge'.hello => Known)
    BY <1>1 DEF Known
  <2> QED BY <1>2, <2>1, <2>2, <2>3, SessionCalm
<1>3. ASSUME ~Quiet(mcu, mcu')
      PROVE  /\ frame.kind = "HELLO" /\ frame.session \in Session
             /\ mcu'.session = frame.session
             /\ mcu'.ack = [kind |-> "HELLO", session |-> frame.session]
  <2>1. frame.kind = "HELLO"
    BY <1>1, <1>3, QuietExecuted
  <2>2. frame.session \in Session
    BY <1>1, <2>1 DEF Frame
  <2>3. mcu' = Hello(mcu, frame.session)
    BY <1>1, <2>1 DEF Executed
  <2> QED BY <1>1, <1>3, <2>1, <2>2, <2>3, HelloOpens
<1>4. \A i \in DOMAIN toMcu' : i + 1 \in DOMAIN toMcu /\ toMcu'[i] = toMcu[i + 1] /\ 1 < i + 1
  BY <1>1
<1>5. 1 \in DOMAIN toMcu /\ \A i, j \in DOMAIN toMcu' : i < j => i + 1 < j + 1
  BY <1>1
<1> HIDE DEF frame
<1>6. \A i, j \in DOMAIN toMcu' :
        i < j /\ toMcu'[i].kind = "HELLO" /\ toMcu'[i].session = bridge.session => Ours(toMcu'[j])
  BY <1>4, <1>5 DEF SessionInv
<1>7. CASE ~Quiet(mcu, mcu') /\ frame.session = bridge.session
  <2>1. \A i \in DOMAIN toMcu' : Ours(toMcu'[i])
    BY <1>1, <1>3, <1>4, <1>5, <1>7 DEF SessionInv
  <2> QED BY <1>1, <1>3, <1>6, <1>7, <2>1 DEF SessionInv, Ours
<1>8. CASE ~Quiet(mcu, mcu') /\ frame.session # bridge.session
  <2>1. ~Known
    BY <1>1, <1>3, <1>5, <1>8 DEF SessionInv, Ours
  <2>2. ~Known'
    BY <1>1, <1>3, <1>8, <2>1 DEF Known, Acknowledged
  <2> QED BY <1>1, <1>6, <2>2 DEF SessionInv, Ours
<1> QED
  BY <1>2, <1>7, <1>8

\* An answer that is sent was in the mailbox.
LEMMA AnswersSession ==
  ASSUME TypeOK, Pending(mcu) # <<>>, toPi' = toPi \o Pending(mcu), UNCHANGED bridge
  PROVE  \A i \in DOMAIN toPi' : Acknowledged(toPi'[i]) => Known
<1>1. Pending(mcu) \in Seq(Answer) /\ Len(Pending(mcu)) = 1 /\ toPi \in Seq(Answer)
  BY PendingType DEF TypeOK
<1>2. \A i \in DOMAIN toPi' : \/ i \in DOMAIN toPi /\ toPi'[i] = toPi[i]
                              \/ toPi'[i] = Pending(mcu)[1]
  <2>1. Len(toPi) \in Nat /\ DOMAIN toPi = 1..Len(toPi)
    BY <1>1, LenProperties
  <2>2. \A i \in 1..Len(toPi) + 1 :
          toPi'[i] = IF i <= Len(toPi) THEN toPi[i] ELSE Pending(mcu)[i - Len(toPi)]
    BY <1>1, ConcatProperties
  <2>3. toPi \o Pending(mcu) \in Seq(Answer)
        /\ Len(toPi \o Pending(mcu)) = Len(toPi) + Len(Pending(mcu))
    BY <1>1, ConcatProperties
  <2>4. DOMAIN toPi' = 1..Len(toPi) + 1
    BY <1>1, <2>3, LenProperties
  <2> QED BY <2>1, <2>2, <2>4
<1>3. mcu.hback # None => mcu.hback.kind = "HB"
  BY DEF TypeOK, Mcu, HeartbeatAnswer
<1>4. Pending(mcu)[1].kind = "HELLO" => Pending(mcu)[1] = mcu.ack
  BY <1>3 DEF Pending
<1> QED
  BY <1>2, <1>4 DEF Known, Acknowledged, Greets

LEMMA SessionStep == TypeOK /\ SessionInv /\ [Next]_vars => SessionInv'
<1> SUFFICES ASSUME TypeOK, SessionInv, [Next]_vars PROVE SessionInv'
  OBVIOUS
<1>1. ASSUME Stays, UNCHANGED mcu, Drains(toMcu, toMcu'), Drains(toPi, toPi') PROVE SessionInv'
  <2>1. \A i \in DOMAIN toPi' : \E j \in DOMAIN toPi : toPi'[i] = toPi[j]
    BY <1>1, Drained DEF TypeOK
  <2>2. \A i \in DOMAIN toPi' : Acknowledged(toPi'[i]) => Known
    BY <2>1 DEF Known
  <2> QED BY <1>1, <2>2, QuietSame, SessionCalm DEF Stays
<1>2. ASSUME Renews, UNCHANGED <<mcu, toMcu>>, Drains(toPi, toPi') PROVE SessionInv'
  BY <1>2, SessionRenewed DEF Renews
<1>3. CASE BridgeStep
  BY <1>1, <1>2, <1>3, BridgeStepSession DEF BridgeStep, Drains
<1>4. CASE ReadAnswer
  <2>1. UNCHANGED <<mcu, toMcu>> /\ Drains(toMcu, toMcu') /\ Drains(toPi, toPi')
    BY <1>4 DEF ReadAnswer, Drains
  <2> QED BY <1>1, <1>2, <1>4, <2>1, ReadAnswerSession
<1>5. CASE \/ ReadTelemetry \/ NextStage \/ Rearm \/ Reconnect \/ AckGrowsOld
           \/ HandshakeGrowsOld \/ EmergencyStop
  <2>1. UNCHANGED <<mcu, toMcu>> /\ toPi' \in {toPi, <<>>}
    BY <1>5, QuietStepType
  <2> QED BY <1>1, <1>2, <1>5, <2>1, QuietStepSession DEF Drains
<1>6. CASE Unplugged
  <2>1. UNCHANGED mcu /\ Drains(toMcu, toMcu') /\ Drains(toPi, toPi')
    BY <1>6 DEF Unplugged, Drains
  <2> QED BY <1>1, <1>6, <2>1, UnpluggedSession
<1>7. CASE Lost
  <2>1. UNCHANGED <<mcu, bridge, out, toMcu>> /\ Drains(toMcu, toMcu') /\ Drains(toPi, toPi')
    BY <1>7 DEF Lost, Drains, scheduler
  <2>2. Stays
    BY <2>1 DEF Stays, Known, SessionInv
  <2> QED BY <1>1, <2>1, <2>2
<1>8. CASE WriteNext
  BY <1>8, WriteNextSession
<1>9. CASE ReceiveCommand
  BY <1>9, ReceiveSession
<1>10. CASE Answers \/ Task \/ EvidenceGrowsOld \/ WheelMismatch \/ Garbled \/ McuRestarts
  <2>1. Quiet(mcu, mcu')
    BY <1>10, QuietTask
  <2>2. UNCHANGED <<bridge, out>>
    BY <1>10 DEF Answers, Task, EvidenceGrowsOld, WheelMismatch, Garbled, McuRestarts, scheduler
  <2>3. Drains(toMcu, toMcu')
    BY <1>10, FirmwareEndStep DEF Drains
  <2>4. \A i \in DOMAIN toPi' : Acknowledged(toPi'[i]) => Known
    BY <1>10, <2>2, FirmwareEndStep, AnswersSession DEF Known
  <2>5. \A frame \in out' : Ours(frame)
    BY <2>2 DEF SessionInv
  <2>6. bridge'.session = bridge.session /\ (bridge'.hello => Known)
    BY <2>2 DEF Known
  <2> QED BY <2>1, <2>3, <2>4, <2>5, <2>6, SessionCalm
<1>11. CASE UNCHANGED vars
  <2>1. UNCHANGED <<mcu, bridge, out, toMcu, toPi>>
    BY <1>11 DEF vars
  <2> QED BY <1>1, <2>1 DEF Stays, Known, SessionInv, Drains
<1> QED
  BY <1>3, <1>4, <1>5, <1>6, <1>7, <1>8, <1>9, <1>10, <1>11 DEF Next, Trouble

\* A bridge whose HELLO was acknowledged never talks to a firmware that is in
\* an older session, whatever was late, lost, repeated or recovered.
THEOREM SessionsAgree == Spec => []SessionAgreement
<1>1. Init => SessionInv
  <2> SUFFICES ASSUME Init PROVE SessionInv
    OBVIOUS
  <2>1. FirstSession # None
    BY LinkAssumption, NoneAssumption DEF FirstSession
  <2> QED BY <2>1 DEF Init, FirmwareInit, Started, SessionInv, Known, Acknowledged, Greets
<1>2. SessionInv => SessionAgreement
  BY DEF SessionInv, Known, SessionAgreement
<1> QED
  BY <1>1, <1>2, SessionStep, LinkTypes, PTL DEF Spec
=============================================================================
