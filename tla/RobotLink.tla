----------------------------- MODULE RobotLink -----------------------------
(* The serial link of a robot: the bridge on its Pi, the scheduler of the    *)
(* frames it writes, the line both ways and the firmware at the other end.   *)
(*                                                                           *)
(* The line and the writer work in milliseconds, the tasks of the firmware   *)
(* every 20 and 50 ms, so a task runs when nothing is on its way to it. The  *)
(* mission repeats an action every 0.5 s, in mid-ramp too and after it was   *)
(* answered. A request of the handshake is repeated while its answer is on   *)
(* the line, and a watchdog strikes on a link that works, only by a stroke   *)
(* of bad luck: there are Luck of them. A heartbeat or a velocity that would *)
(* change nothing at the firmware is not sent.                               *)
EXTENDS Firmware

CONSTANTS
    Acks,       \* heartbeat_recovery_ack_count
    Line,       \* how many frames are on the line one way
    Backlog,    \* how many actions wait in the scheduler
    Luck,       \* how often something goes wrong
    Troubles    \* what may

TroubleKinds == {"late", "overdue", "again", "garbled", "lost", "unplugged", "estop", "wheel", "restart",
                 "restartLoaded"}

ASSUME LinkAssumption ==
    /\ Session # {} /\ Acks \in Nat \ {0} /\ Line \in Nat \ {0} /\ Backlog \in Nat \ {0} /\ Luck \in Nat
    /\ Troubles \subseteq TroubleKinds
    /\ None \notin {"recoverable", "emergency", "grip", "release"}

VARIABLES
    bridge,     \* the bridge
    out,        \* the replaceable frames in the scheduler and ESTOP
    actions,    \* the actions in the scheduler, in their order
    toMcu,      \* the line, and the command queue of the firmware
    toPi,       \* the line back
    mission,    \* what the mission has the servo do
    halt,       \* the class of the fault that halts the mission
    luck        \* how often something may still go wrong

scheduler == <<out, actions>>
vars == <<mcu, bridge, out, actions, toMcu, toPi, mission, halt, luck>>

\* The car is lifted, or lowered, when the servo is done; the mission goes on
\* (carry, empty) when it has heard so and may repeat the action until then.
Mission == {"empty", "load", "lifted", "carry", "unload", "lowered"}

Bridges == [session : Session, connected : BOOLEAN,
            hello : BOOLEAN, overdue : BOOLEAN, fresh : {"none", "fresh", "old"}, zeroAcked : BOOLEAN,
            attachSent : BOOLEAN, attached : BOOLEAN, blocked : BOOLEAN,
            fault : {None, "recoverable", "emergency"}, estop : BOOLEAN,
            recovering : BOOLEAN, recovered : BOOLEAN, acks : 0..Acks,
            baseline : Pulse, action : {None, "grip", "release"}]

TypeOK ==
    /\ bridge \in Bridges
    /\ out \subseteq Frame
    /\ actions \in Seq({"grip", "release"}) /\ Len(actions) <= Backlog
    /\ mission \in Mission /\ halt \in {None, "recoverable", "emergency"} /\ luck \in 0..Luck
    /\ toMcu \in Seq(Frame) /\ Len(toMcu) <= Line
    /\ toPi \in Seq(Answer) /\ Len(toPi) <= Line
    /\ mcu \in Mcu

FirstSession == CHOOSE session \in Session : TRUE

\* Stm32BridgeNode.__init__.
Init ==
    /\ FirmwareInit
    /\ bridge = [session |-> FirstSession, connected |-> TRUE,
                 hello |-> FALSE, overdue |-> FALSE, fresh |-> "none", zeroAcked |-> FALSE,
                 attachSent |-> FALSE, attached |-> FALSE, blocked |-> FALSE,
                 fault |-> None, estop |-> FALSE,
                 recovering |-> FALSE, recovered |-> FALSE, acks |-> 0,
                 baseline |-> "open", action |-> None]
    /\ out = {} /\ actions = <<>> /\ toMcu = <<>> /\ toPi = <<>>
    /\ mission = "empty" /\ halt = None /\ luck = Luck

Strikes(trouble) == trouble \in Troubles /\ luck > 0 /\ luck' = luck - 1

-----------------------------------------------------------------------------
(* The scheduler.                                                            *)

HelloOf(b) == [kind |-> "HELLO", session |-> b.session]
HeartbeatOf(b) == [kind |-> "HB", session |-> b.session]
ZeroOf(b) == [kind |-> "zero", session |-> b.session]
AttachOf(b) == [kind |-> "attach", pulse |-> b.baseline]

\* enqueue: a later frame of one of COALESCED_KINDS takes the place of an
\* earlier one.
With(frames, frame) == {f \in frames : f.kind # frame.kind} \cup {frame}

\* pop_next: ESTOP first, then the realtime slots, the handshake in the order in
\* which it is queued, the actions first in first out, and the attach.
Priority(frame) ==
    CASE frame.kind = "ESTOP" -> 0
      [] frame.kind \in {"HB", "V"} -> 1
      [] frame.kind = "HELLO" -> 2
      [] frame.kind = "zero" -> 3
      [] frame.kind = "attach" -> 5

Pops(frame) ==
    \/ /\ frame \in out
       /\ \A other \in out : Priority(frame) <= Priority(other)
       /\ frame.kind = "attach" => actions = <<>>
       /\ out' = out \ {frame} /\ UNCHANGED actions
    \/ /\ actions # <<>> /\ frame = [kind |-> Head(actions)]
       /\ \A other \in out : other.kind = "attach"
       /\ actions' = Tail(actions) /\ UNCHANGED out

\* Mutant: the writer does not wait for the line.
WriteNextAtOnce ==
    /\ bridge.connected
    /\ \E frame \in Frame : Pops(frame) /\ toMcu' = Append(toMcu, frame)
    /\ UNCHANGED <<mcu, bridge, toPi, mission, halt, luck>>

WriteNext ==
    /\ bridge.connected /\ Len(toMcu) < Line
    /\ \E frame \in Frame : Pops(frame) /\ toMcu' = Append(toMcu, frame)
    /\ UNCHANGED <<mcu, bridge, toPi, mission, halt, luck>>

\* Nothing is on its way to the firmware.
Still == out = {} /\ actions = <<>> /\ toMcu = <<>>

Elements(seq) == {seq[i] : i \in DOMAIN seq}

\* Is a request of this kind, its answer or an error under way?
UnderWay(kind) ==
    \/ \E frame \in out \cup Elements(toMcu) : frame.kind = kind
    \/ \E answer \in Elements(toPi) \cup ({mcu.ack, mcu.hback} \ {None}) : answer.kind \in {kind, "ERR"}
    \/ mcu.err # None

\* A heartbeat or velocity that would change nothing is left out.
Matters(frame) == [Executed(mcu, frame) EXCEPT !.hback = mcu.hback] # mcu

-----------------------------------------------------------------------------
(* The bridge.                                                               *)

\* Nothing is sent: an emergency, or a fault that no recovery is about.
Silenced(b) == b.estop \/ (b.fault # None /\ ~b.recovering /\ ~b.recovered)
Healthy(b) == ~b.estop /\ b.fault = None
\* _heartbeat_fresh.
Fresh(b) == b.hello /\ b.fresh = "fresh"

\* _latch_fault: the first fault is kept.
Latched(b, class) ==
    [b EXCEPT !.fault = IF @ = None THEN class ELSE @, !.attached = FALSE, !.blocked = TRUE]

\* The fault is published and halts the mission. A rearm takes the mission back
\* into the stage, where it waits for the servo anew.
Halts(class) ==
    /\ halt' = IF halt = "emergency" THEN halt ELSE class
    /\ mission' = CASE mission = "lifted" -> "load"
                    [] mission = "lowered" -> "unload"
                    [] OTHER -> mission

\* A session id is new (secrets.token_hex): none that anybody still holds;
\* Session is large enough that there always is one.
About == {bridge.session, mcu.session}
         \cup {f.session : f \in {x \in Elements(toMcu) \cup Elements(toPi) : x.kind \in {"HELLO", "HB", "zero"}}}
         \cup {f.session : f \in {x \in {mcu.ack, mcu.hback} \ {None} : x.kind \in {"HELLO", "HB", "zero"}}}
Unused == Session \ About

\* _begin_communication_recovery: a new session, unless one is being recovered.
Recover(b) ==
    \/ /\ b.recovering \/ b.estop
       /\ bridge' = b
       /\ UNCHANGED <<scheduler, mission, halt>>
    \/ /\ ~b.recovering /\ ~b.estop /\ Unused # {}
       /\ bridge' = [Latched(b, "recoverable") EXCEPT
                         !.session = CHOOSE session \in Unused : TRUE,
                         !.recovering = TRUE, !.recovered = FALSE, !.acks = 0,
                         !.hello = FALSE, !.overdue = FALSE, !.fresh = "none", !.zeroAcked = FALSE, !.attachSent = FALSE]
       /\ out' = {HelloOf(bridge')} /\ actions' = <<>>
       /\ Halts("recoverable")

MayHello(b) == b.connected /\ ~b.hello /\ ~Silenced(b)
MayZero(b) == b.connected /\ Fresh(b) /\ ~b.zeroAcked /\ Healthy(b)
MayAttach(b) == b.connected /\ Fresh(b) /\ b.zeroAcked /\ ~b.attached /\ ~b.blocked /\ Healthy(b)

\* A request is repeated when there is no answer, and now and then too early.
Repeats(kind) ==
    \/ ~UnderWay(kind) /\ UNCHANGED luck
    \/ UnderWay(kind) /\ Strikes("again")

\* startup_handshake_tick, its cases. Once a handshake is overdue, no HELLO
\* follows until a new session begins.
SendHello ==
    /\ MayHello(bridge) /\ ~bridge.overdue /\ Repeats("HELLO")
    /\ out' = With(out, HelloOf(bridge))
    /\ UNCHANGED <<bridge, actions, mission, halt>>

\* Mutant: the mission is not told.
HandshakeTimeoutInSilence ==
    /\ MayHello(bridge) /\ bridge.overdue
    /\ bridge' = Latched(bridge, "emergency")
    /\ UNCHANGED <<scheduler, mission, halt, luck>>

HandshakeTimeout ==
    /\ MayHello(bridge) /\ bridge.overdue
    /\ bridge' = Latched(bridge, "emergency")
    /\ Halts("emergency")
    /\ UNCHANGED <<scheduler, luck>>

SendZero ==
    /\ MayZero(bridge) /\ ~bridge.recovering /\ Repeats("zero")
    /\ out' = With(out, ZeroOf(bridge))
    /\ UNCHANGED <<bridge, actions, mission, halt>>

SendAttach ==
    /\ MayAttach(bridge) /\ ~bridge.recovering /\ Repeats("attach")
    /\ out' = With(out, AttachOf(bridge))
    /\ bridge' = [bridge EXCEPT !.attachSent = TRUE]
    /\ UNCHANGED <<actions, mission, halt>>

Beats(b) == b.connected /\ b.hello /\ ~Silenced(b)

\* send_heartbeat.
SendHeartbeat ==
    /\ Beats(bridge) /\ (bridge.fresh # "old" \/ bridge.recovering)
    /\ bridge.fresh # "fresh" \/ bridge.recovering \/ Matters(HeartbeatOf(bridge))
    /\ ~UnderWay("HB")
    /\ out' = With(out, HeartbeatOf(bridge))
    /\ UNCHANGED <<bridge, actions, mission, halt, luck>>

HeartbeatLate ==
    /\ Beats(bridge) /\ bridge.fresh = "old" /\ ~bridge.recovering
    /\ Recover(bridge)
    /\ UNCHANGED luck

\* hardware_ready_conditions.
Up(b) == b.connected /\ Fresh(b) /\ b.zeroAcked /\ b.attached /\ Healthy(b)

\* send_velocity_loop; the mission drives between two lifts.
SendVelocity ==
    /\ bridge.connected /\ Healthy(bridge) /\ bridge.zeroAcked /\ Fresh(bridge)
    /\ LET frame == [kind |-> "V", drive |-> Up(bridge) /\ halt = None /\ mission \in {"empty", "carry"}]
       IN Matters(frame) /\ ~UnderWay("V") /\ out' = With(out, frame)
    /\ UNCHANGED <<bridge, actions, mission, halt, luck>>

\* Mutant: a stage that is done is asked the action of the next one.
AskedOfTheNext == IF mission \in {"load", "lowered"} THEN "grip" ELSE "release"

\* send_action_with_retry, every 0.5 s, and _send_grip.
Asked == IF mission \in {"load", "lifted"} THEN "grip" ELSE "release"

\* Is the last action, or its acknowledgement, on its way?
ActionUnderWay ==
    \/ actions # <<>> \/ \E frame \in Elements(toMcu) : frame.kind \in {"grip", "release"}
    \/ \E answer \in Elements(toPi) \cup ({mcu.ack} \ {None}) : answer.kind = "other"

Orders ==
    IF bridge.connected /\ Healthy(bridge) /\ bridge.attached
    THEN /\ IF ActionUnderWay THEN Strikes("again") ELSE UNCHANGED luck
         /\ Len(actions) < Backlog /\ actions' = Append(actions, Asked)
    ELSE UNCHANGED <<actions, luck>>

\* Mutant: the baseline does not move with the action.
SendGripKeepsBaseline ==
    /\ halt = None /\ mission \in {"load", "lifted", "unload", "lowered"}
    /\ Orders
    /\ bridge' = [bridge EXCEPT !.action = Asked]
    /\ UNCHANGED <<out, mission, halt>>

SendGrip ==
    /\ halt = None /\ mission \in {"load", "lifted", "unload", "lowered"}
    /\ Orders
    /\ bridge' = [bridge EXCEPT !.action = Asked,
                                !.baseline = IF Asked = "grip" THEN "grip" ELSE "open"]
    /\ UNCHANGED <<out, mission, halt>>

\* The mission hears that the servo is done, or drives to where it is to load
\* or unload, which takes longer than anything is on its way.
NextStage ==
    /\ halt = None
    /\ \/ mission = "lifted" /\ mission' = "carry"
       \/ mission = "lowered" /\ mission' = "empty"
       \/ /\ Still /\ toPi = <<>> /\ Pending(mcu) = <<>>
          /\ ~mcu.moving /\ mcu.target = mcu.driven /\ mcu.driven = mcu.turning
          /\ \/ mission = "empty" /\ mission' = "load"
             \/ mission = "carry" /\ mission' = "unload"
    /\ UNCHANGED <<mcu, bridge, scheduler, toMcu, toPi, halt, luck>>

\* rearm_cb of the mission: no emergency can be rearmed. A person sees
\* hardware_ready first, published every 0.2 s.
Rearm ==
    /\ halt = "recoverable" /\ Up(bridge) /\ toPi = <<>> /\ Pending(mcu) = <<>>
    /\ halt' = None
    /\ UNCHANGED <<mcu, bridge, scheduler, toMcu, toPi, mission, luck>>

\* Mutant: the session of an acknowledged HELLO is not compared.
HelloAckOfAnySession(answer) ==
    IF Silenced(bridge)
    THEN UNCHANGED <<bridge, scheduler>>
    ELSE /\ bridge' = [bridge EXCEPT !.hello = TRUE]
         /\ out' = IF bridge.hello THEN out ELSE With(out, HeartbeatOf(bridge))
         /\ UNCHANGED actions

\* _handle_ack, by the kind of answer.
HelloAck(answer) ==
    IF answer.session # bridge.session \/ Silenced(bridge)
    THEN UNCHANGED <<bridge, scheduler>>
    ELSE /\ bridge' = [bridge EXCEPT !.hello = TRUE]
         /\ out' = IF bridge.hello THEN out ELSE With(out, HeartbeatOf(bridge))
         /\ UNCHANGED actions

HeartbeatAck(answer) ==
    IF answer.session # bridge.session \/ ~bridge.hello \/ Silenced(bridge)
    THEN UNCHANGED <<bridge, scheduler>>
    ELSE LET done == bridge.recovering /\ bridge.acks + 1 >= Acks
             b == [bridge EXCEPT
                     !.fresh = "fresh",
                     !.acks = IF done \/ ~bridge.recovering THEN 0 ELSE @ + 1,
                     !.recovering = @ /\ ~done,
                     !.recovered = @ \/ done,
                     !.fault = IF done /\ @ = "recoverable" THEN None ELSE @,
                     !.blocked = @ /\ ~done]
         IN /\ bridge' = b
            /\ out' = IF ~b.recovering /\ MayZero(b) THEN With(out, ZeroOf(b)) ELSE out
            /\ UNCHANGED actions

ZeroAck(answer) ==
    IF answer.session # bridge.session \/ ~Fresh(bridge) \/ ~Healthy(bridge)
    THEN UNCHANGED <<bridge, scheduler>>
    ELSE LET b == [bridge EXCEPT !.zeroAcked = TRUE]
         IN /\ bridge' = [b EXCEPT !.attachSent = @ \/ MayAttach(b)]
            /\ out' = IF MayAttach(b) THEN With(out, AttachOf(b)) ELSE out
            /\ UNCHANGED actions

AttachAck ==
    /\ bridge' = [bridge EXCEPT !.attached = @ \/ (/\ bridge.attachSent /\ bridge.zeroAcked
                                                   /\ Fresh(bridge) /\ ~bridge.blocked
                                                   /\ Healthy(bridge))]
    /\ UNCHANGED scheduler

\* _handle_error.
Error(code) ==
    \/ /\ ~bridge.hello /\ code \in CommunicationTimeout \cup RequiresNewSession
       /\ UNCHANGED <<bridge, scheduler, mission, halt>>
    \/ /\ bridge.hello \/ code \notin CommunicationTimeout \cup RequiresNewSession
       /\ \/ /\ code = "LIFT_WHILE_MOVING"
             /\ UNCHANGED <<bridge, scheduler, mission, halt>>
          \/ /\ code = "SERVO_NOT_ATTACHED"
             /\ bridge' = [bridge EXCEPT !.attached = FALSE, !.blocked = FALSE]
             /\ Halts("recoverable")
             /\ UNCHANGED scheduler
          \/ /\ code \in CommunicationTimeout \cup RequiresNewSession \cup {"REQUIRED"}
             /\ Recover(bridge)
          \/ /\ code \in Physical \cup {"ESTOP_LATCHED"}
             /\ bridge' = Latched([bridge EXCEPT !.estop = @ \/ code = "ESTOP_LATCHED"], "emergency")
             /\ Halts("emergency")
             /\ UNCHANGED scheduler

\* LIFT,GRIP_DONE and LIFT,RELEASE_DONE, at the bridge and, unless it is
\* halted, at the mission.
Lifted(action) ==
    /\ bridge' = [bridge EXCEPT !.action = IF @ = action THEN None ELSE @]
    /\ UNCHANGED <<scheduler, halt>>
    /\ mission' = CASE halt = None /\ mission = "load" /\ action = "grip" -> "lifted"
                    [] halt = None /\ mission = "unload" /\ action = "release" -> "lowered"
                    [] OTHER -> mission

ReadAnswer ==
    /\ bridge.connected /\ toPi # <<>>
    /\ toPi' = Tail(toPi)
    /\ LET answer == Head(toPi)
       IN \/ /\ \/ answer.kind = "HELLO" /\ HelloAck(answer)
                \/ answer.kind = "HB" /\ HeartbeatAck(answer)
                \/ answer.kind = "zero" /\ ZeroAck(answer)
                \/ answer.kind = "attach" /\ AttachAck
                \/ answer.kind = "other" /\ UNCHANGED <<bridge, scheduler>>
             /\ UNCHANGED <<mission, halt>>
          \/ answer.kind = "ERR" /\ Error(answer.code)
          \/ answer.kind = "GRIP_DONE" /\ Lifted("grip")
          \/ answer.kind = "RELEASE_DONE" /\ Lifted("release")
    /\ UNCHANGED <<mcu, toMcu, luck>>

\* publish_motor_diagnostics: T telemetry moves the baseline outside an action.
ReadTelemetry ==
    /\ bridge.connected /\ toPi = <<>> /\ bridge.action = None /\ ~mcu.txFault
    /\ bridge.baseline # mcu.current
    /\ bridge' = [bridge EXCEPT !.baseline = mcu.current]
    /\ UNCHANGED <<mcu, scheduler, toMcu, toPi, mission, halt, luck>>

BridgeStep ==
    /\ \/ SendHello \/ HandshakeTimeout \/ SendZero \/ SendAttach
       \/ SendHeartbeat \/ HeartbeatLate \/ SendVelocity \/ SendGrip
    /\ UNCHANGED <<mcu, toMcu, toPi>>

-----------------------------------------------------------------------------
(* The firmware at the end of the line.                                      *)

ReceiveCommand ==
    /\ toMcu # <<>>
    /\ Receive(Head(toMcu))
    /\ toMcu' = Tail(toMcu)
    /\ UNCHANGED <<bridge, scheduler, toPi, mission, halt, luck>>

\* UART_SendPending, onto the line if there is one.
Answers ==
    /\ Len(toPi) < Line
    /\ SendPending
    /\ toPi' = IF bridge.connected THEN toPi \o Pending(mcu) ELSE toPi
    /\ UNCHANGED <<bridge, scheduler, toMcu, mission, halt, luck>>

Task ==
    /\ Still
    /\ MotorTask \/ ServoTask \/ WheelsFollow
    /\ UNCHANGED <<bridge, scheduler, toMcu, toPi, mission, halt, luck>>

-----------------------------------------------------------------------------
(* What goes wrong.                                                          *)

\* A heartbeat is due and would be accepted.
Served == Beats(bridge) /\ mcu.session = bridge.session

\* HEARTBEAT_TIMEOUT_MS or COMMAND_TIMEOUT_MS pass; on a link that works it
\* takes bad luck.
EvidenceGrowsOld ==
    /\ \/ HeartbeatGrowsOld /\ ~mcu.hbOld
       \/ CommandGrowsOld /\ ~mcu.cmdOld
    /\ IF Served THEN Strikes("late") ELSE UNCHANGED luck
    /\ UNCHANGED <<bridge, scheduler, toMcu, toPi, mission, halt>>

\* The last heartbeat acknowledged is older than heartbeat_ack_timeout.
AckGrowsOld ==
    /\ bridge.hello /\ bridge.fresh # "old"
    /\ Strikes("late")
    /\ bridge' = [bridge EXCEPT !.fresh = "old"]
    /\ UNCHANGED <<mcu, scheduler, toMcu, toPi, mission, halt>>

\* A handshake lasts longer than hello_handshake_timeout, for its answers do not
\* arrive or arrive late.
HandshakeGrowsOld ==
    /\ ~bridge.hello /\ ~bridge.overdue
    /\ Strikes("overdue")
    /\ bridge' = [bridge EXCEPT !.overdue = TRUE]
    /\ toPi' \in {toPi, <<>>}
    /\ UNCHANGED <<mcu, scheduler, toMcu, mission, halt>>

\* A wheel turns against its target.
WheelMismatch ==
    /\ WheelRunsWrong /\ Strikes("wheel")
    /\ UNCHANGED <<bridge, scheduler, toMcu, toPi, mission, halt>>

\* A byte is damaged on its way to the firmware (UartReceive): a receive error.
Garbled ==
    /\ toMcu # <<>>
    /\ Strikes("garbled")
    /\ ReceiveFails
    /\ toMcu' = <<>>
    /\ UNCHANGED <<bridge, scheduler, toPi, mission, halt>>

\* An answer does not arrive whole.
Lost ==
    /\ toPi # <<>> /\ bridge.connected
    /\ Strikes("lost")
    /\ toPi' = Tail(toPi)
    /\ UNCHANGED <<mcu, bridge, scheduler, toMcu, mission, halt>>

\* A write fails: _latch_transport_fault closes the port and drops the frames.
Unplugged ==
    /\ bridge.connected
    /\ Strikes("unplugged")
    /\ bridge' = Latched([bridge EXCEPT !.connected = FALSE], "recoverable")
    /\ out' = {} /\ actions' = <<>> /\ toPi' = <<>>
    /\ toMcu' \in {toMcu, <<>>}
    /\ Halts("recoverable")
    /\ UNCHANGED mcu

\* serial_reconnect_tick.
Reconnect ==
    /\ ~bridge.connected /\ ~bridge.estop
    /\ Recover([bridge EXCEPT !.connected = TRUE, !.blocked = FALSE,
                              !.fault = IF @ = "recoverable" THEN None ELSE @])
    /\ UNCHANGED <<mcu, toMcu, toPi, luck>>

\* estop_cb: ESTOP overtakes everything. A person asks for it or the mission,
\* again and again once a fault of that class has halted it.
EmergencyStop ==
    /\ ~bridge.estop
    /\ IF halt = "emergency" THEN UNCHANGED luck ELSE Strikes("estop")
    /\ bridge' = [bridge EXCEPT !.estop = TRUE, !.attached = FALSE, !.blocked = TRUE]
    /\ out' = IF bridge.connected THEN {[kind |-> "ESTOP"]} ELSE {}
    /\ actions' = <<>>
    /\ Halts("emergency")
    /\ UNCHANGED <<mcu, toMcu, toPi>>

\* The MCU restarts; the jaws stay where they are until they are pulsed.
McuRestarts ==
    /\ Strikes(IF mcu.jaws = "open" THEN "restart" ELSE "restartLoaded")
    /\ Restart
    /\ toMcu' = <<>>
    /\ UNCHANGED <<bridge, scheduler, toPi, mission, halt>>

Trouble ==
    \/ EvidenceGrowsOld \/ AckGrowsOld \/ HandshakeGrowsOld \/ WheelMismatch
    \/ Garbled \/ Lost \/ Unplugged \/ EmergencyStop \/ McuRestarts

Next ==
    \/ WriteNext \/ BridgeStep \/ ReadAnswer \/ ReadTelemetry \/ NextStage \/ Rearm \/ Reconnect
    \/ ReceiveCommand \/ Answers \/ Task
    \/ Trouble

Spec == Init /\ [][Next]_vars

-----------------------------------------------------------------------------
(* Fairness: the threads of the bridge, the line and the main loop of the    *)
(* firmware go on, and evidence that is not renewed grows old. No trouble is *)
(* fair. A task of the firmware runs when nothing is on its way to it, which *)
(* is again and again but not for ever.                                      *)

Sends(action) == action /\ UNCHANGED <<mcu, toMcu, toPi>>
Runs(task) == Still /\ task
              /\ UNCHANGED <<bridge, scheduler, toMcu, toPi, mission, halt, luck>>

FairSpec ==
    /\ Spec
    /\ WF_vars(WriteNext) /\ WF_vars(ReadAnswer) /\ WF_vars(Reconnect)
    /\ WF_vars(Sends(SendHello)) /\ WF_vars(Sends(HandshakeTimeout)) /\ WF_vars(Sends(SendZero)) /\ WF_vars(Sends(SendAttach))
    /\ WF_vars(Sends(SendHeartbeat)) /\ WF_vars(Sends(HeartbeatLate))
    /\ WF_vars(Sends(SendVelocity))
    /\ WF_vars(ReceiveCommand) /\ WF_vars(Answers)
    /\ WF_vars(UNCHANGED luck /\ EvidenceGrowsOld) /\ WF_vars(UNCHANGED luck /\ EmergencyStop)
    /\ SF_vars(Runs(MotorTask)) /\ SF_vars(Runs(ServoTask)) /\ SF_vars(Runs(WheelsFollow))

-----------------------------------------------------------------------------
(* What the link promises.                                                   *)

\* A bridge whose HELLO was acknowledged and the firmware are in the same
\* session or the firmware in none: never in an older one, whatever is late.
SessionAgreement == bridge.hello => mcu.session \in {bridge.session, None}

\* The jaws close for a car and open to let it go: from the first grip of a
\* stage to the last release of the next they move one way, whatever is queued,
\* repeated, recovered or left over. Only an attach puts them elsewhere.
Loading == mission \in {"load", "lifted", "carry"}
Width(pulse) == CASE pulse = "open" -> 0 [] pulse = "between" -> 1 [] pulse = "grip" -> 2
Attaches == toMcu # <<>> /\ Head(toMcu).kind = "attach"
JawsFollowMission ==
    [][mcu'.jaws # mcu.jaws /\ ~Attaches => (Width(mcu'.jaws) > Width(mcu.jaws) <=> Loading)]_vars

\* The jaws that carry a car never open a step, not by an attach either, as long
\* as no more goes wrong than Luck allows (README, bounds): a session that opens
\* anew attaches the servo where it stands.
Loaded(stage) == stage \in {"lifted", "carry"}
HeldCarIsKept ==
    [][Loaded(mission) /\ Loaded(mission') => Width(mcu'.jaws) >= Width(mcu.jaws)]_vars

\* While a car is carried no attach with the pulse of open jaws is on its way.
NeverReattachesOpen ==
    Loaded(mission) => \A frame \in out \cup Elements(toMcu) :
                             frame.kind = "attach" => frame.pulse # "open"

\* The link is ready again and again, at both ends, unless a fault that needs
\* a person has struck or a recovery has met a new error before it was over.
Ready == Up(bridge) /\ mcu.session = bridge.session /\ mcu.attached
NeedsPerson == bridge.estop \/ bridge.fault = "emergency" \/ mcu.safety
Lapsed == bridge.recovering /\ bridge.hello /\ (mcu.session # bridge.session \/ mcu.hbOut)
LinkComesBack == []<>(Ready \/ NeedsPerson \/ Lapsed)

\* A robot whose cable is out comes to rest, by its own watchdogs.
WheelsStop == (mcu.driven /\ ~bridge.connected) ~> ~mcu.driven
=============================================================================
