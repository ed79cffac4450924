--------------------------- MODULE MissionBarrier ---------------------------
(***************************************************************************)
(* The mission state machines of the two robots (mvp_state_machine_node    *)
(* over robot_state_machine_node) and the Front-coordinated barrier that   *)
(* keeps them in step: each robot announces that it is ready for the next  *)
(* stage, Front commits a stage when both are, and either robot moves on   *)
(* only by a commit of its own active mission.                             *)
(*                                                                         *)
(* A tick of the 100 ms timer is one action per state.  Time itself is not *)
(* modelled: where the CONSTANT Troubles has "stale", a message may always *)
(* turn out too old, and where it has "slow", a stage timer always expire. *)
(* The bools a node latches are kept in one set per robot.  The sequence   *)
(* numbers only order one publisher's events; here a wire keeps the order. *)
(*                                                                         *)
(* Around the two machines stand what they talk to, as they see it: the    *)
(* fleet's mission state, the servo (order, jaws, DONE status), the motion *)
(* node whose job starts over whenever the robot state changes, and the    *)
(* pair controller's ARRIVED.  The diagnostic mode stop_after_align is     *)
(* off.                                                                    *)
(***************************************************************************)
EXTENDS Integers, Sequences

CONSTANTS
    Missions,      \* mission ids
    NoMission,     \* the empty mission id
    NoStage,       \* the peer is not known to be ready
    Troubles,      \* what may strike: a subset of TroubleKinds
    Rearms         \* does the operator publish /robot/rearm?

FaultClass == {"recoverable", "emergency"}

\* Faults of these classes, a lost STM32 ACK, stale messages, stage timers
\* that expire, a restart of the fleet.
TroubleKinds == FaultClass \cup {"hardware", "stale", "slow", "restart"}

Stages == {"LIFT", "DRIVE", "RELEASE", "RETURN", "HOME"}

ASSUME BarrierAssumption ==
    /\ NoMission \notin Missions
    /\ NoStage \notin Stages
    /\ Troubles \subseteq TroubleKinds
    /\ Rearms \in BOOLEAN

Roles == {"front", "rear"}

States == {"IDLE", "APPROACH", "ALIGN", "LIFT", "DRIVE", "WAIT_RELEASE",
           "RELEASE", "RETURN", "FAULT"}

Active == States \ {"IDLE", "FAULT"}

Latches == {"approach_done", "wheel_aligned", "lift_done", "arrived",
            "release_done", "release_announced", "return_done",
            "local_lifted", "self_lifted", "rear_lifted", "aggregate_lifted"}

VARIABLES
    state,         \* state of each machine
    origin,        \* _fault_origin_state
    fault,         \* class of hardware_fault, or "none"
    mission,       \* active_mission_id
    view,          \* fleet_state last accepted
    latched,       \* the Latches that are set
    committed,     \* committed_stages
    hardwareReady, \* hardware_ready
    peerReady,     \* Front: Rear's fresh ready stage, or NoStage
    commitWire,    \* Front's commits on their way to Rear
    completeWire,  \* mission of the last /mission/complete
    estop,         \* /emergency_stop is latched by the bridges
    order,         \* last grip_command the servo has not finished
    jaws,          \* "open" or "closed" on the wheels
    status,        \* lift_status on its way to the machine
    job,           \* what the motion node is doing
    fleet,         \* mission state the fleet publishes
    carLifted,     \* the fleet has heard /robot/lifted
    liftedWire,    \* a true of /robot/lifted on its way to the fleet
    started,       \* missions the fleet has started
    atGoal         \* ARRIVED is being published for the fleet's plan

robot == <<state, origin, fault, mission, view, latched, committed,
           hardwareReady, peerReady>>
wires == <<commitWire, completeWire>>
servo == <<order, jaws, status>>
world == <<fleet, carLifted, liftedWire, started, atGoal>>

vars == <<state, origin, fault, mission, view, latched, committed,
          hardwareReady, peerReady, commitWire, completeWire,
          estop, order, jaws, status, job, fleet, carLifted, liftedWire,
          started, atGoal>>

Event == [mission : Missions, stage : Stages]

-----------------------------------------------------------------------------
Init ==
    /\ state = [r \in Roles |-> "IDLE"]
    /\ origin = [r \in Roles |-> "IDLE"]
    /\ fault = [r \in Roles |-> "none"]
    /\ mission = [r \in Roles |-> NoMission]
    /\ view = [r \in Roles |-> "WAIT_TARGET"]
    /\ latched = [r \in Roles |-> {}]
    /\ committed = [r \in Roles |-> {}]
    /\ hardwareReady = [r \in Roles |-> FALSE]
    /\ peerReady = NoStage
    /\ commitWire = <<>>
    /\ completeWire = NoMission
    /\ estop = FALSE
    /\ order = [r \in Roles |-> "none"]
    /\ jaws = [r \in Roles |-> "open"]
    /\ status = [r \in Roles |-> "none"]
    /\ job = [r \in Roles |-> "none"]
    /\ fleet = [state |-> "WAIT_TARGET", mission |-> NoMission]
    /\ carLifted = FALSE
    /\ liftedWire = FALSE
    /\ started = {}
    /\ atGoal = FALSE

-----------------------------------------------------------------------------
(* Callbacks of the state machine. *)

\* fleet_cb: a fresh envelope, in order.
FleetCb(r) ==
    /\ IF /\ NoMission \notin {fleet.mission, mission[r]}
          /\ fleet.mission # mission[r]
          /\ state[r] \in Active
       THEN /\ fault' = [fault EXCEPT ![r] = "recoverable"]
            /\ UNCHANGED <<mission, view, committed, peerReady>>
       ELSE /\ view' = [view EXCEPT ![r] = fleet.state]
            /\ IF /\ mission[r] = NoMission /\ fleet.mission # NoMission
                  /\ fleet.state = "WAIT_LIFT" /\ state[r] = "IDLE"
               THEN /\ mission' = [mission EXCEPT ![r] = fleet.mission]
                    /\ committed' = [committed EXCEPT ![r] = {}]
                    /\ peerReady' = IF r = "front" THEN NoStage ELSE peerReady
               ELSE UNCHANGED <<mission, committed, peerReady>>
            /\ UNCHANGED fault
    /\ UNCHANGED <<state, origin, latched, hardwareReady, wires, estop, servo,
                   job, world>>

\* check_both_lifted on Front's latches.
CheckBothLifted(flags) ==
    IF {"self_lifted", "rear_lifted"} \subseteq flags
    THEN flags \cup {"aggregate_lifted"} ELSE flags

\* Rear's announcement is too old when it arrives at Front, or by now.
ReadyGoesStale ==
    /\ "stale" \in Troubles
    /\ peerReady # NoStage
    /\ peerReady' = NoStage
    /\ UNCHANGED <<state, origin, fault, mission, view, latched, committed,
                   hardwareReady, wires, estop, servo, job, world>>

\* commit_cb at Rear; a commit of another mission, or a stale one, is ignored.
CommitCb ==
    /\ commitWire # <<>>
    /\ commitWire' = Tail(commitWire)
    /\ LET event == Head(commitWire) IN
       \/ /\ event.mission = mission["rear"]
          /\ committed' = [committed EXCEPT !["rear"] = @ \cup {event.stage}]
       \/ /\ "stale" \in Troubles \/ event.mission # mission["rear"]
          /\ UNCHANGED committed
    /\ UNCHANGED <<state, origin, fault, mission, view, latched,
                   hardwareReady, peerReady, completeWire, estop, servo, job,
                   world>>

\* rear_lifted_cb at Front: Rear repeats local_lifted every 500 ms (its DRIVE
\* announcement, which says the same, has the same effect in other_ready_cb).
RearLiftedCb ==
    /\ "local_lifted" \in latched["rear"]
    /\ latched' = [latched EXCEPT !["front"] =
                      CheckBothLifted(@ \cup {"rear_lifted"})]
    /\ UNCHANGED <<state, origin, fault, mission, view, committed,
                   hardwareReady, peerReady, wires, estop, servo, job,
                   world>>

\* lift_cb with stage_accepts_lift_status.
LiftCb(r) ==
    /\ status[r] # "none"
    /\ status' = [status EXCEPT ![r] = "none"]
    /\ latched' = [latched EXCEPT ![r] =
          CASE state[r] = "LIFT" /\ status[r] = "GRIP_DONE"
                 -> @ \cup {"lift_done"}
            [] state[r] = "RELEASE" /\ status[r] = "RELEASE_DONE"
                 -> @ \cup {"release_done"}
            [] OTHER -> @]
    /\ UNCHANGED <<state, origin, fault, mission, view, committed,
                   hardwareReady, peerReady, wires, estop, order, jaws,
                   job, world>>

\* hardware_ready_cb; an emergency stop keeps the bridge from being ready.
HardwareReadyCb(r, ready) ==
    /\ ready # hardwareReady[r]
    /\ IF ready THEN ~estop ELSE estop \/ "hardware" \in Troubles
    /\ hardwareReady' = [hardwareReady EXCEPT ![r] = ready]
    /\ fault' = IF ~ready /\ state[r] \in Active
                THEN [fault EXCEPT ![r] = "recoverable"] ELSE fault
    /\ UNCHANGED <<state, origin, mission, view, latched, committed,
                   peerReady, wires, estop, servo, job, world>>

\* hardware_cb, motion_fault_cb and the fatal branch of sync_cb: the latest
\* reason replaces the one before.
FaultCb(r, class) ==
    /\ class \in Troubles
    /\ fault' = [fault EXCEPT ![r] = class]
    /\ UNCHANGED <<state, origin, mission, view, latched, committed,
                   hardwareReady, peerReady, wires, estop, servo, job,
                   world>>

\* sync_cb with ARRIVED for the plan this robot knows.
ArrivedCb(r) ==
    /\ atGoal
    /\ state[r] = "DRIVE"
    /\ view[r] = "NAVIGATING"
    /\ latched' = [latched EXCEPT ![r] = @ \cup {"arrived"}]
    /\ UNCHANGED <<state, origin, fault, mission, view, committed,
                   hardwareReady, peerReady, wires, estop, servo, job,
                   world>>

-----------------------------------------------------------------------------
(* Ticks: state_machine() every 100 ms, one action per state. *)

Ticking(r, s) == state[r] = s /\ fault[r] = "none"

\* What the motion node does in a robot state.
Job(s) ==
    CASE s = "APPROACH" -> "approach"
      [] s = "ALIGN"    -> "align"
      [] s = "RETURN"   -> "return"
      [] OTHER          -> "none"

\* transition: a stage that acts on the servo waits for a new DONE; the new
\* robot state (re)starts the motion node's job.
Transition(r, new, flags) ==
    /\ state' = [state EXCEPT ![r] = new]
    /\ latched' = [latched EXCEPT ![r] =
          flags \ CASE new = "LIFT"    -> {"lift_done"}
                    [] new = "RELEASE" -> {"release_done"}
                    [] OTHER           -> {}]
    /\ job' = [job EXCEPT ![r] = Job(new)]

\* Stay in the state with these latches.
Remain(r, flags) ==
    /\ latched' = [latched EXCEPT ![r] = flags]
    /\ UNCHANGED <<state, job>>

\* Mutant: Front does not wait for Rear.
CommitsAlone(r, stage, ready) ==
    r = "front" /\ ready /\ stage \notin committed[r]

\* Mutant: any announcement of Rear is taken for the one waited for.
CommitsAnyStage(r, stage, ready) ==
    r = "front" /\ ready /\ peerReady # NoStage /\ stage \notin committed[r]

\* Can Front commit the stage in this tick?
Commits(r, stage, ready) ==
    r = "front" /\ ready /\ peerReady = stage /\ stage \notin committed[r]

Passed(r, stage, ready) == stage \in committed[r] \/ Commits(r, stage, ready)

(***************************************************************************)
(* publish_ready_stage, maybe_publish_commit and, at the other end,        *)
(* other_ready_cb.  In every tick in which it is ready for the stage, Rear *)
(* announces it, and Front, if it has the same mission, notes it; Front    *)
(* ready for the same stage commits it, once.  What Rear notes of Front's  *)
(* announcements is not used.                                              *)
(***************************************************************************)
Heard(r, stage, ready) ==
    IF /\ r = "rear" /\ ready
       /\ mission["rear"] # NoMission /\ mission["rear"] = mission["front"]
    THEN stage ELSE peerReady

\* Mutant: Front has reset its mission before it would publish HOME.
CommitsSentButHome(r, stage, ready) ==
    IF Commits(r, stage, ready) /\ stage # "HOME"
    THEN Append(commitWire, [mission |-> mission[r], stage |-> stage])
    ELSE commitWire

CommitsSent(r, stage, ready) ==
    IF Commits(r, stage, ready)
    THEN Append(commitWire, [mission |-> mission[r], stage |-> stage])
    ELSE commitWire

Coordinate(r, stage, ready) ==
    /\ peerReady' = Heard(r, stage, ready)
    /\ commitWire' = CommitsSent(r, stage, ready)
    /\ committed' = IF Commits(r, stage, ready)
                    THEN [committed EXCEPT ![r] = @ \cup {stage}]
                    ELSE committed

TickIdle(r) ==
    /\ Ticking(r, "IDLE")
    /\ view[r] = "WAIT_LIFT" /\ hardwareReady[r] /\ mission[r] # NoMission
    /\ Transition(r, "APPROACH", latched[r])
    /\ UNCHANGED <<origin, fault, mission, view, committed, hardwareReady,
                   peerReady, wires, estop, servo, world>>

TickApproach(r) ==
    /\ Ticking(r, "APPROACH")
    /\ "approach_done" \in latched[r]
    /\ Transition(r, "ALIGN", latched[r])
    /\ UNCHANGED <<origin, fault, mission, view, committed, hardwareReady,
                   peerReady, wires, estop, servo, world>>

TickAlign(r) ==
    LET ready == "wheel_aligned" \in latched[r] IN
    /\ Ticking(r, "ALIGN")
    /\ Coordinate(r, "LIFT", ready)
    /\ IF Passed(r, "LIFT", ready)
       THEN Transition(r, "LIFT", latched[r])
       ELSE Remain(r, latched[r])
    /\ UNCHANGED <<origin, fault, mission, view, hardwareReady,
                   completeWire, estop, servo, world>>

\* publish_lifted
Lifted(r) ==
    LET flags == latched[r] \cup {"local_lifted"} IN
    IF r = "front" /\ "local_lifted" \notin latched[r]
    THEN CheckBothLifted(flags \cup {"self_lifted"}) ELSE flags

GripReady(r) == "lift_done" \in latched[r]

TickLift(r) ==
    LET flags == IF GripReady(r) THEN Lifted(r) ELSE latched[r] IN
    /\ Ticking(r, "LIFT")
    /\ order' = IF "lift_done" \in latched[r] THEN order
                ELSE [order EXCEPT ![r] = "grip"]
    /\ Coordinate(r, "DRIVE", GripReady(r))
    /\ IF Passed(r, "DRIVE", GripReady(r))
       THEN Transition(r, "DRIVE", flags)
       ELSE Remain(r, flags)
    /\ UNCHANGED <<origin, fault, mission, view, hardwareReady,
                   completeWire, estop, jaws, status, world>>

TickDrive(r) ==
    /\ Ticking(r, "DRIVE")
    /\ "arrived" \in latched[r]
    /\ Transition(r, "WAIT_RELEASE", latched[r])
    /\ UNCHANGED <<origin, fault, mission, view, committed, hardwareReady,
                   peerReady, wires, estop, servo, world>>

TickWaitRelease(r) ==
    /\ Ticking(r, "WAIT_RELEASE")
    /\ Coordinate(r, "RELEASE", TRUE)
    /\ IF Passed(r, "RELEASE", TRUE)
       THEN Transition(r, "RELEASE", latched[r])
       ELSE Remain(r, latched[r])
    /\ UNCHANGED <<origin, fault, mission, view, hardwareReady,
                   completeWire, estop, servo, world>>

\* Mutant: RETURN is announced without waiting for RELEASE_DONE.
ReleaseReadyAtOnce(r) == state[r] = "RELEASE"

\* release_announced, once set, outlives a software rearm.
ReleaseReady(r) == {"release_done", "release_announced"} \cap latched[r] # {}

TickRelease(r) ==
    LET flags == IF ReleaseReady(r) THEN latched[r] \cup {"release_announced"}
                                    ELSE latched[r] IN
    /\ Ticking(r, "RELEASE")
    /\ order' = IF "release_done" \in latched[r] THEN order
                ELSE [order EXCEPT ![r] = "release"]
    /\ Coordinate(r, "RETURN", ReleaseReady(r))
    /\ IF Passed(r, "RETURN", ReleaseReady(r))
       THEN Transition(r, "RETURN",
                       flags \ {"local_lifted", "aggregate_lifted"})
       ELSE Remain(r, flags)
    /\ UNCHANGED <<origin, fault, mission, view, hardwareReady,
                   completeWire, estop, jaws, status, world>>

\* Mutant: reset forgets return_done.
AfterResetReturned(r) == latched[r] \cap {"return_done"}

\* Mutant: reset forgets arrived.
AfterResetArrived(r) == latched[r] \cap {"arrived"}

\* The latches that survive reset().
AfterReset(r) == {}

TickReturn(r) ==
    LET ready == "return_done" \in latched[r] IN
    /\ Ticking(r, "RETURN")
    /\ commitWire' = CommitsSent(r, "HOME", ready)
    /\ IF Passed(r, "HOME", ready)
       THEN \* publish_mission_complete, reset, transition("IDLE")
            /\ completeWire' = IF r = "front" THEN mission[r] ELSE completeWire
            /\ Transition(r, "IDLE", AfterReset(r))
            /\ mission' = [mission EXCEPT ![r] = NoMission]
            /\ view' = [view EXCEPT ![r] = "WAIT_TARGET"]
            /\ committed' = [committed EXCEPT ![r] = {}]
            /\ peerReady' = IF r = "front" THEN NoStage
                            ELSE Heard(r, "HOME", ready)
       ELSE /\ peerReady' = Heard(r, "HOME", ready)
            /\ UNCHANGED <<state, latched, job, mission, view, committed,
                           completeWire>>
    /\ UNCHANGED <<origin, fault, hardwareReady, estop, servo, world>>

\* Which stage, if any, ends the wait in a state, and is it passed?
WaitOver(r) ==
    CASE state[r] = "APPROACH"     -> "approach_done" \in latched[r]
      [] state[r] = "ALIGN"        ->
            Passed(r, "LIFT", "wheel_aligned" \in latched[r])
      [] state[r] = "LIFT"         ->
            Passed(r, "DRIVE", GripReady(r))
      [] state[r] = "DRIVE"        -> "arrived" \in latched[r]
      [] state[r] = "WAIT_RELEASE" -> Passed(r, "RELEASE", TRUE)
      [] state[r] = "RELEASE"      -> Passed(r, "RETURN", ReleaseReady(r))
      [] state[r] = "RETURN"       ->
            Passed(r, "HOME", "return_done" \in latched[r])

EnterFault(r, class) ==
    /\ state' = [state EXCEPT ![r] = "FAULT"]
    /\ origin' = [origin EXCEPT ![r] = state[r]]
    /\ fault' = [fault EXCEPT ![r] = class]
    /\ estop' = (estop \/ class = "emergency")
    /\ job' = [job EXCEPT ![r] = "none"]
    /\ UNCHANGED <<mission, view, latched, committed, hardwareReady,
                   peerReady, wires, servo, world>>

\* Mutant: the release barrier has no timer.
TimedButRelease == Active \ {"WAIT_RELEASE"}

\* The states with a stage timer.
Timed == Active

\* The stage took too long, or the fleet has been silent: fail(...).
TickTimeout(r) ==
    /\ "slow" \in Troubles
    /\ state[r] \in Timed
    /\ fault[r] = "none"
    /\ ~WaitOver(r)
    /\ EnterFault(r, "recoverable")

\* Mutant: a robot in FAULT faults again and forgets where it came from.
TickFaultedAgain(r) ==
    /\ fault[r] # "none"
    /\ EnterFault(r, fault[r])

\* A fault reported since the last tick.
TickFaulted(r) ==
    /\ fault[r] # "none"
    /\ state[r] # "FAULT"
    /\ EnterFault(r, fault[r])

\* In FAULT an emergency is published again.
TickFault(r) ==
    /\ state[r] = "FAULT"
    /\ fault[r] = "emergency"
    /\ estop' = TRUE
    /\ UNCHANGED <<robot, wires, servo, job, world>>

\* Mutant: the rearm does not ask for hardware_ready.
MayRearmUnready(r) == fault[r] # "emergency"

MayRearm(r) == fault[r] # "emergency" /\ hardwareReady[r]

\* rearm_cb: back to the state the fault came from.  The latches of the
\* mission stay, but for the DONE of a stage that acts on the servo.
Rearm(r) ==
    /\ Rearms
    /\ state[r] = "FAULT"
    /\ MayRearm(r)
    /\ fault' = [fault EXCEPT ![r] = "none"]
    /\ Transition(r, origin[r], latched[r])
    /\ UNCHANGED <<origin, mission, view, committed, hardwareReady, peerReady,
                   wires, estop, servo, world>>

-----------------------------------------------------------------------------
(* The servo, the motion node, the pair controller and the fleet. *)

\* The STM32 carries out the last order and reports it.
ServoDone(r) ==
    /\ order[r] # "none"
    /\ order' = [order EXCEPT ![r] = "none"]
    /\ jaws' = [jaws EXCEPT ![r] =
                   IF order[r] = "grip" THEN "closed" ELSE "open"]
    /\ status' = [status EXCEPT ![r] =
                     IF order[r] = "grip" THEN "GRIP_DONE" ELSE "RELEASE_DONE"]
    /\ UNCHANGED <<robot, wires, estop, job, world>>

\* It has approached, aligned or returned: approach_cb, aligned_cb, return_cb.
MotionDone(r) ==
    /\ job[r] # "none"
    /\ job' = [job EXCEPT ![r] = "none"]
    /\ latched' = [latched EXCEPT ![r] = @ \cup
          CASE job[r] = "approach" -> {"approach_done"}
            [] job[r] = "align"    -> {"wheel_aligned"}
            [] job[r] = "return"   -> {"return_done"}]
    /\ UNCHANGED <<state, origin, fault, mission, view, committed,
                   hardwareReady, peerReady, wires, estop, servo, world>>

\* Mutant: the pair controller reports ARRIVED with one robot in DRIVE.
PairArrivesAlone ==
    /\ fleet.state = "NAVIGATING"
    /\ ~atGoal
    /\ \E r \in Roles : state[r] = "DRIVE"
    /\ atGoal' = TRUE
    /\ UNCHANGED <<robot, wires, estop, servo, job, fleet, carLifted,
                   liftedWire, started>>

\* RigidBodySync drives the pair only while both machines are in DRIVE.
PairArrives ==
    /\ fleet.state = "NAVIGATING"
    /\ ~atGoal
    /\ \A r \in Roles : state[r] = "DRIVE"
    /\ atGoal' = TRUE
    /\ UNCHANGED <<robot, wires, estop, servo, job, fleet, carLifted,
                   liftedWire, started>>

\* A mission has a new id; which of the unused ones it gets makes no difference.
FleetStarts(m) ==
    /\ fleet.state = "WAIT_TARGET"
    /\ m \notin started
    /\ m = CHOOSE unused \in Missions \ started : TRUE
    /\ \A r \in Roles : state[r] = "IDLE"
    /\ fleet' = [state |-> "WAIT_LIFT", mission |-> m]
    /\ started' = started \cup {m}
    /\ atGoal' = FALSE
    /\ UNCHANGED <<robot, wires, estop, servo, job, carLifted, liftedWire>>

\* Front publishes aggregate_lifted when it is raised and every 500 ms.
FrontRepeatsLifted ==
    /\ "aggregate_lifted" \in latched["front"]
    /\ ~liftedWire
    /\ liftedWire' = TRUE
    /\ UNCHANGED <<robot, wires, estop, servo, job, fleet, carLifted, started,
                   atGoal>>

\* lifted_cb, in any state of the fleet: the flag names no mission, and its
\* topic is in no order with the commits and the completion.
FleetHearsLifted ==
    /\ liftedWire
    /\ liftedWire' = FALSE
    /\ carLifted' = TRUE
    /\ UNCHANGED <<robot, wires, estop, servo, job, fleet, started, atGoal>>

FleetPlans ==
    /\ fleet.state = "WAIT_LIFT"
    /\ carLifted
    /\ fleet' = [fleet EXCEPT !.state = "NAVIGATING"]
    /\ UNCHANGED <<robot, wires, estop, servo, job, carLifted, liftedWire,
                   started, atGoal>>

FleetFinishes ==
    /\ fleet.mission # NoMission
    /\ completeWire = fleet.mission
    /\ fleet' = [state |-> "WAIT_TARGET", mission |-> NoMission]
    /\ carLifted' = FALSE
    /\ UNCHANGED <<robot, wires, estop, servo, job, liftedWire, started,
                   atGoal>>

\* The fleet process restarts, wherever the robots are.  (If a row is still
\* held it refuses to start until an operator has seen to it.)  What was on
\* its way to the old process is lost.
FleetRestarts ==
    /\ "restart" \in Troubles
    /\ fleet' = [state |-> "WAIT_TARGET", mission |-> NoMission]
    /\ carLifted' = FALSE
    /\ liftedWire' = FALSE
    /\ UNCHANGED <<robot, wires, estop, servo, job, started, atGoal>>

-----------------------------------------------------------------------------
Tick(r) ==
    \/ TickIdle(r) \/ TickApproach(r) \/ TickAlign(r) \/ TickLift(r)
    \/ TickDrive(r) \/ TickWaitRelease(r) \/ TickRelease(r) \/ TickReturn(r)
    \/ TickTimeout(r) \/ TickFaulted(r) \/ TickFault(r)

Next ==
    \/ \E r \in Roles :
          \/ Tick(r)
          \/ FleetCb(r)
          \/ LiftCb(r)
          \/ \E ready \in BOOLEAN : HardwareReadyCb(r, ready)
          \/ \E class \in FaultClass : FaultCb(r, class)
          \/ ArrivedCb(r)
          \/ Rearm(r)
          \/ ServoDone(r)
          \/ MotionDone(r)
    \/ ReadyGoesStale
    \/ CommitCb
    \/ RearLiftedCb
    \/ PairArrives
    \/ \E m \in Missions : FleetStarts(m)
    \/ FrontRepeatsLifted
    \/ FleetHearsLifted
    \/ FleetPlans
    \/ FleetFinishes
    \/ FleetRestarts

Spec == Init /\ [][Next]_vars

-----------------------------------------------------------------------------
TypeOK ==
    /\ state \in [Roles -> States]
    /\ origin \in [Roles -> States \ {"FAULT"}]
    /\ fault \in [Roles -> FaultClass \cup {"none"}]
    /\ mission \in [Roles -> Missions \cup {NoMission}]
    /\ view \in [Roles -> {"WAIT_TARGET", "WAIT_LIFT", "NAVIGATING"}]
    /\ latched \in [Roles -> SUBSET Latches]
    /\ committed \in [Roles -> SUBSET Stages]
    /\ hardwareReady \in [Roles -> BOOLEAN]
    /\ peerReady \in Stages \cup {NoStage}
    /\ commitWire \in Seq(Event)
    /\ completeWire \in Missions \cup {NoMission}
    /\ estop \in BOOLEAN
    /\ order \in [Roles -> {"none", "grip", "release"}]
    /\ jaws \in [Roles -> {"open", "closed"}]
    /\ status \in [Roles -> {"none", "GRIP_DONE", "RELEASE_DONE"}]
    /\ job \in [Roles -> {"none", "approach", "align", "return"}]
    /\ fleet \in [state : {"WAIT_TARGET", "WAIT_LIFT", "NAVIGATING"},
                  mission : Missions \cup {NoMission}]
    /\ carLifted \in BOOLEAN
    /\ liftedWire \in BOOLEAN
    /\ started \subseteq Missions
    /\ atGoal \in BOOLEAN

\* How far past the barriers a machine is (in FAULT: was).
Segment(r) ==
    LET s == IF state[r] = "FAULT" THEN origin[r] ELSE state[r] IN
    CASE s \in {"IDLE", "APPROACH", "ALIGN"} -> 0
      [] s = "LIFT"                          -> 1
      [] s \in {"DRIVE", "WAIT_RELEASE"}     -> 2
      [] s = "RELEASE"                       -> 3
      [] s = "RETURN"                        -> 4

\* While either robot drives the car, both hold it and neither is told to let
\* go: stale DONEs, readies and commits, faults and rearms notwithstanding.
LoadHeldWhileDriving ==
    (\E r \in Roles : state[r] = "DRIVE") =>
        \A q \in Roles : jaws[q] = "closed" /\ order[q] # "release"

\* A robot leaves from under the car only after both have let go of it.
ReturnOnlyUnloaded ==
    (\E r \in Roles : state[r] = "RETURN") =>
        \A q \in Roles : jaws[q] = "open" /\ order[q] # "grip"

\* Past the first barrier the two robots are on one mission and at most one
\* stage apart, Front in the lead, whatever was lost, late or rearmed.
Lockstep ==
    /\ Segment("rear") > 0 /\ Segment("front") > 0 =>
          mission["front"] = mission["rear"]
    /\ mission["front"] = mission["rear"] /\ mission["front"] # NoMission =>
          Segment("front") - Segment("rear") \in {0, 1}

\* A car is let go of only where the pair has come to the end of the path of
\* the mission: not on an ARRIVED latched in an earlier one, however early the
\* fleet planned and whenever it restarted.
SetDownOnlyAtGoal ==
    [][\A r \in Roles :
          jaws[r] = "closed" /\ jaws'[r] = "open" => atGoal]_vars

Completes == completeWire' # completeWire

\* Front declares a mission complete only when Rear, too, has reported its
\* return in that mission.
CompleteWhenBothReturned ==
    [][Completes =>
          /\ completeWire' = mission["rear"]
          /\ \A r \in Roles : "return_done" \in latched[r]]_vars

\* A mission is complete when both robots are home: neither is still on a
\* return the motion node has (re)started.  (A rearm in RETURN breaks it.)
HomeWhenComplete ==
    [][Completes => \A r \in Roles : job[r] # "return"]_vars

\* The stage a machine is in, or was in when it faulted.
PairStage(r) ==
    LET s == IF state[r] = "FAULT" THEN origin[r] ELSE state[r] IN
    CASE s \in {"IDLE", "APPROACH"} -> "away"
      [] s = "ALIGN"                -> "aligning"
      [] s = "LIFT"                 -> "lifting"
      [] s = "DRIVE"                -> "driving"
      [] s = "WAIT_RELEASE"         -> "waiting"
      [] s = "RELEASE"              -> "releasing"
      [] s = "RETURN"               -> "returning"

\* The two machines implement the abstract mission of a pair.
Pair == INSTANCE PairMission WITH
    stage     <- [r \in Roles |-> PairStage(r)],
    task      <- mission,
    holds     <- [r \in Roles |-> jaws[r] = "closed"],
    completed <- completeWire

ImplementsPairMission == Pair!Spec

BothLifted == "aggregate_lifted" \in latched["front"]

\* /robot/lifted turns true only while both robots hold the car.
LiftedClaimIsTrue ==
    [][~BothLifted /\ BothLifted' =>
          \A r \in Roles : jaws[r] = "closed"]_vars

-----------------------------------------------------------------------------
(***************************************************************************)
(* Fairness.  The 100 ms timer runs the machine, elapsed() only grows, so  *)
(* a robot in a waiting state leaves it at the latest by its timer; topics *)
(* that are repeated or reliable are heard; the servo, the motion node and *)
(* the fleet do their work.  Nothing is assumed of faults and rearms.      *)
(***************************************************************************)
LeaveState(r) == Tick(r) /\ state'[r] # state[r]

Fairness ==
    /\ \A r \in Roles :
          /\ WF_vars(LeaveState(r))
          /\ WF_vars(Tick(r))
          /\ WF_vars(FleetCb(r))
          /\ WF_vars(LiftCb(r))
          /\ WF_vars(ArrivedCb(r))
          /\ WF_vars(HardwareReadyCb(r, TRUE))
          /\ WF_vars(estop /\ HardwareReadyCb(r, FALSE))
          /\ WF_vars(ServoDone(r))
          /\ WF_vars(MotionDone(r))
    /\ WF_vars(CommitCb)
    /\ WF_vars(RearLiftedCb)
    /\ WF_vars(PairArrives)
    /\ \A m \in Missions : WF_vars(FleetStarts(m))
    /\ WF_vars(FrontRepeatsLifted)
    /\ WF_vars(FleetHearsLifted)
    /\ WF_vars(FleetPlans)
    /\ WF_vars(FleetFinishes)

FairSpec == Spec /\ Fairness

\* A robot has missed the mission: an old lifted flag let the fleet plan at
\* once, and a robot enters only a mission still in WAIT_LIFT.
Missed ==
    /\ fleet.state = "NAVIGATING" /\ completeWire # fleet.mission
    /\ \E r \in Roles : state[r] = "IDLE"

\* With nothing late every mission comes to its end with both robots at rest,
\* unless an emergency strikes or a robot has missed it: no announcement is
\* lost for good to a peer that has not yet accepted the mission, and no two
\* robots wait for each other.
MissionEnds ==
    []<>(\/ estop
         \/ Missed
         \/ /\ fleet.mission \in {NoMission, completeWire}
            /\ \A r \in Roles : state[r] = "IDLE")

\* A robot never waits for its peer, its servo or its motion node for ever:
\* it gets through the mission or ends in FAULT, whatever is lost or late.
NoEndlessWait == \A r \in Roles : []<>(state[r] \notin Active)

\* An emergency stop raised by one robot takes both out of the mission for
\* good: no rearm brings either back while the stop is latched.
EmergencyStopsBoth == <>[](estop => \A r \in Roles : state[r] \notin Active)
=============================================================================
