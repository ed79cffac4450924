# Verification of the cooperative parking robots

Two robots, *Front* and *Rear*, drive under a car, grip its wheels, lift it,
carry it together to a parking slot (or back to the exit), set it down and
return home. This directory holds TLA+ modules of the software that makes them
do so in step, TLC configurations that check them on small instances, and
proofs for TLAPS. Paths below are relative to the repository; `PKG` is
`src/ros2/cooperative_parking_robot/cooperative_parking_robot`.

Commands, in this directory:

    tlc -workers 2 -config Fleet.cfg MCFleetManager
    tlapm ParkingRegistryProofs.tla
    tlapm BarrierLoadProofs.tla       # rests on MissionBarrierProofs
    tlapm FleetManagerProofs.tla      # rests on ParkingRegistryProofs
    tlapm RobotLinkProofs.tla         # rests on FirmwareProofs
    tlapm JawsProofs.tla              # rests on RobotLinkProofs
    tlapm UartReceiveProofs.tla

## 1. Inventory of the system

| Component | State it keeps | Operations | Talks to |
|---|---|---|---|
| Parking registry (`parking_registry.py`) | SQLite rows of slots, the live records read from them, a write lock | reserve / roll back / complete a park, reserve / start / complete a retrieval, restore and validate at start | called by the fleet manager |
| Mission state machines (`robot_state_machine_node.py`, `mvp_state_machine_node.py`), one per robot | state, active mission, latched flags, committed stages, fault, fault origin | 100 ms timer, callbacks of fleet state, peer ready, commit, servo status, motion done, sync status, faults, rearm | each other (ready, commit), fleet, bridge, motion node, pair controller |
| Fleet manager (`fleet_manager_node.py`, `mvp_fleet_manager_node.py`) | mission, kind, slots, lifted flag, path stamp, final pose, committed stages, pending completion | park and retrieve requests, target, manage loop, planning and publication, sync status, commits, completion, rearm | registry, both robots, pair controller, web UI |
| STM32 firmware (`parking_robot_firmware.c`) | session, RX queue, wheel and servo set-points, watchdogs, ultrasonic and encoder counters | interrupts (UART, timers, echo edges), main loop, command parser | bridge, by UART |
| STM32 bridge (`stm32_bridge_node.py`, `mvp_stm32_bridge_node.py`) | session handshake, heartbeat, emergency-stop latch, hardware_ready | serial reader, timers, ROS callbacks | firmware, state machine |
| UART transmit scheduler (`uart_tx_scheduler.py`) | priority queues, pending velocity, frame in flight | submit, next frame, completed | bridge |
| Individual motion (`individual_move_node.py` and its two wrappers) | job, phase of the approach or return, peer's phase | 50 ms control tick, pose callbacks | state machine, the other robot's node |
| Pair controller (`rigid_body_sync_*.py`, eight layers) | slot pose, path, progress, arrived, degraded mode | path and pose callbacks, control tick, fatal stop | fleet, both robots |
| Command arbiter, freshness and replay guards | newest stamps, owner of the wheels | accept or refuse a message | every node |
| Ultrasonic sensing, localization, CCTV merge, perception | filters, latched target | sensor callbacks | motion, pair controller, fleet |
| Planning geometry, control laws | none, or filter state | pure functions | fleet, pair controller |
| Web UI, camera previews, calibration and diagnostic tools | presentation | HTTP, manual runs | fleet |

What is hard in it:

* **Concurrency without shared memory.** Two copies of one state machine agree
  on stages by topics. Ready announcements are repeated every 500 ms and age;
  a commit is published once. Either robot may fault between the two.
* **Latches.** Nodes keep booleans (`lift_done`, `car_lifted`, `return_done`)
  that outlive what they were true of: a fault, a rearm, a restart, the end of
  a mission.
* **Repetition.** `/robot/lifted`, ready announcements, gripper actions and HELLOs
  are repeated on a timer, so a copy is often still on its way when its matter is
  settled: after the end of its mission, or in the middle of a ramp.
* **Unordered reports.** The fleet learns of one mission by stage commits,
  `/mission/complete` and `ARRIVED`, three topics with no order among them.
* **Crash and restart.** The registry survives a crash, the fleet's mission
  fields do not, and the robots go on with what they were told.
* **Interrupts.** The firmware's receive interrupt shares a ring, a partial frame
  and three flags with the main loop.
* **A line that loses.** Bridge and firmware each have watchdogs and begin
  sessions anew while frames and answers of the last one are still about.
* **Partial failure.** A plan that is reserved but cannot be published; a sync
  fault in mid-carry; an emergency stop of one robot.

What makes each part correct:

* Registry: live records are the durable rows; a number is in one row; a placed
  car leaves the rows only by a retrieval that has started; a start is refused
  only after a mission was cut off.
* Barrier: the car is held while it is driven and let go of before a robot
  leaves; the robots stay within one stage of each other, in one mission; no
  robot waits for ever; an emergency stops both.
* Fleet: a mission holds one slot and gives it back; a row changes only for a
  car that was really set down or taken away; a mission settles in every order
  of the reports.
* Firmware: a wheel is driven only inside a live session, whatever is sent; an
  emergency stop freezes wheels and jaws; nothing behind a damaged byte acts.
* Bridge: both ends agree on the session; the jaws close only for a car and open
  only to let it go; a car that is held stays held through a recovery; the link
  comes back or asks for a person; a robot whose cable is out comes to rest.
* Return choreography: the four waits of the two robots never form a cycle.
* Pair controller: a path is followed only with the slot pose of the same plan;
  only the owner's velocities reach the wheels.

`PROJECT.json` lists the hazards at their lines, with the properties for them
or the reason why there is none yet.

## 2. Plan

Most important first; 1 to 5 exist.

1. `ParkingRegistry` implementing `SlotLifecycle`, proofs in
   `ParkingRegistryProofs`. *Done.*
2. `MissionBarrier`: both state machines, implementing `PairMission`, proofs in
   `MissionBarrierProofs` and `BarrierLoadProofs`. *Done.*
3. `FleetManager`, composed with `ParkingRegistry` by INSTANCE, proofs in
   `FleetManagerProofs`. *Done*, but for the replay guard of requests and the
   published status.
4. `UartReceive` implementing `CommandFifo`: interrupts and main loop of the
   firmware's receiver, proofs in `UartReceiveProofs`. *Done.*
5. `Firmware`, with `FirmwareProofs`, and `RobotLink`, which composes it with
   bridge, transmit scheduler and line, proofs in `RobotLinkProofs` and
   `JawsProofs`. *Done*, but for the ultrasonic commands, manual driving and
   the frames sent at shutdown.
6. What could follow is under section 7.

## 3. The modules

### SlotLifecycle
The promise of the registry, per slot: EMPTY, RESERVED, OCCUPIED,
EXIT_RESERVED, EXITING and back, each move by the mission that holds the slot,
numbers unique. It knows no memory and no crash.

### ParkingRegistry
`disk` is the table `parking_slots`, `memory` the dictionary `_records`.
`_replace_record` is two steps: the transaction (`Save`, part of each
operation) and the assignment of the live record (`Assign`, with `unassigned`
naming the row in between), because the process can die between them. Rollback
of an unpublished reservation, completion, retrieval and the search for a
number are one operator each, with the method's checks as guards; a call whose
checks fail raises and changes nothing. `Crash` keeps the rows. `Restore` and
`Refuse` are `__init__` with `_validate_restored_records`. Of a record the pose,
specification and direction are one bit (`placed`), and the credential
(`password`) another, since they are written together.

### MissionBarrier
`state, origin, fault, mission, view, latched, committed, hardwareReady` are
functions of the role; `peerReady` is what Front knows of Rear. One action per
callback (`FleetCb`, `CommitCb`, `LiftCb`, `FaultCb`, ...) and one per state of
the timer (`TickIdle` ... `TickFault`); each tick includes the announcement and
the commit that the code makes in it (`Coordinate`). The booleans a node
latches are one set per robot. Time is left out: with "stale" in `Troubles` any
announcement or commit may prove too old, with "slow" any stage timer may
expire. A topic is a variable of its own and in no order with the others:
`commitWire`, `completeWire` and `liftedWire`, the last a copy of the
`/robot/lifted` that Front repeats (`FrontRepeatsLifted`), which the fleet latches
in any state and for any mission when it comes (`FleetHearsLifted`). The fleet
restarts wherever the robots are (`FleetRestarts`). That a restart is refused
while a row is held is not in this module, so it allows more than the code.
Around the machines stand, as the machines see them: the servo (`order`,
`jaws`, `status`), the motion node whose job starts over when the robot state
changes (`job`, `individual_move_node.py:504-562`), the pair controller's
`ARRIVED`, and the fleet. `stop_after_align`, a diagnostic mode, is off. Sequence
numbers are not modelled: a wire keeps one publisher's order.

### PairMission
What the two machines promise together, with no timer, topic, latch, order or
fault in it: each robot is away, aligning, lifting, driving, waiting, releasing
or returning; Front leaves a stage that Rear is in, Rear enters a stage that
Front is in, both in the same mission; driving begins when both hold the car and
the return when neither does; Front declares the mission complete from the
return. `PairStage` maps a machine to its stage, and one in FAULT to the stage it
faulted in, so a fault and the rearm that goes back to its origin are stutters,
as are announcements, commits and orders. `task` is the machine's mission,
`holds` its closed jaws.

### FleetManager
The fleet process, with `Registry == INSTANCE ParkingRegistry` sharing `disk`,
`memory`, `unassigned`, `node`. `fleet` is the record of the node's volatile
fields. One action per callback: `ApprovePark`, `TargetSeen`, `StartRetrieve`,
`LiftedCb`, `ArrivedCb`, `SyncFault`, `CommitCb`, `CompleteCb`, `Rearm`, with
`CommitIgnored` and `CompleteIgnored` for a report outside the 10 s limit; the
manage loop's branches are `ApprovalLapses`, `StartPark`, `StartPlanning`,
`Reserve` with `PublishPark` or `PublishFails`, `PlanRetrieve`. The executor is
single threaded: `Free` says that no callback is under way. A path's number
stands for its stamp. `crew` is the pair of robots, which the barrier makes
walk DRIVE, RELEASE, RETURN, HOME; `pair` is the path the pair controller
holds; `dropped` remembers where each car was really set down. The
configuration is that of production: `require_ui_confirmation` is true.
`LiftedRepeated` is the flag that Front repeats; a copy may still be on its way
when the mission is finalized. `missed` remembers which missions had a commit or
the completion ignored.
Geometry and perception only decide whether a step is possible, so they are a
free choice. One assumption of the environment is named: `StatusHeard`, the
ARRIVED that the pair controller repeats each second is heard during the drive
home, which takes much longer.

### UartReceive and CommandFifo
How the firmware receives. `dr`, `bad`, `ore` are the data and status registers
of the USART; `armed` is the HAL's RxState; `active`, `idx` the partial frame;
`commands, head, tail, count` the ring; three flags; `pc` the place of the main
loop. `ReceiveIrq` and `ErrorIrq` are `HAL_UART_IRQHandler` with the callback it
ends in, in the HAL's order: with an error in the status register the byte is
received first and the error callback called after. An interrupt runs to its end,
and may run between any two steps of the main loop, which are cut where the
code enables interrupts or reads a shared variable: `Maintain`, `RearmRx`,
`ClearRearm`, `Process`, `Take`, `Apply`. The line sends any bytes, damaged or
too fast. Four variables are not in the code: `torn`, `broken`, `misled` and the
`gap` of a command remember which commands follow a loss. A frame that is
refused whole, because the ring is full or it is too long, is not a gap in this
sense; it costs the rest in another way. `CommandFifo` is the promise of the ring:
whole commands, in order, at most `Depth`; a round of taking them out that is
under way when one is refused may go on, but no round begins before the rest have
been thrown away, all together and with the session (`round` is mapped to the loop
of `UART_ProcessPendingCommands`, `refused` to its `overflow` flag). That it does
come to this is `RefusalClosesSession`, on the premise that the loop ends from time
to time: it takes commands as long as there are any, so a line that fills the ring
as fast as it is emptied keeps it going for ever.

### Firmware
What the main loop does with a command, with time and with wheels and jaws.
`mcu` is `g_robot` with the answer mailboxes; each command of
`UART_ParseCommand` is an operator from a state to a state (`Hello`,
`Heartbeat`, `Velocity`, `Attach`, `Lift`, the maintenance commands and the
legacy letters), over `Failed`, which is `QueueError`. A wheel is asked to turn
(`target`), driven, turning; a pulse is open, closed or between. Evidence that
has come in may be too old at any moment (`hbOld`, `cmdOld`), so the watchdogs
strike at any distance. `FirmwareSpec` receives any frame at any moment: it is
the firmware under any sender.

### RobotLink
The bridge (`bridge`), the scheduler's replaceable frames (`out`) and its queue of
actions (`actions`), the line both ways (`toMcu`, `toPi`), the firmware (`mcu`, by
EXTENDS), the stage of the lift (`mission`) and the fault that halts it (`halt`).
One action per case of `startup_handshake_tick`, per timer (`SendHeartbeat`,
`SendVelocity`), per answer (`HelloAck`, `HeartbeatAck`, `ZeroAck`, `AttachAck`,
`Error`, `Lifted`), for the telemetry, reconnection and the emergency stop.
`Recover` is `_begin_communication_recovery`; the new session is one that nobody
still holds. What is sent follows `enqueue` (`With`: a later frame of a replaceable
kind takes the place of the earlier; actions queue up) and `pop_next` (`Pops`,
`Priority`: the actions first in first out).

* *Actions.* `SendGrip` is the 0.5 s retry of `send_action_with_retry`. It is free,
  in mid-ramp (0.7 to 0.8 s), after the answer has left and after a fault, as long
  as the bridge would send it. Only a repetition while the last action or its
  acknowledgement is itself still under way, 0.5 s against a few milliseconds,
  is bad luck ("again").
* *Halts.* A fault the bridge publishes halts the mission and a rearm resumes its
  stage with a new DONE to wait for. A fault of the emergency class cannot be
  rearmed, and the state machine publishes an emergency stop for it in every tick.
* *Overdue handshakes.* After `hello_handshake_timeout` no HELLO is sent again until
  a new session begins. Each tick publishes the fault instead
  (`HandshakeTimeout`), which is an emergency (`fault_policy.py`): in a recovery,
  where the bridge keeps the older recoverable fault and would retry for ever in
  silence, the stop that follows is what makes somebody come.

Two reductions keep it finite, each named in the module. A heartbeat or a
velocity that would change nothing at the firmware (`Matters`) is not sent. A
task of the firmware runs when nothing is on its way to it: the line works in one
or two milliseconds, the tasks every 20 and 50. `Luck` bounds how often `Troubles`
strike: a late watchdog at either end, an overdue handshake, an action, HELLO,
zero or attach repeated while the previous one is under way, a garbled or lost
frame, an unplugged cable, an emergency stop, a wheel that turns the wrong way, a
restart of the MCU with the jaws open or (`restartLoaded`) not. `Backlog` bounds
the queue of actions. A rearm is given when nothing is on its way to the Pi: the
operator has seen hardware_ready, which is published every 0.2 s.

## 4. The runs

| Run | Instance | What it shows |
|---|---|---|
| ParkingRegistry | 2 slots, 2 missions, 2 vehicles | `MemoryMirrorsDisk`, `OneSlotPerVehicle`, `NumberCheckMatchesIndex`, `RowsWellFormed`, `RefusedOnlyMidMission`, `PlacedCarIsNotLost`, and the refinement `ImplementsSlotLifecycle`, with a crash possible everywhere |
| BarrierRearm | 1 mission; recoverable faults, stale messages, rearms | car held while driven, unloaded return, lockstep, complete only when both returned |
| BarrierMissions | 2 missions; timers, fleet restart anywhere | latches of one mission do not mislead the next; the car is set down only at the goal, also when an old lifted flag makes the fleet plan too early; complete only when home, as nobody rearms; no robot waits for ever; the refinement `ImplementsPairMission` |
| BarrierEnds | 2 missions; emergencies, rearms | without an emergency every mission is completed with both robots at rest, in every interleaving, unless a robot has missed it (`Missed`); with one both are out for good |
| BarrierHome | 1 mission; lost STM32 ACK, rearms | *violated*: complete while a robot is on its way home |
| BarrierLifted | 1 mission, no trouble | *violated*: lifted claimed again after the car was let go |
| Fleet | 2 slots, 2 missions, 1 vehicle, 3 paths; publish failure, sync fault, crash, late commit or completion; retrievals rearmed | one slot per mission, no orphan, the number stays free, rows change only for cars set down, every mission settles |
| FleetRearm | sync fault, park missions rearmed | *violated*: a second slot is reserved |
| FleetLifted | no trouble at all | *violated*: a path is planned before the car is lifted, by a flag of the mission before |
| UartReceive | ring of 2, frames of 1 byte; any bytes | `ImplementsFifo`; nothing behind a loss acts; a loss or a refused frame closes the session; a request to arm the receiver is served |
| RobotLink | 3 sessions, 1 acknowledgement ends a recovery, 1 frame each way, 1 action queued, 2 troubles of nine kinds | authority, agreement of sessions, frozen after an emergency stop, the jaws follow the mission, a held car is kept, the link comes back or a person is asked for, wheels come to rest |
| LinkRestart | one restart of the MCU under load | *violated*: the recovery attaches the servo with the pulse of open jaws |

Bounds. Two missions are what it takes for something of one to reach into the
next, two slots for a wrong slot to exist, two vehicles for a number to be
taken or not. One vehicle is enough for `Fleet`: with anonymous requests beside
it, it may be free or taken. `MaxPlans` is 3 so that two missions get a path
each and one of them a second. The missions of `BarrierRearm` are limited to
one because faults and rearms at any moment multiply the states (2.1 million);
what two missions add is in `BarrierMissions`, where lockstep and the unloaded
return are part of the refinement. `HomeWhenComplete` is in both
`BarrierMissions` and `BarrierHome`: it holds as long as nobody rearms.
No run has all six kinds of trouble at once; the proofs are for any `Troubles`.
The reaction to a lost STM32 ACK (`HardwareReadyCb` with FALSE outside an
emergency) is enabled in `BarrierHome` only.

A ring of two commands can be empty, partly filled, full and wrapped; a frame
of one byte can be empty, right and too long. In `RobotLink` two troubles are
what it takes to have one strike in the recovery from another (an overdue
handshake, whose answers may be lost with it, is one); a third session
exists for the recovery within a recovery. One frame on the line each way still
lets a frame be in the scheduler, on the line and answered at once. The inductive
invariant behind `SessionAgreement` was also checked with two frames on the line;
the proofs of it need no bound at all.

`JawsFollowMission` needs no bound on the troubles: it is a theorem, and was also
checked with three of all ten and two actions queued (3.4 million states).
`HeldCarIsKept` needs one. Three troubles can be chosen such that it fails: a late
watchdog holds a grip half-way, the error that says so is lost, so that the grip
counts as done when it is repeated (section 6), and an attach repeated while the
first is on its way meets the jaws when they have moved on. With any two of the nine
troubles it holds, and that is what the run promises; with three it holds as long as
no answer is lost and no request repeated while the last one is on its way (2.2
million states). Actions repeated in mid-ramp or after the answer are no troubles and
not bounded.

Deadlock is checked for the registry and the receiver, and not for the others:
when all missions are used up, or the operator does not rearm, the system rests.

Fairness. In `MissionBarrier` the 100 ms timer runs, so a tick that stays
enabled is taken; `LeaveState` is fair since `elapsed()` only grows and every
active state has a timer; repeated (ready, lifted, fleet state) and reliable
(commit) messages are heard; servo, motion node and fleet do their work. In
`FleetManager` the executor runs the callbacks and the loop, the robots go on,
and a publish that is retried each loop does not fail for ever (the one strong
fairness). Faults, requests, restarts and rearms are never assumed.
In `UartReceive` an interrupt that is due is
taken (weak), and the main loop, which an interrupt may put off again and again,
goes on if it can again and again (strong): interrupts are shorter than the
time between two bytes. In `RobotLink` the bridge's threads, the line and the
firmware's main loop are fair, and evidence that nothing renews grows old. The
tasks of the firmware are strongly fair because the model lets them run only
when nothing is on the line, which is again and again but not for ever. No
trouble is fair. `LinkComesBack` names the ways out: a fault that needs a person
(`NeedsPerson`: emergency stop, latched physical fault, a handshake that is
overdue), and `Lapsed`, see section 6.
`MissionSettles` names the stops that the code leaves to an operator
(`Stopped`): a crash, FAULT, a commit or the completion ignored as too old (it is
published once), robots that have not entered a mission the fleet planned too
early (`Unentered`), no path or slot left. `MissionEnds` names the robots that have missed a
mission, too (`Missed`).

## 5. What is proved

`ParkingRegistryProofs`, for any sets of slots, missions and vehicles, from
`RegistryAssumption` alone (the null values are outside their sets):

* `InvariantHolds`: `Spec => []IndInv`. `IndInv` joins `TypeOK`, the mirror of
  disk and memory, uniqueness, well-formed rows, the account of a refusal. None
  is inductive alone: uniqueness after a restart needs the rows to be
  well-formed, the row an operation writes is computed from memory while the
  invariant speaks of disk, and they agree only outside a write.
* `TypeCorrect`, `MemoryIsDurable`, `VehiclesAreUnique`, `NumberCheckIsExact`,
  `RowsAreWellFormed`, `RefusalIsJustified` follow from it.
* `PlacedCarsStay`: the action property, action by action.
* `RegistryImplementsLifecycle`: initial states and steps map to those of
  `SlotLifecycle`; `Assign`, `Crash`, `Restore`, `Refuse` stutter.

The barrier is proved in layers, for any set of missions, any `Troubles`
and with or without `Rearms`, from `BarrierAssumption` (the null values are
outside their sets):

* `MissionBarrierProofs`, `TypeCorrect`. `TypeOK` is not inductive: Front
  appends its mission to a commit, which is one only because a machine outside
  IDLE and FAULT has a mission, also when a rearm brings it back to the origin
  of a fault. `Typed` adds that.
* In the same module, `BarrierInvariant` and `RobotsInLockstep`. `IndInv`
  counts the barriers a robot is past (`Segment`, which a fault does not
  change) and says: Front has recorded just the commits of its segment
  (`FrontRecords`); Rear knows, and the wire carries, no commit Front has not
  made (`CommitsAreFronts`); the announcement Front knows of is of Front's
  mission and of the next barrier at most (`ReadyIsMeant`); Front leaves a
  mission only when Rear is in RETURN (`LeftBehind`). What makes it inductive is
  `OfferIsFresh`: a mission the fleet still offers is one that no robot can be
  through with, since leaving it takes an ARRIVED and that a plan; without it a
  robot could accept a mission again and meet a commit of its first time.
* `BarrierLoadProofs`, `LoadInvariant`, `LoadIsHeld`, `UnloadedReturn`. `LoadInv`
  adds what the servos have done: a DONE not yet heard, a latch and an order
  that has outlived its stage each tell the truth about the jaws (`Grips`), and
  Front's announcement from Rear, once taken or committed, does so about Rear's
  (`RearIsReady`, `FrontIsJustified`).
* In the same module, `CompletionIsEarned`. `HomeInv` adds that Rear announces HOME
  only after its own return and stays until Front commits (`HomeIsMeant`).
* In the same module, `HomeWithoutRearm`: `~Rearms => (Spec => HomeWhenComplete)`.
  `BarrierHome` shows what goes wrong with rearms: the drive home starts over and
  the latch of the first stays. `ReturnsOnce` is the invariant without them: a
  robot that has its `return_done` has no return job left.
* In the same module, `BarrierImplementsPair`: `Spec => ImplementsPairMission`,
  with faults, stale messages and rearms. Most of it is which step of the machine
  is which step of the pair (`PairInv`): a robot announces that it stands at the
  car only when it does (`ReadyAtCar`), and a robot past DRIVE has its peer in
  DRIVE or beyond (`StopsTogether`): ARRIVED is heard by each on its own, and
  only when both have begun to drive is there a path to arrive on.
* From the same invariant, `SetDownAtGoal`: a car is let go of only where the pair
  has arrived. It does not rest on the lifted flag, which may be of another mission:
  however early the fleet plans, nothing arrives before both drive.

The fleet is proved in three layers, for any slots, missions, vehicles,
`MaxPlans` and `Troubles`, from `FleetAssumption`:

* `FleetManagerProofs`. `RegistryStep` shows that each action changes the rows by
  one call of the registry with arguments of the right type, or not at all
  (that needs `Bookkeeping`: who has a mission, and that only issued ids are
  about). So `FleetUsesRegistry`: `Spec => Reg!Spec`, and with it everything of
  `ParkingRegistryProofs` holds inside the fleet: `FleetKeepsRows`, and, the rows
  being those of the abstract lifecycle, `FleetImplementsLifecycle`.
  `FleetTypeCorrect` is by one lemma per group of actions.
* In the same module, under the hypothesis `"park" \notin Rearms`, which
  `FleetRearm` shows to be needed. `SlotInv` ties the held row to kind, source
  and destination (`RowsAreFleets`); a parking that still has to reserve has no
  destination (`NotYetReserved`: what the rearm of a parking breaks), a number in
  hand is in no row but the destination (`NumberIsMine`), and a process that is
  not up has nothing in hand (`DownIsFresh`), so a start that passes the restart
  check finds no held row. `NoSecondSlot`, `NoSlotIsOrphaned` and
  `AcceptedNumberIsFree` follow.
* In the same module, `PlacedSteps` finds the two steps that fill or free a
  row. `PathInv` says that a RETURN reported, on the wire or in the node, is of
  a car set down on a numbered path; it rests on `CrewMine`: the robots are away
  or on the mission in hand, so no path of another mission reaches them while
  they let go. That gives `RowsFreedWhenSetDown`. `ParkInv`, again without the
  rearm of parkings, says that a parking has one path, which the pair has, which
  an ARRIVED is taken for and on which the car was set down; it gives
  `RowsRecordSetDown`.

That a path is planned only after the lift has no theorem: it is false without any
trouble (`FleetLifted`).

The receiver is proved in `UartReceiveProofs`, for any depth of the ring and
any length of a frame: `ReceiverTypes`, `NothingTornActs` and
`ReceiverImplementsFifo`, that the ring with its indices and counter is the
queue of `CommandFifo`. The invariant says where a loss can hide: a byte lost or
damaged has set a flag that the main loop reads before it executes, or is in the
register with its error bit, or is marked on the commands behind it; and a
session that is open without any of these is unbroken.

The firmware is proved in `FirmwareProofs` for any set of sessions and any
sender: `FirmwareTypes`, `AuthorityHolds`, `EstopHolds`. A wheel that is driven
is `Entitled`; that is inductive only with what may drive it next, so the
invariant asks the same grounds of `target`, and that a stopped MCU has no goal
the servo could still move to.

The link is proved in `RobotLinkProofs`, from `NoneAssumption` and
`LinkAssumption`, for any length of the lines and any number of troubles of any
kind, the restart under load among them. `LinkIsFirmware`: `Spec => FirmwareSpec`, each
step of the link being a step of the firmware or none, so what holds of the
firmware under any sender holds on the link (`LinkAuthority`, `LinkEstop`).
`SessionsAgree`: the scheduler holds only HELLOs of the current session; on the
line no older HELLO is behind one of ours; an answer to our HELLO, or the
firmware in our session, means that no older HELLO is left; and a session newly
chosen is in nobody's hands.

What the jaws do on the link is proved in `JawsProofs`, for any sessions, length of
the lines and of the queue, number and kind of troubles: `JawsInvariant` and
`MissionMovesJaws`, that is `JawsFollowMission`. An action may be repeated as often
as one likes, also in mid-ramp, in the queue behind itself or after it was answered:
what makes the property true is that all actions anywhere are of one stage.
`JawsInv` says so in two parts:

* `OneWay`: every action that is queued or on the line is a grip while the car is
  loaded and carried, and a release from there on; the one turns into the other only
  when nothing is on its way (`NextStage`), and a halt or a rearm does not turn it;
* `RightGoal`: the servo stands, or moves to what the stage asks for; so a step of
  the jaws is in that direction.

Each operation of the firmware is first reduced to what it does to the jaws and to
their goal (`Leaves`), each step of the link to what it sends (`SendsThisWay`).
`LinkAssumption` asks for what names and bounds need: `None` is no session, no
class of fault and no order, and there is at least one frame, one queued action and
one acknowledgement. `HeldCarIsKept`, which speaks of attaches too, is only
model-checked.

The invariants were themselves checked with TLC before they were proved.

Only model-checked: the liveness of barrier, fleet, receiver and link
(`NoEndlessWait`, `MissionEnds`, `EmergencyStopsBoth`, `MissionSettles`,
`RequestIsServed`, `LossClosesSession`, `RefusalClosesSession`, `LinkComesBack`,
`WheelsStop`).
`LiftedClaimIsTrue` has no theorem because it fails even with no trouble at all
(`BarrierLifted`). Out of the prover's reach, and with TLC for good: liveness
under fairness, ENABLED, induction over data, and RECURSIVE operators (none is
used).

## 6. Disagreements found

1. **A rearmed park mission reserves a second slot** (`FleetRearm`,
   `PKG/mvp_fleet_manager_node.py:44`). The replan looks among EMPTY slots and
   so excludes the one the mission holds; that row stays RESERVED for good.
2. **Planning before the lift** (`FleetLifted`,
   `PKG/fleet_manager_node.py:1395`). The plan document asks for the mission's
   DRIVE commit and `/robot/lifted`; the loop looks only at a latched bool that
   carries no mission. A flag that is still on its way when a mission is
   completed, or that Front repeats while the fleet restarts, counts for the next
   mission. `SetDownOnlyAtGoal` and `RecordedWhereSetDown` say what it does not
   lead to.
3. **Complete before home** (`BarrierHome`,
   `PKG/robot_state_machine_node.py:508`). `return_done` survives a fault and a
   rearm in RETURN although the drive home starts over.
4. **Lifted after the release** (`BarrierLifted`,
   `PKG/robot_state_machine_node.py:543`). Rear repeats its flag after Front
   has cleared the aggregate, which goes up again.
5. **The restarted MCU opens the jaws** (`LinkRestart`,
   `PKG/mvp_stm32_bridge_node.py:55`). Once a grip is done, telemetry moves the
   baseline of the servo; after a restart the MCU reports the open pulses of its
   RAM, and the recovery attaches the servo with them under the car.

Four more were met that no run is about.

* *A receiver that stays off.* `UART_MaintainRx` arms the receiver and then
  clears the request. If an error and a further byte come in between, the byte
  is dropped, the receiver left off and the new request cleared
  (`parking_robot_firmware.c:658-703`). `RequestIsServed` leaves out just this
  window (`Clearing`); without it TLC reports the lasso. The robot stops by its
  watchdogs and then hears nothing, until a reset.
* *A recovery that does not end.* An error that arrives while a recovery is
  under way begins no other (`stm32_bridge_node.py:868`). If it has closed the
  session after its HELLO was acknowledged, no heartbeat is accepted any more,
  and a recovering bridge has no timeout: `Lapsed` in `LinkComesBack`.
* *A handshake that is not retried.* Once a handshake is overdue, no HELLO is sent
  again, and in a recovery nothing sets its clock back
  (`stm32_bridge_node.py:740, 868, 881`). The fault that is published instead makes
  the state machine stop the robot for good, for what may have been a cable out of
  its socket for two seconds.
* *A grip that is only claimed.* A repeated `S,grip` is answered GRIP_DONE when
  nothing moves, also when a watchdog has held the jaws half-way
  (`parking_robot_firmware.c:1155`); `S,grip` asks for neither watchdog. The error
  that follows halts the mission, unless it is lost: see the bounds of
  `HeldCarIsKept`.

## 7. Not modelled

Control laws, filters, estimation and image processing compute with real
numbers: no finite abstraction keeps what makes them right. Planning geometry
likewise; the fleet takes its result as a free choice. The web UI and tools
hold no protocol state. Of the C code in the repository all but one file is
the vendor's (CMSIS and HAL: headers and drivers of peripherals, of which only
the receiving half of the UART driver takes part in a protocol, and is in
`UartReceive`).

Left out of the firmware: the ultrasonic measurement (its echo edges decide
nothing in the modelled protocols), the encoder counters, the text of telemetry,
the control law (a wheel is driven or not), and the ultrasonic commands. Of the
bridge: ultrasonic control, manual driving, odometry, the frames sent at
shutdown. Of the scheduler: deadlines among the realtime frames and the
draining at shutdown. The firmware's own error mailbox holds one code, as in the
code; codes treated alike are one.

Candidates for further modules: the choreography of the return
(`individual_move_node.py:1397`), whose four waits end by poses and distances, so
that a model has to choose them freely and can say little; the pairing of slot
pose and path by stamp in the pair controller; request and pose replay guards
and the sequence numbers of the fleet's envelope across a restart. They appear so
far only as what their neighbours see of them.
