----------------------------- MODULE FleetManager -----------------------------
(***************************************************************************)
(* fleet_manager_node.py with the rearm of mvp_fleet_manager_node.py: the  *)
(* process that takes a request, plans the carry, and ties the slot rows   *)
(* of ParkingRegistry to what the robots report over three topics that are *)
(* not ordered among each other: stage commits, /mission/complete and the  *)
(* pair controller's status.                                               *)
(*                                                                         *)
(* The executor runs one callback at a time; a callback that writes a row  *)
(* is over when Assign has happened, and the planning callback when its    *)
(* path is published or given up.  Perception, geometry, A* and the checks *)
(* of a request's format decide only whether a step happens, so they are   *)
(* left to chance; a rejected request changes nothing.  The robots are the *)
(* "crew", seen through the barrier of MissionBarrier: one mission at a    *)
(* time, DRIVE, RELEASE, RETURN, HOME in this order.                       *)
(***************************************************************************)
EXTENDS Naturals, Sequences

CONSTANTS
    Slots, Missions, Vehicles, NoMission, Anonymous, NoSlot,
    MaxPlans,      \* bound on the paths published in a behaviour
    Troubles,      \* what may strike: a subset of TroubleKinds
    Rearms         \* kinds of mission the operator rearms after a sync fault

\* A fatal sync error, a publish that raises, a crash of the fleet process, a
\* commit or completion whose stamp is, when it is handled, more than 10 s old
\* or 0.5 s ahead of the fleet's clock.
TroubleKinds == {"fault", "publish", "crash", "late"}

Kinds == {"park", "retrieve"}

ASSUME FleetAssumption ==
    /\ NoMission \notin Missions
    /\ Anonymous \notin Vehicles
    /\ NoSlot \notin Slots
    /\ MaxPlans \in Nat
    /\ Troubles \subseteq TroubleKinds
    /\ Rearms \subseteq Kinds

VARIABLES
    disk, memory, unassigned, node,   \* the registry
    fleet,         \* the volatile fields of the node
    crew,          \* mission and progress of the two robots
    pair,          \* the path RigidBodySync holds
    commitWire,    \* Front's commits on their way to the fleet
    completeWire,  \* /mission/complete on its way, or NoMission
    liftedWire,    \* a true of /robot/lifted on its way to the fleet
    issued,        \* mission ids given out
    plans,         \* number of paths published; a path's number is its stamp
    dropped,       \* where each mission's car was set down
    completed,     \* missions the fleet has finalized
    missed         \* missions of which a commit or the completion was ignored

registry == <<disk, memory, unassigned, node>>
topics   == <<commitWire, completeWire, liftedWire>>
history  == <<issued, plans, dropped, completed, missed>>
vars == <<disk, memory, unassigned, node, fleet, crew, pair, commitWire,
          completeWire, liftedWire, issued, plans, dropped, completed, missed>>

Registry == INSTANCE ParkingRegistry

\* The stages the fleet tells apart (it records LIFT, too, and never asks).
Stages == {"DRIVE", "RELEASE", "RETURN", "HOME"}

Steps == {"away", "entering", "lifted", "DRIVE", "RELEASE", "RETURN"}

\* The node after its start, and after a mission: _finalize_mission resets
\* the same fields.
Fresh ==
    [state |-> "WAIT_TARGET", mission |-> NoMission, kind |-> "none",
     source |-> NoSlot, destination |-> NoSlot, requested |-> NoSlot,
     number |-> Anonymous, approved |-> FALSE, target |-> FALSE,
     lifted |-> FALSE, plan |-> 0, pose |-> 0, stages |-> {},
     completion |-> FALSE, unpublished |-> NoSlot]

NoPath == [plan |-> 0, mission |-> NoMission, slot |-> NoSlot,
           arrived |-> FALSE]

Away == [mission |-> NoMission, step |-> "away"]

Nowhere == [plan |-> 0, slot |-> NoSlot]

Init ==
    /\ Registry!Init
    /\ fleet = Fresh
    /\ crew = Away
    /\ pair = NoPath
    /\ commitWire = <<>>
    /\ completeWire = NoMission
    /\ liftedWire = FALSE
    /\ issued = {}
    /\ plans = 0
    /\ dropped = [m \in Missions |-> Nowhere]
    /\ completed = {}
    /\ missed = {}

\* No callback is under way.
Free == node = "up" /\ unassigned = NoSlot /\ fleet.unpublished = NoSlot

-----------------------------------------------------------------------------
(* Requests, the target, the start of a mission. *)

\* Robots whose state is IDLE: what _robots_accepting_mission asks for.
RobotsIdle == crew = Away

\* Mutant: the number is not looked up when the request is accepted.
ApprovePark_NoLookup(v, s) ==
    /\ Free
    /\ fleet.state = "WAIT_TARGET" /\ ~fleet.approved
    /\ RobotsIdle
    /\ s # NoSlot => v # Anonymous /\ memory[s].lifecycle = "EMPTY"
    /\ fleet' = [fleet EXCEPT !.approved = TRUE, !.number = v,
                              !.requested = s]
    /\ UNCHANGED <<registry, crew, pair, topics, history>>

\* _handle_park_request accepts, for a vehicle number v and a slot s the
\* operator chose; Anonymous and NoSlot for a request without them.
ApprovePark(v, s) ==
    /\ Free
    /\ fleet.state = "WAIT_TARGET" /\ ~fleet.approved
    /\ RobotsIdle
    /\ v # Anonymous =>
          /\ ~Registry!Registered(v)
          /\ \E t \in Slots : memory[t].lifecycle = "EMPTY"
    /\ s # NoSlot => v # Anonymous /\ memory[s].lifecycle = "EMPTY"
    /\ fleet' = [fleet EXCEPT !.approved = TRUE, !.number = v,
                              !.requested = s]
    /\ UNCHANGED <<registry, crew, pair, topics, history>>

\* target_cb; outside WAIT_TARGET nothing depends on the target.
TargetSeen ==
    /\ Free
    /\ fleet.state = "WAIT_TARGET" /\ ~fleet.target
    /\ fleet' = [fleet EXCEPT !.target = TRUE]
    /\ UNCHANGED <<registry, crew, pair, topics, history>>

\* The approval lapses: with the target (_invalidate_pending_park, the target
\* timeout) or alone (the approval timeout).
ApprovalLapses ==
    /\ Free
    /\ fleet.state = "WAIT_TARGET" /\ (fleet.approved \/ fleet.target)
    /\ \E target \in {FALSE} \cup (IF fleet.approved THEN {fleet.target}
                                                    ELSE {}) :
          fleet' = [fleet EXCEPT !.approved = FALSE, !.number = Anonymous,
                                 !.requested = NoSlot, !.target = target]
    /\ UNCHANGED <<registry, crew, pair, topics, history>>

\* manage_loop in WAIT_TARGET: the approval is used up.
StartPark(m) ==
    /\ Free
    /\ fleet.state = "WAIT_TARGET" /\ fleet.target /\ fleet.approved
    /\ m \notin issued
    /\ fleet' = [fleet EXCEPT !.state = "WAIT_LIFT", !.mission = m,
                              !.kind = "park", !.approved = FALSE]
    /\ issued' = issued \cup {m}
    /\ UNCHANGED <<registry, crew, pair, topics, plans, dropped, completed,
                   missed>>

\* _handle_retrieve_request accepts: the number and the password name the row.
StartRetrieve(m, s) ==
    /\ Free
    /\ fleet.state = "WAIT_TARGET" /\ ~fleet.target
    /\ RobotsIdle
    /\ m \notin issued
    /\ memory[s].number # Anonymous
    /\ Registry!ReserveRetrieve(s, m)
    /\ fleet' = [fleet EXCEPT !.state = "WAIT_LIFT", !.mission = m,
                              !.kind = "retrieve", !.source = s,
                              !.target = TRUE]
    /\ issued' = issued \cup {m}
    /\ UNCHANGED <<crew, pair, topics, plans, dropped, completed, missed>>

-----------------------------------------------------------------------------
(* Lift and plan. *)

\* Front repeats /robot/lifted every 0.5 s from the lift of the second robot
\* on; a late repeat of Rear's can raise it again during the return.
LiftedRepeated ==
    /\ node = "up" /\ ~liftedWire
    /\ crew.step \in {"lifted", "DRIVE", "RELEASE", "RETURN"}
    /\ liftedWire' = TRUE
    /\ UNCHANGED <<registry, fleet, crew, pair, commitWire, completeWire,
                   history>>

\* lifted_cb: the flag names no mission and is latched in any state, also when
\* it is handled after the completion of the mission it was raised in.
LiftedCb ==
    /\ Free
    /\ liftedWire
    /\ liftedWire' = FALSE
    /\ fleet' = [fleet EXCEPT !.lifted = TRUE]
    /\ UNCHANGED <<registry, crew, pair, commitWire, completeWire, history>>

\* manage_loop in WAIT_LIFT.
StartPlanning ==
    /\ Free
    /\ fleet.state = "WAIT_LIFT" /\ fleet.lifted
    /\ fleet' = [fleet EXCEPT !.state = "PLAN_PATH"]
    /\ UNCHANGED <<registry, crew, pair, topics, history>>

\* _eligible_park_slots, as far as the registry decides.
Eligible(s) ==
    /\ memory[s].lifecycle = "EMPTY"
    /\ fleet.requested \in {NoSlot, s}

\* plan_and_publish, up to the reservation that precedes the path.
Reserve(s) ==
    /\ Free
    /\ fleet.state = "PLAN_PATH" /\ fleet.kind = "park"
    /\ plans < MaxPlans
    /\ Eligible(s)
    /\ Registry!ReservePark(s, fleet.mission, fleet.number,
                            fleet.number # Anonymous)
    /\ fleet' = [fleet EXCEPT !.destination = s, !.unpublished = s]
    /\ UNCHANGED <<crew, pair, topics, history>>

\* Mutant: the node's stamp is taken after the path's.
PublishPathRestamped(s) ==
    /\ plans' = plans + 1
    /\ pair' = [plan |-> plans', mission |-> fleet.mission, slot |-> s,
                arrived |-> FALSE]
    /\ fleet' = [fleet EXCEPT !.state = "NAVIGATING", !.plan = plans' + 1,
                              !.unpublished = NoSlot]

\* Slot pose and path go out under one new stamp, which the node keeps; then
\* manage_loop moves on.
PublishPath(s) ==
    /\ plans' = plans + 1
    /\ pair' = [plan |-> plans', mission |-> fleet.mission, slot |-> s,
                arrived |-> FALSE]
    /\ fleet' = [fleet EXCEPT !.state = "NAVIGATING", !.plan = plans',
                              !.unpublished = NoSlot]

PublishPark ==
    /\ node = "up" /\ unassigned = NoSlot
    /\ fleet.unpublished # NoSlot
    /\ PublishPath(fleet.unpublished)
    /\ UNCHANGED <<registry, crew, topics, issued, dropped, completed,
                   missed>>

\* Mutant: the reservation is not taken back.
PublishFailsKeepingSlot ==
    /\ "publish" \in Troubles
    /\ node = "up" /\ unassigned = NoSlot
    /\ fleet.unpublished # NoSlot
    /\ fleet' = [fleet EXCEPT !.destination = NoSlot, !.unpublished = NoSlot]
    /\ UNCHANGED <<registry, crew, pair, topics, history>>

PublishFails ==
    /\ "publish" \in Troubles
    /\ fleet.unpublished # NoSlot
    /\ Registry!RollbackUnpublishedPark(fleet.unpublished, fleet.mission)
    /\ fleet' = [fleet EXCEPT !.destination = NoSlot, !.unpublished = NoSlot]
    /\ UNCHANGED <<crew, pair, topics, history>>

\* plan_retrieve_and_publish: the row is held since the request.
PlanRetrieve ==
    /\ Free
    /\ fleet.state = "PLAN_PATH" /\ fleet.kind = "retrieve"
    /\ plans < MaxPlans
    /\ memory[fleet.source].lifecycle \in {"EXIT_RESERVED", "EXITING"}
    /\ PublishPath(NoSlot)
    /\ UNCHANGED <<registry, crew, topics, issued, dropped, completed,
                   missed>>

-----------------------------------------------------------------------------
(* Reports of the robots; f is the node with the report noted. *)

ParkComplete(f) ==
    /\ f.kind = "park"
    /\ f.destination # NoSlot
    /\ f.pose # 0
    /\ {"RELEASE", "RETURN"} \subseteq f.stages
    /\ memory[f.destination].lifecycle = "RESERVED"

\* _try_complete_park_registry
TryCompletePark(f) ==
    IF ParkComplete(f) THEN Registry!CompletePark(f.destination, f.mission)
                       ELSE UNCHANGED registry

\* Mutant: ARRIVED of an earlier path counts.
HeardArrivalAny ==
    /\ pair.arrived
    /\ fleet.mission # NoMission
    /\ fleet.state \in {"PLAN_PATH", "NAVIGATING"}

\* The pair controller repeats ARRIVED, with the stamp of its path, until it
\* gets another path; the node takes it for the path it published last.
HeardArrival ==
    /\ pair.arrived
    /\ fleet.mission # NoMission /\ fleet.plan # 0
    /\ fleet.state \in {"PLAN_PATH", "NAVIGATING"}
    /\ pair.plan = fleet.plan

\* sync_status_cb with ARRIVED
ArrivedCb ==
    /\ Free
    /\ HeardArrival
    /\ LET f == [fleet EXCEPT !.pose = pair.plan] IN
          /\ fleet' = f
          /\ TryCompletePark(f)
    /\ UNCHANGED <<crew, pair, topics, history>>

\* The controller finds a fatal error while the pair drives: it discards the
\* path, and sync_status_cb stops the mission.
SyncFault ==
    /\ "fault" \in Troubles
    /\ crew.step = "DRIVE"
    /\ pair.plan # 0 /\ ~pair.arrived
    /\ pair' = NoPath
    /\ \/ /\ Free
          /\ fleet' = IF /\ fleet.mission # NoMission
                         /\ fleet.state \in {"PLAN_PATH", "NAVIGATING"}
                      THEN [fleet EXCEPT !.state = "FAULT"] ELSE fleet
       \/ node # "up" /\ UNCHANGED fleet
    /\ UNCHANGED <<registry, crew, topics, history>>

\* rearm_cb: plan again from where the robots stand.
Rearm ==
    /\ Free
    /\ fleet.state = "FAULT"
    /\ fleet.kind \in Rearms
    /\ fleet' = [fleet EXCEPT !.state = "PLAN_PATH"]
    /\ UNCHANGED <<registry, crew, pair, topics, history>>

\* Mutant: a mission completes whatever its row says.
RegistryReadyAlways(f) == f.mission # NoMission

\* _registry_completion_ready
RegistryReady(f) ==
    \/ /\ f.kind = "park" /\ f.destination # NoSlot
       /\ memory[f.destination].lifecycle = "OCCUPIED"
    \/ /\ f.kind = "retrieve"
       /\ memory[f.source].lifecycle = "EMPTY"

\* _finalize_mission
Finalize ==
    /\ fleet' = Fresh
    /\ completed' = completed \cup {fleet.mission}
    /\ UNCHANGED registry

\* Mutant: the slot is freed when the robots begin to let go.
FreesSourceAtRelease(f, stage) ==
    stage = "RELEASE" /\ f.kind = "retrieve"

\* Does the commit end the retrieval of the source row?
FreesSource(f, stage) ==
    stage = "RETURN" /\ "RELEASE" \in f.stages /\ f.kind = "retrieve"

\* What the commit of a stage does to the rows.  A transition the registry
\* rejects is logged and changes nothing.
CommitEffect(f, stage) ==
    IF stage = "DRIVE" /\ f.kind = "retrieve"
       /\ memory[f.source].lifecycle = "EXIT_RESERVED"
    THEN Registry!MarkRetrieveExiting(f.source, f.mission)
    ELSE IF FreesSource(f, stage) /\ memory[f.source].lifecycle = "EXITING"
    THEN Registry!CompleteRetrieve(f.source, f.mission)
    ELSE IF stage = "RETURN" THEN TryCompletePark(f)
    ELSE UNCHANGED registry

\* Mutant: the HOME commit does not look for a completion already heard.
CommitCbForgetsCompletion ==
    /\ Free
    /\ commitWire # <<>>
    /\ commitWire' = Tail(commitWire)
    /\ Head(commitWire).mission = fleet.mission
    /\ LET stage == Head(commitWire).stage
           f == [fleet EXCEPT !.stages = @ \cup {stage}] IN
       fleet' = f /\ CommitEffect(f, stage)
    /\ UNCHANGED <<crew, pair, completeWire, liftedWire, issued, plans,
                   dropped, completed, missed>>

\* mission_commit_cb
CommitCb ==
    /\ Free
    /\ commitWire # <<>>
    /\ commitWire' = Tail(commitWire)
    /\ Head(commitWire).mission = fleet.mission
    /\ LET stage == Head(commitWire).stage
           f == [fleet EXCEPT !.stages = @ \cup {stage}] IN
       IF stage = "HOME" /\ f.completion /\ RegistryReady(f)
       THEN Finalize
       ELSE fleet' = f /\ CommitEffect(f, stage) /\ UNCHANGED completed
    /\ UNCHANGED <<crew, pair, completeWire, liftedWire, issued, plans,
                   dropped, missed>>

\* A commit of another mission, or one outside its age limits, is ignored.
CommitIgnored ==
    /\ Free
    /\ commitWire # <<>>
    /\ commitWire' = Tail(commitWire)
    /\ \/ Head(commitWire).mission # fleet.mission
       \/ "late" \in Troubles
    /\ missed' = missed \cup {Head(commitWire).mission}
    /\ UNCHANGED <<registry, fleet, crew, pair, completeWire, liftedWire,
                   issued, plans, dropped, completed>>

\* mission_complete_cb
CompleteCb ==
    /\ Free
    /\ completeWire # NoMission
    /\ completeWire' = NoMission
    /\ IF completeWire # fleet.mission
       THEN UNCHANGED <<registry, fleet, completed>>
       ELSE IF "HOME" \in fleet.stages /\ RegistryReady(fleet)
       THEN Finalize
       ELSE /\ fleet' = [fleet EXCEPT !.completion = TRUE]
            /\ UNCHANGED <<registry, completed>>
    /\ UNCHANGED <<crew, pair, commitWire, liftedWire, issued, plans, dropped,
                   missed>>

\* A completion outside the same limits is ignored, and not published again.
CompleteIgnored ==
    /\ "late" \in Troubles
    /\ Free
    /\ completeWire # NoMission
    /\ completeWire' = NoMission
    /\ missed' = missed \cup {completeWire}
    /\ UNCHANGED <<registry, fleet, crew, pair, commitWire, liftedWire, issued,
                   plans, dropped, completed>>

-----------------------------------------------------------------------------
(* The crew and the pair controller. *)

Commit(stage) ==
    commitWire' = Append(commitWire, [mission |-> crew.mission,
                                      stage |-> stage])

\* Both robots accept the mission the fleet publishes.
CrewEnters ==
    /\ node = "up"
    /\ crew = Away
    /\ fleet.state = "WAIT_LIFT"
    /\ crew' = [mission |-> fleet.mission, step |-> "entering"]
    /\ UNCHANGED <<registry, fleet, pair, topics, history>>

CrewLifts ==
    /\ crew.step = "entering"
    /\ crew' = [crew EXCEPT !.step = "lifted"]
    /\ UNCHANGED <<registry, fleet, pair, topics, history>>

CrewCommitsDrive ==
    /\ crew.step = "lifted"
    /\ Commit("DRIVE")
    /\ crew' = [crew EXCEPT !.step = "DRIVE"]
    /\ UNCHANGED <<registry, fleet, pair, completeWire, liftedWire, history>>

\* RigidBodySync follows the path only while both robots are in DRIVE.
PairArrives ==
    /\ crew.step = "DRIVE"
    /\ pair.mission = crew.mission /\ ~pair.arrived
    /\ pair' = [pair EXCEPT !.arrived = TRUE]
    /\ UNCHANGED <<registry, fleet, crew, topics, history>>

CrewCommitsRelease ==
    /\ crew.step = "DRIVE"
    /\ pair.mission = crew.mission /\ pair.arrived
    /\ Commit("RELEASE")
    /\ crew' = [crew EXCEPT !.step = "RELEASE"]
    /\ UNCHANGED <<registry, fleet, pair, completeWire, liftedWire, history>>

\* Both have let go of the car.
CrewCommitsReturn ==
    /\ crew.step = "RELEASE"
    /\ Commit("RETURN")
    /\ crew' = [crew EXCEPT !.step = "RETURN"]
    /\ dropped' = [dropped EXCEPT ![crew.mission] =
                      [plan |-> pair.plan, slot |-> pair.slot]]
    /\ UNCHANGED <<registry, fleet, pair, completeWire, liftedWire, issued,
                   plans, completed, missed>>

\* The drive home takes longer than the period of the repeated ARRIVED.
StatusHeard == HeardArrival => fleet.pose = pair.plan

\* HOME and /mission/complete, back to IDLE.
CrewCommitsHome ==
    /\ crew.step = "RETURN"
    /\ completeWire = NoMission
    /\ StatusHeard
    /\ Commit("HOME")
    /\ completeWire' = crew.mission
    /\ crew' = Away
    /\ UNCHANGED <<registry, fleet, pair, liftedWire, history>>

\* The operator restarts the robots of a mission the fleet does not know.
CrewRestarts ==
    /\ crew # Away
    /\ node = "up" /\ fleet.mission # crew.mission
    /\ crew' = Away
    /\ UNCHANGED <<registry, fleet, pair, topics, history>>

-----------------------------------------------------------------------------
(* The life of the process. *)

\* The second half of _replace_record; the callback goes on.
Assign ==
    /\ Registry!Assign
    /\ UNCHANGED <<fleet, crew, pair, topics, history>>

\* The commits and the completion are kept for the next process by their
\* publisher (transient local); the lifted flag on its way is lost.
Crash ==
    /\ "crash" \in Troubles
    /\ Registry!Crash
    /\ fleet' = Fresh
    /\ liftedWire' = FALSE
    /\ UNCHANGED <<crew, pair, commitWire, completeWire, history>>

Start ==
    /\ Registry!Restore \/ Registry!Refuse
    /\ UNCHANGED <<fleet, crew, pair, topics, history>>

Next ==
    \/ \E v \in Vehicles \cup {Anonymous}, s \in Slots \cup {NoSlot} :
          ApprovePark(v, s)
    \/ TargetSeen
    \/ ApprovalLapses
    \/ \E m \in Missions : StartPark(m)
    \/ \E m \in Missions, s \in Slots : StartRetrieve(m, s)
    \/ LiftedRepeated
    \/ LiftedCb
    \/ StartPlanning
    \/ \E s \in Slots : Reserve(s)
    \/ PublishPark
    \/ PublishFails
    \/ PlanRetrieve
    \/ ArrivedCb
    \/ SyncFault
    \/ Rearm
    \/ CommitCb
    \/ CommitIgnored
    \/ CompleteCb
    \/ CompleteIgnored
    \/ CrewEnters
    \/ CrewLifts
    \/ CrewCommitsDrive
    \/ PairArrives
    \/ CrewCommitsRelease
    \/ CrewCommitsReturn
    \/ CrewCommitsHome
    \/ CrewRestarts
    \/ Assign
    \/ Crash
    \/ Start

Spec == Init /\ [][Next]_vars

-----------------------------------------------------------------------------
TypeOK ==
    /\ Registry!TypeOK
    /\ fleet \in
          [state : {"WAIT_TARGET", "WAIT_LIFT", "PLAN_PATH", "NAVIGATING",
                    "FAULT"},
           mission : Missions \cup {NoMission},
           kind : Kinds \cup {"none"},
           source : Slots \cup {NoSlot}, destination : Slots \cup {NoSlot},
           requested : Slots \cup {NoSlot}, number : Vehicles \cup {Anonymous},
           approved : BOOLEAN, target : BOOLEAN, lifted : BOOLEAN,
           plan : 0 .. plans, pose : 0 .. plans, stages : SUBSET Stages,
           completion : BOOLEAN, unpublished : Slots \cup {NoSlot}]
    /\ crew \in [mission : Missions \cup {NoMission}, step : Steps]
    /\ pair \in [plan : 0 .. plans, mission : Missions \cup {NoMission},
                 slot : Slots \cup {NoSlot}, arrived : BOOLEAN]
    /\ commitWire \in Seq([mission : Missions, stage : Stages])
    /\ completeWire \in Missions \cup {NoMission}
    /\ liftedWire \in BOOLEAN
    /\ plans \in 0 .. MaxPlans
    /\ dropped \in [Missions -> [plan : 0 .. plans,
                                 slot : Slots \cup {NoSlot}]]
    /\ issued \subseteq Missions
    /\ completed \subseteq issued
    /\ missed \subseteq Missions

Holds(m, s) == m # NoMission /\ disk[s].mission = m

\* A mission holds one slot, whatever publishes fail, faults and rearms there
\* are: a second reservation would block a slot no car stands in.  (The rearm
\* of a park mission breaks it.)
OneSlotPerMission ==
    \A m \in Missions, s, t \in Slots : Holds(m, s) /\ Holds(m, t) => s = t

\* While the fleet runs, a held row belongs to the mission in hand: no order
\* of commits, completion and status finalizes a mission and leaves its slot
\* reserved for good, which would also refuse the next start.
NoOrphanedSlot ==
    Free => \A s \in Slots :
               disk[s].mission # NoMission => disk[s].mission = fleet.mission

\* The number checked when the request was accepted is still free when the
\* path is planned: the reservation cannot be refused after the lift.
NumberStillFree ==
    /\ Free
    /\ fleet.number # Anonymous
    /\ fleet.destination = NoSlot
    => ~Registry!Registered(fleet.number)

\* A row becomes OCCUPIED only for the car the robots have set down in that
\* slot, with the pose measured where they did: never by an ARRIVED of an
\* earlier path or before both have let go.
RecordedWhereSetDown ==
    [][\A s \in Slots :
          ~disk[s].placed /\ disk'[s].placed =>
             dropped[disk[s].mission] = [plan |-> fleet'.pose, slot |-> s]]_vars

\* A row is freed by a retrieval only when the robots have set its car down
\* at the end of that mission's path.
FreedWhenSetDown ==
    [][\A s \in Slots :
          disk[s].placed /\ ~disk'[s].placed =>
             dropped[disk[s].mission].plan # 0]_vars

\* A path is planned from where the robots hold the car.  (The lifted flag is
\* not tied to a mission: one under way when a mission is completed, or raised
\* while the fleet restarts in mid-mission, is latched for the next one.)
PlansOnlyWhenLifted ==
    [][fleet.state = "WAIT_LIFT" /\ fleet'.state = "PLAN_PATH" =>
          crew.mission = fleet.mission /\ crew.step # "entering"]_vars

-----------------------------------------------------------------------------
(***************************************************************************)
(* Fairness: the executor's timers and callbacks run, repeated and         *)
(* reliable messages are heard, the robots go on with a mission, and a     *)
(* publish does not fail for ever.  Nothing is assumed of requests,        *)
(* troubles and rearms.                                                    *)
(***************************************************************************)
Fairness ==
    /\ WF_vars(ApprovalLapses)
    /\ WF_vars(LiftedRepeated)
    /\ WF_vars(LiftedCb)
    /\ WF_vars(StartPlanning)
    /\ WF_vars(\E s \in Slots : Reserve(s))
    /\ SF_vars(PublishPark)
    /\ WF_vars(PlanRetrieve)
    /\ WF_vars(ArrivedCb)
    /\ WF_vars(CommitCb \/ CommitIgnored)
    /\ WF_vars(CompleteCb \/ CompleteIgnored)
    /\ WF_vars(CrewEnters)
    /\ WF_vars(CrewLifts)
    /\ WF_vars(CrewCommitsDrive)
    /\ WF_vars(PairArrives)
    /\ WF_vars(CrewCommitsRelease)
    /\ WF_vars(CrewCommitsReturn)
    /\ WF_vars(CrewCommitsHome)
    /\ WF_vars(Assign)

FairSpec == Spec /\ Fairness

\* The robots did not hear of the mission in time: an old lifted flag let the
\* fleet pass WAIT_LIFT at once (see PlansOnlyWhenLifted).
Unentered(m) ==
    /\ fleet.state # "WAIT_LIFT"
    /\ crew.mission # m /\ dropped[m] = Nowhere

\* The reasons for which a mission stops that the code leaves to the operator.
Stopped(m) ==
    \/ node # "up"
    \/ fleet.state = "FAULT"
    \/ m \in missed
    \/ Unentered(m)
    \/ /\ fleet.state = "PLAN_PATH"
       /\ \/ plans = MaxPlans
          \/ fleet.kind = "park" /\ ~ \E s \in Slots : Eligible(s)

\* A mission the fleet has started comes to its end, in whatever order the
\* three topics deliver, unless one of its commits or its completion is ignored
\* as too old: a completion that comes before its HOME commit, or an ARRIVED
\* that comes after the RETURN commit, is not lost.
MissionSettles ==
    \A m \in Missions :
        fleet.mission = m ~> fleet.mission # m \/ Stopped(m)
==============================================================================
