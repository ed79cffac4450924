------------------------ MODULE MissionBarrierProofs ------------------------
(***************************************************************************)
(* Proofs about MissionBarrier for any set of missions, any troubles and   *)
(* with or without rearms: its types, and that the robots stay in step.    *)
(***************************************************************************)
EXTENDS MissionBarrier, TLAPS

\* The state a machine is in or, in FAULT, goes back to.
Place(r) == IF state[r] = "FAULT" THEN origin[r] ELSE state[r]

\* A machine leaves IDLE only with a mission, and gives it up in IDLE.
IdleWithoutMission ==
    \A r \in Roles : mission[r] = NoMission => Place(r) = "IDLE"

\* Types, and what they rest on.
Typed == TypeOK /\ IdleWithoutMission

-----------------------------------------------------------------------------
(* Types. *)

LEMMA TransitionTypes ==
    ASSUME TypeOK, NEW r \in Roles, NEW new \in States,
           NEW flags \in SUBSET Latches, Transition(r, new, flags)
    PROVE  /\ state' \in [Roles -> States]
           /\ latched' \in [Roles -> SUBSET Latches]
           /\ job' \in [Roles -> {"none", "approach", "align", "return"}]
<1>1. Job(new) \in {"none", "approach", "align", "return"}
  BY DEF Job
<1>2. (flags \ CASE new = "LIFT"    -> {"lift_done"}
                 [] new = "RELEASE" -> {"release_done"}
                 [] OTHER           -> {}) \in SUBSET Latches
  OBVIOUS
<1>3. QED BY <1>1, <1>2 DEF Transition, TypeOK

LEMMA RemainTypes ==
    ASSUME TypeOK, NEW r \in Roles, NEW flags \in SUBSET Latches,
           Remain(r, flags)
    PROVE  /\ state' \in [Roles -> States]
           /\ latched' \in [Roles -> SUBSET Latches]
           /\ job' \in [Roles -> {"none", "approach", "align", "return"}]
BY DEF Remain, TypeOK

LEMMA SentTypes ==
    ASSUME TypeOK, NEW r \in Roles, NEW stage \in Stages, NEW ready,
           mission[r] # NoMission
    PROVE  CommitsSent(r, stage, ready) \in Seq(Event)
<1>1. [mission |-> mission[r], stage |-> stage] \in Event
  BY DEF TypeOK, Event
<1>2. QED BY <1>1 DEF CommitsSent, TypeOK

LEMMA HeardTypes ==
    ASSUME TypeOK, NEW r \in Roles, NEW stage \in Stages, NEW ready
    PROVE  Heard(r, stage, ready) \in Stages \cup {NoStage}
BY DEF Heard, TypeOK

LEMMA CoordinateTypes ==
    ASSUME TypeOK, NEW r \in Roles, NEW stage \in Stages, NEW ready,
           mission[r] # NoMission, Coordinate(r, stage, ready)
    PROVE  /\ peerReady' \in Stages \cup {NoStage}
           /\ commitWire' \in Seq(Event)
           /\ committed' \in [Roles -> SUBSET Stages]
<1>1. committed' \in [Roles -> SUBSET Stages]
  BY DEF Coordinate, TypeOK
<1>2. QED BY <1>1, SentTypes, HeardTypes DEF Coordinate

\* A machine past IDLE has a mission.
LEMMA WorksForMission ==
    ASSUME Typed, NEW r \in Roles, state[r] \notin {"IDLE", "FAULT"}
    PROVE  mission[r] # NoMission
BY DEF Typed, IdleWithoutMission, Place

-----------------------------------------------------------------------------
LEMMA InitTypes == Init => Typed
<1>1. ASSUME Init PROVE TypeOK
  <2>1. commitWire \in Seq(Event) BY <1>1 DEF Init
  <2>2. QED BY <1>1, <2>1 DEF Init, TypeOK, States, Roles
<1>2. ASSUME Init PROVE IdleWithoutMission
  BY <1>2 DEF Init, IdleWithoutMission, Place
<1>3. QED BY <1>1, <1>2 DEF Typed

\* A tick of a barrier stage: coordination, then the next state or not.
LEMMA BarrierTickTypes ==
    ASSUME Typed, NEW r \in Roles, NEW stage \in Stages, NEW ready,
           NEW new \in States, NEW go \in SUBSET Latches,
           NEW flags \in SUBSET Latches,
           state[r] \notin {"IDLE", "FAULT"},
           Coordinate(r, stage, ready),
           IF Passed(r, stage, ready) THEN Transition(r, new, go)
                                      ELSE Remain(r, flags),
           order' \in [Roles -> {"none", "grip", "release"}],
           UNCHANGED <<origin, fault, mission, view, hardwareReady,
                       completeWire, estop, jaws, status, world>>
    PROVE  Typed'
<1> USE DEF Typed
<1>1. mission[r] # NoMission
  BY WorksForMission
<1>2. /\ state' \in [Roles -> States]
      /\ latched' \in [Roles -> SUBSET Latches]
      /\ job' \in [Roles -> {"none", "approach", "align", "return"}]
  <2>1. CASE Passed(r, stage, ready)  BY <2>1, TransitionTypes
  <2>2. CASE ~Passed(r, stage, ready) BY <2>2, RemainTypes
  <2>3. QED BY <2>1, <2>2
<1>3. /\ peerReady' \in Stages \cup {NoStage}
      /\ commitWire' \in Seq(Event)
      /\ committed' \in [Roles -> SUBSET Stages]
  BY <1>1, CoordinateTypes
<1>4. TypeOK'
  BY <1>2, <1>3 DEF TypeOK, world
<1>5. \A q \in Roles \ {r} : state'[q] = state[q]
  BY DEF Transition, Remain, TypeOK
<1>6. IdleWithoutMission'
  BY <1>1, <1>5 DEF IdleWithoutMission, Place
<1>7. QED BY <1>4, <1>6

\* The latches of a robot that has its load.
LEMMA LiftedTypes ==
    ASSUME TypeOK, NEW r \in Roles
    PROVE  Lifted(r) \in SUBSET Latches
BY DEF Lifted, CheckBothLifted, TypeOK, Latches

LEMMA TickTypes ==
    ASSUME Typed, NEW r \in Roles, Tick(r) PROVE Typed'
<1> USE DEF Typed
<1>0. latched[r] \in SUBSET Latches
  BY DEF TypeOK
<1>1. CASE TickIdle(r)
  <2>1. Transition(r, "APPROACH", latched[r]) /\ mission[r] # NoMission
    BY <1>1 DEF TickIdle
  <2>2. TypeOK'
    BY <1>0, <1>1, <2>1, TransitionTypes
    DEF TickIdle, TypeOK, States, wires, servo, world
  <2>3. IdleWithoutMission'
    BY <1>1, <2>1
    DEF TickIdle, Transition, IdleWithoutMission, Place, TypeOK
  <2>4. QED BY <2>2, <2>3
<1>2. CASE TickApproach(r)
  <2>1. Transition(r, "ALIGN", latched[r]) /\ mission[r] # NoMission
    BY <1>2, WorksForMission DEF TickApproach, Ticking
  <2>2. TypeOK'
    BY <1>0, <1>2, <2>1, TransitionTypes
    DEF TickApproach, TypeOK, States, wires, servo, world
  <2>3. IdleWithoutMission'
    BY <1>2, <2>1
    DEF TickApproach, Transition, IdleWithoutMission, Place, TypeOK
  <2>4. QED BY <2>2, <2>3
<1>3. CASE TickAlign(r)
  <2> DEFINE ready == "wheel_aligned" \in latched[r]
  <2>1. order' \in [Roles -> {"none", "grip", "release"}]
    BY <1>3 DEF TickAlign, TypeOK, servo
  <2>2. QED
    BY <1>0, <1>3, <2>1, BarrierTickTypes
    DEF TickAlign, Ticking, servo, Stages, States
<1>4. CASE TickLift(r)
  <2> DEFINE flags == IF GripReady(r) THEN Lifted(r) ELSE latched[r]
  <2>1. flags \in SUBSET Latches
    BY <1>0, LiftedTypes
  <2>2. order' \in [Roles -> {"none", "grip", "release"}]
    BY <1>4 DEF TickLift, TypeOK
  <2>3. IF Passed(r, "DRIVE", GripReady(r))
        THEN Transition(r, "DRIVE", flags) ELSE Remain(r, flags)
    BY <1>4 DEF TickLift
  <2> HIDE DEF flags
  <2>4. QED
    BY <1>4, <2>1, <2>2, <2>3, BarrierTickTypes
    DEF TickLift, Ticking, Stages, States
<1>5. CASE TickDrive(r)
  <2>1. Transition(r, "WAIT_RELEASE", latched[r]) /\ mission[r] # NoMission
    BY <1>5, WorksForMission DEF TickDrive, Ticking
  <2>2. TypeOK'
    BY <1>0, <1>5, <2>1, TransitionTypes
    DEF TickDrive, TypeOK, States, wires, servo, world
  <2>3. IdleWithoutMission'
    BY <1>5, <2>1
    DEF TickDrive, Transition, IdleWithoutMission, Place, TypeOK
  <2>4. QED BY <2>2, <2>3
<1>6. CASE TickWaitRelease(r)
  <2>1. order' \in [Roles -> {"none", "grip", "release"}]
    BY <1>6 DEF TickWaitRelease, TypeOK, servo
  <2>2. QED
    BY <1>0, <1>6, <2>1, BarrierTickTypes
    DEF TickWaitRelease, Ticking, servo, Stages, States
<1>7. CASE TickRelease(r)
  <2> DEFINE flags ==
        IF ReleaseReady(r) THEN latched[r] \cup {"release_announced"}
                           ELSE latched[r]
             go == flags \ {"local_lifted", "aggregate_lifted"}
  <2>1. flags \in SUBSET Latches /\ go \in SUBSET Latches
    BY <1>0 DEF Latches
  <2>2. order' \in [Roles -> {"none", "grip", "release"}]
    BY <1>7 DEF TickRelease, TypeOK
  <2>3. IF Passed(r, "RETURN", ReleaseReady(r))
        THEN Transition(r, "RETURN", go) ELSE Remain(r, flags)
    BY <1>7 DEF TickRelease
  <2> HIDE DEF flags, go
  <2>4. QED
    BY <1>7, <2>1, <2>2, <2>3, BarrierTickTypes
    DEF TickRelease, Ticking, Stages, States
<1>8. CASE TickReturn(r)
  <2> DEFINE ready == "return_done" \in latched[r]
  <2>1. mission[r] # NoMission
    BY <1>8, WorksForMission DEF TickReturn, Ticking
  <2>2. commitWire' \in Seq(Event)
    BY <1>8, <2>1, SentTypes DEF TickReturn, Stages
  <2>3. peerReady' \in Stages \cup {NoStage}
    BY <1>8, HeardTypes DEF TickReturn, Stages
  <2>4. CASE Passed(r, "HOME", ready)
    <3>1. AfterReset(r) \in SUBSET Latches
      BY DEF AfterReset
    <3>2. Transition(r, "IDLE", AfterReset(r))
      BY <1>8, <2>4 DEF TickReturn
    <3>a. /\ state' \in [Roles -> States]
          /\ latched' \in [Roles -> SUBSET Latches]
          /\ job' \in [Roles -> {"none", "approach", "align", "return"}]
      BY <3>1, <3>2, TransitionTypes DEF States
    <3>b. /\ mission' = [mission EXCEPT ![r] = NoMission]
          /\ view' = [view EXCEPT ![r] = "WAIT_TARGET"]
          /\ committed' = [committed EXCEPT ![r] = {}]
          /\ completeWire' = IF r = "front" THEN mission[r] ELSE completeWire
      BY <1>8, <2>4 DEF TickReturn
    <3>c. /\ mission' \in [Roles -> Missions \cup {NoMission}]
          /\ view' \in [Roles -> {"WAIT_TARGET", "WAIT_LIFT", "NAVIGATING"}]
          /\ committed' \in [Roles -> SUBSET Stages]
          /\ completeWire' \in Missions \cup {NoMission}
      BY <3>b DEF TypeOK
    <3>3. TypeOK'
      BY <1>8, <2>2, <2>3, <3>a, <3>c DEF TickReturn, TypeOK, servo, world
    <3>4. IdleWithoutMission'
      BY <1>8, <2>4, <3>2
      DEF TickReturn, Transition, IdleWithoutMission, Place, TypeOK
    <3>5. QED BY <3>3, <3>4
  <2>5. CASE ~Passed(r, "HOME", ready)
    <3>1. TypeOK'
      BY <1>8, <2>2, <2>3, <2>5 DEF TickReturn, TypeOK, servo, world
    <3>2. IdleWithoutMission'
      BY <1>8, <2>5 DEF TickReturn, IdleWithoutMission, Place
    <3>3. QED BY <3>1, <3>2
  <2>6. QED BY <2>4, <2>5
<1>9. CASE TickTimeout(r) \/ TickFaulted(r)
  <2>1. PICK class \in FaultClass : EnterFault(r, class)
    BY <1>9 DEF TickTimeout, TickFaulted, FaultClass, TypeOK
  <2>2. state[r] # "FAULT"
    BY <1>9 DEF TickTimeout, TickFaulted, Timed, Active
  <2>3. TypeOK'
    BY <2>1, <2>2 DEF EnterFault, TypeOK, States, wires, servo, world
  <2>4. IdleWithoutMission'
    BY <2>1, <2>2 DEF EnterFault, TypeOK, IdleWithoutMission, Place
  <2>5. QED BY <2>3, <2>4
<1>10. CASE TickFault(r)
  <2>1. TypeOK'
    BY <1>10 DEF TickFault, TypeOK, robot, wires, servo, world
  <2>2. IdleWithoutMission'
    BY <1>10 DEF TickFault, IdleWithoutMission, Place, robot
  <2>3. QED BY <2>1, <2>2
<1>11. QED
  BY <1>1, <1>2, <1>3, <1>4, <1>5, <1>6, <1>7, <1>8, <1>9, <1>10 DEF Tick

\* The callbacks of the state machines.
LEMMA CallbackTypes ==
    ASSUME Typed, NEW r \in Roles,
           \/ FleetCb(r) \/ LiftCb(r) \/ ArrivedCb(r) \/ Rearm(r)
           \/ \E ready \in BOOLEAN : HardwareReadyCb(r, ready)
           \/ \E class \in FaultClass : FaultCb(r, class)
           \/ ReadyGoesStale \/ CommitCb \/ RearLiftedCb
    PROVE  Typed'
<1> USE DEF Typed
<1>1. CASE FleetCb(r)
  <2>1. /\ fleet.mission \in Missions \cup {NoMission}
        /\ fleet.state \in {"WAIT_TARGET", "WAIT_LIFT", "NAVIGATING"}
    BY DEF TypeOK
  <2>2. fault' \in [Roles -> FaultClass \cup {"none"}]
    BY <1>1 DEF FleetCb, TypeOK, FaultClass
  <2>3. /\ view' \in [Roles -> {"WAIT_TARGET", "WAIT_LIFT", "NAVIGATING"}]
        /\ mission' \in [Roles -> Missions \cup {NoMission}]
    BY <1>1, <2>1 DEF FleetCb, TypeOK
  <2>4. /\ committed' \in [Roles -> SUBSET Stages]
        /\ peerReady' \in Stages \cup {NoStage}
    BY <1>1 DEF FleetCb, TypeOK
  <2>5. TypeOK'
    BY <1>1, <2>2, <2>3, <2>4 DEF FleetCb, TypeOK, wires, servo, world
  <2>6. IdleWithoutMission'
    BY <1>1 DEF FleetCb, TypeOK, IdleWithoutMission, Place
  <2>7. QED BY <2>5, <2>6
<1>2. CASE LiftCb(r)
  <2>1. TypeOK'
    BY <1>2 DEF LiftCb, TypeOK, Latches, wires, world
  <2>2. IdleWithoutMission'
    BY <1>2 DEF LiftCb, IdleWithoutMission, Place
  <2>3. QED BY <2>1, <2>2
<1>3. CASE ArrivedCb(r)
  <2>1. TypeOK'
    BY <1>3 DEF ArrivedCb, TypeOK, Latches, wires, servo, world
  <2>2. IdleWithoutMission'
    BY <1>3 DEF ArrivedCb, IdleWithoutMission, Place
  <2>3. QED BY <2>1, <2>2
<1>4. CASE Rearm(r)
  <2>1. Transition(r, origin[r], latched[r]) /\ state[r] = "FAULT"
    BY <1>4 DEF Rearm
  <2>2. origin[r] \in States \ {"FAULT"} /\ latched[r] \in SUBSET Latches
    BY DEF TypeOK
  <2>3. TypeOK'
    BY <1>4, <2>1, <2>2, TransitionTypes
    DEF Rearm, TypeOK, wires, servo, world
  <2>4. IdleWithoutMission'
    BY <1>4, <2>1, <2>2
    DEF Rearm, Transition, TypeOK, IdleWithoutMission, Place
  <2>5. QED BY <2>3, <2>4
<1>5. ASSUME NEW ready \in BOOLEAN, HardwareReadyCb(r, ready) PROVE Typed'
  <2>1. TypeOK'
    BY <1>5 DEF HardwareReadyCb, TypeOK, FaultClass, wires, servo, world
  <2>2. IdleWithoutMission'
    BY <1>5 DEF HardwareReadyCb, IdleWithoutMission, Place
  <2>3. QED BY <2>1, <2>2
<1>6. ASSUME NEW class \in FaultClass, FaultCb(r, class) PROVE Typed'
  <2>1. TypeOK'
    BY <1>6 DEF FaultCb, TypeOK, wires, servo, world
  <2>2. IdleWithoutMission'
    BY <1>6 DEF FaultCb, IdleWithoutMission, Place
  <2>3. QED BY <2>1, <2>2
<1>7. CASE ReadyGoesStale
  <2>1. TypeOK'
    BY <1>7 DEF ReadyGoesStale, TypeOK, wires, servo, world
  <2>2. IdleWithoutMission'
    BY <1>7 DEF ReadyGoesStale, IdleWithoutMission, Place
  <2>3. QED BY <2>1, <2>2
<1>8. CASE CommitCb
  <2>1. Head(commitWire) \in Event /\ commitWire' \in Seq(Event)
    BY <1>8 DEF CommitCb, TypeOK
  <2>2. committed' \in [Roles -> SUBSET Stages]
    BY <1>8, <2>1 DEF CommitCb, TypeOK, Event
  <2>3. TypeOK'
    BY <1>8, <2>1, <2>2 DEF CommitCb, TypeOK, servo, world
  <2>4. IdleWithoutMission'
    BY <1>8 DEF CommitCb, IdleWithoutMission, Place
  <2>5. QED BY <2>3, <2>4
<1>9. CASE RearLiftedCb
  <2>1. TypeOK'
    BY <1>9
    DEF RearLiftedCb, CheckBothLifted, TypeOK, Latches, Roles, wires, servo,
        world
  <2>2. IdleWithoutMission'
    BY <1>9 DEF RearLiftedCb, IdleWithoutMission, Place
  <2>3. QED BY <2>1, <2>2
<1>10. QED
  BY <1>1, <1>2, <1>3, <1>4, <1>5, <1>6, <1>7, <1>8, <1>9

\* The servo, the motion node, the pair controller and the fleet.
LEMMA EnvironmentTypes ==
    ASSUME Typed,
           \/ \E r \in Roles : ServoDone(r) \/ MotionDone(r)
           \/ PairArrives \/ (\E m \in Missions : FleetStarts(m))
           \/ FrontRepeatsLifted \/ FleetHearsLifted \/ FleetPlans \/ FleetFinishes
           \/ FleetRestarts
    PROVE  Typed'
<1> USE DEF Typed
<1>1. ASSUME NEW r \in Roles, ServoDone(r) PROVE Typed'
  <2>1. TypeOK'
    BY <1>1 DEF ServoDone, TypeOK, robot, wires, world
  <2>2. IdleWithoutMission'
    BY <1>1 DEF ServoDone, IdleWithoutMission, Place, robot
  <2>3. QED BY <2>1, <2>2
<1>2. ASSUME NEW r \in Roles, MotionDone(r) PROVE Typed'
  <2>1. TypeOK'
    BY <1>2 DEF MotionDone, TypeOK, Latches, wires, servo, world
  <2>2. IdleWithoutMission'
    BY <1>2 DEF MotionDone, IdleWithoutMission, Place
  <2>3. QED BY <2>1, <2>2
<1> DEFINE FleetTypes ==
        /\ fleet \in [state : {"WAIT_TARGET", "WAIT_LIFT", "NAVIGATING"},
                      mission : Missions \cup {NoMission}]
        /\ carLifted \in BOOLEAN
        /\ liftedWire \in BOOLEAN
        /\ started \in SUBSET Missions
        /\ atGoal \in BOOLEAN
<1>3. ASSUME UNCHANGED <<robot, wires, estop, servo, job>>, FleetTypes'
      PROVE  Typed'
  <2>1. TypeOK'
    BY <1>3 DEF TypeOK, robot, wires, servo
  <2>2. IdleWithoutMission'
    BY <1>3 DEF IdleWithoutMission, Place, robot
  <2>3. QED BY <2>1, <2>2
<1>4. CASE PairArrives \/ FrontRepeatsLifted \/ FleetHearsLifted
  BY <1>3, <1>4 DEF PairArrives, FrontRepeatsLifted, FleetHearsLifted, TypeOK
<1>5. ASSUME NEW m \in Missions, FleetStarts(m) PROVE Typed'
  <2>1. fleet' \in [state : {"WAIT_TARGET", "WAIT_LIFT", "NAVIGATING"},
                    mission : Missions \cup {NoMission}]
    BY <1>5 DEF FleetStarts
  <2>2. /\ started' \in SUBSET Missions
        /\ atGoal' \in BOOLEAN /\ carLifted' \in BOOLEAN
        /\ liftedWire' \in BOOLEAN
    BY <1>5 DEF FleetStarts, TypeOK
  <2>3. UNCHANGED <<robot, wires, estop, servo, job>>
    BY <1>5 DEF FleetStarts
  <2>4. QED BY <1>3, <2>1, <2>2, <2>3
<1>6. CASE FleetPlans
  BY <1>3, <1>6 DEF FleetPlans, TypeOK
<1>7. CASE FleetFinishes \/ FleetRestarts
  <2>1. fleet' \in [state : {"WAIT_TARGET", "WAIT_LIFT", "NAVIGATING"},
                    mission : Missions \cup {NoMission}]
    BY <1>7 DEF FleetFinishes, FleetRestarts
  <2>2. /\ started' \in SUBSET Missions
        /\ atGoal' \in BOOLEAN /\ carLifted' \in BOOLEAN
        /\ liftedWire' \in BOOLEAN
    BY <1>7 DEF FleetFinishes, FleetRestarts, TypeOK
  <2>3. UNCHANGED <<robot, wires, estop, servo, job>>
    BY <1>7 DEF FleetFinishes, FleetRestarts
  <2>4. QED BY <1>3, <2>1, <2>2, <2>3
<1>8. QED BY <1>1, <1>2, <1>4, <1>5, <1>6, <1>7

LEMMA NextTypes ==
    ASSUME Typed, [Next]_vars PROVE Typed'
<1>1. CASE UNCHANGED vars
  BY <1>1 DEF vars, Typed, TypeOK, IdleWithoutMission, Place
<1>2. CASE Next
  BY <1>2, TickTypes, CallbackTypes, EnvironmentTypes DEF Next, Roles
<1>3. QED BY <1>1, <1>2

\* Every variable keeps its type, for any missions, troubles and rearms: in
\* particular every commit on its way names a mission, since a machine without
\* one is in IDLE and does not take part in a barrier.
THEOREM TypeCorrect == Spec => []TypeOK
<1>1. Typed => TypeOK BY DEF Typed
<1>2. Typed /\ [Next]_vars => Typed' BY NextTypes
<1>3. QED BY <1>1, <1>2, InitTypes, PTL DEF Spec

-----------------------------------------------------------------------------
(***************************************************************************)
(* Lockstep, for any set of missions, any troubles, with or without rearms.*)
(***************************************************************************)

\* The stages in their order.
Rank(stage) ==
    CASE stage = "LIFT"    -> 1
      [] stage = "DRIVE"   -> 2
      [] stage = "RELEASE" -> 3
      [] stage = "RETURN"  -> 4
      [] stage = "HOME"    -> 5

Through(k) == {stage \in Stages : Rank(stage) <= k}

OnWire(m, stage) ==
    \E i \in 1 .. Len(commitWire) :
        commitWire[i].mission = m /\ commitWire[i].stage = stage

Arrived(r) == "arrived" \in latched[r]

\* Both robots have accepted one mission.
Together == mission["front"] = mission["rear"] /\ mission["front"] # NoMission

\* Rear has received, or will receive, a commit of its mission.
Told ==
    \/ committed["rear"] # {}
    \/ \E stage \in Stages : OnWire(mission["rear"], stage)

-----------------------------------------------------------------------------
(* The parts of the invariant. *)

\* DRIVE is left only on an ARRIVED, which a machine keeps until its reset.
ArrivedBefore ==
    \A r \in Roles :
        /\ Place(r) \in {"WAIT_RELEASE", "RELEASE", "RETURN"} => Arrived(r)
        /\ mission[r] = NoMission => ~Arrived(r)

\* Front has recorded the commits of just the stages it is through.
FrontRecords == committed["front"] = Through(Segment("front"))

\* Rear has been ready for the stage Front knows of, in Front's mission.
ReadyIsMeant ==
    peerReady # NoStage =>
        Together /\ Rank(peerReady) <= Segment("rear") + 1

\* Rear knows of no commit that Front has not made.
CommitsAreFronts ==
    /\ mission["front"] # NoMission =>
          \A stage \in Stages :
              OnWire(mission["front"], stage) => stage \in committed["front"]
    /\ Together => committed["rear"] \subseteq committed["front"]

OneApart == Together => Segment("front") - Segment("rear") \in {0, 1}

\* Front leaves a mission only when Rear, too, is on its way home.
LeftBehind ==
    /\ mission["front"] # mission["rear"] /\ mission["rear"] # NoMission
    /\ Told
    => Segment("rear") = 4

OneMission ==
    Segment("rear") > 0 /\ Segment("front") > 0 =>
        mission["front"] = mission["rear"]

\* Ids in use are of missions the fleet has started.
MissionsStarted ==
    /\ \A r \in Roles : mission[r] \in started \cup {NoMission}
    /\ \A m \in Missions, stage \in Stages : OnWire(m, stage) => m \in started
    /\ fleet.state = "WAIT_LIFT" => fleet.mission \in started

\* While the fleet offers a mission no robot can be through with it: one that
\* accepts it now cannot meet a peer, or a commit, from an earlier acceptance.
OfferIsFresh ==
    fleet.state = "WAIT_LIFT" =>
        /\ ~atGoal
        /\ \A r \in Roles : mission[r] = fleet.mission => ~Arrived(r)
        /\ mission["front"] = fleet.mission /\ Segment("front") > 0 =>
              mission["rear"] = fleet.mission
        /\ mission["rear"] = fleet.mission
           /\ (committed["rear"] # {} \/ Segment("rear") > 0) =>
              mission["front"] = fleet.mission
        /\ \A stage \in Stages :
              OnWire(fleet.mission, stage) => mission["front"] = fleet.mission

InStep ==
    /\ FrontRecords /\ ReadyIsMeant /\ CommitsAreFronts /\ OneApart
    /\ LeftBehind /\ OneMission /\ MissionsStarted /\ OfferIsFresh

Local == Typed /\ ArrivedBefore

IndInv == Local /\ InStep

-----------------------------------------------------------------------------
(* Stages, segments, the wire. *)

LEMMA Ranks ==
    /\ \A s \in Stages : Rank(s) \in 1 .. 5
    /\ \A s, t \in Stages : Rank(s) = Rank(t) => s = t
    /\ Rank("HOME") = 5 /\ Rank("LIFT") = 1 /\ Rank("DRIVE") = 2
    /\ Rank("RELEASE") = 3 /\ Rank("RETURN") = 4
<1>1. /\ Rank("HOME") = 5 /\ Rank("LIFT") = 1 /\ Rank("DRIVE") = 2
      /\ Rank("RELEASE") = 3 /\ Rank("RETURN") = 4
  BY DEF Rank
<1>2. Stages = {"LIFT", "DRIVE", "RELEASE", "RETURN", "HOME"}
  BY DEF Stages
<1>3. QED BY <1>1, <1>2

LEMMA Segments ==
    ASSUME TypeOK, NEW r \in Roles
    PROVE  /\ Segment(r) \in 0 .. 4
           /\ Place(r) \in {"IDLE", "APPROACH", "ALIGN"} <=> Segment(r) = 0
           /\ Place(r) = "LIFT" <=> Segment(r) = 1
           /\ Place(r) \in {"DRIVE", "WAIT_RELEASE"} <=> Segment(r) = 2
           /\ Place(r) = "RELEASE" <=> Segment(r) = 3
           /\ Place(r) = "RETURN" <=> Segment(r) = 4
BY DEF Segment, Place, TypeOK, States

LEMMA NextSegments ==
    ASSUME TypeOK', NEW r \in Roles
    PROVE  /\ Segment(r)' \in 0 .. 4
           /\ Place(r)' \in {"IDLE", "APPROACH", "ALIGN"} <=> Segment(r)' = 0
           /\ Place(r)' = "LIFT" <=> Segment(r)' = 1
           /\ Place(r)' \in {"DRIVE", "WAIT_RELEASE"} <=> Segment(r)' = 2
           /\ Place(r)' = "RELEASE" <=> Segment(r)' = 3
           /\ Place(r)' = "RETURN" <=> Segment(r)' = 4
BY DEF Segment, Place, TypeOK, States

LEMMA SegmentKept ==
    ASSUME NEW r \in Roles, Place(r)' = Place(r)
    PROVE  Segment(r)' = Segment(r)
BY DEF Segment, Place

LEMMA ThroughGrows ==
    ASSUME NEW s \in Stages
    PROVE  /\ Through(Rank(s)) = Through(Rank(s) - 1) \cup {s}
           /\ s \notin Through(Rank(s) - 1)
BY Ranks DEF Through

LEMMA WireGrows ==
    ASSUME TypeOK, NEW m \in Missions, NEW s \in Stages,
           commitWire' = Append(commitWire, [mission |-> m, stage |-> s])
    PROVE  \A n \in Missions, t \in Stages :
              OnWire(n, t)' => OnWire(n, t) \/ (n = m /\ t = s)
<1> DEFINE e == [mission |-> m, stage |-> s]
<1>1. e \in Event /\ commitWire \in Seq(Event)
  BY DEF Event, TypeOK
<1>2. /\ Len(commitWire') = Len(commitWire) + 1
      /\ \A i \in 1 .. Len(commitWire) : commitWire'[i] = commitWire[i]
      /\ commitWire'[Len(commitWire) + 1] = e
  BY <1>1
<1>3. Len(commitWire) \in Nat
  BY <1>1
<1>4. SUFFICES ASSUME NEW n \in Missions, NEW t \in Stages,
                      NEW i \in 1 .. Len(commitWire'),
                      commitWire'[i].mission = n, commitWire'[i].stage = t
               PROVE  OnWire(n, t) \/ (n = m /\ t = s)
  BY DEF OnWire
<1>5. CASE i = Len(commitWire) + 1
  BY <1>2, <1>4, <1>5
<1>6. CASE i \in 1 .. Len(commitWire)
  BY <1>2, <1>4, <1>6 DEF OnWire
<1>7. QED BY <1>2, <1>3, <1>5, <1>6

LEMMA WireShrinks ==
    ASSUME TypeOK, commitWire # <<>>, commitWire' = Tail(commitWire)
    PROVE  /\ \A n, t : OnWire(n, t)' => OnWire(n, t)
           /\ OnWire(Head(commitWire).mission, Head(commitWire).stage)
<1>1. commitWire \in Seq(Event)
  BY DEF TypeOK
<1>2. /\ Len(commitWire) \in Nat \ {0}
      /\ Len(commitWire') = Len(commitWire) - 1
      /\ \A i \in 1 .. Len(commitWire') : commitWire'[i] = commitWire[i + 1]
      /\ Head(commitWire) = commitWire[1]
  BY <1>1
<1>3. QED
  BY <1>2 DEF OnWire

-----------------------------------------------------------------------------
(* Steps that leave the barrier alone. *)

Frame == UNCHANGED <<mission, committed, peerReady, commitWire, fleet,
                     started, atGoal>>

\* The machines move, if at all, within their segments.
Moves ==
    \A r \in Roles :
        /\ Segment(r)' = Segment(r)
        /\ Arrived(r)' => Arrived(r) \/ atGoal

LEMMA MovesPreserve ==
    ASSUME IndInv, Typed', ArrivedBefore', Frame, Moves
    PROVE  IndInv'
<1>1. \A m, s : OnWire(m, s)' <=> OnWire(m, s)
  BY DEF OnWire, Frame
<1>2. /\ Segment("front")' = Segment("front")
      /\ Segment("rear")' = Segment("rear")
  BY DEF Moves, Roles
<1>3. FrontRecords'
  BY <1>2 DEF IndInv, InStep, FrontRecords, Frame
<1>4. ReadyIsMeant' /\ OneApart' /\ OneMission'
  BY <1>2
  DEF IndInv, InStep, ReadyIsMeant, OneApart, OneMission, Together, Frame
<1>5. CommitsAreFronts' /\ LeftBehind' /\ MissionsStarted'
  BY <1>1, <1>2
  DEF IndInv, InStep, CommitsAreFronts, LeftBehind, MissionsStarted, Told,
      Together, Frame
<1>6. OfferIsFresh'
  BY <1>1, <1>2
  DEF IndInv, InStep, OfferIsFresh, Moves, Frame, Roles
<1>7. QED
  BY <1>3, <1>4, <1>5, <1>6 DEF IndInv, InStep, Local

\* Faults, rearms, latches and the like.
LEMMA StillPreserves ==
    ASSUME IndInv, Typed', Frame,
           \A r \in Roles : /\ Place(r)' = Place(r)
                            /\ Arrived(r)' <=> Arrived(r)
    PROVE  IndInv'
<1>1. ArrivedBefore'
  BY DEF IndInv, Local, ArrivedBefore, Frame
<1>2. Moves
  BY SegmentKept DEF Moves
<1>3. QED BY <1>1, <1>2, MovesPreserve

\* A transition of one robot, that the barrier does not see.
LEMMA InnerTransition ==
    ASSUME IndInv, Typed', Frame, NEW r \in Roles, NEW new,
           Transition(r, new, latched[r]), UNCHANGED origin,
           mission[r] # NoMission,
           \/ Place(r) \in {"IDLE", "APPROACH"} /\ new \in {"APPROACH", "ALIGN"}
           \/ Place(r) = "DRIVE" /\ new = "WAIT_RELEASE" /\ Arrived(r)
    PROVE  IndInv'
<1>1. Place(r)' = new
  BY DEF Transition, Place, IndInv, Local, Typed, TypeOK
<1>2. \A q \in Roles \ {r} : Place(q)' = Place(q)
  BY DEF Transition, Place, IndInv, Local, Typed, TypeOK
<1>3. \A q \in Roles : Arrived(q)' <=> Arrived(q)
  BY DEF Transition, Arrived, IndInv, Local, Typed, TypeOK
<1>4. Segment(r)' = Segment(r)
  BY <1>1, Segments, NextSegments DEF IndInv, Local, Typed
<1>5. ArrivedBefore'
  BY <1>1, <1>2, <1>3 DEF IndInv, Local, ArrivedBefore, Frame
<1>6. Moves
  BY <1>2, <1>3, <1>4, SegmentKept DEF Moves
<1>7. QED BY <1>5, <1>6, MovesPreserve

LEMMA InnerTicks ==
    ASSUME IndInv, Typed', NEW r \in Roles,
           TickIdle(r) \/ TickApproach(r) \/ TickDrive(r)
    PROVE  IndInv'
<1>1. state[r] # "FAULT" /\ Frame /\ UNCHANGED origin
  BY DEF TickIdle, TickApproach, TickDrive, Ticking, Frame, wires, world
<1>2. Place(r) = state[r]
  BY <1>1 DEF Place
<1>3. mission[r] # NoMission
  BY WorksForMission
  DEF TickIdle, TickApproach, TickDrive, Ticking, IndInv, Local
<1>4. CASE TickIdle(r)
  BY <1>1, <1>2, <1>3, <1>4, InnerTransition DEF TickIdle, Ticking
<1>5. CASE TickApproach(r)
  BY <1>1, <1>2, <1>3, <1>5, InnerTransition DEF TickApproach, Ticking
<1>6. CASE TickDrive(r)
  BY <1>1, <1>2, <1>3, <1>6, InnerTransition DEF TickDrive, Ticking, Arrived
<1>7. QED BY <1>4, <1>5, <1>6

LEMMA FaultsAndRearms ==
    ASSUME IndInv, Typed', NEW r \in Roles,
           TickTimeout(r) \/ TickFaulted(r) \/ TickFault(r) \/ Rearm(r)
    PROVE  IndInv'
<1> USE DEF IndInv, Local, Typed
<1>1. Frame
  BY DEF TickTimeout, TickFaulted, TickFault, Rearm, EnterFault, Frame, robot,
         wires, world
<1>2. CASE TickTimeout(r) \/ TickFaulted(r)
  <2>1. state[r] # "FAULT"
    BY <1>2 DEF TickTimeout, TickFaulted, Timed, Active
  <2>2. /\ state' = [state EXCEPT ![r] = "FAULT"]
        /\ origin' = [origin EXCEPT ![r] = state[r]]
        /\ latched' = latched
    BY <1>2 DEF TickTimeout, TickFaulted, EnterFault
  <2>3. \A q \in Roles : Place(q)' = Place(q) /\ (Arrived(q)' <=> Arrived(q))
    BY <2>1, <2>2 DEF Place, Arrived, TypeOK
  <2>4. QED BY <1>1, <2>3, StillPreserves
<1>3. CASE TickFault(r)
  <2>1. \A q \in Roles : Place(q)' = Place(q) /\ (Arrived(q)' <=> Arrived(q))
    BY <1>3 DEF TickFault, Place, Arrived, robot
  <2>2. QED BY <1>1, <2>1, StillPreserves
<1>4. CASE Rearm(r)
  <2>1. /\ Transition(r, origin[r], latched[r]) /\ state[r] = "FAULT"
        /\ UNCHANGED origin
    BY <1>4 DEF Rearm
  <2>2. \A q \in Roles : Place(q)' = Place(q)
    BY <2>1 DEF Transition, Place, TypeOK
  <2>3. \A q \in Roles : Arrived(q)' <=> Arrived(q)
    BY <2>1 DEF Transition, Arrived, TypeOK
  <2>4. QED BY <1>1, <2>2, <2>3, StillPreserves
<1>5. QED BY <1>2, <1>3, <1>4

LEMMA QuietCallbacks ==
    ASSUME IndInv, Typed', NEW r \in Roles,
           \/ LiftCb(r) \/ RearLiftedCb \/ ServoDone(r) \/ MotionDone(r)
           \/ \E ready \in BOOLEAN : HardwareReadyCb(r, ready)
           \/ \E class \in FaultClass : FaultCb(r, class)
           \/ FrontRepeatsLifted \/ FleetHearsLifted
    PROVE  IndInv'
<1> USE DEF IndInv, Local, Typed
<1>1. Frame
  BY DEF LiftCb, RearLiftedCb, ServoDone, MotionDone, HardwareReadyCb,
         FaultCb, FrontRepeatsLifted, FleetHearsLifted, Frame, robot, wires, world
<1>2. \A q \in Roles : Place(q)' = Place(q)
  BY DEF LiftCb, RearLiftedCb, ServoDone, MotionDone, HardwareReadyCb,
         FaultCb, FrontRepeatsLifted, FleetHearsLifted, Place, robot
<1>3. \A q \in Roles : Arrived(q)' <=> Arrived(q)
  <2>1. CASE LiftCb(r)
    BY <2>1 DEF LiftCb, Arrived, TypeOK
  <2>2. CASE RearLiftedCb
    BY <2>2 DEF RearLiftedCb, CheckBothLifted, Arrived, TypeOK, Roles
  <2>3. CASE MotionDone(r)
    BY <2>3 DEF MotionDone, Arrived, TypeOK
  <2>4. CASE ~(LiftCb(r) \/ RearLiftedCb \/ MotionDone(r))
    BY <2>4 DEF ServoDone, HardwareReadyCb, FaultCb, FrontRepeatsLifted, FleetHearsLifted,
                Arrived, robot
  <2>5. QED BY <2>1, <2>2, <2>3, <2>4
<1>4. QED BY <1>1, <1>2, <1>3, StillPreserves

LEMMA ArrivedPreserves ==
    ASSUME IndInv, Typed', NEW r \in Roles, ArrivedCb(r) PROVE IndInv'
<1> USE DEF IndInv, Local, Typed
<1>1. Frame /\ atGoal
  BY DEF ArrivedCb, Frame, wires, world
<1>2. \A q \in Roles : Place(q)' = Place(q)
  BY DEF ArrivedCb, Place
<1>3. \A q \in Roles : Arrived(q)' <=> Arrived(q) \/ q = r
  BY DEF ArrivedCb, Arrived, TypeOK
<1>4. mission[r] # NoMission
  BY WorksForMission DEF ArrivedCb
<1>5. ArrivedBefore'
  BY <1>1, <1>2, <1>3, <1>4 DEF ArrivedBefore, Frame
<1>6. Moves
  BY <1>1, <1>2, SegmentKept DEF Moves
<1>7. QED BY <1>1, <1>5, <1>6, MovesPreserve

-----------------------------------------------------------------------------
(* The fleet. *)

LEMMA FleetPreserves ==
    ASSUME IndInv, Typed',
           \/ PairArrives \/ FleetPlans \/ FleetFinishes \/ FleetRestarts
           \/ \E m \in Missions : FleetStarts(m)
    PROVE  IndInv'
<1> USE DEF IndInv, Local, Typed
<1>1. UNCHANGED robot /\ UNCHANGED commitWire
  BY DEF PairArrives, FleetPlans, FleetFinishes, FleetRestarts, FleetStarts,
         wires
<1>2. /\ \A q \in Roles : /\ Place(q)' = Place(q)
                          /\ Segment(q)' = Segment(q)
                          /\ Arrived(q)' <=> Arrived(q)
      /\ \A m, s : OnWire(m, s)' <=> OnWire(m, s)
  BY <1>1 DEF robot, Place, Segment, Arrived, OnWire
<1>3. ArrivedBefore'
  BY <1>1, <1>2 DEF ArrivedBefore, robot
<1>4. FrontRecords' /\ ReadyIsMeant' /\ OneApart' /\ OneMission'
  BY <1>1, <1>2
  DEF InStep, FrontRecords, ReadyIsMeant, OneApart, OneMission, Together,
      robot, Roles
<1>5. CommitsAreFronts' /\ LeftBehind'
  BY <1>1, <1>2
  DEF InStep, CommitsAreFronts, LeftBehind, Told, Together, robot, Roles
<1>6. CASE PairArrives \/ FleetPlans \/ FleetFinishes \/ FleetRestarts
  <2>1. fleet'.state # "WAIT_LIFT" /\ started' = started
    BY <1>6 DEF PairArrives, FleetPlans, FleetFinishes, FleetRestarts, TypeOK
  <2>2. MissionsStarted' /\ OfferIsFresh'
    BY <1>1, <1>2, <2>1
    DEF InStep, MissionsStarted, OfferIsFresh, robot
  <2>3. QED BY <1>3, <1>4, <1>5, <2>2 DEF InStep
<1>7. ASSUME NEW m \in Missions, FleetStarts(m) PROVE IndInv'
  <2>1. /\ fleet' = [state |-> "WAIT_LIFT", mission |-> m]
        /\ started' = started \cup {m} /\ m \notin started /\ ~atGoal'
    BY <1>7 DEF FleetStarts
  <2>2. /\ \A q \in Roles : mission[q] # m
        /\ \A s \in Stages : ~OnWire(m, s)
    BY <2>1, BarrierAssumption DEF InStep, MissionsStarted
  <2>3. MissionsStarted'
    BY <1>1, <1>2, <2>1 DEF InStep, MissionsStarted, robot
  <2>4. OfferIsFresh'
    BY <1>1, <1>2, <2>1, <2>2 DEF OfferIsFresh, robot, Roles
  <2>5. QED BY <1>3, <1>4, <1>5, <2>3, <2>4 DEF InStep
<1>8. QED BY <1>6, <1>7

-----------------------------------------------------------------------------
(* Messages between the robots, and the acceptance of a mission. *)

LEMMA StalePreserves ==
    ASSUME IndInv, Typed', ReadyGoesStale PROVE IndInv'
<1> USE DEF IndInv, Local, Typed
<1>1. /\ peerReady' = NoStage
      /\ UNCHANGED <<state, origin, mission, latched, committed, commitWire,
                     fleet, started, atGoal>>
  BY DEF ReadyGoesStale, wires, world
<1>2. /\ \A q \in Roles : /\ Segment(q)' = Segment(q)
                          /\ Place(q)' = Place(q)
                          /\ Arrived(q)' <=> Arrived(q)
      /\ \A m, s : OnWire(m, s)' <=> OnWire(m, s)
  BY <1>1 DEF Segment, Place, Arrived, OnWire
<1>3. ArrivedBefore' /\ FrontRecords' /\ ReadyIsMeant' /\ OneApart'
      /\ OneMission'
  BY <1>1, <1>2
  DEF InStep, ArrivedBefore, FrontRecords, ReadyIsMeant, OneApart, OneMission,
      Together, Roles
<1>4. CommitsAreFronts' /\ LeftBehind' /\ MissionsStarted' /\ OfferIsFresh'
  BY <1>1, <1>2
  DEF InStep, CommitsAreFronts, LeftBehind, MissionsStarted, OfferIsFresh,
      Told, Together, Roles
<1>5. QED BY <1>3, <1>4 DEF InStep

LEMMA CommitCbPreserves ==
    ASSUME IndInv, Typed', CommitCb PROVE IndInv'
<1> USE DEF IndInv, Local, Typed
<1> DEFINE event == Head(commitWire)
<1>1. UNCHANGED <<state, origin, mission, latched, peerReady, fleet, started,
                  atGoal>>
  BY DEF CommitCb, world
<1>2. /\ event \in Event
      /\ \A n, t : OnWire(n, t)' => OnWire(n, t)
      /\ OnWire(event.mission, event.stage)
  <2>1. commitWire # <<>> /\ commitWire' = Tail(commitWire)
    BY DEF CommitCb
  <2>2. event \in Event
    BY <2>1 DEF TypeOK
  <2>3. QED BY <2>1, <2>2, WireShrinks
<1>3. \/ committed' = committed
      \/ /\ event.mission = mission["rear"]
         /\ committed' = [committed EXCEPT !["rear"] = @ \cup {event.stage}]
  BY DEF CommitCb
<1>4. event.mission \in Missions /\ event.stage \in Stages
  BY <1>2 DEF Event
<1>5. \A q \in Roles : /\ Segment(q)' = Segment(q)
                       /\ Place(q)' = Place(q)
                       /\ Arrived(q)' <=> Arrived(q)
  BY <1>1 DEF Segment, Place, Arrived
<1>6. /\ committed'["front"] = committed["front"]
      /\ \/ committed'["rear"] = committed["rear"]
         \/ /\ event.mission = mission["rear"]
            /\ committed'["rear"] = committed["rear"] \cup {event.stage}
  BY <1>3 DEF TypeOK, Roles
<1> HIDE DEF event
<1>7. ArrivedBefore' /\ FrontRecords' /\ ReadyIsMeant' /\ OneApart'
      /\ OneMission'
  BY <1>1, <1>5, <1>6
  DEF InStep, ArrivedBefore, FrontRecords, ReadyIsMeant, OneApart, OneMission,
      Together, Roles
<1>8. CommitsAreFronts'
  BY <1>1, <1>2, <1>4, <1>6 DEF InStep, CommitsAreFronts, Together
<1>9. LeftBehind'
  BY <1>1, <1>2, <1>4, <1>5, <1>6 DEF InStep, LeftBehind, Told, Roles
<1>10. MissionsStarted' /\ OfferIsFresh'
  BY <1>1, <1>2, <1>4, <1>5, <1>6
  DEF InStep, MissionsStarted, OfferIsFresh, Roles
<1>11. QED BY <1>7, <1>8, <1>9, <1>10 DEF InStep

LEMMA FleetCbPreserves ==
    ASSUME IndInv, Typed', NEW r \in Roles, FleetCb(r) PROVE IndInv'
<1> USE DEF IndInv, Local, Typed
<1>1. /\ UNCHANGED <<state, origin, latched, commitWire, fleet, started,
                     atGoal>>
      /\ \A q \in Roles : /\ Segment(q)' = Segment(q)
                          /\ Place(q)' = Place(q)
                          /\ Arrived(q)' <=> Arrived(q)
      /\ \A m, s : OnWire(m, s)' <=> OnWire(m, s)
  BY DEF FleetCb, wires, world, Segment, Place, Arrived, OnWire
<1>2. CASE UNCHANGED <<mission, committed, peerReady>>
  BY <1>1, <1>2, StillPreserves DEF Frame
<1>3. CASE /\ mission[r] = NoMission /\ fleet.mission # NoMission
           /\ fleet.state = "WAIT_LIFT" /\ state[r] = "IDLE"
           /\ mission' = [mission EXCEPT ![r] = fleet.mission]
           /\ committed' = [committed EXCEPT ![r] = {}]
           /\ peerReady' = IF r = "front" THEN NoStage ELSE peerReady
  <2>1. Segment(r) = 0 /\ ~Arrived(r)
    BY <1>3, Segments DEF Place, ArrivedBefore
  <2>2. peerReady' = NoStage
    BY <1>3 DEF InStep, ReadyIsMeant, Together, Roles
  <2>3. ArrivedBefore' /\ MissionsStarted' /\ ReadyIsMeant'
    BY <1>1, <1>3, <2>1, <2>2
    DEF InStep, ArrivedBefore, MissionsStarted, ReadyIsMeant, TypeOK
  <2>4. Through(0) = {}
    BY Ranks DEF Through
  <2>5. CASE r = "front"
    <3>1. /\ mission'["front"] = fleet.mission
          /\ mission'["rear"] = mission["rear"]
          /\ committed'["front"] = {} /\ committed'["rear"] = committed["rear"]
      BY <1>3, <2>5 DEF TypeOK, Roles
    <3>2. /\ mission["front"] = NoMission /\ Segment("front") = 0
          /\ \A s \in Stages : ~OnWire(fleet.mission, s)
          /\ mission["rear"] = fleet.mission =>
                committed["rear"] = {} /\ Segment("rear") = 0
      BY <1>3, <2>1, <2>5, Segments
      DEF InStep, OfferIsFresh, Roles
    <3>3. FrontRecords' /\ OneApart' /\ OneMission'
      BY <1>1, <2>4, <3>1, <3>2
      DEF FrontRecords, OneApart, OneMission, Together, Roles
    <3>4. CommitsAreFronts' /\ LeftBehind'
      BY <1>1, <3>1, <3>2
      DEF InStep, CommitsAreFronts, LeftBehind, Told, Together, Roles
    <3>5. OfferIsFresh'
      BY <1>1, <1>3, <2>1, <2>5, <3>1, <3>2
      DEF InStep, OfferIsFresh, Roles
    <3>6. QED BY <2>3, <3>3, <3>4, <3>5 DEF InStep
  <2>6. CASE r = "rear"
    <3>1. /\ mission'["rear"] = fleet.mission
          /\ mission'["front"] = mission["front"]
          /\ committed'["rear"] = {}
          /\ committed'["front"] = committed["front"]
      BY <1>3, <2>6 DEF TypeOK, Roles
    <3>2. /\ mission["rear"] = NoMission /\ Segment("rear") = 0
          /\ mission["front"] = fleet.mission => Segment("front") = 0
          /\ \A s \in Stages :
                OnWire(fleet.mission, s) => mission["front"] = fleet.mission
      BY <1>3, <2>1, <2>6, Segments
      DEF InStep, OfferIsFresh, Roles
    <3>3. FrontRecords' /\ OneApart' /\ OneMission'
      BY <1>1, <3>1, <3>2
      DEF InStep, FrontRecords, OneApart, OneMission, Together, Roles
    <3>4. CommitsAreFronts' /\ LeftBehind'
      BY <1>1, <3>1, <3>2
      DEF InStep, CommitsAreFronts, LeftBehind, Told, Together, Roles
    <3>5. OfferIsFresh'
      BY <1>1, <1>3, <2>1, <2>6, <3>1, <3>2
      DEF InStep, OfferIsFresh, Roles
    <3>6. QED BY <2>3, <3>3, <3>4, <3>5 DEF InStep
  <2>7. QED BY <2>5, <2>6 DEF Roles
<1>4. QED BY <1>2, <1>3 DEF FleetCb

-----------------------------------------------------------------------------
(* The barrier. *)

\* What every tick of a barrier stage of robot r has in common; go says
\* whether it passes the barrier.
BarrierStep(r, stage, ready, go) ==
    /\ Rank(stage) = Segment(r) + 1
    /\ Segment(r)' = IF go THEN Rank(stage) ELSE Segment(r)
    /\ \A q \in Roles \ {r} : Segment(q)' = Segment(q)
    /\ \A q \in Roles : Arrived(q)' <=> Arrived(q)
    /\ peerReady' = Heard(r, stage, ready)
    /\ commitWire' = CommitsSent(r, stage, ready)
    /\ committed' = IF Commits(r, stage, ready)
                    THEN [committed EXCEPT ![r] = @ \cup {stage}]
                    ELSE committed
    /\ UNCHANGED <<mission, fleet, started, atGoal>>

LEMMA FrontNotYetThrough ==
    ASSUME IndInv, NEW stage \in Stages, Rank(stage) = Segment("front") + 1
    PROVE  stage \notin committed["front"]
<1>1. Segment("front") \in 0 .. 4
  BY Segments DEF IndInv, Local, Typed, Roles
<1>2. QED
  BY <1>1, Ranks DEF IndInv, InStep, FrontRecords, Through

LEMMA FrontStep ==
    ASSUME IndInv, Typed', ArrivedBefore', NEW stage \in Stages, NEW ready,
           mission["front"] # NoMission,
           BarrierStep("front", stage, ready, Passed("front", stage, ready))
    PROVE  IndInv'
<1> USE DEF IndInv, Local, Typed
<1>1. Passed("front", stage, ready) <=> Commits("front", stage, ready)
  BY FrontNotYetThrough DEF BarrierStep, Passed
<1>2. peerReady' = peerReady /\ UNCHANGED <<mission, fleet, started, atGoal>>
  BY DEF BarrierStep, Heard
<1>3. \A q \in Roles : Arrived(q)' <=> Arrived(q)
  BY DEF BarrierStep
<1>4. CASE ~Commits("front", stage, ready)
  <2>1. Frame /\ Moves
    BY <1>1, <1>2, <1>3, <1>4
    DEF BarrierStep, Frame, Moves, CommitsSent, Roles
  <2>2. QED BY <2>1, MovesPreserve
<1>5. CASE Commits("front", stage, ready)
  <2> DEFINE m == mission["front"]
  <2>1. /\ m \in Missions
        /\ commitWire' = Append(commitWire, [mission |-> m, stage |-> stage])
    BY <1>5 DEF BarrierStep, CommitsSent, TypeOK, Roles
  <2>2. \A n \in Missions, t \in Stages :
           OnWire(n, t)' => OnWire(n, t) \/ (n = m /\ t = stage)
    BY <2>1, WireGrows
  <2>3. /\ committed'["front"] = committed["front"] \cup {stage}
        /\ committed'["rear"] = committed["rear"]
    BY <1>5 DEF BarrierStep, TypeOK, Roles
  <2>4. /\ Segment("front")' = Segment("front") + 1
        /\ Segment("rear")' = Segment("rear")
        /\ Rank(stage) = Segment("front") + 1
    BY <1>1, <1>5 DEF BarrierStep, Roles
  <2>5. Together /\ Rank(stage) <= Segment("rear") + 1
    BY <1>5, BarrierAssumption DEF InStep, ReadyIsMeant, Commits
  <2>6. Segment("front") \in 0 .. 4 /\ Segment("rear") \in 0 .. 4
    BY Segments DEF Roles
  <2>7. FrontRecords'
    <3>1. Through(Rank(stage)) = Through(Segment("front")) \cup {stage}
      BY <2>4, <2>6, ThroughGrows
    <3>2. QED BY <2>3, <2>4, <3>1 DEF InStep, FrontRecords
  <2>8. ReadyIsMeant' /\ OneApart' /\ OneMission' /\ LeftBehind'
    BY <1>2, <2>4, <2>5, <2>6
    DEF InStep, ReadyIsMeant, OneApart, OneMission, LeftBehind, Together
  <2>9. CommitsAreFronts'
    BY <1>2, <2>1, <2>2, <2>3, <2>5 DEF InStep, CommitsAreFronts, Together
  <2>10. MissionsStarted'
    BY <1>2, <2>1, <2>2, BarrierAssumption
    DEF InStep, MissionsStarted, Roles
  <2>11. fleet.state = "WAIT_LIFT" => fleet.mission \in Missions
    BY DEF InStep, MissionsStarted, TypeOK
  <2>12. OfferIsFresh'
    BY <1>2, <1>3, <2>2, <2>3, <2>4, <2>5, <2>11
    DEF InStep, OfferIsFresh, Together, Roles
  <2>13. QED BY <2>7, <2>8, <2>9, <2>10, <2>12 DEF InStep
<1>6. QED BY <1>4, <1>5

LEMMA RearStep ==
    ASSUME IndInv, Typed', ArrivedBefore', NEW stage \in Stages, NEW ready,
           mission["rear"] # NoMission,
           BarrierStep("rear", stage, ready, Passed("rear", stage, ready)),
           stage = "HOME" => ~Passed("rear", stage, ready)
    PROVE  IndInv'
<1> USE DEF IndInv, Local, Typed
<1>1. Passed("rear", stage, ready) <=> stage \in committed["rear"]
  BY DEF Passed, Commits
<1>2. UNCHANGED <<mission, fleet, started, atGoal, committed, commitWire>>
  BY DEF BarrierStep, Commits, CommitsSent
<1>3. /\ \A q \in Roles : Arrived(q)' <=> Arrived(q)
      /\ \A m, s : OnWire(m, s)' <=> OnWire(m, s)
  BY <1>2 DEF BarrierStep, OnWire
<1>4. /\ Segment("front")' = Segment("front")
      /\ Segment("rear")' = IF stage \in committed["rear"]
                            THEN Segment("rear") + 1 ELSE Segment("rear")
      /\ Rank(stage) = Segment("rear") + 1
  BY <1>1 DEF BarrierStep, Roles
<1>5. Segment("front") \in 0 .. 4 /\ Segment("rear") \in 0 .. 4
  BY Segments DEF Roles
<1>6. stage \in committed["rear"] => Segment("rear") # 4 /\ Told
  <2>1. "HOME" \in Stages
    BY DEF Stages
  <2>2. Rank(stage) = 5 => stage = "HOME"
    BY <2>1, Ranks
  <2>3. QED BY <1>1, <1>4, <2>2 DEF Told
<1>7. stage \in committed["rear"] =>
          Together /\ Rank(stage) <= Segment("front")
  <2>1. stage \in committed["rear"] => Together
    BY <1>6 DEF InStep, LeftBehind, Together
  <2>2. QED
    BY <2>1 DEF InStep, CommitsAreFronts, FrontRecords, Through
<1>8. FrontRecords' /\ OneApart' /\ OneMission'
  BY <1>2, <1>4, <1>5, <1>7
  DEF InStep, FrontRecords, OneApart, OneMission, Together
<1>9. ReadyIsMeant'
  <2>1. peerReady' = peerReady \/ (peerReady' = stage /\ Together)
    BY DEF BarrierStep, Heard, Together
  <2>2. peerReady' = peerReady => ReadyIsMeant'
    <3>1. CASE peerReady = NoStage
      BY <3>1 DEF ReadyIsMeant
    <3>2. CASE peerReady # NoStage
      <4>1. Rank(peerReady) \in 1 .. 5
        BY <3>2, Ranks DEF TypeOK
      <4>2. QED
        BY <1>2, <1>4, <1>5, <3>2, <4>1 DEF InStep, ReadyIsMeant, Together
    <3>3. QED BY <3>1, <3>2
  <2>3. peerReady' = stage /\ Together => ReadyIsMeant'
    BY <1>2, <1>4, <1>5 DEF ReadyIsMeant, Together
  <2>4. QED BY <2>1, <2>2, <2>3
<1>10. CommitsAreFronts' /\ LeftBehind' /\ MissionsStarted'
  BY <1>2, <1>3, <1>4, <1>7
  DEF InStep, CommitsAreFronts, LeftBehind, MissionsStarted, Told, Together
<1>11. OfferIsFresh'
  BY <1>2, <1>3, <1>4 DEF InStep, OfferIsFresh, Roles
<1>12. QED BY <1>8, <1>9, <1>10, <1>11 DEF InStep

\* TickAlign, TickLift, TickWaitRelease, TickRelease.
LEMMA BarrierTick ==
    ASSUME IndInv, Typed', NEW r \in Roles,
           NEW stage \in Stages \ {"HOME"}, NEW ready,
           NEW new, NEW go \in SUBSET Latches, NEW flags \in SUBSET Latches,
           <<state[r], stage, new>> \in
               {<<"ALIGN", "LIFT", "LIFT">>, <<"LIFT", "DRIVE", "DRIVE">>,
                <<"WAIT_RELEASE", "RELEASE", "RELEASE">>,
                <<"RELEASE", "RETURN", "RETURN">>},
           "arrived" \in flags <=> Arrived(r),
           "arrived" \in go <=> Arrived(r),
           Coordinate(r, stage, ready),
           IF Passed(r, stage, ready) THEN Transition(r, new, go)
                                      ELSE Remain(r, flags),
           UNCHANGED <<origin, mission, world>>
    PROVE  IndInv'
<1> USE DEF IndInv, Local, Typed
<1>1. mission[r] # NoMission
  BY WorksForMission
<1>2. Place(r) = state[r] /\ Rank(stage) = Segment(r) + 1
  <2>1. Place(r) = state[r]
    BY DEF Place
  <2>2. QED BY <2>1, Segments, Ranks
<1>3. Place(r)' = IF Passed(r, stage, ready) THEN new ELSE Place(r)
  BY <1>2 DEF Transition, Remain, Place, TypeOK
<1>4. \A q \in Roles \ {r} : Place(q)' = Place(q)
  BY DEF Transition, Remain, Place, TypeOK
<1>5. \A q \in Roles : Arrived(q)' <=> Arrived(q)
  <2>1. latched \in [Roles -> SUBSET Latches]
    BY DEF TypeOK
  <2>2. CASE Transition(r, new, go)
    BY <2>1, <2>2 DEF Transition, Arrived
  <2>3. CASE Remain(r, flags)
    BY <2>1, <2>3 DEF Remain, Arrived
  <2>4. QED BY <2>2, <2>3
<1>6. Segment(r)' = IF Passed(r, stage, ready) THEN Rank(stage)
                                               ELSE Segment(r)
  <2>1. CASE Passed(r, stage, ready)
    BY <1>3, <2>1, NextSegments, Ranks
  <2>2. CASE ~Passed(r, stage, ready)
    BY <1>3, <2>2, SegmentKept
  <2>3. QED BY <2>1, <2>2
<1>7. BarrierStep(r, stage, ready, Passed(r, stage, ready))
  BY <1>2, <1>4, <1>5, <1>6, SegmentKept DEF BarrierStep, Coordinate, world
<1>8. ArrivedBefore'
  <2>1. CASE Passed(r, stage, ready) /\ stage = "RELEASE"
    BY <1>1, <1>2, <1>3, <1>4, <1>5, <2>1 DEF ArrivedBefore
  <2>2. CASE Passed(r, stage, ready) /\ stage = "RETURN"
    BY <1>1, <1>2, <1>3, <1>4, <1>5, <2>2 DEF ArrivedBefore
  <2>3. CASE Passed(r, stage, ready) /\ stage \in {"LIFT", "DRIVE"}
    BY <1>1, <1>2, <1>3, <1>4, <1>5, <2>3 DEF ArrivedBefore
  <2>4. CASE ~Passed(r, stage, ready)
    BY <1>1, <1>2, <1>3, <1>4, <1>5, <2>4 DEF ArrivedBefore
  <2>5. QED BY <2>1, <2>2, <2>3, <2>4 DEF Stages
<1>9. CASE r = "front"
  BY <1>1, <1>7, <1>8, <1>9, FrontStep
<1>10. CASE r = "rear"
  BY <1>1, <1>7, <1>8, <1>10, RearStep
<1>11. QED BY <1>9, <1>10 DEF Roles

LEMMA BarrierTicks ==
    ASSUME IndInv, Typed', NEW r \in Roles,
           TickAlign(r) \/ TickLift(r) \/ TickWaitRelease(r) \/ TickRelease(r)
    PROVE  IndInv'
<1>0. latched[r] \in SUBSET Latches
  BY DEF IndInv, Local, Typed, TypeOK
<1>1. CASE TickAlign(r)
  BY <1>0, <1>1, BarrierTick DEF TickAlign, Ticking, Arrived, Stages
<1>2. CASE TickLift(r)
  <2> DEFINE flags == IF GripReady(r) THEN Lifted(r) ELSE latched[r]
  <2>1. flags \in SUBSET Latches
    BY <1>0, LiftedTypes DEF IndInv, Local, Typed
  <2>2. "arrived" \in flags <=> Arrived(r)
    BY DEF Lifted, CheckBothLifted, Arrived
  <2>3. IF Passed(r, "DRIVE", GripReady(r))
        THEN Transition(r, "DRIVE", flags) ELSE Remain(r, flags)
    BY <1>2 DEF TickLift
  <2> HIDE DEF flags
  <2>4. QED
    BY <1>2, <2>1, <2>2, <2>3, BarrierTick DEF TickLift, Ticking, Stages
<1>3. CASE TickWaitRelease(r)
  BY <1>0, <1>3, BarrierTick DEF TickWaitRelease, Ticking, Arrived, Stages
<1>4. CASE TickRelease(r)
  <2> DEFINE flags ==
        IF ReleaseReady(r) THEN latched[r] \cup {"release_announced"}
                           ELSE latched[r]
             go == flags \ {"local_lifted", "aggregate_lifted"}
  <2>1. flags \in SUBSET Latches /\ go \in SUBSET Latches
    BY <1>0 DEF Latches
  <2>2. /\ "arrived" \in flags <=> Arrived(r)
        /\ "arrived" \in go <=> Arrived(r)
    BY DEF Arrived
  <2>3. IF Passed(r, "RETURN", ReleaseReady(r))
        THEN Transition(r, "RETURN", go) ELSE Remain(r, flags)
    BY <1>4 DEF TickRelease
  <2> HIDE DEF flags, go
  <2>4. QED
    BY <1>4, <2>1, <2>2, <2>3, BarrierTick DEF TickRelease, Ticking, Stages
<1>5. QED BY <1>1, <1>2, <1>3, <1>4

-----------------------------------------------------------------------------
(* The end of the mission. *)

\* A robot that waits for the other in RETURN.
LEMMA ReturnWaits ==
    ASSUME IndInv, Typed', NEW r \in Roles, TickReturn(r),
           ~Passed(r, "HOME", "return_done" \in latched[r])
    PROVE  IndInv'
<1> USE DEF IndInv, Local, Typed
<1> DEFINE ready == "return_done" \in latched[r]
<1>1. state[r] = "RETURN" /\ mission[r] # NoMission
  BY WorksForMission DEF TickReturn, Ticking
<1>2. /\ UNCHANGED <<state, origin, latched, mission, committed, world>>
      /\ peerReady' = Heard(r, "HOME", ready)
      /\ commitWire' = CommitsSent(r, "HOME", ready)
      /\ ~Commits(r, "HOME", ready)
  BY DEF TickReturn, Passed
<1>3. \A q \in Roles : /\ Place(q)' = Place(q)
                       /\ Segment(q)' = Segment(q)
                       /\ Arrived(q)' <=> Arrived(q)
  BY <1>2 DEF Place, Segment, Arrived
<1>4. Rank("HOME") = Segment(r) + 1
  BY <1>1, Segments, Ranks DEF Place
<1>5. BarrierStep(r, "HOME", ready, Passed(r, "HOME", ready))
  BY <1>2, <1>3, <1>4 DEF BarrierStep, world
<1>6. ArrivedBefore'
  BY <1>2, <1>3 DEF ArrivedBefore
<1>7. CASE r = "front"
  BY <1>1, <1>5, <1>6, <1>7, FrontStep DEF Stages
<1>8. CASE r = "rear"
  BY <1>1, <1>5, <1>6, <1>8, RearStep DEF Stages
<1>9. QED BY <1>7, <1>8 DEF Roles

\* A robot that is through with its mission.
LEMMA ReturnEnds ==
    ASSUME IndInv, Typed', NEW r \in Roles, TickReturn(r),
           Passed(r, "HOME", "return_done" \in latched[r])
    PROVE  IndInv'
<1> USE DEF IndInv, Local, Typed
<1> DEFINE ready == "return_done" \in latched[r]
<1>1. state[r] = "RETURN" /\ mission[r] # NoMission
  BY WorksForMission DEF TickReturn, Ticking
<1>2. /\ Transition(r, "IDLE", AfterReset(r))
      /\ mission' = [mission EXCEPT ![r] = NoMission]
      /\ committed' = [committed EXCEPT ![r] = {}]
      /\ peerReady' = IF r = "front" THEN NoStage ELSE Heard(r, "HOME", ready)
      /\ commitWire' = CommitsSent(r, "HOME", ready)
      /\ UNCHANGED <<origin, fleet, started, atGoal>>
  BY DEF TickReturn, world
<1>3. /\ Place(r)' = "IDLE" /\ ~Arrived(r)'
      /\ \A q \in Roles \ {r} :
            Place(q)' = Place(q) /\ (Arrived(q)' <=> Arrived(q))
  BY <1>2 DEF Transition, AfterReset, Place, Arrived, TypeOK
<1>4. /\ Segment(r)' = 0
      /\ \A q \in Roles \ {r} : Segment(q)' = Segment(q)
  BY <1>3, NextSegments, SegmentKept
<1>5. Segment(r) = 4 /\ Arrived(r)
  BY <1>1, Segments DEF Place, ArrivedBefore
<1>6. ArrivedBefore'
  BY <1>2, <1>3 DEF ArrivedBefore, TypeOK
<1>7. Through(0) = {} /\ "HOME" \in Stages /\ Rank("HOME") = 5
  BY Ranks DEF Through, Stages
<1>8. fleet.state = "WAIT_LIFT" =>
          fleet.mission \in Missions /\ mission[r] # fleet.mission
  BY <1>5 DEF InStep, OfferIsFresh, MissionsStarted, TypeOK
<1>9. CASE r = "front"
  <2>1. Commits("front", "HOME", ready)
    BY <1>5, <1>7, <1>9, FrontNotYetThrough DEF Passed
  <2>2. Together /\ Segment("rear") = 4
    <3>1. Together /\ 5 <= Segment("rear") + 1
      BY <1>7, <2>1, BarrierAssumption DEF InStep, ReadyIsMeant, Commits
    <3>2. QED BY <3>1, Segments DEF Roles
  <2>3. /\ mission["front"] \in Missions
        /\ commitWire' = Append(commitWire, [mission |-> mission["front"],
                                             stage |-> "HOME"])
    BY <1>1, <1>2, <1>9, <2>1 DEF CommitsSent, TypeOK, Roles
  <2>4. \A n \in Missions, t \in Stages :
           OnWire(n, t)' => OnWire(n, t) \/ n = mission["front"]
    BY <1>7, <2>3, WireGrows
  <2>5. /\ mission'["front"] = NoMission /\ mission'["rear"] = mission["rear"]
        /\ committed'["front"] = {} /\ committed'["rear"] = committed["rear"]
        /\ peerReady' = NoStage
        /\ Segment("front")' = 0 /\ Segment("rear")' = Segment("rear")
    BY <1>2, <1>4, <1>9 DEF TypeOK, Roles
  <2>6. /\ FrontRecords' /\ ReadyIsMeant' /\ CommitsAreFronts' /\ OneApart'
        /\ LeftBehind' /\ OneMission'
    BY <1>7, <2>2, <2>5
    DEF FrontRecords, ReadyIsMeant, CommitsAreFronts, OneApart, LeftBehind,
        OneMission, Together
  <2>7. MissionsStarted'
    BY <1>2, <2>3, <2>4, <2>5, BarrierAssumption
    DEF InStep, MissionsStarted, Roles
  <2>8. OfferIsFresh'
    BY <1>2, <1>3, <1>8, <1>9, <2>2, <2>4, <2>5
    DEF InStep, OfferIsFresh, Together, Roles
  <2>9. QED BY <1>6, <2>6, <2>7, <2>8 DEF InStep
<1>10. CASE r = "rear"
  <2>1. "HOME" \in committed["rear"] /\ UNCHANGED commitWire
    BY <1>2, <1>10 DEF Passed, Commits, CommitsSent
  <2>2. ~Together
    <3>1. "HOME" \notin Through(Segment("front"))
      BY <1>7, Segments DEF Through, Roles
    <3>2. QED
      BY <2>1, <3>1 DEF InStep, CommitsAreFronts, FrontRecords
  <2>3. peerReady = NoStage /\ peerReady' = NoStage
    BY <1>2, <1>10, <2>2 DEF InStep, ReadyIsMeant, Heard, Together
  <2>4. /\ mission'["rear"] = NoMission
        /\ mission'["front"] = mission["front"]
        /\ committed'["rear"] = {} /\ committed'["front"] = committed["front"]
        /\ Segment("rear")' = 0 /\ Segment("front")' = Segment("front")
    BY <1>2, <1>4, <1>10 DEF TypeOK, Roles
  <2>5. \A m, s : OnWire(m, s)' <=> OnWire(m, s)
    BY <2>1 DEF OnWire
  <2>6. /\ FrontRecords' /\ ReadyIsMeant' /\ CommitsAreFronts' /\ OneApart'
        /\ LeftBehind' /\ OneMission'
    BY <2>3, <2>4, <2>5
    DEF InStep, FrontRecords, ReadyIsMeant, CommitsAreFronts, OneApart,
        LeftBehind, OneMission, Together
  <2>7. MissionsStarted'
    BY <1>2, <2>4, <2>5 DEF InStep, MissionsStarted, Roles
  <2>8. OfferIsFresh'
    BY <1>2, <1>3, <1>8, <1>10, <2>2, <2>4, <2>5, BarrierAssumption
    DEF InStep, OfferIsFresh, Together, Roles
  <2>9. QED BY <1>6, <2>6, <2>7, <2>8 DEF InStep
<1>11. QED BY <1>9, <1>10 DEF Roles

-----------------------------------------------------------------------------
LEMMA InitInStep == Init => IndInv
<1> SUFFICES ASSUME Init PROVE IndInv
  OBVIOUS
<1>1. \A r \in Roles : Place(r) = "IDLE" /\ Segment(r) = 0 /\ ~Arrived(r)
  BY DEF Init, Place, Segment, Arrived
<1>2. \A m, s : ~OnWire(m, s)
  BY DEF Init, OnWire
<1>3. Through(0) = {}
  BY Ranks DEF Through
<1>4. ArrivedBefore
  BY <1>1 DEF ArrivedBefore
<1>5. InStep
  BY <1>1, <1>2, <1>3
  DEF Init, InStep, FrontRecords, ReadyIsMeant, CommitsAreFronts, OneApart,
      LeftBehind, OneMission, MissionsStarted, OfferIsFresh, Together, Roles
<1>6. QED BY <1>4, <1>5, InitTypes DEF IndInv, Local

LEMMA NextInStep == IndInv /\ [Next]_vars => IndInv'
<1> SUFFICES ASSUME IndInv, [Next]_vars PROVE IndInv'
  OBVIOUS
<1>1. Typed'
  BY NextTypes DEF IndInv, Local
<1>2. CASE UNCHANGED vars
  <2>1. Frame /\ \A r \in Roles : /\ Place(r)' = Place(r)
                                  /\ Arrived(r)' <=> Arrived(r)
    BY <1>2 DEF vars, Frame, Place, Arrived
  <2>2. QED BY <1>1, <2>1, StillPreserves
<1>3. ASSUME NEW r \in Roles, Tick(r) PROVE IndInv'
  BY <1>1, <1>3, InnerTicks, BarrierTicks, ReturnWaits, ReturnEnds,
     FaultsAndRearms DEF Tick
<1>4. ASSUME NEW r \in Roles,
             FleetCb(r) \/ ArrivedCb(r) \/ Rearm(r)
      PROVE  IndInv'
  BY <1>1, <1>4, FleetCbPreserves, ArrivedPreserves, FaultsAndRearms
<1>5. ASSUME NEW r \in Roles,
             \/ LiftCb(r) \/ ServoDone(r) \/ MotionDone(r)
             \/ \E ready \in BOOLEAN : HardwareReadyCb(r, ready)
             \/ \E class \in FaultClass : FaultCb(r, class)
      PROVE  IndInv'
  BY <1>1, <1>5, QuietCallbacks
<1>6. CASE RearLiftedCb \/ FrontRepeatsLifted \/ FleetHearsLifted
  BY <1>1, <1>6, QuietCallbacks DEF Roles
<1>7. CASE ReadyGoesStale \/ CommitCb
  BY <1>1, <1>7, StalePreserves, CommitCbPreserves
<1>8. CASE \/ PairArrives \/ FleetPlans \/ FleetFinishes \/ FleetRestarts
           \/ \E m \in Missions : FleetStarts(m)
  BY <1>1, <1>8, FleetPreserves
<1>9. QED
  BY <1>2, <1>3, <1>4, <1>5, <1>6, <1>7, <1>8 DEF Next

\* The invariant that ties segments, commits and missions of both robots.
THEOREM BarrierInvariant == Spec => []IndInv
BY InitInStep, NextInStep, PTL DEF Spec

\* Past the first barrier the robots are on one mission, at most one stage
\* apart and Front in the lead: for any number of missions, whatever messages
\* go stale, whatever faults, and whenever the operator rearms.
THEOREM RobotsInLockstep == Spec => []Lockstep
<1>1. IndInv => Lockstep
  BY Segments
  DEF IndInv, InStep, OneApart, OneMission, Together, Lockstep
<1>2. QED BY <1>1, BarrierInvariant, PTL
=============================================================================
