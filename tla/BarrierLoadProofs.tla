-------------------------- MODULE BarrierLoadProofs --------------------------
(***************************************************************************)
(* Proofs about MissionBarrier, for any set of missions, any troubles,     *)
(* with or without rearms: the car is held while it is driven, and let go  *)
(* of before a robot leaves.  The invariant of the barrier says where the  *)
(* robots are; the one here says what their servos have done by then.      *)
(* Others, on top of both, say what Front makes of Rear's HOME, and where  *)
(* the pair stops: a mission is complete when both robots have returned,   *)
(* and a car is let go of only at the goal.                                *)
(***************************************************************************)
EXTENDS MissionBarrierProofs

Has(r, latch) == latch \in latched[r]

\* The last DONE says how the jaws are.
StatusIsTrue(r) ==
    /\ status[r] = "GRIP_DONE" => jaws[r] = "closed"
    /\ status[r] = "RELEASE_DONE" => jaws[r] = "open"

\* An order that is still out when its stage is over changes nothing.
LateOrderIsIdle(r) ==
    /\ order[r] = "release" /\ Segment(r) # 3 => jaws[r] = "open"
    /\ order[r] = "grip" /\ Segment(r) # 1 => jaws[r] = "closed"

\* What the latches of a stage claim is so.
ClaimsAreTrue(r) ==
    /\ Has(r, "lift_done") /\ Segment(r) = 1 => jaws[r] = "closed"
    /\ Has(r, "local_lifted") =>
          Segment(r) \in {1, 2, 3} /\ (Segment(r) # 3 => jaws[r] = "closed")
    /\ Has(r, "release_done") /\ Segment(r) = 3 => jaws[r] = "open"
    /\ Has(r, "release_announced") =>
          Segment(r) \in {3, 4} /\ jaws[r] = "open"

\* A robot drives lifted, returns released and starts with open jaws.
StageIsEarned(r) ==
    /\ Segment(r) = 0 => jaws[r] = "open"
    /\ Segment(r) = 2 => Has(r, "local_lifted")
    /\ Segment(r) = 4 => Has(r, "release_announced")

Grips(r) ==
    StatusIsTrue(r) /\ LateOrderIsIdle(r) /\ ClaimsAreTrue(r)
    /\ StageIsEarned(r)

\* What Front knows of Rear, by its announcement or by a past commit, is so.
RearIsReady ==
    /\ peerReady = "DRIVE" => Has("rear", "local_lifted")
    /\ peerReady = "RELEASE" => Place("rear") # "DRIVE"
    /\ peerReady = "RETURN" => Has("rear", "release_announced")

FrontIsJustified ==
    Together =>
        /\ Segment("front") >= 2 =>
              Has("rear", "local_lifted") \/ Segment("rear") = 4
        /\ Segment("front") >= 3 => Place("rear") # "DRIVE"
        /\ Segment("front") = 4 => Has("rear", "release_announced")

\* Neither robot passes a barrier on its own.
NotAlone ==
    /\ Segment("front") > 0 => Together
    /\ Segment("rear") > 0 => committed["rear"] # {}

Shared == RearIsReady /\ FrontIsJustified /\ NotAlone

LoadInv == IndInv /\ Shared /\ \A r \in Roles : Grips(r)

-----------------------------------------------------------------------------
(* Steps that leave the load alone. *)

KeepsPlace(r) ==
    /\ Segment(r)' = Segment(r)
    /\ Place(r)' = "DRIVE" => Place(r) = "DRIVE"

KeepsLatches(r) ==
    /\ Has(r, "local_lifted")' <=> Has(r, "local_lifted")
    /\ Has(r, "release_announced")' <=> Has(r, "release_announced")
    /\ Has(r, "lift_done")' => Has(r, "lift_done")
    /\ Has(r, "release_done")' => Has(r, "release_done")

KeepsServo(r) ==
    /\ jaws'[r] = jaws[r] /\ order'[r] = order[r] /\ status'[r] = status[r]

LEMMA GripsKept ==
    ASSUME NEW r, Grips(r), KeepsPlace(r), KeepsLatches(r), KeepsServo(r)
    PROVE  Grips(r)'
BY DEF Grips, StatusIsTrue, LateOrderIsIdle, ClaimsAreTrue, StageIsEarned,
       KeepsPlace, KeepsLatches, KeepsServo

LEMMA SharedKept ==
    ASSUME IndInv, Shared, mission' = mission,
           \A r \in Roles : KeepsPlace(r) /\ KeepsLatches(r),
           peerReady' \in {peerReady, NoStage},
           committed["rear"] # {} => committed'["rear"] # {}
    PROVE  Shared'
<1>1. /\ KeepsPlace("front") /\ KeepsPlace("rear")
      /\ KeepsLatches("rear")
  BY DEF Roles
<1>2. RearIsReady'
  BY <1>1, BarrierAssumption
  DEF Shared, RearIsReady, KeepsPlace, KeepsLatches, Stages
<1>3. FrontIsJustified'
  BY <1>1 DEF Shared, FrontIsJustified, Together, KeepsPlace, KeepsLatches
<1>4. NotAlone'
  BY <1>1 DEF Shared, NotAlone, Together, KeepsPlace
<1>5. QED BY <1>2, <1>3, <1>4 DEF Shared

LEMMA LoadKept ==
    ASSUME LoadInv, IndInv', mission' = mission,
           \A r \in Roles : KeepsPlace(r) /\ KeepsLatches(r) /\ KeepsServo(r),
           peerReady' \in {peerReady, NoStage},
           committed["rear"] # {} => committed'["rear"] # {}
    PROVE  LoadInv'
BY GripsKept, SharedKept DEF LoadInv

LEMMA SamePlace ==
    ASSUME NEW r \in Roles, Place(r)' = Place(r)
    PROVE  KeepsPlace(r)
BY SegmentKept DEF KeepsPlace

LEMMA InnerTicksKeepLoad ==
    ASSUME LoadInv, IndInv', NEW r \in Roles,
           TickIdle(r) \/ TickApproach(r) \/ TickDrive(r)
    PROVE  LoadInv'
<1> USE DEF LoadInv, IndInv, Local, Typed
<1>1. /\ UNCHANGED <<origin, mission, committed, peerReady, servo>>
      /\ state[r] # "FAULT"
      /\ \/ /\ Transition(r, "APPROACH", latched[r]) /\ state[r] = "IDLE"
         \/ /\ Transition(r, "ALIGN", latched[r]) /\ state[r] = "APPROACH"
         \/ /\ Transition(r, "WAIT_RELEASE", latched[r]) /\ state[r] = "DRIVE"
  BY DEF TickIdle, TickApproach, TickDrive, Ticking
<1>2. PICK new \in States :
         /\ Transition(r, new, latched[r])
         /\ \/ state[r] \in {"IDLE", "APPROACH"}
               /\ new \in {"APPROACH", "ALIGN"}
            \/ state[r] = "DRIVE" /\ new = "WAIT_RELEASE"
  BY <1>1 DEF States
<1>3. Place(r)' = new /\ Place(r) = state[r]
  BY <1>1, <1>2 DEF Transition, Place, TypeOK
<1>4. KeepsPlace(r)
  BY <1>2, <1>3, Segments, NextSegments DEF KeepsPlace
<1>5. \A q \in Roles \ {r} : KeepsPlace(q)
  <2>1. \A q \in Roles \ {r} : Place(q)' = Place(q)
    BY <1>1, <1>2 DEF Transition, Place, TypeOK
  <2>2. QED BY <2>1, SamePlace
<1>6. \A q \in Roles : KeepsLatches(q)
  BY <1>2 DEF Transition, KeepsLatches, Has, TypeOK
<1>7. \A q \in Roles : KeepsServo(q)
  BY <1>1 DEF servo, KeepsServo
<1>8. QED BY <1>1, <1>4, <1>5, <1>6, <1>7, LoadKept

LEMMA FaultsKeepLoad ==
    ASSUME LoadInv, IndInv', NEW r \in Roles,
           TickTimeout(r) \/ TickFaulted(r) \/ TickFault(r) \/ Rearm(r)
    PROVE  LoadInv'
<1> USE DEF LoadInv, IndInv, Local, Typed
<1>1. UNCHANGED <<mission, committed, peerReady, servo>>
  BY DEF TickTimeout, TickFaulted, TickFault, Rearm, EnterFault, robot
<1>2. \A q \in Roles : Place(q)' = Place(q)
  <2>1. CASE TickTimeout(r) \/ TickFaulted(r)
    <3>1. state[r] # "FAULT"
      BY <2>1 DEF TickTimeout, TickFaulted, Timed, Active
    <3>2. /\ state' = [state EXCEPT ![r] = "FAULT"]
          /\ origin' = [origin EXCEPT ![r] = state[r]]
      BY <2>1 DEF TickTimeout, TickFaulted, EnterFault
    <3>3. QED BY <3>1, <3>2 DEF Place, TypeOK
  <2>2. CASE TickFault(r)
    BY <2>2 DEF TickFault, Place, robot
  <2>3. CASE Rearm(r)
    BY <2>3 DEF Rearm, Transition, Place, TypeOK
  <2>4. QED BY <2>1, <2>2, <2>3
<1>3. \A q \in Roles : KeepsLatches(q)
  <2>1. CASE Rearm(r)
    BY <2>1 DEF Rearm, Transition, KeepsLatches, Has, TypeOK
  <2>2. CASE ~Rearm(r)
    <3>1. latched' = latched
      BY <2>2 DEF TickTimeout, TickFaulted, TickFault, EnterFault, robot
    <3>2. QED BY <3>1 DEF KeepsLatches, Has
  <2>3. QED BY <2>1, <2>2
<1>4. \A q \in Roles : KeepsServo(q)
  BY <1>1 DEF servo, KeepsServo
<1>5. QED BY <1>1, <1>2, <1>3, <1>4, SamePlace, LoadKept

\* Callbacks and steps of the environment other than the servo.
LEMMA CallbacksKeepLoad ==
    ASSUME LoadInv, IndInv', NEW r \in Roles,
           \/ RearLiftedCb \/ MotionDone(r) \/ ArrivedCb(r)
           \/ ReadyGoesStale \/ CommitCb
           \/ \E ready \in BOOLEAN : HardwareReadyCb(r, ready)
           \/ \E class \in FaultClass : FaultCb(r, class)
           \/ PairArrives \/ FrontRepeatsLifted \/ FleetHearsLifted
           \/ FleetPlans
           \/ FleetFinishes \/ FleetRestarts
           \/ \E m \in Missions : FleetStarts(m)
    PROVE  LoadInv'
<1> USE DEF LoadInv, IndInv, Local, Typed
<1>1. UNCHANGED <<state, origin, mission, servo>>
  BY DEF RearLiftedCb, MotionDone, ArrivedCb, ReadyGoesStale, CommitCb,
         HardwareReadyCb, FaultCb, PairArrives, FrontRepeatsLifted,
         FleetHearsLifted, FleetPlans, FleetFinishes, FleetRestarts,
         FleetStarts, robot
<1>2. peerReady' \in {peerReady, NoStage}
  BY DEF RearLiftedCb, MotionDone, ArrivedCb, ReadyGoesStale, CommitCb,
         HardwareReadyCb, FaultCb, PairArrives, FrontRepeatsLifted,
         FleetHearsLifted, FleetPlans, FleetFinishes, FleetRestarts,
         FleetStarts, robot
<1>3. committed["rear"] # {} => committed'["rear"] # {}
  <2>1. CASE CommitCb
    BY <2>1 DEF CommitCb, TypeOK, Roles
  <2>2. CASE ~CommitCb
    BY <2>2
    DEF RearLiftedCb, MotionDone, ArrivedCb, ReadyGoesStale, HardwareReadyCb,
        FaultCb, PairArrives, FrontRepeatsLifted, FleetHearsLifted,
        FleetPlans, FleetFinishes, FleetRestarts, FleetStarts, robot
  <2>3. QED BY <2>1, <2>2
<1>4. \A q \in Roles : KeepsLatches(q)
  <2>1. CASE RearLiftedCb
    BY <2>1 DEF RearLiftedCb, CheckBothLifted, KeepsLatches, Has, TypeOK, Roles
  <2>2. CASE MotionDone(r)
    BY <2>2 DEF MotionDone, KeepsLatches, Has, TypeOK
  <2>3. CASE ArrivedCb(r)
    BY <2>3 DEF ArrivedCb, KeepsLatches, Has, TypeOK
  <2>4. CASE ~(RearLiftedCb \/ MotionDone(r) \/ ArrivedCb(r))
    BY <2>4
    DEF ReadyGoesStale, CommitCb, HardwareReadyCb, FaultCb, PairArrives,
        FrontRepeatsLifted, FleetHearsLifted, FleetPlans, FleetFinishes,
        FleetRestarts, FleetStarts, robot, KeepsLatches, Has
  <2>5. QED BY <2>1, <2>2, <2>3, <2>4
<1>5. \A q \in Roles : KeepsPlace(q)
  <2>1. \A q \in Roles : Place(q)' = Place(q)
    BY <1>1 DEF Place
  <2>2. QED BY <2>1, SamePlace
<1>6. \A q \in Roles : KeepsServo(q)
  BY <1>1 DEF servo, KeepsServo
<1>7. QED BY <1>1, <1>2, <1>3, <1>4, <1>5, <1>6, LoadKept

-----------------------------------------------------------------------------
(* The servo, its DONEs, and the acceptance of a mission. *)

\* An order out of its stage finds the jaws as it wants them.
LEMMA ServoKeepsLoad ==
    ASSUME LoadInv, IndInv', NEW r \in Roles, ServoDone(r)
    PROVE  LoadInv'
<1> USE DEF LoadInv, IndInv, Local, Typed
<1>1. UNCHANGED robot
  BY DEF ServoDone
<1>2. \A q \in Roles : Place(q)' = Place(q) /\ KeepsLatches(q)
  BY <1>1 DEF robot, Place, KeepsLatches, Has
<1>3. \A q \in Roles : KeepsPlace(q)
  BY <1>2, SamePlace
<1>4. \A q \in Roles \ {r} : KeepsServo(q)
  BY DEF ServoDone, KeepsServo, TypeOK
<1>5. \A q \in Roles \ {r} : Grips(q)'
  BY <1>2, <1>3, <1>4, GripsKept
<1>6. Grips(r)'
  <2>1. /\ order'[r] = "none"
        /\ \/ /\ order[r] = "grip" /\ jaws'[r] = "closed"
              /\ status'[r] = "GRIP_DONE"
           \/ /\ order[r] = "release" /\ jaws'[r] = "open"
              /\ status'[r] = "RELEASE_DONE"
    BY DEF ServoDone, TypeOK
  <2>2. KeepsPlace(r) /\ KeepsLatches(r) /\ Segment(r) \in 0 .. 4
    BY <1>2, <1>3, Segments
  <2>3. StatusIsTrue(r)' /\ LateOrderIsIdle(r)'
    BY <2>1 DEF StatusIsTrue, LateOrderIsIdle
  <2>4. ClaimsAreTrue(r)' /\ StageIsEarned(r)'
    BY <2>1, <2>2
    DEF Grips, ClaimsAreTrue, StageIsEarned, LateOrderIsIdle, KeepsPlace,
        KeepsLatches
  <2>5. QED BY <2>3, <2>4 DEF Grips
<1>7. Shared'
  <2>1. mission' = mission /\ peerReady' = peerReady /\ committed' = committed
    BY <1>1 DEF robot
  <2>2. QED BY <1>2, <1>3, <2>1, SharedKept
<1>8. QED BY <1>5, <1>6, <1>7

\* A DONE is believed only in its stage, and then it is true.
LEMMA DoneKeepsLoad ==
    ASSUME LoadInv, IndInv', NEW r \in Roles, LiftCb(r)
    PROVE  LoadInv'
<1> USE DEF LoadInv, IndInv, Local, Typed
<1>1. /\ UNCHANGED <<state, origin, mission, committed, peerReady, order,
                     jaws>>
      /\ status' = [status EXCEPT ![r] = "none"]
      /\ \A q \in Roles \ {r} : latched'[q] = latched[q]
  BY DEF LiftCb, TypeOK
<1>2. \A q \in Roles : KeepsPlace(q)
  <2>1. \A q \in Roles : Place(q)' = Place(q)
    BY <1>1 DEF Place
  <2>2. QED BY <2>1, SamePlace
<1>3. \A f \in Latches : Has(r, f)' <=>
         \/ Has(r, f)
         \/ f = "lift_done" /\ state[r] = "LIFT" /\ status[r] = "GRIP_DONE"
         \/ /\ f = "release_done" /\ state[r] = "RELEASE"
            /\ status[r] = "RELEASE_DONE"
  BY DEF LiftCb, Has, TypeOK
<1>4. \A q \in Roles \ {r} : Grips(q)'
  <2>1. \A q \in Roles \ {r} : KeepsLatches(q) /\ KeepsServo(q)
    BY <1>1 DEF KeepsLatches, KeepsServo, Has, TypeOK
  <2>2. QED BY <1>2, <2>1, GripsKept
<1>5. Grips(r)'
  <2>1. /\ KeepsPlace(r) /\ Segment(r) \in 0 .. 4
        /\ jaws'[r] = jaws[r] /\ order'[r] = order[r] /\ status'[r] = "none"
    BY <1>1, <1>2, Segments DEF TypeOK
  <2>2. /\ Has(r, "local_lifted")' <=> Has(r, "local_lifted")
        /\ Has(r, "release_announced")' <=> Has(r, "release_announced")
        /\ Has(r, "lift_done")' /\ ~Has(r, "lift_done") =>
              status[r] = "GRIP_DONE"
        /\ Has(r, "release_done")' /\ ~Has(r, "release_done") =>
              status[r] = "RELEASE_DONE"
    BY <1>3 DEF Latches
  <2>3. QED
    BY <2>1, <2>2
    DEF Grips, StatusIsTrue, LateOrderIsIdle, ClaimsAreTrue, StageIsEarned,
        KeepsPlace
<1>6. Shared'
  <2>1. /\ KeepsPlace("front") /\ KeepsPlace("rear")
        /\ Has("rear", "local_lifted")' <=> Has("rear", "local_lifted")
        /\ Has("rear", "release_announced")' <=>
               Has("rear", "release_announced")
    BY <1>1, <1>2, <1>3 DEF Has, Roles, Latches
  <2>2. QED
    BY <1>1, <2>1
    DEF Shared, RearIsReady, FrontIsJustified, NotAlone, Together, KeepsPlace
<1>7. QED BY <1>4, <1>5, <1>6

LEMMA FleetCbKeepsLoad ==
    ASSUME LoadInv, IndInv', NEW r \in Roles, FleetCb(r)
    PROVE  LoadInv'
<1> USE DEF LoadInv, IndInv, Local, Typed
<1>1. UNCHANGED <<state, origin, latched, servo>>
  BY DEF FleetCb
<1>2. \A q \in Roles : /\ KeepsPlace(q) /\ KeepsLatches(q) /\ KeepsServo(q)
                       /\ Segment(q)' = Segment(q)
  <2>1. \A q \in Roles : Place(q)' = Place(q)
    BY <1>1 DEF Place
  <2>2. QED
    BY <1>1, <2>1, SamePlace
    DEF KeepsPlace, KeepsLatches, KeepsServo, Has, servo
<1>3. CASE UNCHANGED <<mission, committed, peerReady>>
  BY <1>2, <1>3, LoadKept
<1>4. CASE /\ mission[r] = NoMission /\ fleet.mission # NoMission
           /\ fleet.state = "WAIT_LIFT" /\ state[r] = "IDLE"
           /\ mission' = [mission EXCEPT ![r] = fleet.mission]
           /\ committed' = [committed EXCEPT ![r] = {}]
           /\ peerReady' = IF r = "front" THEN NoStage ELSE peerReady
  <2>1. Segment(r) = 0 /\ ~Together
    BY <1>4, Segments DEF Place, Together, Roles
  <2>2. Segment("front") = 0
    BY <2>1, Segments DEF Shared, NotAlone, Roles
  <2>3. peerReady' = NoStage
    BY <1>4, <2>1 DEF InStep, ReadyIsMeant
  <2>4. RearIsReady' /\ FrontIsJustified'
    BY <1>2, <2>2, <2>3, BarrierAssumption
    DEF RearIsReady, FrontIsJustified, Stages, Roles
  <2>5. NotAlone'
    BY <1>2, <1>4, <2>1, <2>2 DEF Shared, NotAlone, TypeOK, Roles
  <2>6. \A q \in Roles : Grips(q)'
    BY <1>2, GripsKept
  <2>7. QED BY <2>4, <2>5, <2>6 DEF Shared
<1>5. QED BY <1>3, <1>4 DEF FleetCb

-----------------------------------------------------------------------------
(* The barriers. *)

\* Rear passes a barrier only in Front's wake.
LEMMA RearFollows ==
    ASSUME LoadInv, NEW stage \in Stages \ {"HOME"},
           Rank(stage) = Segment("rear") + 1, stage \in committed["rear"],
           mission["rear"] # NoMission
    PROVE  Together /\ Rank(stage) <= Segment("front")
<1> USE DEF LoadInv, IndInv, Local, Typed
<1>1. "HOME" \in Stages /\ Rank("HOME") = 5 /\ Rank(stage) # 5
  BY Ranks DEF Stages
<1>2. Segment("rear") # 4 /\ Told
  BY <1>1 DEF Told
<1>3. Together
  BY <1>2 DEF InStep, LeftBehind, Together
<1>4. QED
  BY <1>3 DEF InStep, CommitsAreFronts, FrontRecords, Through

\* Passing into DRIVE takes a grip, now or before a rearm; and into RETURN a
\* release.
LEMMA DriveIsEarned ==
    ASSUME LoadInv, NEW r \in Roles, state[r] = "LIFT",
           Passed(r, "DRIVE", GripReady(r))
    PROVE  Has(r, "lift_done") \/ Has(r, "local_lifted")
<1> USE DEF LoadInv, IndInv, Local, Typed
<1>1. Segment(r) = 1 /\ mission[r] # NoMission
  BY Segments, WorksForMission DEF Place
<1>2. "DRIVE" \in Stages \ {"HOME"} /\ Rank("DRIVE") = 2
  BY Ranks DEF Stages
<1>3. CASE r = "front"
  <2>1. GripReady("front")
    BY <1>1, <1>2, <1>3, FrontNotYetThrough DEF Passed, Commits
  <2>2. QED BY <1>3, <2>1 DEF GripReady, Has
<1>4. CASE r = "rear"
  <2>1. "DRIVE" \in committed["rear"]
    BY <1>4 DEF Passed, Commits
  <2>2. Together /\ 2 <= Segment("front")
    BY <1>1, <1>2, <1>4, <2>1, RearFollows
  <2>3. QED
    BY <1>1, <1>4, <2>2, Segments DEF Shared, FrontIsJustified, Roles
<1>5. QED BY <1>3, <1>4 DEF Roles

LEMMA ReturnIsEarned ==
    ASSUME LoadInv, NEW r \in Roles, state[r] = "RELEASE",
           Passed(r, "RETURN", ReleaseReady(r))
    PROVE  ReleaseReady(r)
<1> USE DEF LoadInv, IndInv, Local, Typed
<1>1. Segment(r) = 3 /\ mission[r] # NoMission
  BY Segments, WorksForMission DEF Place
<1>2. "RETURN" \in Stages \ {"HOME"} /\ Rank("RETURN") = 4
  BY Ranks DEF Stages
<1>3. CASE r = "front"
  BY <1>1, <1>2, <1>3, FrontNotYetThrough DEF Passed, Commits
<1>4. CASE r = "rear"
  <2>1. "RETURN" \in committed["rear"]
    BY <1>4 DEF Passed, Commits
  <2>2. Together /\ Segment("front") = 4
    BY <1>1, <1>2, <1>4, <2>1, RearFollows, Segments DEF Roles
  <2>3. QED
    BY <1>4, <2>2 DEF Shared, FrontIsJustified, ReleaseReady, Has
<1>5. QED BY <1>3, <1>4 DEF Roles

\* What the tick of a barrier stage does to the latches and the place.
LEMMA BarrierTickDoes ==
    ASSUME LoadInv, IndInv', NEW r \in Roles, NEW p,
           NEW new \in {"LIFT", "DRIVE", "RELEASE", "RETURN"},
           NEW go \in SUBSET Latches, NEW flags \in SUBSET Latches,
           IF p THEN Transition(r, new, go) ELSE Remain(r, flags),
           state[r] # "FAULT", UNCHANGED <<origin, jaws, status>>,
           order' \in {order, [order EXCEPT ![r] = "grip"],
                       [order EXCEPT ![r] = "release"]}
    PROVE  /\ Place(r) = state[r]
           /\ Place(r)' = IF p THEN new ELSE state[r]
           /\ ~p => Segment(r)' = Segment(r)
           /\ Segment(r) \in 0 .. 4
           /\ p => /\ new = "LIFT" => Segment(r)' = 1
                   /\ new = "DRIVE" => Segment(r)' = 2
                   /\ new = "RELEASE" => Segment(r)' = 3
                   /\ new = "RETURN" => Segment(r)' = 4
           /\ Has(r, "lift_done")' <=>
                 IF p THEN "lift_done" \in go /\ new # "LIFT"
                      ELSE "lift_done" \in flags
           /\ Has(r, "release_done")' <=>
                 IF p THEN "release_done" \in go /\ new # "RELEASE"
                      ELSE "release_done" \in flags
           /\ Has(r, "local_lifted")' <=>
                 "local_lifted" \in (IF p THEN go ELSE flags)
           /\ Has(r, "release_announced")' <=>
                 "release_announced" \in (IF p THEN go ELSE flags)
           /\ \A q \in Roles \ {r} :
                 KeepsPlace(q) /\ KeepsLatches(q) /\ KeepsServo(q)
<1> USE DEF LoadInv, IndInv, Local, Typed
<1>1. /\ state'[r] = IF p THEN new ELSE state[r]
      /\ latched'[r] = IF p THEN go \ CASE new = "LIFT"    -> {"lift_done"}
                                        [] new = "RELEASE" -> {"release_done"}
                                        [] OTHER           -> {}
                            ELSE flags
      /\ \A q \in Roles \ {r} :
            state'[q] = state[q] /\ latched'[q] = latched[q]
  BY DEF Transition, Remain, TypeOK
<1>2. Place(r) = state[r] /\ Place(r)' = IF p THEN new ELSE state[r]
  BY <1>1 DEF Place
<1>3. \A q \in Roles \ {r} :
         KeepsPlace(q) /\ KeepsLatches(q) /\ KeepsServo(q)
  <2>1. \A q \in Roles \ {r} : Place(q)' = Place(q)
    BY <1>1 DEF Place
  <2>2. \A q \in Roles \ {r} : KeepsLatches(q)
    BY <1>1 DEF KeepsLatches, Has
  <2>3. \A q \in Roles \ {r} : KeepsServo(q)
    BY DEF KeepsServo, TypeOK
  <2>4. QED BY <2>1, <2>2, <2>3, SamePlace
<1>4. /\ ~p => Segment(r)' = Segment(r)
      /\ Segment(r) \in 0 .. 4
      /\ p => /\ new = "LIFT" => Segment(r)' = 1
              /\ new = "DRIVE" => Segment(r)' = 2
              /\ new = "RELEASE" => Segment(r)' = 3
              /\ new = "RETURN" => Segment(r)' = 4
  BY <1>2, Segments, NextSegments, SegmentKept
<1>5. QED BY <1>1, <1>2, <1>3, <1>4 DEF Has

\* Front passes a barrier on Rear's announcement, which is true.
LEMMA FrontTickShares ==
    ASSUME LoadInv, IndInv', NEW stage \in Stages, NEW ready,
           Rank(stage) = Segment("front") + 1,
           Coordinate("front", stage, ready), mission' = mission,
           KeepsPlace("rear"), KeepsLatches("rear"),
           Segment("front")' = IF Passed("front", stage, ready)
                               THEN Rank(stage) ELSE Segment("front")
    PROVE  Shared'
<1> USE DEF LoadInv, IndInv, Local, Typed
<1>1. /\ peerReady' = peerReady
      /\ committed'["rear"] = committed["rear"]
  BY DEF Coordinate, Heard, TypeOK, Roles
<1>2. Passed("front", stage, ready) => peerReady = stage /\ Together
  BY FrontNotYetThrough, BarrierAssumption
  DEF Passed, Commits, InStep, ReadyIsMeant
<1>3. RearIsReady'
  BY <1>1 DEF Shared, RearIsReady, KeepsPlace, KeepsLatches
<1>4. NotAlone'
  BY <1>1, <1>2 DEF Shared, NotAlone, Together, KeepsPlace
<1>5. FrontIsJustified'
  <2>1. CASE ~Passed("front", stage, ready)
    BY <2>1 DEF Shared, FrontIsJustified, Together, KeepsPlace, KeepsLatches
  <2>2. CASE Passed("front", stage, ready)
    <3>1. stage = "LIFT" => Rank(stage) = 1
      BY Ranks
    <3>2. stage = "DRIVE" => Rank(stage) = 2 /\ Has("rear", "local_lifted")
      BY <1>2, <2>2, Ranks DEF Shared, RearIsReady
    <3>3. stage = "RELEASE" =>
             Rank(stage) = 3 /\ Place("rear") # "DRIVE"
      BY <1>2, <2>2, Ranks DEF Shared, RearIsReady
    <3>4. stage = "RETURN" =>
             Rank(stage) = 4 /\ Has("rear", "release_announced")
      BY <1>2, <2>2, Ranks DEF Shared, RearIsReady
    <3>5. stage # "HOME"
      BY <2>2, NextSegments, Ranks DEF Roles
    <3>6. /\ Segment("front")' = Segment("front") + 1
          /\ Segment("front") \in 0 .. 4
      BY <2>2, Segments DEF Roles
    <3>7. CASE stage = "LIFT"
      BY <2>2, <3>1, <3>7 DEF FrontIsJustified
    <3>8. CASE stage = "DRIVE"
      BY <2>2, <3>2, <3>8 DEF FrontIsJustified, KeepsLatches
    <3>9. CASE stage = "RELEASE"
      BY <1>2, <2>2, <3>3, <3>6, <3>9
      DEF Shared, FrontIsJustified, KeepsPlace, KeepsLatches
    <3>10. CASE stage = "RETURN"
      BY <1>2, <2>2, <3>4, <3>6, <3>10
      DEF Shared, FrontIsJustified, KeepsPlace, KeepsLatches
    <3>11. QED BY <3>5, <3>7, <3>8, <3>9, <3>10 DEF Stages
  <2>3. QED BY <2>1, <2>2
<1>6. QED BY <1>3, <1>4, <1>5 DEF Shared

LEMMA AlignKeepsLoad ==
    ASSUME LoadInv, IndInv', NEW r \in Roles, TickAlign(r)
    PROVE  LoadInv'
<1> USE DEF LoadInv, IndInv, Local, Typed
<1> DEFINE ready == "wheel_aligned" \in latched[r]
           p == Passed(r, "LIFT", ready)
<1>1. /\ state[r] = "ALIGN"
      /\ Coordinate(r, "LIFT", ready)
      /\ IF p THEN Transition(r, "LIFT", latched[r])
              ELSE Remain(r, latched[r])
      /\ UNCHANGED <<origin, mission, order, jaws, status>>
  BY DEF TickAlign, Ticking, servo
<1>2. /\ latched[r] \in SUBSET Latches /\ "LIFT" \in Stages
      /\ Rank("LIFT") = 1 /\ mission[r] # NoMission
  BY <1>1, Ranks, WorksForMission DEF TypeOK, Stages
<1> HIDE DEF p, ready
<1>3. /\ Place(r) = "ALIGN"
      /\ Place(r)' = IF p THEN "LIFT" ELSE "ALIGN"
      /\ Segment(r)' = IF p THEN 1 ELSE Segment(r)
      /\ Has(r, "lift_done")' <=> Has(r, "lift_done") /\ ~p
      /\ Has(r, "release_done")' <=> Has(r, "release_done")
      /\ Has(r, "local_lifted")' <=> Has(r, "local_lifted")
      /\ Has(r, "release_announced")' <=> Has(r, "release_announced")
      /\ \A q \in Roles \ {r} :
            KeepsPlace(q) /\ KeepsLatches(q) /\ KeepsServo(q)
  <2>1. /\ "lift_done" \in latched[r] <=> Has(r, "lift_done")
        /\ "release_done" \in latched[r] <=> Has(r, "release_done")
        /\ "local_lifted" \in latched[r] <=> Has(r, "local_lifted")
        /\ "release_announced" \in latched[r] <=> Has(r, "release_announced")
    BY DEF Has
  <2>2. order' \in {order, [order EXCEPT ![r] = "grip"],
                    [order EXCEPT ![r] = "release"]}
    BY <1>1
  <2>3. QED BY <1>1, <1>2, <2>1, <2>2, BarrierTickDoes
<1>4. Segment(r) = 0
  BY <1>3, Segments
<1>5. Grips(r)'
  BY <1>1, <1>3, <1>4
  DEF Grips, StatusIsTrue, LateOrderIsIdle, ClaimsAreTrue, StageIsEarned
<1>6. CASE r = "front"
  <2>1. Shared'
    BY <1>1, <1>2, <1>3, <1>4, <1>6, FrontTickShares DEF p, Roles
  <2>2. QED BY <1>3, <1>5, <2>1, GripsKept
<1>7. CASE r = "rear"
  <2>1. /\ peerReady' \in {peerReady, "LIFT"} /\ committed' = committed
        /\ p => "LIFT" \in committed["rear"]
        /\ KeepsPlace("front")
    BY <1>1, <1>3, <1>7
    DEF Coordinate, Heard, Commits, Passed, p, Roles
  <2>2. Place("rear")' # "DRIVE"
    BY <1>3, <1>7
  <2>3. ~Has("rear", "local_lifted") /\ ~Has("rear", "release_announced")
    BY <1>4, <1>7 DEF Grips, ClaimsAreTrue
  <2>4. RearIsReady'
    BY <1>3, <1>7, <2>1, <2>2, <2>3 DEF Shared, RearIsReady
  <2>5. Together => Segment("front") \in {0, 1}
    BY <1>4, <1>7, Segments DEF InStep, OneApart, Roles
  <2>6. FrontIsJustified' /\ NotAlone'
    BY <1>1, <1>3, <1>4, <1>7, <2>1, <2>5
    DEF Shared, FrontIsJustified, NotAlone, Together, KeepsPlace
  <2>7. QED BY <1>3, <1>5, <2>4, <2>6, GripsKept DEF Shared
<1>8. QED BY <1>6, <1>7 DEF Roles

LEMMA LiftKeepsLoad ==
    ASSUME LoadInv, IndInv', NEW r \in Roles, TickLift(r)
    PROVE  LoadInv'
<1> USE DEF LoadInv, IndInv, Local, Typed
<1> DEFINE ready == GripReady(r)
           p == Passed(r, "DRIVE", ready)
           flags == IF ready THEN Lifted(r) ELSE latched[r]
<1>1. /\ state[r] = "LIFT"
      /\ Coordinate(r, "DRIVE", ready)
      /\ IF p THEN Transition(r, "DRIVE", flags) ELSE Remain(r, flags)
      /\ UNCHANGED <<origin, mission, jaws, status>>
      /\ order' = order \/ order' = [order EXCEPT ![r] = "grip"]
  BY DEF TickLift, Ticking
<1>2. /\ flags \in SUBSET Latches /\ "DRIVE" \in Stages
      /\ Rank("DRIVE") = 2 /\ mission[r] # NoMission
  BY <1>1, Ranks, WorksForMission, LiftedTypes DEF TypeOK, Stages
<1>3. /\ "lift_done" \in flags <=> Has(r, "lift_done")
      /\ "release_done" \in flags <=> Has(r, "release_done")
      /\ "local_lifted" \in flags <=>
            Has(r, "local_lifted") \/ Has(r, "lift_done")
      /\ "release_announced" \in flags <=> Has(r, "release_announced")
  BY DEF Lifted, CheckBothLifted, GripReady, Has
<1>4. p => Has(r, "lift_done") \/ Has(r, "local_lifted")
  BY <1>1, DriveIsEarned
<1>5. ready <=> Has(r, "lift_done")
  BY DEF GripReady, Has
<1> HIDE DEF p, ready, flags
<1>6. /\ Place(r) = "LIFT"
      /\ Place(r)' = IF p THEN "DRIVE" ELSE "LIFT"
      /\ Segment(r)' = IF p THEN 2 ELSE Segment(r)
      /\ Has(r, "lift_done")' <=> Has(r, "lift_done")
      /\ Has(r, "release_done")' <=> Has(r, "release_done")
      /\ Has(r, "local_lifted")' <=>
            Has(r, "local_lifted") \/ Has(r, "lift_done")
      /\ Has(r, "release_announced")' <=> Has(r, "release_announced")
      /\ \A q \in Roles \ {r} :
            KeepsPlace(q) /\ KeepsLatches(q) /\ KeepsServo(q)
  BY <1>1, <1>2, <1>3, BarrierTickDoes
<1>7. Segment(r) = 1 /\ order'[r] \in {order[r], "grip"}
  BY <1>1, <1>6, Segments DEF TypeOK
<1>8. Grips(r)'
  BY <1>1, <1>4, <1>6, <1>7
  DEF Grips, StatusIsTrue, LateOrderIsIdle, ClaimsAreTrue, StageIsEarned
<1>9. CASE r = "front"
  <2>1. Shared'
    BY <1>1, <1>2, <1>6, <1>7, <1>9, FrontTickShares DEF p, Roles
  <2>2. QED BY <1>6, <1>8, <2>1, GripsKept
<1>10. CASE r = "rear"
  <2>1. /\ peerReady' = peerReady \/ (peerReady' = "DRIVE" /\ ready)
        /\ committed' = committed
        /\ p => "DRIVE" \in committed["rear"]
        /\ KeepsPlace("front")
    BY <1>1, <1>6, <1>10 DEF Coordinate, Heard, Commits, Passed, p, Roles
  <2>2. peerReady # "RELEASE" /\ peerReady # "RETURN"
    BY <1>7, <1>10, Ranks, BarrierAssumption
    DEF InStep, ReadyIsMeant, Stages
  <2>3. RearIsReady'
    BY <1>5, <1>6, <1>10, <2>1, <2>2 DEF Shared, RearIsReady
  <2>4. Together => Segment("front") \in {1, 2}
    BY <1>7, <1>10, Segments DEF InStep, OneApart, Roles
  <2>5. FrontIsJustified'
    BY <1>1, <1>6, <1>7, <1>10, <2>1, <2>4
    DEF Shared, FrontIsJustified, Together, KeepsPlace
  <2>6. NotAlone'
    BY <1>1, <1>6, <1>7, <1>10, <2>1 DEF Shared, NotAlone, Together, KeepsPlace
  <2>7. QED BY <1>6, <1>8, <2>3, <2>5, <2>6, GripsKept DEF Shared
<1>11. QED BY <1>9, <1>10 DEF Roles

LEMMA WaitReleaseKeepsLoad ==
    ASSUME LoadInv, IndInv', NEW r \in Roles, TickWaitRelease(r)
    PROVE  LoadInv'
<1> USE DEF LoadInv, IndInv, Local, Typed
<1> DEFINE ready == TRUE
           p == Passed(r, "RELEASE", ready)
<1>1. /\ state[r] = "WAIT_RELEASE"
      /\ Coordinate(r, "RELEASE", ready)
      /\ IF p THEN Transition(r, "RELEASE", latched[r])
              ELSE Remain(r, latched[r])
      /\ UNCHANGED <<origin, mission, order, jaws, status>>
  BY DEF TickWaitRelease, Ticking, servo
<1>2. /\ latched[r] \in SUBSET Latches /\ "RELEASE" \in Stages
      /\ Rank("RELEASE") = 3 /\ mission[r] # NoMission
  BY <1>1, Ranks, WorksForMission DEF TypeOK, Stages
<1> HIDE DEF p, ready
<1>3. /\ Place(r) = "WAIT_RELEASE"
      /\ Place(r)' = IF p THEN "RELEASE" ELSE "WAIT_RELEASE"
      /\ Segment(r)' = IF p THEN 3 ELSE Segment(r)
      /\ Has(r, "lift_done")' <=> Has(r, "lift_done")
      /\ Has(r, "release_done")' <=> Has(r, "release_done") /\ ~p
      /\ Has(r, "local_lifted")' <=> Has(r, "local_lifted")
      /\ Has(r, "release_announced")' <=> Has(r, "release_announced")
      /\ \A q \in Roles \ {r} :
            KeepsPlace(q) /\ KeepsLatches(q) /\ KeepsServo(q)
  <2>1. /\ "lift_done" \in latched[r] <=> Has(r, "lift_done")
        /\ "release_done" \in latched[r] <=> Has(r, "release_done")
        /\ "local_lifted" \in latched[r] <=> Has(r, "local_lifted")
        /\ "release_announced" \in latched[r] <=> Has(r, "release_announced")
    BY DEF Has
  <2>2. order' \in {order, [order EXCEPT ![r] = "grip"],
                    [order EXCEPT ![r] = "release"]}
    BY <1>1
  <2>3. QED BY <1>1, <1>2, <2>1, <2>2, BarrierTickDoes
<1>4. Segment(r) = 2
  BY <1>3, Segments
<1>5. Grips(r)'
  BY <1>1, <1>3, <1>4
  DEF Grips, StatusIsTrue, LateOrderIsIdle, ClaimsAreTrue, StageIsEarned
<1>6. CASE r = "front"
  <2>1. Shared'
    BY <1>1, <1>2, <1>3, <1>4, <1>6, FrontTickShares DEF p, Roles
  <2>2. QED BY <1>3, <1>5, <2>1, GripsKept
<1>7. CASE r = "rear"
  <2>1. /\ peerReady' \in {peerReady, "RELEASE"} /\ committed' = committed
        /\ p => "RELEASE" \in committed["rear"]
        /\ KeepsPlace("front")
    BY <1>1, <1>3, <1>7
    DEF Coordinate, Heard, Commits, Passed, p, Roles
  <2>2. Place("rear")' # "DRIVE"
    BY <1>3, <1>7
  <2>3. RearIsReady'
    BY <1>3, <1>7, <2>1, <2>2 DEF Shared, RearIsReady
  <2>4. FrontIsJustified' /\ NotAlone'
    BY <1>1, <1>3, <1>4, <1>7, <2>1, <2>2
    DEF Shared, FrontIsJustified, NotAlone, Together, KeepsPlace
  <2>5. QED BY <1>3, <1>5, <2>3, <2>4, GripsKept DEF Shared
<1>8. QED BY <1>6, <1>7 DEF Roles

LEMMA ReleaseKeepsLoad ==
    ASSUME LoadInv, IndInv', NEW r \in Roles, TickRelease(r)
    PROVE  LoadInv'
<1> USE DEF LoadInv, IndInv, Local, Typed
<1> DEFINE ready == ReleaseReady(r)
           p == Passed(r, "RETURN", ready)
           flags == IF ready THEN latched[r] \cup {"release_announced"}
                             ELSE latched[r]
           go == flags \ {"local_lifted", "aggregate_lifted"}
<1>1. /\ state[r] = "RELEASE"
      /\ Coordinate(r, "RETURN", ready)
      /\ IF p THEN Transition(r, "RETURN", go) ELSE Remain(r, flags)
      /\ UNCHANGED <<origin, mission, jaws, status>>
      /\ order' = order \/ order' = [order EXCEPT ![r] = "release"]
  BY DEF TickRelease, Ticking
<1>2. /\ flags \in SUBSET Latches /\ go \in SUBSET Latches
      /\ "RETURN" \in Stages
      /\ Rank("RETURN") = 4 /\ mission[r] # NoMission
  BY <1>1, Ranks, WorksForMission DEF TypeOK, Stages, Latches
<1>3. /\ "lift_done" \in flags <=> Has(r, "lift_done")
      /\ "release_done" \in flags <=> Has(r, "release_done")
      /\ "local_lifted" \in flags <=> Has(r, "local_lifted")
      /\ "release_announced" \in flags <=>
            Has(r, "release_announced") \/ ready
      /\ "lift_done" \in go <=> Has(r, "lift_done")
      /\ "release_done" \in go <=> Has(r, "release_done")
      /\ "local_lifted" \notin go
      /\ "release_announced" \in go <=> Has(r, "release_announced") \/ ready
  BY DEF Has
<1>4. p => ready
  BY <1>1, ReturnIsEarned
<1>5. ready <=> Has(r, "release_done") \/ Has(r, "release_announced")
  BY DEF ReleaseReady, Has
<1> HIDE DEF p, ready, flags, go
<1>6. /\ Place(r) = "RELEASE"
      /\ Place(r)' = IF p THEN "RETURN" ELSE "RELEASE"
      /\ Segment(r)' = IF p THEN 4 ELSE Segment(r)
      /\ Has(r, "lift_done")' <=> Has(r, "lift_done")
      /\ Has(r, "release_done")' <=> Has(r, "release_done")
      /\ Has(r, "local_lifted")' <=> Has(r, "local_lifted") /\ ~p
      /\ Has(r, "release_announced")' <=>
            Has(r, "release_announced") \/ ready
      /\ \A q \in Roles \ {r} :
            KeepsPlace(q) /\ KeepsLatches(q) /\ KeepsServo(q)
  <2>1. order' \in {order, [order EXCEPT ![r] = "grip"],
                    [order EXCEPT ![r] = "release"]}
    BY <1>1
  <2>2. QED BY <1>1, <1>2, <1>3, <2>1, BarrierTickDoes
<1>7. Segment(r) = 3 /\ order'[r] \in {order[r], "release"}
  BY <1>1, <1>6, Segments DEF TypeOK
<1>8. ready => jaws[r] = "open"
  BY <1>5, <1>7 DEF Grips, ClaimsAreTrue
<1>9. Grips(r)'
  BY <1>1, <1>4, <1>6, <1>7, <1>8
  DEF Grips, StatusIsTrue, LateOrderIsIdle, ClaimsAreTrue, StageIsEarned
<1>10. CASE r = "front"
  <2>1. Shared'
    BY <1>1, <1>2, <1>6, <1>7, <1>10, FrontTickShares DEF p, Roles
  <2>2. QED BY <1>6, <1>9, <2>1, GripsKept
<1>11. CASE r = "rear"
  <2>1. /\ peerReady' = peerReady \/ (peerReady' = "RETURN" /\ ready)
        /\ committed' = committed
        /\ p => "RETURN" \in committed["rear"]
        /\ KeepsPlace("front")
        /\ ready /\ Together => peerReady' = "RETURN"
    BY <1>1, <1>6, <1>11
    DEF Coordinate, Heard, Commits, Passed, p, Roles, Together
  <2>2. "RETURN" \in Stages \ {"HOME"}
    BY DEF Stages
  <2>3. p => Together
    BY <1>2, <1>7, <1>11, <2>1, <2>2, RearFollows
  <2>4. Place("rear")' # "DRIVE"
    BY <1>6, <1>11
  <2>5. RearIsReady'
    BY <1>4, <1>6, <1>11, <2>1, <2>3, <2>4 DEF Shared, RearIsReady
  <2>6. FrontIsJustified' /\ NotAlone'
    BY <1>1, <1>6, <1>7, <1>11, <2>1, <2>4
    DEF Shared, FrontIsJustified, NotAlone, Together, KeepsPlace
  <2>7. QED BY <1>6, <1>9, <2>5, <2>6, GripsKept DEF Shared
<1>12. QED BY <1>10, <1>11 DEF Roles

LEMMA ReturnWaitsKeepsLoad ==
    ASSUME LoadInv, IndInv', NEW r \in Roles, TickReturn(r),
           ~Passed(r, "HOME", "return_done" \in latched[r])
    PROVE  LoadInv'
<1> USE DEF LoadInv, IndInv, Local, Typed
<1>1. /\ UNCHANGED <<state, origin, latched, mission, committed, servo>>
      /\ peerReady' \in {peerReady, "HOME"}
  BY DEF TickReturn, Heard
<1>2. \A q \in Roles : KeepsPlace(q) /\ KeepsLatches(q) /\ KeepsServo(q)
  <2>1. \A q \in Roles : Place(q)' = Place(q)
    BY <1>1 DEF Place
  <2>2. QED
    BY <1>1, <2>1, SamePlace DEF KeepsLatches, KeepsServo, Has, servo
<1>3. KeepsPlace("front") /\ KeepsPlace("rear") /\ KeepsLatches("rear")
  BY <1>2 DEF Roles
<1>4. Shared'
  BY <1>1, <1>3
  DEF Shared, RearIsReady, FrontIsJustified, NotAlone, Together, KeepsPlace,
      KeepsLatches
<1>5. QED BY <1>2, <1>4, GripsKept

\* A robot starts the next mission with open jaws and no order to close them.
LEMMA ReturnEndsKeepsLoad ==
    ASSUME LoadInv, IndInv', NEW r \in Roles, TickReturn(r),
           Passed(r, "HOME", "return_done" \in latched[r])
    PROVE  LoadInv'
<1> USE DEF LoadInv, IndInv, Local, Typed
<1> DEFINE ready == "return_done" \in latched[r]
<1>1. /\ state[r] = "RETURN"
      /\ Transition(r, "IDLE", AfterReset(r))
      /\ mission' = [mission EXCEPT ![r] = NoMission]
      /\ committed' = [committed EXCEPT ![r] = {}]
      /\ peerReady' = IF r = "front" THEN NoStage ELSE Heard(r, "HOME", ready)
      /\ UNCHANGED <<origin, servo>>
  BY DEF TickReturn, Ticking
<1>2. /\ Place(r)' = "IDLE" /\ latched'[r] = {}
      /\ \A q \in Roles \ {r} :
            Place(q)' = Place(q) /\ latched'[q] = latched[q]
  BY <1>1 DEF Transition, AfterReset, Place, TypeOK
<1>3. Segment(r) = 4 /\ Segment(r)' = 0
  BY <1>1, <1>2, Segments, NextSegments DEF Place
<1>4. \A q \in Roles \ {r} :
         KeepsPlace(q) /\ KeepsLatches(q) /\ KeepsServo(q)
  BY <1>1, <1>2, SamePlace DEF KeepsLatches, KeepsServo, Has, servo
<1>5. Grips(r)'
  <2>1. jaws[r] = "open" /\ order[r] # "grip"
    BY <1>3
    DEF Grips, StageIsEarned, ClaimsAreTrue, LateOrderIsIdle
  <2>2. \A f : ~Has(r, f)'
    BY <1>2 DEF Has
  <2>3. QED
    BY <1>1, <1>3, <2>1, <2>2
    DEF servo, Grips, StatusIsTrue, LateOrderIsIdle, ClaimsAreTrue,
        StageIsEarned
<1>6. ~Together' /\ (r = "rear" => Segment("front") = 0)
      /\ peerReady' = NoStage
  <2>1. ~Together'
    BY <1>1 DEF Together, TypeOK, Roles
  <2>2. CASE r = "front"
    BY <1>1, <2>1, <2>2
  <2>3. CASE r = "rear"
    <3>1. "HOME" \in committed["rear"]
      BY <2>3 DEF Passed, Commits
    <3>2. "HOME" \in Stages /\ Rank("HOME") = 5
      BY Ranks DEF Stages
    <3>3. "HOME" \notin committed["front"]
      BY <3>2, Segments DEF InStep, FrontRecords, Through, Roles
    <3>4. ~Together
      BY <3>1, <3>3 DEF InStep, CommitsAreFronts
    <3>5. Segment("front") = 0
      BY <3>4, Segments DEF Shared, NotAlone, Roles
    <3>6. peerReady' = NoStage
      BY <1>1, <2>3, <3>4, WorksForMission
      DEF InStep, ReadyIsMeant, Heard, Together, Roles
    <3>7. QED BY <2>1, <3>5, <3>6
  <2>4. QED BY <2>2, <2>3 DEF Roles
<1>7. Shared'
  <2>1. RearIsReady' /\ FrontIsJustified'
    BY <1>6, BarrierAssumption DEF RearIsReady, FrontIsJustified, Stages
  <2>2. CASE r = "front"
    BY <1>1, <1>3, <1>4, <2>1, <2>2
    DEF Shared, NotAlone, KeepsPlace, TypeOK, Roles
  <2>3. CASE r = "rear"
    BY <1>3, <1>4, <1>6, <2>1, <2>3
    DEF Shared, NotAlone, KeepsPlace, Roles
  <2>4. QED BY <2>2, <2>3 DEF Roles
<1>8. QED BY <1>4, <1>5, <1>7, GripsKept

-----------------------------------------------------------------------------
LEMMA InitLoad == Init => LoadInv
<1> SUFFICES ASSUME Init PROVE LoadInv
  OBVIOUS
<1>1. \A r \in Roles : Segment(r) = 0
  BY DEF Init, Segment
<1>2. \A r \in Roles, f \in Latches : ~Has(r, f)
  BY DEF Init, Has
<1>3. \A r \in Roles : Grips(r)
  BY <1>1, <1>2
  DEF Init, Grips, StatusIsTrue, LateOrderIsIdle, ClaimsAreTrue,
      StageIsEarned, Latches
<1>4. Shared
  BY <1>1, BarrierAssumption
  DEF Init, Shared, RearIsReady, FrontIsJustified, NotAlone, Stages, Roles
<1>5. QED BY <1>3, <1>4, InitInStep DEF LoadInv

LEMMA NextLoad == LoadInv /\ [Next]_vars => LoadInv'
<1> SUFFICES ASSUME LoadInv, [Next]_vars PROVE LoadInv'
  OBVIOUS
<1>1. IndInv'
  BY NextInStep DEF LoadInv
<1>2. CASE UNCHANGED vars
  <2>1. /\ UNCHANGED <<mission, peerReady, committed>>
        /\ \A q \in Roles : KeepsLatches(q) /\ KeepsServo(q)
    BY <1>2 DEF vars, KeepsLatches, KeepsServo, Has
  <2>2. \A q \in Roles : KeepsPlace(q)
    <3>1. \A q \in Roles : Place(q)' = Place(q)
      BY <1>2 DEF vars, Place
    <3>2. QED BY <3>1, SamePlace
  <2>3. QED BY <1>1, <2>1, <2>2, LoadKept
<1>3. ASSUME NEW r \in Roles, Tick(r) PROVE LoadInv'
  BY <1>1, <1>3, InnerTicksKeepLoad, AlignKeepsLoad, LiftKeepsLoad,
     WaitReleaseKeepsLoad, ReleaseKeepsLoad, ReturnWaitsKeepsLoad,
     ReturnEndsKeepsLoad, FaultsKeepLoad
  DEF Tick
<1>4. ASSUME NEW r \in Roles,
             FleetCb(r) \/ LiftCb(r) \/ ServoDone(r) \/ Rearm(r)
      PROVE  LoadInv'
  BY <1>1, <1>4, FleetCbKeepsLoad, DoneKeepsLoad, ServoKeepsLoad,
     FaultsKeepLoad
<1>5. ASSUME NEW r \in Roles,
             \/ \E ready \in BOOLEAN : HardwareReadyCb(r, ready)
             \/ \E class \in FaultClass : FaultCb(r, class)
             \/ ArrivedCb(r) \/ MotionDone(r)
      PROVE  LoadInv'
  BY <1>1, <1>5, CallbacksKeepLoad
<1>6. CASE \/ ReadyGoesStale \/ CommitCb \/ RearLiftedCb \/ PairArrives
           \/ \E m \in Missions : FleetStarts(m)
           \/ FrontRepeatsLifted \/ FleetHearsLifted \/ FleetPlans
           \/ FleetFinishes
           \/ FleetRestarts
  <2>1. "front" \in Roles
    BY DEF Roles
  <2>2. QED BY <1>1, <1>6, <2>1, CallbacksKeepLoad
<1>7. QED
  BY <1>2, <1>3, <1>4, <1>5, <1>6 DEF Next

\* What latches, orders, announcements and commits say of the servos is so.
THEOREM LoadInvariant == Spec => []LoadInv
BY InitLoad, NextLoad, PTL DEF Spec

\* While either robot drives, both hold the car and neither is told to let
\* go: for any number of missions, whatever DONE, announcement or commit comes
\* late or not at all, whatever faults, and whenever the operator rearms.
THEOREM LoadIsHeld == Spec => []LoadHeldWhileDriving
<1>1. LoadInv => LoadHeldWhileDriving
  <2> SUFFICES ASSUME LoadInv, NEW r \in Roles, state[r] = "DRIVE"
               PROVE  \A q \in Roles : jaws[q] = "closed"
                                       /\ order[q] # "release"
    BY DEF LoadHeldWhileDriving
  <2> USE DEF LoadInv, IndInv, Local, Typed
  <2>1. Segment(r) = 2 /\ Place(r) = "DRIVE"
    BY Segments DEF Place
  <2>2. /\ Segment("front") \in 0 .. 4 /\ Segment("rear") \in 0 .. 4
        /\ Together => Segment("front") - Segment("rear") \in {0, 1}
    BY Segments DEF InStep, OneApart, Roles
  <2>3. Together
    <3>1. CASE r = "front"
      BY <2>1, <3>1 DEF Shared, NotAlone
    <3>2. CASE r = "rear"
      <4>1. Told /\ mission["rear"] # NoMission
        BY <2>1, <3>2, WorksForMission DEF Shared, NotAlone, Told, Roles
      <4>2. QED BY <2>1, <3>2, <4>1 DEF InStep, LeftBehind, Together
    <3>3. QED BY <3>1, <3>2 DEF Roles
  <2>4. Segment("front") = 2 /\ Segment("rear") \in {1, 2}
    BY <2>1, <2>2, <2>3 DEF Shared, FrontIsJustified, Roles
  <2>5. Has("front", "local_lifted") /\ Has("rear", "local_lifted")
    BY <2>3, <2>4 DEF Shared, FrontIsJustified, Grips, StageIsEarned, Roles
  <2>6. \A q \in Roles : Has(q, "local_lifted") /\ Segment(q) # 3
    BY <2>4, <2>5 DEF Roles
  <2>7. QED BY <2>6 DEF Grips, ClaimsAreTrue, LateOrderIsIdle, TypeOK
<1>2. QED BY <1>1, LoadInvariant, PTL

\* A robot leaves from under the car only after both have let go of it, under
\* the same circumstances.
THEOREM UnloadedReturn == Spec => []ReturnOnlyUnloaded
<1>1. LoadInv => ReturnOnlyUnloaded
  <2> SUFFICES ASSUME LoadInv, NEW r \in Roles, state[r] = "RETURN"
               PROVE  \A q \in Roles : jaws[q] = "open"
                                       /\ order[q] # "grip"
    BY DEF ReturnOnlyUnloaded
  <2> USE DEF LoadInv, IndInv, Local, Typed
  <2>1. Segment(r) = 4
    BY Segments DEF Place
  <2>2. /\ Segment("front") \in 0 .. 4 /\ Segment("rear") \in 0 .. 4
        /\ Together => Segment("front") - Segment("rear") \in {0, 1}
    BY Segments DEF InStep, OneApart, Roles
  <2>3. \A q \in Roles :
           Segment(q) = 0 \/ Has(q, "release_announced")
    <3>1. CASE r = "front"
      BY <2>1, <3>1
      DEF Shared, NotAlone, FrontIsJustified, Grips, StageIsEarned, Roles
    <3>2. CASE r = "rear" /\ Together
      BY <2>1, <2>2, <3>2 DEF Grips, StageIsEarned, Roles
    <3>3. CASE r = "rear" /\ ~Together
      BY <2>1, <2>2, <3>3 DEF Shared, NotAlone, Grips, StageIsEarned, Roles
    <3>4. QED BY <3>1, <3>2, <3>3 DEF Roles
  <2>4. \A q \in Roles : jaws[q] = "open" /\ Segment(q) # 1
    BY <2>3 DEF Grips, StageIsEarned, ClaimsAreTrue
  <2>5. QED BY <2>4 DEF Grips, LateOrderIsIdle
<1>2. QED BY <1>1, LoadInvariant, PTL

-----------------------------------------------------------------------------
(* What Front concludes from Rear's HOME: a mission is complete when both    *)
(* robots have returned.                                                     *)

\* Rear announces HOME after its return, and stays there until Front commits.
HomeIsMeant == peerReady = "HOME" => Has("rear", "return_done")

HomeInv == LoadInv /\ HomeIsMeant

\* A robot does not forget that it has returned, and nobody else says so.
LEMMA ReturnRemembered ==
    ASSUME HomeInv, NEW r \in Roles, Tick(r), ~TickReturn(r)
    PROVE  HomeIsMeant'
<1> USE DEF HomeInv, LoadInv, IndInv, Local, Typed
<1>1. peerReady' = "HOME" => peerReady = "HOME"
  BY DEF Tick, TickIdle, TickApproach, TickAlign, TickLift, TickDrive,
         TickWaitRelease, TickRelease, TickTimeout, TickFaulted, TickFault,
         EnterFault, Coordinate, Heard, robot
<1>2. \A q \in Roles : Has(q, "return_done") => Has(q, "return_done")'
  <2>1. ASSUME NEW flags \in SUBSET Latches, NEW new \in States,
               Has(r, "return_done") => "return_done" \in flags,
               Transition(r, new, flags) \/ Remain(r, flags)
        PROVE  \A q \in Roles : Has(q, "return_done") => Has(q, "return_done")'
    BY <2>1 DEF Transition, Remain, Has, TypeOK
  <2>2. CASE TickIdle(r) \/ TickApproach(r) \/ TickDrive(r)
    BY <2>1, <2>2
    DEF TickIdle, TickApproach, TickDrive, Has, TypeOK, States
  <2>3. CASE TickAlign(r) \/ TickWaitRelease(r)
    BY <2>1, <2>3 DEF TickAlign, TickWaitRelease, Has, TypeOK, States
  <2>4. CASE TickLift(r)
    <3> DEFINE flags == IF GripReady(r) THEN Lifted(r) ELSE latched[r]
    <3>1. flags \in SUBSET Latches
      BY LiftedTypes DEF TypeOK
    <3>2. Has(r, "return_done") => "return_done" \in flags
      BY DEF Lifted, CheckBothLifted, Has
    <3>3. Transition(r, "DRIVE", flags) \/ Remain(r, flags)
      BY <2>4 DEF TickLift
    <3> HIDE DEF flags
    <3>4. QED BY <2>1, <3>1, <3>2, <3>3 DEF States
  <2>5. CASE TickRelease(r)
    <3> DEFINE flags == IF ReleaseReady(r)
                        THEN latched[r] \cup {"release_announced"}
                        ELSE latched[r]
               go == flags \ {"local_lifted", "aggregate_lifted"}
    <3>1. flags \in SUBSET Latches /\ go \in SUBSET Latches
      BY DEF TypeOK, Latches
    <3>2. Has(r, "return_done") => "return_done" \in flags \cap go
      BY DEF Has
    <3>3. Transition(r, "RETURN", go) \/ Remain(r, flags)
      BY <2>5 DEF TickRelease
    <3> HIDE DEF flags, go
    <3>4. QED BY <2>1, <3>1, <3>2, <3>3 DEF States
  <2>6. CASE TickTimeout(r) \/ TickFaulted(r) \/ TickFault(r)
    BY <2>6 DEF TickTimeout, TickFaulted, TickFault, EnterFault, robot, Has
  <2>7. QED BY <2>2, <2>3, <2>4, <2>5, <2>6 DEF Tick
<1>3. QED BY <1>1, <1>2 DEF HomeIsMeant, Roles

\* Rear hears of HOME only after Front has reset: neither leaves behind an
\* announcement.
LEMMA HomeForgotten ==
    ASSUME HomeInv, NEW r \in Roles, TickReturn(r)
    PROVE  HomeIsMeant'
<1> USE DEF HomeInv, LoadInv, IndInv, Local, Typed
<1> DEFINE ready == "return_done" \in latched[r]
<1>1. CASE ~Passed(r, "HOME", ready)
  <2>1. /\ latched' = latched
        /\ peerReady' = peerReady \/ (r = "rear" /\ ready)
    BY <1>1 DEF TickReturn, Heard
  <2>2. QED BY <2>1 DEF HomeIsMeant, Has
<1>2. CASE Passed(r, "HOME", ready) /\ r = "front"
  <2>1. peerReady' = NoStage
    BY <1>2 DEF TickReturn
  <2>2. QED BY <2>1, BarrierAssumption DEF HomeIsMeant, Stages
<1>3. CASE Passed(r, "HOME", ready) /\ r = "rear"
  <2>1. peerReady' = Heard("rear", "HOME", ready)
    BY <1>3 DEF TickReturn
  <2>2. ~Together
    <3>1. "HOME" \in Stages /\ Rank("HOME") = 5
      BY Ranks DEF Stages
    <3>2. "HOME" \notin committed["front"]
      BY <3>1, Segments DEF InStep, FrontRecords, Through, Roles
    <3>3. "HOME" \in committed["rear"]
      BY <1>3 DEF Passed, Commits
    <3>4. QED BY <3>2, <3>3 DEF InStep, CommitsAreFronts
  <2>3. mission["rear"] # NoMission
    BY <1>3, WorksForMission DEF TickReturn, Ticking, Place, Roles
  <2>4. peerReady' = NoStage
    BY <2>1, <2>2, <2>3
    DEF InStep, ReadyIsMeant, Heard, Together, Roles
  <2>5. QED BY <2>4, BarrierAssumption DEF HomeIsMeant, Stages
<1>4. QED BY <1>1, <1>2, <1>3 DEF Roles

\* A callback may forget an announcement, but takes back no latch.
LEMMA CallbacksRemember ==
    ASSUME HomeInv, [Next]_vars, ~\E r \in Roles : Tick(r)
    PROVE  HomeIsMeant'
<1> USE DEF HomeInv, LoadInv, IndInv, Local, Typed
<1>1. ASSUME NEW r \in Roles,
             \/ FleetCb(r) \/ LiftCb(r) \/ ArrivedCb(r) \/ Rearm(r)
             \/ ServoDone(r) \/ MotionDone(r)
             \/ \E ready \in BOOLEAN : HardwareReadyCb(r, ready)
             \/ \E class \in FaultClass : FaultCb(r, class)
             \/ ReadyGoesStale \/ CommitCb \/ RearLiftedCb \/ PairArrives
             \/ FrontRepeatsLifted \/ FleetHearsLifted \/ FleetPlans
             \/ FleetFinishes \/ FleetRestarts
             \/ (\E m \in Missions : FleetStarts(m)) \/ UNCHANGED vars
      PROVE  HomeIsMeant'
  <2>1. peerReady' \in {peerReady, NoStage}
    BY <1>1
    DEF FleetCb, LiftCb, ArrivedCb, Rearm, ServoDone, MotionDone,
        HardwareReadyCb, FaultCb, ReadyGoesStale, CommitCb, RearLiftedCb,
        PairArrives, FrontRepeatsLifted, FleetHearsLifted, FleetPlans,
        FleetFinishes, FleetRestarts, FleetStarts, robot, vars
  <2>2. Has("rear", "return_done") => Has("rear", "return_done")'
    <3>1. CASE LiftCb(r) \/ ArrivedCb(r) \/ MotionDone(r)
      BY <3>1 DEF LiftCb, ArrivedCb, MotionDone, Has, TypeOK, Roles
    <3>2. CASE Rearm(r)
      BY <3>2 DEF Rearm, Transition, Has, TypeOK, Roles
    <3>3. CASE ~(LiftCb(r) \/ ArrivedCb(r) \/ MotionDone(r) \/ Rearm(r))
      BY <1>1, <3>3
      DEF FleetCb, ServoDone, HardwareReadyCb, FaultCb, ReadyGoesStale,
          CommitCb, RearLiftedCb, PairArrives, FrontRepeatsLifted,
          FleetHearsLifted, FleetPlans, FleetFinishes, FleetRestarts,
          FleetStarts, robot, vars, Has, TypeOK, Roles
    <3>4. QED BY <3>1, <3>2, <3>3
  <2>3. QED BY <2>1, <2>2, BarrierAssumption DEF HomeIsMeant, Stages
<1>2. QED BY <1>1 DEF Next, Roles

LEMMA InitHome == Init => HomeInv
BY InitLoad, BarrierAssumption DEF Init, HomeInv, HomeIsMeant, Stages

LEMMA NextHome == HomeInv /\ [Next]_vars => HomeInv'
<1> SUFFICES ASSUME HomeInv, [Next]_vars PROVE HomeInv'
  OBVIOUS
<1>1. LoadInv'
  BY NextLoad DEF HomeInv
<1>2. HomeIsMeant'
  BY ReturnRemembered, HomeForgotten, CallbacksRemember
<1>3. QED BY <1>1, <1>2 DEF HomeInv

LEMMA HomeInvariant == Spec => []HomeInv
BY InitHome, NextHome, PTL DEF Spec

\* Only Front's way home completes a mission.
LEMMA OnlyReturnCompletes ==
    ASSUME [Next]_vars, Completes
    PROVE  /\ TickReturn("front") /\ completeWire' = mission["front"]
           /\ Passed("front", "HOME", "return_done" \in latched["front"])
<1>1. ASSUME NEW r \in Roles, Tick(r)
      PROVE  TickReturn(r)
  BY <1>1
  DEF Completes, Tick, TickIdle, TickApproach, TickAlign, TickLift, TickDrive,
      TickWaitRelease, TickRelease, TickTimeout, TickFaulted, TickFault,
      EnterFault, wires
<1>2. \E r \in Roles : Tick(r)
  <2>1. ~UNCHANGED vars
    BY DEF Completes, vars
  <2>2. ASSUME NEW r \in Roles,
               \/ FleetCb(r) \/ LiftCb(r) \/ ArrivedCb(r) \/ Rearm(r)
               \/ ServoDone(r) \/ MotionDone(r)
               \/ \E ready \in BOOLEAN : HardwareReadyCb(r, ready)
               \/ \E class \in FaultClass : FaultCb(r, class)
        PROVE  FALSE
    BY <2>2
    DEF Completes, FleetCb, LiftCb, ArrivedCb, Rearm, ServoDone, MotionDone,
        HardwareReadyCb, FaultCb, wires
  <2>3. CASE \/ ReadyGoesStale \/ CommitCb \/ RearLiftedCb \/ PairArrives
             \/ FrontRepeatsLifted \/ FleetHearsLifted \/ FleetPlans
             \/ FleetFinishes
             \/ FleetRestarts \/ \E m \in Missions : FleetStarts(m)
    BY <2>3
    DEF Completes, ReadyGoesStale, CommitCb, RearLiftedCb, PairArrives,
        FrontRepeatsLifted, FleetHearsLifted, FleetPlans, FleetFinishes,
        FleetRestarts, FleetStarts, wires
  <2>4. QED BY <2>1, <2>2, <2>3 DEF Next
<1>3. PICK r \in Roles : TickReturn(r)
  BY <1>1, <1>2
<1>4. QED BY <1>3 DEF TickReturn, Completes, Roles

\* Front declares a mission complete only when Rear, too, has reported its
\* return in that mission.
THEOREM CompletionIsEarned == Spec => CompleteWhenBothReturned
<1>1. ASSUME HomeInv, [Next]_vars, Completes
      PROVE  /\ completeWire' = mission["rear"]
             /\ \A r \in Roles : "return_done" \in latched[r]
  <2> USE <1>1 DEF HomeInv, LoadInv, IndInv, Local, Typed
  <2>1. /\ completeWire' = mission["front"]
        /\ Passed("front", "HOME", "return_done" \in latched["front"])
    BY OnlyReturnCompletes
  <2>2. "HOME" \notin committed["front"]
    <3>1. "HOME" \in Stages /\ Rank("HOME") = 5
      BY Ranks DEF Stages
    <3>2. QED BY <3>1, Segments DEF InStep, FrontRecords, Through, Roles
  <2>3. /\ "return_done" \in latched["front"] /\ peerReady = "HOME"
    BY <2>1, <2>2 DEF Passed, Commits
  <2>4. Together /\ Has("rear", "return_done")
    BY <2>3, BarrierAssumption
    DEF InStep, ReadyIsMeant, HomeIsMeant, Stages
  <2>5. QED BY <2>1, <2>3, <2>4 DEF Together, Has, Roles
<1>2. QED
  BY <1>1, HomeInvariant, PTL DEF Spec, CompleteWhenBothReturned

-----------------------------------------------------------------------------
(* Where the counterexample of BarrierHome ends: without a rearm a mission  *)
(* that is complete has both robots home.                                   *)

\* The motion node works for the state the robot is in, and a return that has
\* been reported is not started over.
ReturnsOnce ==
    \A r \in Roles :
        /\ job[r] # "none" => job[r] = Job(state[r])
        /\ Has(r, "return_done") => Place(r) = "RETURN" /\ job[r] = "none"

LEMMA StageReturnsOnce ==
    ASSUME TypeOK, ReturnsOnce, NEW r \in Roles, NEW new \in States,
           NEW flags \in SUBSET Latches, Transition(r, new, flags),
           "return_done" \notin flags, UNCHANGED origin
    PROVE  ReturnsOnce'
<1>1. /\ state'[r] = new /\ job'[r] = Job(new) /\ ~Has(r, "return_done")'
  BY DEF Transition, TypeOK, Has
<1>2. \A q \in Roles \ {r} :
         /\ state'[q] = state[q] /\ job'[q] = job[q]
         /\ latched'[q] = latched[q]
  BY DEF Transition, TypeOK
<1>3. QED BY <1>1, <1>2 DEF ReturnsOnce, Has, Place

LEMMA WaitReturnsOnce ==
    ASSUME ReturnsOnce, UNCHANGED <<state, origin, job>>,
           \A r \in Roles : Has(r, "return_done")' => Has(r, "return_done")
    PROVE  ReturnsOnce'
BY DEF ReturnsOnce, Place

LEMMA TickReturnsOnce ==
    ASSUME TypeOK, ReturnsOnce, NEW r \in Roles, Tick(r)
    PROVE  ReturnsOnce'
<1> USE DEF TypeOK
<1>1. CASE TickIdle(r) \/ TickApproach(r) \/ TickDrive(r)
  <2>1. PICK new \in States : Transition(r, new, latched[r])
    BY <1>1 DEF TickIdle, TickApproach, TickDrive, States
  <2>2. state[r] \notin {"RETURN", "FAULT"} /\ UNCHANGED origin
    BY <1>1 DEF TickIdle, TickApproach, TickDrive, Ticking
  <2>3. "return_done" \notin latched[r]
    BY <2>2 DEF ReturnsOnce, Place, Has
  <2>4. QED BY <2>1, <2>2, <2>3, StageReturnsOnce
<1>2. CASE TickAlign(r) \/ TickLift(r) \/ TickWaitRelease(r) \/ TickRelease(r)
  <2>1. state[r] \notin {"RETURN", "FAULT"} /\ UNCHANGED origin
    BY <1>2 DEF TickAlign, TickLift, TickWaitRelease, TickRelease, Ticking
  <2>2. "return_done" \notin latched[r]
    BY <2>1 DEF ReturnsOnce, Place, Has
  <2>3. PICK flags \in SUBSET Latches :
          /\ "return_done" \notin flags
          /\ \/ Remain(r, flags)
             \/ \E new \in States : Transition(r, new, flags)
    <3>1. CASE TickAlign(r)
      BY <2>2, <3>1 DEF TickAlign, States
    <3>2. CASE TickLift(r)
      BY <2>2, <3>2, LiftedTypes
      DEF TickLift, States, Lifted, CheckBothLifted, Latches
    <3>3. CASE TickWaitRelease(r)
      BY <2>2, <3>3 DEF TickWaitRelease, States
    <3>4. CASE TickRelease(r)
      <4>1. latched[r] \cup {"release_announced"} \in SUBSET Latches
        BY DEF Latches
      <4>2. QED BY <2>2, <3>4, <4>1 DEF TickRelease, States
    <3>5. QED BY <1>2, <3>1, <3>2, <3>3, <3>4
  <2>4. CASE Remain(r, flags)
    BY <2>1, <2>3, <2>4, WaitReturnsOnce DEF Remain, Has
  <2>5. CASE \E new \in States : Transition(r, new, flags)
    BY <2>1, <2>3, <2>5, StageReturnsOnce
  <2>6. QED BY <2>3, <2>4, <2>5
<1>3. CASE TickReturn(r)
  <2>1. UNCHANGED origin
    BY <1>3 DEF TickReturn
  <2>2. \/ Transition(r, "IDLE", {})
        \/ UNCHANGED <<state, latched, job>>
    BY <1>3 DEF TickReturn, AfterReset
  <2>3. CASE Transition(r, "IDLE", {})
    BY <2>1, <2>3, StageReturnsOnce DEF States
  <2>4. CASE UNCHANGED <<state, latched, job>>
    BY <2>1, <2>4, WaitReturnsOnce DEF Has
  <2>5. QED BY <2>2, <2>3, <2>4
<1>4. CASE TickTimeout(r) \/ TickFaulted(r)
  <2>1. state[r] # "FAULT"
    BY <1>4 DEF TickTimeout, TickFaulted, Timed, Active
  <2>2. /\ state' = [state EXCEPT ![r] = "FAULT"]
        /\ origin' = [origin EXCEPT ![r] = state[r]]
        /\ job' = [job EXCEPT ![r] = "none"] /\ latched' = latched
    BY <1>4 DEF TickTimeout, TickFaulted, EnterFault
  <2>3. QED BY <2>1, <2>2 DEF ReturnsOnce, Place, Has
<1>5. CASE TickFault(r)
  BY <1>5, WaitReturnsOnce DEF TickFault, robot, Has
<1>6. QED
  BY <1>1, <1>2, <1>3, <1>4, <1>5 DEF Tick

LEMMA OtherStepsReturnOnce ==
    ASSUME TypeOK, ReturnsOnce, ~Rearms, [Next]_vars,
           ~\E r \in Roles : Tick(r)
    PROVE  ReturnsOnce'
<1> USE DEF TypeOK
<1>1. ASSUME NEW r \in Roles, MotionDone(r)
      PROVE  ReturnsOnce'
  <2>1. /\ job' = [job EXCEPT ![r] = "none"] /\ UNCHANGED <<state, origin>>
        /\ job[r] = Job(state[r])
    BY <1>1 DEF MotionDone, ReturnsOnce
  <2>2. \A q \in Roles : Has(q, "return_done")' =>
           Has(q, "return_done") \/ (q = r /\ job[r] = "return")
    BY <1>1 DEF MotionDone, Has
  <2>3. job[r] = "return" => Place(r) = "RETURN"
    BY <2>1 DEF Job, Place
  <2>4. QED BY <2>1, <2>2, <2>3 DEF ReturnsOnce, Place
<1>2. ASSUME NEW r \in Roles,
             \/ FleetCb(r) \/ LiftCb(r) \/ ArrivedCb(r) \/ ServoDone(r)
             \/ \E ready \in BOOLEAN : HardwareReadyCb(r, ready)
             \/ \E class \in FaultClass : FaultCb(r, class)
      PROVE  ReturnsOnce'
  <2>1. UNCHANGED <<state, origin, job>>
    BY <1>2 DEF FleetCb, LiftCb, ArrivedCb, ServoDone, HardwareReadyCb,
                FaultCb, robot
  <2>2. \A q \in Roles : Has(q, "return_done")' => Has(q, "return_done")
    BY <1>2 DEF FleetCb, LiftCb, ArrivedCb, ServoDone, HardwareReadyCb,
                FaultCb, robot, Has
  <2>3. QED BY <2>1, <2>2, WaitReturnsOnce
<1>3. CASE \/ ReadyGoesStale \/ CommitCb \/ RearLiftedCb \/ PairArrives
           \/ FrontRepeatsLifted \/ FleetHearsLifted \/ FleetPlans
           \/ FleetFinishes
           \/ FleetRestarts \/ \E m \in Missions : FleetStarts(m)
           \/ UNCHANGED vars
  <2>1. UNCHANGED <<state, origin, job>>
    BY <1>3 DEF ReadyGoesStale, CommitCb, RearLiftedCb, PairArrives,
                FrontRepeatsLifted, FleetHearsLifted, FleetPlans,
                FleetFinishes, FleetRestarts, FleetStarts, robot, vars
  <2>2. \A q \in Roles : Has(q, "return_done")' => Has(q, "return_done")
    BY <1>3 DEF ReadyGoesStale, CommitCb, RearLiftedCb, PairArrives,
                FrontRepeatsLifted, FleetHearsLifted, FleetPlans,
                FleetFinishes, FleetRestarts, FleetStarts, robot, vars, Has,
                CheckBothLifted, Roles
  <2>3. QED BY <2>1, <2>2, WaitReturnsOnce
<1>4. \A r \in Roles : ~Rearm(r)
  BY DEF Rearm
<1>5. QED BY <1>1, <1>2, <1>3, <1>4 DEF Next

\* A completed mission has both robots home as long as the operator rearms
\* none: only a rearm in RETURN starts over a return already reported.
THEOREM HomeWithoutRearm == ~Rearms => (Spec => HomeWhenComplete)
<1> SUFFICES ASSUME ~Rearms PROVE Spec => HomeWhenComplete
  OBVIOUS
<1>1. Init => ReturnsOnce
  BY DEF Init, ReturnsOnce, Has
<1>2. TypeOK /\ ReturnsOnce /\ [Next]_vars => ReturnsOnce'
  BY TickReturnsOnce, OtherStepsReturnOnce
<1>3. ReturnsOnce /\ (Completes => \A r \in Roles : Has(r, "return_done"))
      => (Completes => \A r \in Roles : job[r] # "return")
  BY DEF ReturnsOnce
<1>4. CompleteWhenBothReturned =>
         [][Completes => \A r \in Roles : Has(r, "return_done")]_vars
  <2>1. [Completes => /\ completeWire' = mission["rear"]
                      /\ \A r \in Roles : "return_done" \in latched[r]]_vars
        => [Completes => \A r \in Roles : Has(r, "return_done")]_vars
    BY DEF Has
  <2>2. QED BY <2>1, PTL DEF CompleteWhenBothReturned
<1>5. QED
  BY <1>1, <1>2, <1>3, <1>4, TypeCorrect, CompletionIsEarned, PTL
  DEF Spec, HomeWhenComplete

-----------------------------------------------------------------------------
(* The abstract mission of a pair. *)

\* Front's first barrier finds Rear at the car, and the pair stops at its goal
\* together: nobody has heard ARRIVED before both were driving.
ReadyAtCar == peerReady = "LIFT" => Place("rear") \notin {"IDLE", "APPROACH"}

StopsTogether ==
    /\ atGoal => \A r \in Roles : mission[r] = NoMission \/ Segment(r) >= 2
    /\ \A r \in Roles : Arrived(r) => atGoal

PairInv == HomeInv /\ ReadyAtCar /\ StopsTogether

\* Robot r passes from one state to the next.
Takes(r, from, to) ==
    state[r] = from /\ Place(r) = from /\ Place(r)' = to

Crosses(r, from, stage, to) ==
    /\ Takes(r, from, to)
    /\ \E ready \in BOOLEAN : Passed(r, stage, ready)

\* What a tick does to the places, the way home excepted.
LEMMA TickPlaces ==
    ASSUME TypeOK, NEW r \in Roles, Tick(r),
           TickReturn(r) => ~Passed(r, "HOME", "return_done" \in latched[r])
    PROVE  /\ UNCHANGED <<mission, completeWire, jaws, atGoal>>
           /\ \A q \in Roles \ {r} : Place(q)' = Place(q)
           /\ \/ Place(r)' = Place(r)
              \/ Takes(r, "IDLE", "APPROACH")
              \/ Takes(r, "APPROACH", "ALIGN")
              \/ Takes(r, "DRIVE", "WAIT_RELEASE") /\ Arrived(r)
              \/ Crosses(r, "ALIGN", "LIFT", "LIFT")
              \/ Crosses(r, "LIFT", "DRIVE", "DRIVE")
              \/ Crosses(r, "WAIT_RELEASE", "RELEASE", "RELEASE")
              \/ Crosses(r, "RELEASE", "RETURN", "RETURN")
<1> USE DEF TypeOK
<1>1. UNCHANGED <<mission, completeWire, jaws, atGoal>>
  BY DEF Tick, TickIdle, TickApproach, TickAlign, TickLift, TickDrive,
         TickWaitRelease, TickRelease, TickReturn, TickTimeout, TickFaulted,
         TickFault, EnterFault, wires, world, servo, robot
<1>2. CASE TickTimeout(r) \/ TickFaulted(r)
  <2>1. state[r] # "FAULT"
    BY <1>2 DEF TickTimeout, TickFaulted, Timed, Active
  <2>2. /\ state' = [state EXCEPT ![r] = "FAULT"]
        /\ origin' = [origin EXCEPT ![r] = state[r]]
    BY <1>2 DEF TickTimeout, TickFaulted, EnterFault
  <2>3. QED BY <1>1, <2>1, <2>2 DEF Place
<1>3. CASE TickFault(r) \/ TickReturn(r)
  <2>1. UNCHANGED <<state, origin>>
    BY <1>3 DEF TickFault, TickReturn, robot
  <2>2. QED BY <1>1, <2>1 DEF Place
<1>4. CASE \/ TickIdle(r) \/ TickApproach(r) \/ TickAlign(r) \/ TickLift(r)
           \/ TickDrive(r) \/ TickWaitRelease(r) \/ TickRelease(r)
  <2>1. state[r] # "FAULT" /\ UNCHANGED origin
    BY <1>4 DEF TickIdle, TickApproach, TickAlign, TickLift, TickDrive,
                TickWaitRelease, TickRelease, Ticking
  <2>2. Place(r) = state[r]
    BY <2>1 DEF Place
  <2>3. PICK new \in States :
          /\ state' = [state EXCEPT ![r] = new]
          /\ \/ new = state[r]
             \/ state[r] = "IDLE" /\ new = "APPROACH"
             \/ state[r] = "APPROACH" /\ new = "ALIGN"
             \/ state[r] = "DRIVE" /\ new = "WAIT_RELEASE" /\ Arrived(r)
             \/ /\ state[r] = "ALIGN" /\ new = "LIFT"
                /\ \E ready \in BOOLEAN : Passed(r, "LIFT", ready)
             \/ /\ state[r] = "LIFT" /\ new = "DRIVE"
                /\ \E ready \in BOOLEAN : Passed(r, "DRIVE", ready)
             \/ /\ state[r] = "WAIT_RELEASE" /\ new = "RELEASE"
                /\ \E ready \in BOOLEAN : Passed(r, "RELEASE", ready)
             \/ /\ state[r] = "RELEASE" /\ new = "RETURN"
                /\ \E ready \in BOOLEAN : Passed(r, "RETURN", ready)
    <3>1. CASE TickIdle(r) \/ TickApproach(r) \/ TickDrive(r)
      BY <3>1 DEF TickIdle, TickApproach, TickDrive, Ticking, Transition,
                  States, Arrived
    <3>2. CASE TickAlign(r)
      <4> DEFINE aligned == "wheel_aligned" \in latched[r]
                 p == Passed(r, "LIFT", aligned)
      <4>1. /\ state[r] = "ALIGN" /\ aligned \in BOOLEAN
            /\ \/ p /\ state' = [state EXCEPT ![r] = "LIFT"]
               \/ state' = state
        BY <3>2 DEF TickAlign, Ticking, Transition, Remain
      <4> HIDE DEF aligned
      <4>2. CASE p /\ state' = [state EXCEPT ![r] = "LIFT"]
        BY <4>1, <4>2 DEF States
      <4>3. CASE state' = state
        BY <4>3
      <4>4. QED BY <4>1, <4>2, <4>3
    <3>3. CASE TickLift(r)
      <4> DEFINE p == Passed(r, "DRIVE", GripReady(r))
      <4>1. /\ GripReady(r) \in BOOLEAN /\ state[r] = "LIFT"
            /\ \/ p /\ state' = [state EXCEPT ![r] = "DRIVE"]
               \/ state' = state
        BY <3>3
        DEF TickLift, Ticking, GripReady, Transition, Remain
      <4>2. CASE p /\ state' = [state EXCEPT ![r] = "DRIVE"]
        BY <4>1, <4>2 DEF States
      <4>3. CASE state' = state
        BY <4>3
      <4>4. QED BY <4>1, <4>2, <4>3
    <3>4. CASE TickWaitRelease(r)
      <4> DEFINE p == Passed(r, "RELEASE", TRUE)
      <4>1. /\ state[r] = "WAIT_RELEASE"
            /\ \/ p /\ state' = [state EXCEPT ![r] = "RELEASE"]
               \/ state' = state
        BY <3>4 DEF TickWaitRelease, Ticking, Transition, Remain
      <4>2. CASE p /\ state' = [state EXCEPT ![r] = "RELEASE"]
        BY <4>1, <4>2 DEF States
      <4>3. CASE state' = state
        BY <4>3
      <4>4. QED BY <4>1, <4>2, <4>3
    <3>5. CASE TickRelease(r)
      <4> DEFINE p == Passed(r, "RETURN", ReleaseReady(r))
      <4>1. /\ ReleaseReady(r) \in BOOLEAN /\ state[r] = "RELEASE"
            /\ \/ p /\ state' = [state EXCEPT ![r] = "RETURN"]
               \/ state' = state
        BY <3>5
        DEF TickRelease, Ticking, ReleaseReady, Transition, Remain
      <4>2. CASE p /\ state' = [state EXCEPT ![r] = "RETURN"]
        BY <4>1, <4>2 DEF States
      <4>3. CASE state' = state
        BY <4>3
      <4>4. QED BY <4>1, <4>2, <4>3
    <3>6. QED BY <1>4, <3>1, <3>2, <3>3, <3>4, <3>5
  <2>4. /\ Place(r)' = IF new = "FAULT" THEN origin[r] ELSE new
        /\ \A q \in Roles \ {r} : Place(q)' = Place(q)
    BY <2>1, <2>3 DEF Place
  <2>5. new # "FAULT"
    BY <2>1, <2>3
  <2>6. QED
    BY <1>1, <2>2, <2>3, <2>4, <2>5 DEF Takes, Crosses
<1>5. QED BY <1>2, <1>3, <1>4 DEF Tick

\* A step in which no robot goes back keeps the two.
LEMMA PairKept ==
    ASSUME PairInv, HomeInv', UNCHANGED <<mission, atGoal>>,
           \A r \in Roles : /\ Segment(r)' >= Segment(r)
                            /\ Arrived(r)' => Arrived(r) \/ atGoal,
           Place("rear")' \in {"IDLE", "APPROACH"} =>
              Place("rear") \in {"IDLE", "APPROACH"},
           peerReady' = "LIFT" =>
              peerReady = "LIFT" \/ Place("rear") = "ALIGN"
    PROVE  PairInv'
<1>1. \A r \in Roles : Segment(r) \in 0 .. 4 /\ Segment(r)' \in 0 .. 4
  BY Segments, NextSegments
  DEF PairInv, HomeInv, LoadInv, IndInv, Local, Typed
<1>2. QED BY <1>1 DEF PairInv, ReadyAtCar, StopsTogether

LEMMA TickKeepsPair ==
    ASSUME PairInv, HomeInv', NEW r \in Roles, Tick(r),
           TickReturn(r) => ~Passed(r, "HOME", "return_done" \in latched[r])
    PROVE  PairInv'
<1> USE DEF PairInv, HomeInv, LoadInv, IndInv, Local, Typed
<1>1. /\ UNCHANGED <<mission, atGoal>>
      /\ \A q \in Roles \ {r} : Place(q)' = Place(q)
      /\ \/ Place(r)' = Place(r)
         \/ Takes(r, "IDLE", "APPROACH")
         \/ Takes(r, "APPROACH", "ALIGN")
         \/ Takes(r, "DRIVE", "WAIT_RELEASE")
         \/ Takes(r, "ALIGN", "LIFT")
         \/ Takes(r, "LIFT", "DRIVE")
         \/ Takes(r, "WAIT_RELEASE", "RELEASE")
         \/ Takes(r, "RELEASE", "RETURN")
  BY TickPlaces DEF Crosses
<1>2. \A q \in Roles : Segment(q)' >= Segment(q)
  <2>1. ASSUME NEW q \in Roles, Place(q)' = Place(q)
        PROVE  Segment(q)' >= Segment(q)
    BY <2>1, SegmentKept, Segments
  <2>2. Segment(r)' >= Segment(r)
    BY <1>1, <2>1, Segments, NextSegments DEF Takes
  <2>3. QED BY <1>1, <2>1, <2>2
<1>3. Place("rear")' \in {"IDLE", "APPROACH"} =>
         Place("rear") \in {"IDLE", "APPROACH"}
  BY <1>1 DEF Takes, Roles
<1>4. \A q \in Roles : Arrived(q)' => Arrived(q)
  <2>1. ASSUME NEW flags \in SUBSET Latches, NEW new \in States,
               "arrived" \in flags => Arrived(r),
               Transition(r, new, flags) \/ Remain(r, flags)
        PROVE  \A q \in Roles : Arrived(q)' => Arrived(q)
    BY <2>1 DEF Transition, Remain, Arrived, TypeOK
  <2>2. CASE TickIdle(r) \/ TickApproach(r) \/ TickDrive(r)
    BY <2>1, <2>2
    DEF TickIdle, TickApproach, TickDrive, Arrived, TypeOK, States
  <2>3. CASE TickAlign(r) \/ TickWaitRelease(r)
    BY <2>1, <2>3 DEF TickAlign, TickWaitRelease, Arrived, TypeOK, States
  <2>4. CASE TickLift(r)
    <3> DEFINE flags == IF GripReady(r) THEN Lifted(r) ELSE latched[r]
    <3>1. flags \in SUBSET Latches
      BY LiftedTypes DEF TypeOK
    <3>2. "arrived" \in flags => Arrived(r)
      BY DEF Lifted, CheckBothLifted, Arrived
    <3>3. Transition(r, "DRIVE", flags) \/ Remain(r, flags)
      BY <2>4 DEF TickLift
    <3> HIDE DEF flags
    <3>4. QED BY <2>1, <3>1, <3>2, <3>3 DEF States
  <2>5. CASE TickRelease(r)
    <3> DEFINE flags == IF ReleaseReady(r)
                        THEN latched[r] \cup {"release_announced"}
                        ELSE latched[r]
               go == flags \ {"local_lifted", "aggregate_lifted"}
    <3>1. flags \in SUBSET Latches /\ go \in SUBSET Latches
      BY DEF TypeOK, Latches
    <3>2. ("arrived" \in flags => Arrived(r)) /\ ("arrived" \in go => Arrived(r))
      BY DEF Arrived
    <3>3. Transition(r, "RETURN", go) \/ Remain(r, flags)
      BY <2>5 DEF TickRelease
    <3> HIDE DEF flags, go
    <3>4. QED BY <2>1, <3>1, <3>2, <3>3 DEF States
  <2>6. CASE TickReturn(r) \/ TickTimeout(r) \/ TickFaulted(r) \/ TickFault(r)
    BY <2>6 DEF TickReturn, TickTimeout, TickFaulted, TickFault, EnterFault,
                robot, Arrived
  <2>7. QED BY <2>2, <2>3, <2>4, <2>5, <2>6 DEF Tick
<1>5. peerReady' = "LIFT" => peerReady = "LIFT" \/ Place("rear") = "ALIGN"
  <2>1. CASE TickAlign(r)
    BY <2>1 DEF TickAlign, Ticking, Coordinate, Heard, Place
  <2>2. CASE ~TickAlign(r)
    BY <2>2
    DEF Tick, TickIdle, TickApproach, TickLift, TickDrive, TickWaitRelease,
        TickRelease, TickReturn, TickTimeout, TickFaulted, TickFault,
        EnterFault, Coordinate, Heard, robot
  <2>3. QED BY <2>1, <2>2
<1>6. QED BY <1>1, <1>2, <1>3, <1>4, <1>5, PairKept

\* The way home ends the mission, and with it what Front knew of Rear.
LEMMA HomeKeepsPair ==
    ASSUME PairInv, HomeInv', NEW r \in Roles, TickReturn(r),
           Passed(r, "HOME", "return_done" \in latched[r])
    PROVE  PairInv'
<1> USE DEF PairInv, HomeInv, LoadInv, IndInv, Local, Typed
<1>1. /\ Transition(r, "IDLE", {})
      /\ mission' = [mission EXCEPT ![r] = NoMission]
      /\ UNCHANGED <<origin, atGoal>>
  BY DEF TickReturn, AfterReset, world
<1>2. mission'[r] = NoMission /\ ~Arrived(r)'
  BY <1>1 DEF Transition, Arrived, TypeOK
<1>3. \A q \in Roles \ {r} :
         /\ mission'[q] = mission[q] /\ Segment(q)' = Segment(q)
         /\ Arrived(q)' = Arrived(q)
  <2>1. \A q \in Roles \ {r} :
           /\ mission'[q] = mission[q] /\ latched'[q] = latched[q]
           /\ Place(q)' = Place(q)
    BY <1>1 DEF Transition, Place, TypeOK
  <2>2. QED BY <2>1, SegmentKept DEF Arrived
<1>4. peerReady' = NoStage
  BY <1>2 DEF InStep, ReadyIsMeant, Together, Roles
<1>5. ReadyAtCar'
  BY <1>4, BarrierAssumption DEF ReadyAtCar, Stages
<1>6. StopsTogether'
  BY <1>1, <1>2, <1>3 DEF StopsTogether
<1>7. QED BY <1>5, <1>6

LEMMA OthersKeepPair ==
    ASSUME PairInv, HomeInv', [Next]_vars, ~\E r \in Roles : Tick(r)
    PROVE  PairInv'
<1> USE DEF PairInv, HomeInv, LoadInv, IndInv, Local, Typed
<1>1. ASSUME NEW r \in Roles, FleetCb(r)
      PROVE  PairInv'
  <2>1. /\ UNCHANGED <<state, origin, latched, atGoal>>
        /\ peerReady' \in {peerReady, NoStage}
    BY <1>1 DEF FleetCb, world
  <2>2. /\ \A q \in Roles : Segment(q)' = Segment(q) /\ Arrived(q)' = Arrived(q)
        /\ Place("rear")' = Place("rear")
    BY <2>1 DEF Segment, Arrived, Place
  <2>3. mission' # mission => ~atGoal
    BY <1>1 DEF FleetCb, InStep, OfferIsFresh
  <2>4. QED
    BY <2>1, <2>2, <2>3, BarrierAssumption
    DEF ReadyAtCar, StopsTogether, Stages
<1>2. ASSUME NEW r \in Roles,
             \/ LiftCb(r) \/ ArrivedCb(r) \/ Rearm(r) \/ ServoDone(r)
             \/ MotionDone(r)
             \/ \E ready \in BOOLEAN : HardwareReadyCb(r, ready)
             \/ \E class \in FaultClass : FaultCb(r, class)
             \/ ReadyGoesStale \/ CommitCb \/ RearLiftedCb
             \/ FrontRepeatsLifted \/ FleetHearsLifted \/ FleetPlans
             \/ FleetFinishes
             \/ FleetRestarts \/ UNCHANGED vars
      PROVE  PairInv'
  <2>1. /\ UNCHANGED <<mission, atGoal>> /\ peerReady' \in {peerReady, NoStage}
    BY <1>2
    DEF LiftCb, ArrivedCb, Rearm, ServoDone, MotionDone, HardwareReadyCb,
        FaultCb, ReadyGoesStale, CommitCb, RearLiftedCb, FrontRepeatsLifted,
        FleetHearsLifted, FleetPlans, FleetFinishes, FleetRestarts, robot,
        world, vars
  <2>2. \A q \in Roles : Place(q)' = Place(q)
    <3>1. CASE Rearm(r)
      BY <3>1 DEF Rearm, Transition, Place, TypeOK
    <3>2. CASE ~Rearm(r)
      BY <1>2, <3>2
      DEF LiftCb, ArrivedCb, ServoDone, MotionDone, HardwareReadyCb, FaultCb,
          ReadyGoesStale, CommitCb, RearLiftedCb, FrontRepeatsLifted,
          FleetHearsLifted, FleetPlans, FleetFinishes, FleetRestarts, robot,
          vars, Place
    <3>3. QED BY <3>1, <3>2
  <2>3. \A q \in Roles : Arrived(q)' => Arrived(q) \/ atGoal
    <3>1. CASE LiftCb(r) \/ ArrivedCb(r) \/ Rearm(r) \/ RearLiftedCb
      BY <3>1
      DEF LiftCb, ArrivedCb, Rearm, Transition, RearLiftedCb,
          CheckBothLifted, Arrived, TypeOK, Roles
    <3>2. CASE MotionDone(r)
      BY <3>2 DEF MotionDone, Arrived, TypeOK
    <3>3. CASE ~(LiftCb(r) \/ ArrivedCb(r) \/ Rearm(r) \/ RearLiftedCb
                 \/ MotionDone(r))
      BY <1>2, <3>3
      DEF ServoDone, HardwareReadyCb, FaultCb, ReadyGoesStale, CommitCb,
          FrontRepeatsLifted, FleetHearsLifted, FleetPlans, FleetFinishes,
          FleetRestarts, robot, vars, Arrived
    <3>4. QED BY <3>1, <3>2, <3>3
  <2>4. \A q \in Roles : Segment(q)' >= Segment(q)
    BY <2>2, SegmentKept, Segments
  <2>5. "rear" \in Roles
    BY DEF Roles
  <2>6. QED
    BY <2>1, <2>2, <2>3, <2>4, <2>5, PairKept, BarrierAssumption DEF Stages
<1>3. CASE PairArrives \/ \E m \in Missions : FleetStarts(m)
  <2>1. UNCHANGED <<state, origin, latched, mission, peerReady>>
    BY <1>3 DEF PairArrives, FleetStarts, robot
  <2>2. \A q \in Roles : /\ Segment(q)' = Segment(q) /\ Place(q)' = Place(q)
                         /\ Arrived(q)' = Arrived(q)
    BY <2>1 DEF Segment, Arrived, Place
  <2>3. CASE PairArrives
    <3>1. \A q \in Roles : Segment(q) = 2
      BY <2>3, Segments DEF PairArrives, Place
    <3>2. QED
      BY <2>1, <2>2, <2>3, <3>1
      DEF PairArrives, ReadyAtCar, StopsTogether, Roles
  <2>4. CASE \E m \in Missions : FleetStarts(m)
    <3>1. ~atGoal' /\ \A q \in Roles : state[q] = "IDLE"
      BY <2>4 DEF FleetStarts
    <3>2. \A q \in Roles : Segment(q) = 0
      BY <3>1, Segments DEF Place
    <3>3. \A q \in Roles : ~Arrived(q)
      BY <3>2 DEF StopsTogether, Local, ArrivedBefore
    <3>4. QED
      BY <2>1, <2>2, <3>1, <3>3 DEF ReadyAtCar, StopsTogether, Roles
  <2>5. QED BY <1>3, <2>3, <2>4
<1>4. QED
  BY <1>1, <1>2, <1>3 DEF Next, Roles

LEMMA InitPair == Init => PairInv
<1> SUFFICES ASSUME Init PROVE PairInv
  OBVIOUS
<1>1. \A r \in Roles : ~Arrived(r)
  BY DEF Init, Arrived
<1>2. ReadyAtCar /\ StopsTogether
  BY <1>1, BarrierAssumption DEF Init, ReadyAtCar, StopsTogether, Stages
<1>3. QED BY <1>2, InitHome DEF PairInv

LEMMA NextPair == PairInv /\ [Next]_vars => PairInv'
<1> SUFFICES ASSUME PairInv, [Next]_vars PROVE PairInv'
  OBVIOUS
<1>1. HomeInv'
  BY NextHome DEF PairInv
<1>2. QED BY <1>1, TickKeepsPair, HomeKeepsPair, OthersKeepPair

\* What the servos and the pair's stop say together: an order to let go that
\* still opens jaws is one of RELEASE, which a robot enters having arrived, at
\* the goal the fleet's plan still has.
THEOREM SetDownAtGoal == Spec => SetDownOnlyAtGoal
<1>1. ASSUME PairInv, [Next]_vars, NEW r \in Roles,
             jaws[r] = "closed", jaws'[r] = "open"
      PROVE  atGoal
  <2> USE <1>1 DEF PairInv, HomeInv, LoadInv, IndInv, Local, Typed
  <2>1. PICK q \in Roles : ServoDone(q)
    <3>1. jaws' # jaws
      OBVIOUS
    <3>2. QED
      BY <3>1
      DEF Next, Tick, TickIdle, TickApproach, TickAlign, TickLift, TickDrive,
          TickWaitRelease, TickRelease, TickReturn, TickTimeout, TickFaulted,
          TickFault, EnterFault, FleetCb, LiftCb, ArrivedCb, Rearm, MotionDone,
          HardwareReadyCb, FaultCb, ReadyGoesStale, CommitCb, RearLiftedCb,
          PairArrives, FrontRepeatsLifted, FleetHearsLifted, FleetPlans,
          FleetFinishes, FleetRestarts, FleetStarts, servo, vars
  <2>2. q = r /\ order[r] = "release"
    BY <2>1 DEF ServoDone, TypeOK
  <2>3. Segment(r) = 3
    BY <2>2 DEF Grips, LateOrderIsIdle
  <2>4. Arrived(r)
    BY <2>3, Segments DEF ArrivedBefore
  <2>5. QED BY <2>4 DEF StopsTogether
<1>2. PairInv /\ [Next]_vars =>
         [\A r \in Roles :
             jaws[r] = "closed" /\ jaws'[r] = "open" => atGoal]_vars
  BY <1>1
<1>3. QED
  BY <1>2, InitPair, NextPair, PTL DEF Spec, SetDownOnlyAtGoal

\* The stages of the abstract mission, in terms of the place.
LEMMA StageOfPlace ==
    ASSUME TypeOK, NEW r \in Roles
    PROVE  /\ Place(r) \in {"IDLE", "APPROACH"} => PairStage(r) = "away"
           /\ Place(r) = "ALIGN" => PairStage(r) = "aligning"
           /\ Place(r) = "LIFT" => PairStage(r) = "lifting"
           /\ Place(r) = "DRIVE" => PairStage(r) = "driving"
           /\ Place(r) = "WAIT_RELEASE" => PairStage(r) = "waiting"
           /\ Place(r) = "RELEASE" => PairStage(r) = "releasing"
           /\ Place(r) = "RETURN" => PairStage(r) = "returning"
BY DEF PairStage, Place

LEMMA NextStageOfPlace ==
    ASSUME TypeOK', NEW r \in Roles
    PROVE  /\ Place(r)' \in {"IDLE", "APPROACH"} => PairStage(r)' = "away"
           /\ Place(r)' = "ALIGN" => PairStage(r)' = "aligning"
           /\ Place(r)' = "LIFT" => PairStage(r)' = "lifting"
           /\ Place(r)' = "DRIVE" => PairStage(r)' = "driving"
           /\ Place(r)' = "WAIT_RELEASE" => PairStage(r)' = "waiting"
           /\ Place(r)' = "RELEASE" => PairStage(r)' = "releasing"
           /\ Place(r)' = "RETURN" => PairStage(r)' = "returning"
BY DEF PairStage, Place

LEMMA StageKept ==
    ASSUME NEW r \in Roles, Place(r)' = Place(r)
    PROVE  PairStage(r)' = PairStage(r)
BY DEF PairStage, Place

\* A robot enters a stage, or nobody does.
LEMMA EntersStage ==
    ASSUME NEW r \in Roles, NEW to, PairStage(r)' = to,
           \A q \in Roles \ {r} : Place(q)' = Place(q)
    PROVE  Pair!Enter(r, to)
<1>1. \A q \in Roles \ {r} : PairStage(q)' = PairStage(q)
  BY StageKept
<1>2. QED BY <1>1 DEF Pair!Enter

LEMMA StagesStay ==
    ASSUME \A q \in Roles : Place(q)' = Place(q), UNCHANGED <<mission, jaws,
           completeWire>>
    PROVE  UNCHANGED Pair!vars
<1>1. \A q \in Roles : PairStage(q)' = PairStage(q)
  BY StageKept
<1>2. QED BY <1>1 DEF Pair!vars

\* Whoever passes a barrier is in one mission with its peer; Front leaves
\* Rear behind by one segment, and Rear catches up.
LEMMA CrossedTogether ==
    ASSUME PairInv, NEW r \in Roles, NEW stage \in Stages \ {"HOME"},
           NEW ready, Rank(stage) = Segment(r) + 1, Passed(r, stage, ready),
           mission[r] # NoMission
    PROVE  /\ Together
           /\ r = "front" =>
                 peerReady = stage /\ Segment("rear") = Segment("front")
           /\ r = "rear" => Segment("front") = Segment("rear") + 1
<1> USE DEF PairInv, HomeInv, LoadInv, IndInv, Local, Typed
<1>1. Segment("front") \in 0 .. 4 /\ Segment("rear") \in 0 .. 4
  BY Segments DEF Roles
<1>2. CASE r = "front"
  <2>1. peerReady = stage
    BY <1>2, FrontNotYetThrough DEF Passed, Commits
  <2>2. Together /\ Rank(stage) <= Segment("rear") + 1
    BY <2>1, BarrierAssumption DEF InStep, ReadyIsMeant
  <2>3. QED BY <1>1, <1>2, <2>1, <2>2 DEF InStep, OneApart
<1>3. CASE r = "rear"
  <2>1. stage \in committed["rear"]
    BY <1>3 DEF Passed, Commits
  <2>2. Together /\ Rank(stage) <= Segment("front")
    BY <1>3, <2>1, RearFollows
  <2>3. QED BY <1>1, <1>3, <2>2 DEF InStep, OneApart
<1>4. QED BY <1>2, <1>3 DEF Roles

\* Crossing a barrier is a step of the abstract mission.
LEMMA CrossingRefines ==
    ASSUME PairInv, PairInv', NEW r \in Roles,
           \A q \in Roles \ {r} : Place(q)' = Place(q),
           UNCHANGED <<mission, completeWire, jaws>>,
           \/ Crosses(r, "ALIGN", "LIFT", "LIFT")
           \/ Crosses(r, "LIFT", "DRIVE", "DRIVE")
           \/ Crosses(r, "WAIT_RELEASE", "RELEASE", "RELEASE")
           \/ Crosses(r, "RELEASE", "RETURN", "RETURN")
    PROVE  Pair!Next
<1> USE DEF PairInv, HomeInv, LoadInv, IndInv, Local, Typed
<1>1. mission[r] # NoMission
  BY WorksForMission DEF Crosses, Takes
<1>2. PICK stage \in Stages \ {"HOME"}, ready \in BOOLEAN :
         /\ Passed(r, stage, ready) /\ Rank(stage) = Segment(r) + 1
         /\ Crosses(r, "ALIGN", "LIFT", "LIFT") => stage = "LIFT"
         /\ Crosses(r, "LIFT", "DRIVE", "DRIVE") => stage = "DRIVE"
         /\ Crosses(r, "WAIT_RELEASE", "RELEASE", "RELEASE") =>
               stage = "RELEASE"
         /\ Crosses(r, "RELEASE", "RETURN", "RETURN") => stage = "RETURN"
  <2>1. /\ "LIFT" \in Stages \ {"HOME"} /\ Rank("LIFT") = 1
        /\ "DRIVE" \in Stages \ {"HOME"} /\ Rank("DRIVE") = 2
        /\ "RELEASE" \in Stages \ {"HOME"} /\ Rank("RELEASE") = 3
        /\ "RETURN" \in Stages \ {"HOME"} /\ Rank("RETURN") = 4
    BY Ranks DEF Stages
  <2>2. CASE Crosses(r, "ALIGN", "LIFT", "LIFT")
    BY <2>1, <2>2, Segments DEF Crosses, Takes
  <2>3. CASE Crosses(r, "LIFT", "DRIVE", "DRIVE")
    BY <2>1, <2>3, Segments DEF Crosses, Takes
  <2>4. CASE Crosses(r, "WAIT_RELEASE", "RELEASE", "RELEASE")
    BY <2>1, <2>4, Segments DEF Crosses, Takes
  <2>5. CASE Crosses(r, "RELEASE", "RETURN", "RETURN")
    BY <2>1, <2>5, Segments DEF Crosses, Takes
  <2>6. QED BY <2>2, <2>3, <2>4, <2>5
<1>3. /\ Together
      /\ r = "front" => peerReady = stage /\ Segment("rear") = Segment("front")
      /\ r = "rear" => Segment("front") = Segment("rear") + 1
  BY <1>1, <1>2, CrossedTogether
<1> DEFINE peer == IF r = "front" THEN "rear" ELSE "front"
<1>4. peer \in Roles \ {r} /\ Place(peer)' = Place(peer)
  BY DEF Roles
<1>5. ASSUME NEW from, NEW to, PairStage(r) = from, PairStage(r)' = to,
             PairStage(peer) = IF r = "front" THEN from ELSE to
      PROVE  Pair!Step(r, from, to)
  <2>1. Pair!Enter(r, to)
    BY <1>5, EntersStage
  <2>2. QED
    BY <1>3, <1>4, <1>5, <2>1
    DEF Pair!Step, Pair!Peer, Pair!Together, Together, Roles
<1>6. CASE Crosses(r, "ALIGN", "LIFT", "LIFT")
  <2>1. PairStage(r) = "aligning" /\ PairStage(r)' = "lifting"
    BY <1>6, StageOfPlace, NextStageOfPlace DEF Crosses, Takes
  <2>2. PairStage(peer) = IF r = "front" THEN "aligning" ELSE "lifting"
    <3>1. Segment(r) = 0
      BY <1>6, Segments DEF Crosses, Takes
    <3>2. CASE r = "front"
      <4>1. Place("rear") = "ALIGN"
        BY <1>2, <1>3, <1>6, <3>1, <3>2, Segments DEF ReadyAtCar, Roles
      <4>2. QED BY <3>2, <4>1, StageOfPlace DEF Roles
    <3>3. CASE r = "rear"
      <4>1. Place("front") = "LIFT"
        BY <1>3, <3>1, <3>3, Segments DEF Roles
      <4>2. QED BY <3>3, <4>1, StageOfPlace DEF Roles
    <3>4. QED BY <3>2, <3>3 DEF Roles
  <2>3. Pair!Lift(r)
    BY <1>5, <2>1, <2>2 DEF Pair!Lift
  <2>4. QED BY <2>3 DEF Pair!Next, Pair!Robots, Roles
<1>7. CASE Crosses(r, "LIFT", "DRIVE", "DRIVE")
  <2>1. PairStage(r) = "lifting" /\ PairStage(r)' = "driving"
    BY <1>7, StageOfPlace, NextStageOfPlace DEF Crosses, Takes
  <2>2. PairStage(peer) = IF r = "front" THEN "lifting" ELSE "driving"
    <3>1. Segment(r) = 1
      BY <1>7, Segments DEF Crosses, Takes
    <3>2. CASE r = "front"
      <4>1. Place("rear") = "LIFT"
        BY <1>3, <3>1, <3>2, Segments DEF Roles
      <4>2. QED BY <3>2, <4>1, StageOfPlace DEF Roles
    <3>3. CASE r = "rear"
      <4>1. Place("front") \in {"DRIVE", "WAIT_RELEASE"}
        BY <1>3, <3>1, <3>3, Segments DEF Roles
      <4>2. ~atGoal
        BY <1>1, <3>1, <3>3 DEF StopsTogether
      <4>3. Place("front") = "DRIVE"
        BY <4>1, <4>2 DEF ArrivedBefore, StopsTogether, Roles
      <4>4. QED BY <3>3, <4>3, StageOfPlace DEF Roles
    <3>4. QED BY <3>2, <3>3 DEF Roles
  <2>3. \A q \in Roles : jaws[q] = "closed"
    <3>1. Segment("front")' \in {1, 2} /\ Segment("rear")' \in {1, 2}
      <4>1. Segment(r)' = 2 /\ Segment(peer)' = Segment(peer)
        BY <1>4, <1>7, NextSegments, SegmentKept DEF Crosses, Takes
      <4>2. Segment(r) = 1 /\ Segment(peer) \in {1, 2}
        BY <1>3, <1>7, Segments DEF Crosses, Takes, Roles
      <4>3. QED BY <4>1, <4>2 DEF Roles
    <3>2. Together'
      BY <1>3 DEF Together
    <3>3. \A q \in Roles : Has(q, "local_lifted")'
      <4>1. Segment(r)' = 2
        BY <1>7, NextSegments DEF Crosses, Takes
      <4>2. CASE r = "front"
        BY <3>1, <3>2, <4>1, <4>2
        DEF Shared, FrontIsJustified, Grips, StageIsEarned, Roles
      <4>3. CASE r = "rear"
        <5>1. Segment("front")' = 2
          BY <1>3, <1>4, <1>7, <3>1, <4>3, Segments, SegmentKept
          DEF Crosses, Takes, Roles
        <5>2. QED
          BY <4>1, <4>3, <5>1 DEF Grips, StageIsEarned, Roles
      <4>4. QED BY <4>2, <4>3 DEF Roles
    <3>4. \A q \in Roles : jaws'[q] = "closed"
      BY <3>1, <3>3 DEF Grips, ClaimsAreTrue, Roles
    <3>5. QED BY <3>4
  <2>4. Pair!Drive(r)
    BY <1>5, <2>1, <2>2, <2>3 DEF Pair!Drive, Pair!Robots, Roles
  <2>5. QED BY <2>4 DEF Pair!Next, Pair!Robots, Roles
<1>8. CASE Crosses(r, "WAIT_RELEASE", "RELEASE", "RELEASE")
  <2>1. PairStage(r) = "waiting" /\ PairStage(r)' = "releasing"
    BY <1>8, StageOfPlace, NextStageOfPlace DEF Crosses, Takes
  <2>2. PairStage(peer) = IF r = "front" THEN "waiting" ELSE "releasing"
    <3>1. Segment(r) = 2
      BY <1>8, Segments DEF Crosses, Takes
    <3>2. CASE r = "front"
      <4>1. Place("rear") = "WAIT_RELEASE"
        BY <1>2, <1>3, <1>8, <3>1, <3>2, Segments
        DEF Shared, RearIsReady, Roles
      <4>2. QED BY <3>2, <4>1, StageOfPlace DEF Roles
    <3>3. CASE r = "rear"
      <4>1. Place("front") = "RELEASE"
        BY <1>3, <3>1, <3>3, Segments DEF Roles
      <4>2. QED BY <3>3, <4>1, StageOfPlace DEF Roles
    <3>4. QED BY <3>2, <3>3 DEF Roles
  <2>3. Pair!Release(r)
    BY <1>5, <2>1, <2>2 DEF Pair!Release
  <2>4. QED BY <2>3 DEF Pair!Next, Pair!Robots, Roles
<1>9. CASE Crosses(r, "RELEASE", "RETURN", "RETURN")
  <2>1. PairStage(r) = "releasing" /\ PairStage(r)' = "returning"
    BY <1>9, StageOfPlace, NextStageOfPlace DEF Crosses, Takes
  <2>2. PairStage(peer) = IF r = "front" THEN "releasing" ELSE "returning"
    <3>1. Segment(r) = 3
      BY <1>9, Segments DEF Crosses, Takes
    <3>2. CASE r = "front"
      <4>1. Place("rear") = "RELEASE"
        BY <1>3, <3>1, <3>2, Segments DEF Roles
      <4>2. QED BY <3>2, <4>1, StageOfPlace DEF Roles
    <3>3. CASE r = "rear"
      <4>1. Place("front") = "RETURN"
        BY <1>3, <3>1, <3>3, Segments DEF Roles
      <4>2. QED BY <3>3, <4>1, StageOfPlace DEF Roles
    <3>4. QED BY <3>2, <3>3 DEF Roles
  <2>3. \A q \in Roles : jaws[q] = "open"
    <3>1. Together' /\ Segment(r)' = 4 /\ Segment(peer)' \in 3 .. 4
      <4>1. Segment(r)' = 4 /\ Segment(peer)' = Segment(peer)
        BY <1>4, <1>9, NextSegments, SegmentKept DEF Crosses, Takes
      <4>2. Segment(r) = 3 /\ Segment(peer) \in {3, 4}
        BY <1>3, <1>9, Segments DEF Crosses, Takes, Roles
      <4>3. QED BY <1>3, <4>1, <4>2 DEF Together
    <3>2. \A q \in Roles : Has(q, "release_announced")'
      <4>1. CASE r = "front"
        BY <3>1, <4>1
        DEF Shared, FrontIsJustified, Grips, StageIsEarned, Roles
      <4>2. CASE r = "rear"
        <5>1. Segment("front")' = 4
          BY <1>3, <1>4, <1>9, <3>1, <4>2, Segments, SegmentKept
          DEF Crosses, Takes, Roles
        <5>2. QED
          BY <3>1, <4>2, <5>1 DEF Grips, StageIsEarned, Roles
      <4>3. QED BY <4>1, <4>2 DEF Roles
    <3>3. \A q \in Roles : jaws'[q] = "open"
      BY <3>2 DEF Grips, ClaimsAreTrue
    <3>4. QED BY <3>3
  <2>4. Pair!Return(r)
    BY <1>5, <2>1, <2>2, <2>3 DEF Pair!Return, Pair!Robots, Roles
  <2>5. QED BY <2>4 DEF Pair!Next, Pair!Robots, Roles
<1>10. QED BY <1>6, <1>7, <1>8, <1>9

LEMMA TickRefines ==
    ASSUME PairInv, PairInv', NEW r \in Roles, Tick(r),
           TickReturn(r) => ~Passed(r, "HOME", "return_done" \in latched[r])
    PROVE  [Pair!Next]_(Pair!vars)
<1> USE DEF PairInv, HomeInv, LoadInv, IndInv, Local, Typed
<1>1. /\ UNCHANGED <<mission, completeWire, jaws>>
      /\ \A q \in Roles \ {r} : Place(q)' = Place(q)
      /\ \/ Place(r)' = Place(r)
         \/ Takes(r, "IDLE", "APPROACH")
         \/ Takes(r, "APPROACH", "ALIGN")
         \/ Takes(r, "DRIVE", "WAIT_RELEASE") /\ Arrived(r)
         \/ Crosses(r, "ALIGN", "LIFT", "LIFT")
         \/ Crosses(r, "LIFT", "DRIVE", "DRIVE")
         \/ Crosses(r, "WAIT_RELEASE", "RELEASE", "RELEASE")
         \/ Crosses(r, "RELEASE", "RETURN", "RETURN")
  BY TickPlaces
<1>2. CASE Place(r)' = Place(r)
  BY <1>1, <1>2, StagesStay
<1>3. CASE Takes(r, "IDLE", "APPROACH")
  <2>1. PairStage(r)' = PairStage(r)
    BY <1>3, StageOfPlace, NextStageOfPlace DEF Takes
  <2>2. \A q \in Roles : PairStage(q)' = PairStage(q)
    BY <1>1, <2>1, StageKept
  <2>3. UNCHANGED Pair!vars
    BY <1>1, <2>2 DEF Pair!vars
  <2>4. QED BY <2>3
<1>4. CASE Takes(r, "APPROACH", "ALIGN")
  <2>1. /\ PairStage(r) = "away" /\ PairStage(r)' = "aligning"
        /\ mission[r] # NoMission
    BY <1>4, StageOfPlace, NextStageOfPlace, WorksForMission DEF Takes
  <2>2. Pair!Align(r)
    BY <1>1, <2>1, EntersStage DEF Pair!Align
  <2>3. QED BY <2>2 DEF Pair!Next, Pair!Robots, Roles
<1>5. CASE Takes(r, "DRIVE", "WAIT_RELEASE") /\ Arrived(r)
  <2>1. PairStage(r) = "driving" /\ PairStage(r)' = "waiting" /\ Segment(r) = 2
    BY <1>5, StageOfPlace, NextStageOfPlace, Segments DEF Takes
  <2>2. \A q \in Roles : mission[q] = NoMission \/ Segment(q) >= 2
    BY <1>5 DEF StopsTogether
  <2>3. Together
    <3>1. CASE r = "front"
      BY <2>1, <3>1 DEF Shared, NotAlone
    <3>2. CASE r = "rear"
      <4>1. Told /\ mission["rear"] # NoMission
        BY <1>5, <2>1, <3>2, WorksForMission
        DEF Shared, NotAlone, Told, Takes, Roles
      <4>2. QED BY <2>1, <3>2, <4>1 DEF InStep, LeftBehind, Together
    <3>3. QED BY <3>1, <3>2 DEF Roles
  <2>4. Segment("front") \in 2 .. 4 /\ Segment("rear") \in 2 .. 4
    BY <2>2, <2>3, Segments DEF Together, Roles
  <2>5. Segment("front") = 2 /\ Segment("rear") = 2
    <3>1. CASE r = "front"
      BY <2>1, <2>3, <2>4, <3>1 DEF InStep, OneApart
    <3>2. CASE r = "rear"
      BY <1>5, <2>1, <2>3, <2>4, <3>2
      DEF Shared, FrontIsJustified, Takes
    <3>3. QED BY <3>1, <3>2 DEF Roles
  <2>6. \A q \in Roles : Place(q) \in {"DRIVE", "WAIT_RELEASE"}
    BY <2>5, Segments DEF Roles
  <2>7. \A q \in Roles : PairStage(q) \in {"driving", "waiting"}
    BY <2>6, StageOfPlace
  <2>8. Pair!Arrive(r)
    BY <1>1, <2>1, <2>3, <2>7, EntersStage
    DEF Pair!Arrive, Pair!Together, Pair!Peer, Together, Roles
  <2>9. QED BY <2>8 DEF Pair!Next, Pair!Robots, Roles
<1>6. CASE \/ Crosses(r, "ALIGN", "LIFT", "LIFT")
           \/ Crosses(r, "LIFT", "DRIVE", "DRIVE")
           \/ Crosses(r, "WAIT_RELEASE", "RELEASE", "RELEASE")
           \/ Crosses(r, "RELEASE", "RETURN", "RETURN")
  BY <1>1, <1>6, CrossingRefines
<1>7. QED BY <1>1, <1>2, <1>3, <1>4, <1>5, <1>6

\* Front completes the mission with Rear on its way home, and Rear follows.
LEMMA HomeRefines ==
    ASSUME PairInv, PairInv', NEW r \in Roles, TickReturn(r),
           Passed(r, "HOME", "return_done" \in latched[r])
    PROVE  Pair!Next
<1> USE DEF PairInv, HomeInv, LoadInv, IndInv, Local, Typed
<1>1. /\ state[r] = "RETURN" /\ state' = [state EXCEPT ![r] = "IDLE"]
      /\ mission' = [mission EXCEPT ![r] = NoMission]
      /\ UNCHANGED <<origin, jaws>>
      /\ completeWire' = IF r = "front" THEN mission[r] ELSE completeWire
  BY DEF TickReturn, Ticking, Transition, servo
<1>2. /\ Place(r) = "RETURN" /\ Place(r)' = "IDLE"
      /\ \A q \in Roles \ {r} : Place(q)' = Place(q)
  BY <1>1 DEF Place, TypeOK
<1>3. PairStage(r) = "returning" /\ Segment(r) = 4 /\ Pair!Enter(r, "away")
  BY <1>2, StageOfPlace, NextStageOfPlace, EntersStage, Segments
<1>4. "HOME" \in Stages /\ Rank("HOME") = 5 /\ "HOME" \notin committed["front"]
  <2>1. "HOME" \in Stages /\ Rank("HOME") = 5
    BY Ranks DEF Stages
  <2>2. QED BY <2>1, Segments DEF InStep, FrontRecords, Through, Roles
<1>5. CASE r = "front"
  <2>1. peerReady = "HOME"
    BY <1>4, <1>5 DEF Passed, Commits
  <2>2. Together /\ Segment("rear") = 4
    BY <1>4, <2>1, Segments, BarrierAssumption
    DEF InStep, ReadyIsMeant, Stages, Roles
  <2>3. PairStage("rear") = "returning"
    BY <2>2, Segments, StageOfPlace DEF Roles
  <2>4. Pair!Complete
    BY <1>1, <1>3, <1>5, <2>2, <2>3
    DEF Pair!Complete, Pair!Together, Pair!Robots, Together, Roles
  <2>5. QED BY <2>4 DEF Pair!Next
<1>6. CASE r = "rear"
  <2>1. "HOME" \in committed["rear"]
    BY <1>6 DEF Passed, Commits
  <2>2. ~Together
    BY <1>4, <2>1 DEF InStep, CommitsAreFronts
  <2>3. Pair!FollowHome
    BY <1>1, <1>3, <1>6, <2>2
    DEF Pair!FollowHome, Pair!Together, Together, Roles
  <2>4. QED BY <2>3 DEF Pair!Next
<1>7. QED BY <1>5, <1>6 DEF Roles

\* A robot accepts only a mission its peer is not yet working on, and the
\* servo grips while the car is lifted and lets go while it is released.
LEMMA OthersRefine ==
    ASSUME PairInv, PairInv', [Next]_vars, ~\E r \in Roles : Tick(r)
    PROVE  [Pair!Next]_(Pair!vars)
<1> USE DEF PairInv, HomeInv, LoadInv, IndInv, Local, Typed
<1>1. ASSUME NEW r \in Roles, FleetCb(r)
      PROVE  [Pair!Next]_(Pair!vars)
  <2>1. UNCHANGED <<state, origin, jaws, completeWire>>
    BY <1>1 DEF FleetCb, servo, wires
  <2>2. \A q \in Roles : Place(q)' = Place(q)
    BY <2>1 DEF Place
  <2>3. CASE mission' = mission
    BY <2>1, <2>2, <2>3, StagesStay
  <2>4. CASE mission' # mission
    <3> DEFINE m == fleet.mission
    <3>1. /\ mission[r] = NoMission /\ m # NoMission
          /\ fleet.state = "WAIT_LIFT" /\ state[r] = "IDLE"
          /\ mission' = [mission EXCEPT ![r] = m]
      BY <1>1, <2>4 DEF FleetCb
    <3>2. m \in Missions
      BY <3>1 DEF TypeOK
    <3>3. PairStage(r) = "away"
      BY <3>1, StageOfPlace DEF Place
    <3> DEFINE peer == IF r = "front" THEN "rear" ELSE "front"
    <3>4. peer \in Roles
      BY DEF Roles
    <3>5. mission[peer] = m => Segment(peer) = 0
      BY <3>1, Segments DEF InStep, OfferIsFresh, Roles
    <3>6. mission[peer] = m => PairStage(peer) \in {"away", "aligning"}
      BY <3>4, <3>5, Segments, StageOfPlace
    <3>7. \A q \in Roles : PairStage(q)' = PairStage(q)
      BY <2>2, StageKept
    <3>8. Pair!Accept(r, m)
      BY <2>1, <3>1, <3>3, <3>6, <3>7, <3>4 DEF Pair!Accept, Pair!Peer
    <3>9. QED BY <3>2, <3>8 DEF Pair!Next, Pair!Robots, Roles
  <2>5. QED BY <2>3, <2>4
<1>2. ASSUME NEW r \in Roles, ServoDone(r)
      PROVE  [Pair!Next]_(Pair!vars)
  <2>1. /\ UNCHANGED <<state, origin, mission, completeWire>>
        /\ order[r] \in {"grip", "release"}
        /\ jaws' = [jaws EXCEPT ![r] =
                       IF order[r] = "grip" THEN "closed" ELSE "open"]
    BY <1>2 DEF ServoDone, robot, wires, TypeOK
  <2>2. \A q \in Roles : Place(q)' = Place(q)
    BY <2>1 DEF Place
  <2>3. \A q \in Roles : PairStage(q)' = PairStage(q)
    BY <2>2, StageKept
  <2>4. CASE jaws' = jaws
    BY <2>1, <2>2, <2>4, StagesStay
  <2>5. CASE jaws' # jaws /\ order[r] = "grip"
    <3>1. Segment(r) = 1
      BY <2>1, <2>5 DEF Grips, LateOrderIsIdle, TypeOK
    <3>2. PairStage(r) = "lifting"
      BY <3>1, Segments, StageOfPlace
    <3>3. \A q \in Roles : jaws'[q] = "closed" <=> jaws[q] = "closed" \/ q = r
      BY <2>1, <2>5 DEF TypeOK
    <3>4. Pair!Grip(r)
      BY <2>1, <2>3, <3>2, <3>3 DEF Pair!Grip
    <3>5. QED BY <3>4 DEF Pair!Next, Pair!Robots, Roles
  <2>6. CASE jaws' # jaws /\ order[r] = "release"
    <3>1. Segment(r) = 3
      BY <2>1, <2>6 DEF Grips, LateOrderIsIdle, TypeOK
    <3>2. PairStage(r) = "releasing"
      BY <3>1, Segments, StageOfPlace
    <3>3. \A q \in Roles : jaws'[q] = "closed" <=> jaws[q] = "closed" /\ q # r
      BY <2>1, <2>6 DEF TypeOK
    <3>4. Pair!LetGo(r)
      BY <2>1, <2>3, <3>2, <3>3 DEF Pair!LetGo
    <3>5. QED BY <3>4 DEF Pair!Next, Pair!Robots, Roles
  <2>7. QED BY <2>1, <2>4, <2>5, <2>6
<1>3. ASSUME NEW r \in Roles,
             \/ LiftCb(r) \/ ArrivedCb(r) \/ Rearm(r) \/ MotionDone(r)
             \/ \E ready \in BOOLEAN : HardwareReadyCb(r, ready)
             \/ \E class \in FaultClass : FaultCb(r, class)
             \/ ReadyGoesStale \/ CommitCb \/ RearLiftedCb
             \/ PairArrives \/ FrontRepeatsLifted \/ FleetHearsLifted
             \/ FleetPlans
             \/ FleetFinishes \/ FleetRestarts
             \/ (\E m \in Missions : FleetStarts(m)) \/ UNCHANGED vars
      PROVE  [Pair!Next]_(Pair!vars)
  <2>1. UNCHANGED <<mission, jaws, completeWire>>
    BY <1>3
    DEF LiftCb, ArrivedCb, Rearm, MotionDone, HardwareReadyCb, FaultCb,
        ReadyGoesStale, CommitCb, RearLiftedCb, PairArrives,
        FrontRepeatsLifted, FleetHearsLifted, FleetPlans, FleetFinishes,
        FleetRestarts, FleetStarts, robot, wires, servo, vars
  <2>2. \A q \in Roles : Place(q)' = Place(q)
    <3>1. CASE Rearm(r)
      BY <3>1 DEF Rearm, Transition, Place, TypeOK
    <3>2. CASE ~Rearm(r)
      BY <1>3, <3>2
      DEF LiftCb, ArrivedCb, MotionDone, HardwareReadyCb, FaultCb,
          ReadyGoesStale, CommitCb, RearLiftedCb, PairArrives,
          FrontRepeatsLifted, FleetHearsLifted, FleetPlans, FleetFinishes,
          FleetRestarts, FleetStarts, robot, vars, Place
    <3>3. QED BY <3>1, <3>2
  <2>3. QED BY <2>1, <2>2, StagesStay
<1>4. QED BY <1>1, <1>2, <1>3 DEF Next, Roles

\* The two machines, whatever is stale, lost, faulted or rearmed on the way,
\* take a car through a mission as the abstract pair does: Front first, Rear
\* one stage behind, lifted by both before either drives, on the ground before
\* either returns, completed with both on their way home.
THEOREM BarrierImplementsPair == Spec => ImplementsPairMission
<1>1. Init => PairInv
  BY InitPair
<1>2. Init => Pair!Init
  <2> SUFFICES ASSUME Init PROVE Pair!Init
    OBVIOUS
  <2>1. \A r \in Roles : PairStage(r) = "away" /\ jaws[r] # "closed"
    BY DEF Init, PairStage
  <2>2. QED BY <2>1 DEF Init, Pair!Init, Pair!Robots, Roles
<1>3. PairInv /\ [Next]_vars => PairInv'
  BY NextPair
<1>4. PairInv /\ PairInv' /\ [Next]_vars => [Pair!Next]_(Pair!vars)
  BY TickRefines, HomeRefines, OthersRefine
<1>5. QED
  BY <1>1, <1>2, <1>3, <1>4, PTL DEF Spec, ImplementsPairMission, Pair!Spec
=============================================================================
