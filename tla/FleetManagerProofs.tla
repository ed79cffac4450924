------------------------- MODULE FleetManagerProofs -------------------------
(***************************************************************************)
(* Proofs about FleetManager, for any slots, missions, vehicles, bounds,   *)
(* troubles and rearms: its types, and that all it does to the rows is to  *)
(* make calls of ParkingRegistry.  What is proved of the registry alone    *)
(* then holds of the registry inside the fleet.  Then what the rows owe to *)
(* the car that the robots carry.                                          *)
(***************************************************************************)
EXTENDS FleetManager, TLAPS

Reg == INSTANCE ParkingRegistryProofs

\* Who has a mission, and that only issued ids are about.
Bookkeeping ==
    /\ fleet.mission \in issued \cup {NoMission}
    /\ fleet.state = "WAIT_TARGET" <=> fleet.mission = NoMission
    /\ fleet.state = "WAIT_TARGET" <=> fleet.kind = "none"
    /\ fleet.unpublished # NoSlot =>
          /\ fleet.kind = "park" /\ fleet.unpublished = fleet.destination
          /\ plans < MaxPlans
    /\ fleet.kind = "retrieve" => fleet.source \in Slots
    /\ crew.mission \in issued \cup {NoMission}
    /\ crew.step # "away" => crew.mission # NoMission
    /\ \A i \in 1 .. Len(commitWire) : commitWire[i].mission \in issued

Typed == TypeOK /\ Bookkeeping

-----------------------------------------------------------------------------
(* The registry of FleetManager is the one of ParkingRegistryProofs. *)

LEMMA RegistryAssumed == Reg!RegistryAssumption
BY FleetAssumption DEF Reg!RegistryAssumption

LEMMA SameState ==
    /\ Registry!Init <=> Reg!Init
    /\ Registry!TypeOK <=> Reg!TypeOK
    /\ registry = Reg!vars
    /\ \A v : Registry!Registered(v) <=> Reg!Registered(v)
BY DEF Registry!Init, Reg!Init, Registry!AllEmpty, Reg!AllEmpty,
       Registry!EmptyRecord, Reg!EmptyRecord, Registry!TypeOK, Reg!TypeOK,
       Registry!ParkingRecord, Reg!ParkingRecord, Registry!Lifecycle,
       Reg!Lifecycle, Registry!Numbers, Reg!Numbers, registry, Reg!vars,
       Registry!Registered, Reg!Registered

LEMMA SameCalls ==
    ASSUME NEW s, NEW m, NEW v, NEW c
    PROVE  /\ Registry!ReservePark(s, m, v, c) <=> Reg!ReservePark(s, m, v, c)
           /\ Registry!RollbackUnpublishedPark(s, m) <=>
                 Reg!RollbackUnpublishedPark(s, m)
           /\ Registry!CompletePark(s, m) <=> Reg!CompletePark(s, m)
           /\ Registry!ReserveRetrieve(s, m) <=> Reg!ReserveRetrieve(s, m)
           /\ Registry!MarkRetrieveExiting(s, m) <=>
                 Reg!MarkRetrieveExiting(s, m)
           /\ Registry!CompleteRetrieve(s, m) <=> Reg!CompleteRetrieve(s, m)
<1> USE DEF Registry!RequireState, Reg!RequireState, Registry!RequireHeld,
            Reg!RequireHeld, Registry!Save, Reg!Save, Registry!IndexAllows,
            Reg!IndexAllows, Registry!EmptyRecord, Reg!EmptyRecord
<1>1. Registry!ReservePark(s, m, v, c) <=> Reg!ReservePark(s, m, v, c)
  BY DEF Registry!ReservePark, Reg!ReservePark, Registry!Registered,
         Reg!Registered
<1>2. Registry!RollbackUnpublishedPark(s, m) <=>
         Reg!RollbackUnpublishedPark(s, m)
  BY DEF Registry!RollbackUnpublishedPark, Reg!RollbackUnpublishedPark
<1>3. Registry!CompletePark(s, m) <=> Reg!CompletePark(s, m)
  BY DEF Registry!CompletePark, Reg!CompletePark
<1>4. Registry!ReserveRetrieve(s, m) <=> Reg!ReserveRetrieve(s, m)
  BY DEF Registry!ReserveRetrieve, Reg!ReserveRetrieve
<1>5. Registry!MarkRetrieveExiting(s, m) <=> Reg!MarkRetrieveExiting(s, m)
  BY DEF Registry!MarkRetrieveExiting, Reg!MarkRetrieveExiting
<1>6. Registry!CompleteRetrieve(s, m) <=> Reg!CompleteRetrieve(s, m)
  BY DEF Registry!CompleteRetrieve, Reg!CompleteRetrieve
<1>7. QED BY <1>1, <1>2, <1>3, <1>4, <1>5, <1>6

LEMMA SameLife ==
    /\ Registry!Assign <=> Reg!Assign
    /\ Registry!Crash <=> Reg!Crash
    /\ Registry!Restore <=> Reg!Restore
    /\ Registry!Refuse <=> Reg!Refuse
BY DEF Registry!Assign, Reg!Assign, Registry!Crash, Reg!Crash,
       Registry!Restore, Reg!Restore, Registry!Refuse, Reg!Refuse,
       Registry!ValidRestored, Reg!ValidRestored, Registry!AllEmpty,
       Reg!AllEmpty, Registry!EmptyRecord, Reg!EmptyRecord

LEMMA CallsAreSteps ==
    ASSUME NEW s \in Slots, NEW m \in Missions,
           \/ \E v \in Vehicles \cup {Anonymous}, c \in BOOLEAN :
                 Registry!ReservePark(s, m, v, c)
           \/ Registry!RollbackUnpublishedPark(s, m)
           \/ Registry!CompletePark(s, m)
           \/ Registry!ReserveRetrieve(s, m)
           \/ Registry!MarkRetrieveExiting(s, m)
           \/ Registry!CompleteRetrieve(s, m)
    PROVE  Reg!Next
BY SameCalls DEF Reg!Next, Reg!Numbers

\* A callback that may complete a parking.
LEMMA TryCompleteIsStep ==
    ASSUME TypeOK, NEW f, f.destination \in Slots \cup {NoSlot},
           f.mission \in Missions, TryCompletePark(f)
    PROVE  [Reg!Next]_registry
<1>1. CASE ParkComplete(f)
  BY <1>1, CallsAreSteps DEF TryCompletePark, ParkComplete
<1>2. CASE ~ParkComplete(f)
  BY <1>2 DEF TryCompletePark
<1>3. QED BY <1>1, <1>2

\* The commit at the head of the wire, noted in the node.
LEMMA CommitNoted ==
    ASSUME Typed, commitWire # <<>>,
           Head(commitWire).mission = fleet.mission,
           NEW f, f = [fleet EXCEPT !.stages = @ \cup {Head(commitWire).stage}]
    PROVE  /\ Head(commitWire) \in [mission : Missions, stage : Stages]
           /\ fleet.mission \in Missions
           /\ f.mission = fleet.mission /\ f.kind = fleet.kind
           /\ f.source = fleet.source /\ f.destination = fleet.destination
           /\ f.pose = fleet.pose /\ f.state = fleet.state
           /\ f.stages = fleet.stages \cup {Head(commitWire).stage}
           /\ f.destination \in Slots \cup {NoSlot}
           /\ f.kind = "retrieve" => f.source \in Slots
<1> DEFINE Wire == [mission : Missions, stage : Stages]
<1>1. Head(commitWire) \in Wire
  <2>1. commitWire \in Seq(Wire)
    BY DEF Typed, TypeOK
  <2> HIDE DEF Wire
  <2>2. QED BY <2>1
<1>2. fleet.mission \in Missions
  BY <1>1
<1>3. /\ fleet.destination \in Slots \cup {NoSlot}
      /\ fleet.kind = "retrieve" => fleet.source \in Slots
  BY DEF Typed, TypeOK, Bookkeeping
<1>4. /\ f.mission = fleet.mission /\ f.kind = fleet.kind
      /\ f.source = fleet.source /\ f.destination = fleet.destination
      /\ f.pose = fleet.pose /\ f.state = fleet.state
      /\ f.stages = fleet.stages \cup {Head(commitWire).stage}
  BY DEF Typed, TypeOK
<1>5. QED BY <1>1, <1>2, <1>3, <1>4

LEMMA CommitEffectIsStep ==
    ASSUME TypeOK, NEW f, NEW stage, f.destination \in Slots \cup {NoSlot},
           f.kind = "retrieve" => f.source \in Slots,
           f.mission \in Missions, CommitEffect(f, stage)
    PROVE  [Reg!Next]_registry
<1>1. CASE f.kind = "retrieve" /\ Registry!MarkRetrieveExiting(f.source, f.mission)
  BY <1>1, CallsAreSteps
<1>2. CASE f.kind = "retrieve" /\ Registry!CompleteRetrieve(f.source, f.mission)
  BY <1>2, CallsAreSteps
<1>3. CASE TryCompletePark(f)
  BY <1>3, TryCompleteIsStep
<1>4. CASE UNCHANGED registry
  BY <1>4
<1>5. QED BY <1>1, <1>2, <1>3, <1>4 DEF CommitEffect, FreesSource

LEMMA RegistryStep ==
    ASSUME Typed, [Next]_vars
    PROVE  [Reg!Next]_registry
<1> USE DEF Typed
<1>1. ASSUME NEW m \in Missions, NEW s \in Slots, StartRetrieve(m, s)
      PROVE  Reg!Next
  BY <1>1, CallsAreSteps DEF StartRetrieve
<1>2. ASSUME NEW s \in Slots, Reserve(s) PROVE Reg!Next
  <2>1. fleet.mission \in Missions /\ fleet.number \in Vehicles \cup {Anonymous}
    BY <1>2 DEF Reserve, TypeOK, Bookkeeping
  <2>2. (fleet.number # Anonymous) \in BOOLEAN
    OBVIOUS
  <2>3. QED BY <1>2, <2>1, <2>2, CallsAreSteps DEF Reserve
<1>3. CASE PublishFails
  <2>1. fleet.mission \in Missions /\ fleet.unpublished \in Slots
    BY <1>3 DEF PublishFails, TypeOK, Bookkeeping
  <2>2. QED BY <1>3, <2>1, CallsAreSteps DEF PublishFails
<1>4. CASE ArrivedCb
  <2> DEFINE f == [fleet EXCEPT !.pose = pair.plan]
  <2>1. /\ f.destination \in Slots \cup {NoSlot} /\ f.mission \in Missions
        /\ TryCompletePark(f)
    BY <1>4 DEF ArrivedCb, HeardArrival, TypeOK
  <2> HIDE DEF f
  <2>2. QED BY <2>1, TryCompleteIsStep
<1>5. CASE CommitCb
  <2> DEFINE stage == Head(commitWire).stage
             f == [fleet EXCEPT !.stages = @ \cup {stage}]
  <2>1. /\ commitWire # <<>> /\ Head(commitWire).mission = fleet.mission
        /\ UNCHANGED registry \/ CommitEffect(f, stage)
    BY <1>5 DEF CommitCb, Finalize
  <2>2. /\ f.destination \in Slots \cup {NoSlot} /\ f.mission \in Missions
        /\ f.kind = "retrieve" => f.source \in Slots
    BY <2>1, CommitNoted
  <2> HIDE DEF f
  <2>3. QED BY <2>1, <2>2, CommitEffectIsStep
<1>6. CASE CompleteCb \/ CompleteIgnored
  BY <1>6 DEF CompleteCb, CompleteIgnored, Finalize
<1>7. CASE Assign \/ Crash \/ Start
  BY <1>7, SameLife DEF Assign, Crash, Start, Reg!Next
<1>8. CASE \/ \E v \in Vehicles \cup {Anonymous}, s \in Slots \cup {NoSlot} :
                 ApprovePark(v, s)
           \/ TargetSeen \/ ApprovalLapses \/ \E m \in Missions : StartPark(m)
           \/ LiftedRepeated \/ LiftedCb \/ StartPlanning \/ PublishPark \/ PlanRetrieve
           \/ SyncFault \/ Rearm \/ CommitIgnored
  BY <1>8 DEF ApprovePark, TargetSeen, ApprovalLapses, StartPark, LiftedRepeated, LiftedCb,
              StartPlanning, PublishPark, PlanRetrieve, SyncFault, Rearm,
              CommitIgnored
<1>9. CASE \/ CrewEnters \/ CrewLifts \/ CrewCommitsDrive \/ PairArrives
           \/ CrewCommitsRelease \/ CrewCommitsReturn \/ CrewCommitsHome
           \/ CrewRestarts
  BY <1>9 DEF CrewEnters, CrewLifts, CrewCommitsDrive, PairArrives,
              CrewCommitsRelease, CrewCommitsReturn, CrewCommitsHome,
              CrewRestarts
<1>10. CASE UNCHANGED vars
  BY <1>10 DEF vars, registry
<1>11. QED
  BY <1>1, <1>2, <1>3, <1>4, <1>5, <1>6, <1>7, <1>8, <1>9, <1>10 DEF Next

-----------------------------------------------------------------------------
(* Types. *)

\* The node's fields and the wire, as TypeOK has them.
NodeType(p) ==
    [state : {"WAIT_TARGET", "WAIT_LIFT", "PLAN_PATH", "NAVIGATING",
              "FAULT"},
     mission : Missions \cup {NoMission},
     kind : Kinds \cup {"none"},
     source : Slots \cup {NoSlot}, destination : Slots \cup {NoSlot},
     requested : Slots \cup {NoSlot}, number : Vehicles \cup {Anonymous},
     approved : BOOLEAN, target : BOOLEAN, lifted : BOOLEAN,
     plan : 0 .. p, pose : 0 .. p, stages : SUBSET Stages,
     completion : BOOLEAN, unpublished : Slots \cup {NoSlot}]

PairType(p) == [plan : 0 .. p, mission : Missions \cup {NoMission},
                slot : Slots \cup {NoSlot}, arrived : BOOLEAN]

SpotType(p) == [plan : 0 .. p, slot : Slots \cup {NoSlot}]

CrewType == [mission : Missions \cup {NoMission}, step : Steps]

Sent == [mission : Missions, stage : Stages]

\* What TypeOK says besides the registry and the lifted flag.
FleetTypes ==
    /\ fleet \in NodeType(plans)
    /\ crew \in CrewType
    /\ pair \in PairType(plans)
    /\ commitWire \in Seq(Sent)
    /\ completeWire \in Missions \cup {NoMission}
    /\ plans \in 0 .. MaxPlans
    /\ dropped \in [Missions -> SpotType(plans)]
    /\ issued \subseteq Missions
    /\ completed \subseteq issued
    /\ missed \subseteq Missions

FlagType == liftedWire \in BOOLEAN

LEMMA TypeParts == TypeOK <=> Registry!TypeOK /\ FleetTypes /\ FlagType
BY DEF FlagType, TypeOK, FleetTypes, NodeType, PairType, SpotType, CrewType, Sent

LEMMA FreshTypes == ASSUME NEW p \in Nat PROVE Fresh \in NodeType(p)
BY DEF Fresh, NodeType

LEMMA MorePlans ==
    ASSUME NEW p \in Nat
    PROVE  /\ NodeType(p) \subseteq NodeType(p + 1)
           /\ PairType(p) \subseteq PairType(p + 1)
           /\ SpotType(p) \subseteq SpotType(p + 1)
<1>1. 0 .. p \subseteq 0 .. (p + 1)
  OBVIOUS
<1>2. NodeType(p) \subseteq NodeType(p + 1)
  BY <1>1 DEF NodeType
<1>3. QED BY <1>1, <1>2 DEF PairType, SpotType

\* Steps that change no more than the node, and issue no path.
LEMMA NodeSteps ==
    ASSUME FleetTypes, Bookkeeping,
           \/ \E v \in Vehicles \cup {Anonymous}, s \in Slots \cup {NoSlot} :
                 ApprovePark(v, s)
           \/ TargetSeen \/ ApprovalLapses \/ LiftedRepeated \/ LiftedCb \/ StartPlanning
           \/ \E s \in Slots : Reserve(s)
           \/ PublishFails \/ ArrivedCb \/ Rearm
    PROVE  FleetTypes' /\ Bookkeeping'
<1>1. UNCHANGED <<crew, pair, commitWire, completeWire, issued, plans,
                  dropped, completed, missed>>
  BY DEF ApprovePark, TargetSeen, ApprovalLapses, LiftedRepeated, LiftedCb, StartPlanning,
         Reserve, PublishFails, ArrivedCb, Rearm, topics, history
<1>0. fleet \in NodeType(plans)
  BY DEF FleetTypes
<1>2. /\ fleet' \in NodeType(plans)
      /\ fleet'.mission = fleet.mission /\ fleet'.kind = fleet.kind
      /\ fleet'.source = fleet.source
      /\ fleet'.state = "WAIT_TARGET" <=> fleet.state = "WAIT_TARGET"
      /\ \/ /\ fleet'.unpublished = fleet.unpublished
            /\ fleet'.destination = fleet.destination
         \/ fleet'.unpublished = NoSlot
         \/ /\ fleet'.unpublished = fleet'.destination
            /\ fleet.kind = "park" /\ plans < MaxPlans
  <2>1. ASSUME NEW v \in Vehicles \cup {Anonymous},
               NEW s \in Slots \cup {NoSlot}, ApprovePark(v, s)
        PROVE  <1>2!:
    <3>1. fleet' = [fleet EXCEPT !.approved = TRUE, !.number = v,
                                 !.requested = s]
      BY <2>1 DEF ApprovePark
    <3>2. QED BY <1>0, <3>1 DEF NodeType
  <2>2. CASE TargetSeen
    <3>1. fleet' = [fleet EXCEPT !.target = TRUE]
      BY <2>2 DEF TargetSeen
    <3>2. QED BY <1>0, <3>1 DEF NodeType
  <2>3. CASE ApprovalLapses
    <3>1. PICK target \in BOOLEAN :
             fleet' = [fleet EXCEPT !.approved = FALSE, !.number = Anonymous,
                                    !.requested = NoSlot, !.target = target]
      BY <1>0, <2>3 DEF ApprovalLapses, NodeType
    <3>2. CASE target = TRUE
      BY <1>0, <3>1, <3>2 DEF NodeType
    <3>3. CASE target = FALSE
      BY <1>0, <3>1, <3>3 DEF NodeType
    <3>4. QED BY <3>2, <3>3
  <2>4. CASE LiftedCb
    <3>1. fleet' = [fleet EXCEPT !.lifted = TRUE]
      BY <2>4 DEF LiftedCb
    <3>2. QED BY <1>0, <3>1 DEF NodeType
  <2>5. CASE StartPlanning \/ Rearm
    <3>1. /\ fleet' = [fleet EXCEPT !.state = "PLAN_PATH"]
          /\ fleet.state # "WAIT_TARGET"
      BY <2>5 DEF StartPlanning, Rearm
    <3>2. QED BY <1>0, <3>1 DEF NodeType
  <2>6. ASSUME NEW s \in Slots, Reserve(s) PROVE <1>2!:
    <3>1. /\ fleet' = [fleet EXCEPT !.destination = s, !.unpublished = s]
          /\ fleet.kind = "park" /\ plans < MaxPlans
      BY <2>6 DEF Reserve
    <3>2. QED BY <1>0, <3>1 DEF NodeType
  <2>7. CASE PublishFails
    <3>1. fleet' = [fleet EXCEPT !.destination = NoSlot,
                                 !.unpublished = NoSlot]
      BY <2>7 DEF PublishFails
    <3>2. QED BY <1>0, <3>1 DEF NodeType
  <2>8. CASE ArrivedCb
    <3>1. /\ fleet' = [fleet EXCEPT !.pose = pair.plan]
          /\ pair.plan \in 0 .. plans
      BY <2>8 DEF ArrivedCb, FleetTypes, PairType
    <3>2. QED BY <1>0, <3>1 DEF NodeType
  <2>9. CASE LiftedRepeated
    BY <1>0, <2>9 DEF LiftedRepeated
  <2>10. QED
    BY <2>1, <2>2, <2>3, <2>4, <2>5, <2>6, <2>7, <2>8, <2>9
<1>3. FleetTypes'
  BY <1>1, <1>2 DEF FleetTypes
<1>4. Bookkeeping'
  BY <1>1, <1>2 DEF Bookkeeping
<1>5. QED BY <1>3, <1>4

\* A new mission.
LEMMA StartSteps ==
    ASSUME FleetTypes, Bookkeeping, NEW m \in Missions,
           StartPark(m) \/ \E s \in Slots : StartRetrieve(m, s)
    PROVE  FleetTypes' /\ Bookkeeping'
<1>1. /\ UNCHANGED <<crew, pair, commitWire, completeWire, plans, dropped,
                     completed, missed>>
      /\ issued' = issued \cup {m}
  BY DEF StartPark, StartRetrieve, topics
<1>2. /\ fleet' \in NodeType(plans)
      /\ fleet'.state # "WAIT_TARGET" /\ fleet'.mission = m
      /\ fleet'.kind = "park" \/ (fleet'.kind = "retrieve" /\ fleet'.source \in Slots)
      /\ fleet'.unpublished = NoSlot
  <2>1. CASE StartPark(m)
    BY <2>1 DEF StartPark, Free, FleetTypes, NodeType, Kinds
  <2>2. ASSUME NEW s \in Slots, StartRetrieve(m, s) PROVE <1>2!:
    <3>1. /\ fleet \in NodeType(plans) /\ fleet.unpublished = NoSlot
          /\ fleet' = [fleet EXCEPT !.state = "WAIT_LIFT", !.mission = m,
                                    !.kind = "retrieve", !.source = s,
                                    !.target = TRUE]
      BY <2>2 DEF StartRetrieve, Free, FleetTypes
    <3>2. QED BY <3>1 DEF NodeType, Kinds
  <2>3. QED BY <2>1, <2>2
<1>3. FleetTypes'
  BY <1>1, <1>2 DEF FleetTypes
<1>4. Bookkeeping'
  BY <1>1, <1>2, FleetAssumption DEF Bookkeeping
<1>5. QED BY <1>3, <1>4

LEMMA PublishSteps ==
    ASSUME FleetTypes, Bookkeeping, PublishPark \/ PlanRetrieve
    PROVE  FleetTypes' /\ Bookkeeping'
<1>1. /\ UNCHANGED <<crew, commitWire, completeWire, issued, dropped,
                     completed, missed>>
      /\ plans < MaxPlans
  BY DEF PublishPark, PlanRetrieve, topics, Bookkeeping
<1>2. PICK s \in Slots \cup {NoSlot} : PublishPath(s)
  BY DEF PublishPark, PlanRetrieve, FleetTypes, NodeType
<1>3. /\ plans \in Nat /\ plans' = plans + 1 /\ plans' \in 0 .. MaxPlans
      /\ plans' \in 0 .. plans'
  BY <1>1, <1>2, FleetAssumption DEF FleetTypes, PublishPath
<1>4. /\ fleet \in NodeType(plans') /\ pair \in PairType(plans')
      /\ dropped \in [Missions -> SpotType(plans')]
  <2>1. /\ NodeType(plans) \subseteq NodeType(plans')
        /\ SpotType(plans) \subseteq SpotType(plans')
        /\ PairType(plans) \subseteq PairType(plans')
    BY <1>3, MorePlans
  <2>2. QED BY <2>1 DEF FleetTypes
<1>5. fleet' = [fleet EXCEPT !.state = "NAVIGATING", !.plan = plans',
                             !.unpublished = NoSlot]
  BY <1>2 DEF PublishPath
<1>6. fleet' \in NodeType(plans')
  <2> DEFINE p == plans'
  <2>1. /\ fleet \in NodeType(p) /\ p \in 0 .. p
        /\ fleet' = [fleet EXCEPT !.state = "NAVIGATING", !.plan = p,
                                  !.unpublished = NoSlot]
    BY <1>3, <1>4, <1>5
  <2> HIDE DEF p
  <2>2. fleet' \in NodeType(p)
    BY <2>1 DEF NodeType
  <2>3. QED BY <2>2 DEF p
<1>7. pair' \in PairType(plans')
  <2>1. fleet.mission \in Missions \cup {NoMission}
    BY DEF FleetTypes, NodeType
  <2>2. QED BY <1>2, <1>3, <2>1 DEF PublishPath, PairType
<1>8. FleetTypes'
  BY <1>1, <1>3, <1>4, <1>6, <1>7 DEF FleetTypes
<1>9. /\ fleet'.mission = fleet.mission /\ fleet'.kind = fleet.kind
      /\ fleet'.source = fleet.source /\ fleet'.state # "WAIT_TARGET"
      /\ fleet'.unpublished = NoSlot
  BY <1>5 DEF FleetTypes, NodeType
<1>10. fleet.kind # "none"
  BY DEF PublishPark, PlanRetrieve, Bookkeeping
<1>11. Bookkeeping'
  BY <1>1, <1>9, <1>10 DEF Bookkeeping
<1>12. QED BY <1>8, <1>11

LEMMA FaultTypes ==
    ASSUME FleetTypes, Bookkeeping, SyncFault
    PROVE  FleetTypes' /\ Bookkeeping'
<1>1. /\ UNCHANGED <<crew, commitWire, completeWire, issued, plans, dropped,
                     completed, missed>>
      /\ pair' = NoPath
      /\ \/ fleet' = fleet
         \/ fleet.mission # NoMission /\ fleet' = [fleet EXCEPT !.state = "FAULT"]
  BY DEF SyncFault, topics, history
<1>2. plans \in Nat /\ NoPath \in PairType(plans)
  BY FleetAssumption DEF FleetTypes, NoPath, PairType
<1>3. FleetTypes'
  BY <1>1, <1>2 DEF FleetTypes, NodeType
<1>4. Bookkeeping'
  BY <1>1 DEF Bookkeeping, FleetTypes, NodeType
<1>5. QED BY <1>3, <1>4

LEMMA ReportTypes ==
    ASSUME FleetTypes, Bookkeeping, CommitCb \/ CommitIgnored \/ CompleteCb \/ CompleteIgnored
    PROVE  FleetTypes' /\ Bookkeeping'
<1>1. UNCHANGED <<crew, pair, issued, plans, dropped>>
  BY DEF CommitCb, CommitIgnored, CompleteCb, CompleteIgnored
<1>2. /\ commitWire' \in Seq(Sent)
      /\ \A i \in 1 .. Len(commitWire') : commitWire'[i].mission \in issued
      /\ commitWire # <<>> =>
            Head(commitWire) \in Sent /\ Head(commitWire).mission \in issued
  <2>1. commitWire \in Seq(Sent)
    BY DEF FleetTypes
  <2>2. CASE commitWire = <<>> \/ CompleteCb \/ CompleteIgnored
    BY <2>1, <2>2 DEF CommitCb, CommitIgnored, CompleteCb, CompleteIgnored, Bookkeeping
  <2>3. CASE commitWire # <<>> /\ commitWire' = Tail(commitWire)
    <3>1. /\ Len(commitWire) \in Nat \ {0}
          /\ Len(commitWire') = Len(commitWire) - 1
          /\ \A i \in 1 .. Len(commitWire') :
                commitWire'[i] = commitWire[i + 1]
          /\ Head(commitWire) = commitWire[1]
          /\ commitWire' \in Seq(Sent) /\ Head(commitWire) \in Sent
      BY <2>1, <2>3
    <3>2. QED BY <3>1 DEF Bookkeeping
  <2>4. QED BY <2>2, <2>3 DEF CommitCb, CommitIgnored
<1>3. /\ completeWire' \in Missions \cup {NoMission}
      /\ missed' \subseteq Missions
  BY <1>2 DEF CommitCb, CommitIgnored, CompleteCb, CompleteIgnored,
            FleetTypes, Sent
<1>4. \/ fleet' = fleet /\ completed' = completed
      \/ /\ fleet.mission # NoMission
         /\ fleet' = Fresh
         /\ completed' = completed \cup {fleet.mission}
      \/ /\ commitWire # <<>> /\ completed' = completed
         /\ fleet' = [fleet EXCEPT !.stages = @ \cup {Head(commitWire).stage}]
      \/ /\ fleet' = [fleet EXCEPT !.completion = TRUE]
         /\ completed' = completed
  <2>1. CASE CommitCb
    <3>1. fleet.mission # NoMission
      BY <1>2, <2>1, FleetAssumption DEF CommitCb, Sent
    <3>2. QED BY <2>1, <3>1 DEF CommitCb, Finalize
  <2>2. CASE CommitIgnored \/ CompleteCb \/ CompleteIgnored
    BY <2>2 DEF CommitIgnored, CompleteCb, CompleteIgnored, Finalize
  <2>3. QED BY <2>1, <2>2
<1>5. /\ fleet' \in NodeType(plans)
      /\ completed' \subseteq issued
      /\ \/ fleet' = Fresh
         \/ /\ fleet'.mission = fleet.mission /\ fleet'.kind = fleet.kind
            /\ fleet'.source = fleet.source
            /\ fleet'.state = fleet.state
            /\ fleet'.unpublished = fleet.unpublished
            /\ fleet'.destination = fleet.destination
  <2>1. plans \in Nat /\ fleet \in NodeType(plans) /\ completed \subseteq issued
    BY FleetAssumption DEF FleetTypes
  <2>2. CASE fleet' = fleet /\ completed' = completed
    BY <2>1, <2>2
  <2>3. CASE /\ fleet.mission # NoMission
             /\ fleet' = Fresh
             /\ completed' = completed \cup {fleet.mission}
    BY <2>1, <2>3, FreshTypes DEF Bookkeeping
  <2>4. CASE /\ commitWire # <<>> /\ completed' = completed
             /\ fleet' = [fleet EXCEPT !.stages = @ \cup {Head(commitWire).stage}]
    <3>1. Head(commitWire).stage \in Stages
      BY <1>2, <2>4 DEF Sent
    <3>2. QED BY <2>1, <2>4, <3>1 DEF NodeType
  <2>5. CASE /\ fleet' = [fleet EXCEPT !.completion = TRUE]
             /\ completed' = completed
    BY <2>1, <2>5 DEF NodeType
  <2>6. QED BY <1>4, <2>2, <2>3, <2>4, <2>5
<1>6. FleetTypes'
  BY <1>1, <1>2, <1>3, <1>5 DEF FleetTypes
<1>7. Bookkeeping'
  <2>1. CASE fleet' = Fresh
    BY <1>1, <1>2, <2>1 DEF Bookkeeping, Fresh
  <2>2. CASE fleet' # Fresh
    BY <1>1, <1>2, <1>5, <2>2 DEF Bookkeeping
  <2>3. QED BY <2>1, <2>2
<1>8. QED BY <1>6, <1>7

LEMMA CrewTypes ==
    ASSUME FleetTypes, Bookkeeping,
           \/ CrewEnters \/ CrewLifts \/ CrewCommitsDrive \/ PairArrives
           \/ CrewCommitsRelease \/ CrewCommitsReturn \/ CrewCommitsHome
           \/ CrewRestarts
    PROVE  FleetTypes' /\ Bookkeeping'
<1>1. UNCHANGED <<fleet, issued, plans, completed, missed>>
  BY DEF CrewEnters, CrewLifts, CrewCommitsDrive, PairArrives,
         CrewCommitsRelease, CrewCommitsReturn, CrewCommitsHome,
         CrewRestarts, history
<1>2. /\ crew' \in CrewType
      /\ crew'.mission \in issued \cup {NoMission}
      /\ crew'.step # "away" => crew'.mission # NoMission
  <2>1. CASE CrewEnters
    BY <2>1 DEF CrewEnters, FleetTypes, NodeType, CrewType, Steps, Bookkeeping
  <2>2. CASE CrewLifts \/ CrewCommitsDrive \/ CrewCommitsRelease
             \/ CrewCommitsReturn
    BY <2>2
    DEF CrewLifts, CrewCommitsDrive, CrewCommitsRelease, CrewCommitsReturn,
        FleetTypes, CrewType, Steps, Bookkeeping
  <2>3. CASE CrewCommitsHome \/ CrewRestarts
    BY <2>3
    DEF CrewCommitsHome, CrewRestarts, Away, CrewType, Steps
  <2>4. CASE PairArrives
    BY <2>4 DEF PairArrives, FleetTypes, Bookkeeping
  <2>5. QED BY <2>1, <2>2, <2>3, <2>4
<1>3. pair' \in PairType(plans)
  BY DEF CrewEnters, CrewLifts, CrewCommitsDrive, PairArrives,
         CrewCommitsRelease, CrewCommitsReturn, CrewCommitsHome,
         CrewRestarts, FleetTypes, PairType
<1>4. dropped' \in [Missions -> SpotType(plans)]
  <2>1. CASE CrewCommitsReturn
    <3>1. [plan |-> pair.plan, slot |-> pair.slot] \in SpotType(plans)
      BY DEF FleetTypes, PairType, SpotType
    <3>2. QED BY <2>1, <3>1 DEF CrewCommitsReturn, FleetTypes
  <2>2. CASE ~CrewCommitsReturn
    BY <2>2
    DEF CrewEnters, CrewLifts, CrewCommitsDrive, PairArrives,
        CrewCommitsRelease, CrewCommitsHome, CrewRestarts, history, FleetTypes
  <2>3. QED BY <2>1, <2>2
<1>5. /\ commitWire' \in Seq(Sent)
      /\ \A i \in 1 .. Len(commitWire') : commitWire'[i].mission \in issued
  <2>1. commitWire \in Seq(Sent)
    BY DEF FleetTypes
  <2>2. ASSUME NEW stage \in Stages, Commit(stage), crew.step # "away"
        PROVE  /\ commitWire' \in Seq(Sent)
               /\ \A i \in 1 .. Len(commitWire') :
                     commitWire'[i].mission \in issued
    <3> DEFINE c == [mission |-> crew.mission, stage |-> stage]
    <3>1. c \in Sent /\ c.mission \in issued
      BY <2>2 DEF Bookkeeping, FleetTypes, Sent
    <3>2. commitWire' = Append(commitWire, c)
      BY <2>2 DEF Commit
    <3>3. \A i \in 1 .. Len(commitWire) : commitWire[i].mission \in issued
      BY DEF Bookkeeping
    <3> HIDE DEF c
    <3>4. /\ commitWire' \in Seq(Sent)
          /\ Len(commitWire) \in Nat
          /\ Len(commitWire') = Len(commitWire) + 1
          /\ \A i \in 1 .. Len(commitWire) : commitWire'[i] = commitWire[i]
          /\ commitWire'[Len(commitWire) + 1] = c
      BY <2>1, <3>1, <3>2
    <3>5. ASSUME NEW i \in 1 .. Len(commitWire')
          PROVE  commitWire'[i].mission \in issued
      <4>1. i \in 1 .. Len(commitWire) \/ i = Len(commitWire) + 1
        BY <3>4
      <4>2. QED BY <3>1, <3>3, <3>4, <4>1
    <3>6. QED BY <3>4, <3>5
  <2>3. CASE CrewEnters \/ CrewLifts \/ PairArrives \/ CrewRestarts
    BY <2>1, <2>3
    DEF CrewEnters, CrewLifts, PairArrives, CrewRestarts, topics, Bookkeeping
  <2>4. CASE CrewCommitsDrive
    BY <2>2, <2>4 DEF CrewCommitsDrive, Stages
  <2>5. CASE CrewCommitsRelease
    BY <2>2, <2>5 DEF CrewCommitsRelease, Stages
  <2>6. CASE CrewCommitsReturn
    BY <2>2, <2>6 DEF CrewCommitsReturn, Stages
  <2>7. CASE CrewCommitsHome
    BY <2>2, <2>7 DEF CrewCommitsHome, Stages
  <2>8. QED BY <2>3, <2>4, <2>5, <2>6, <2>7
<1>6. completeWire' \in Missions \cup {NoMission}
  BY DEF CrewEnters, CrewLifts, CrewCommitsDrive, PairArrives,
         CrewCommitsRelease, CrewCommitsReturn, CrewCommitsHome,
         CrewRestarts, topics, FleetTypes, CrewType
<1>7. FleetTypes'
  BY <1>1, <1>2, <1>3, <1>4, <1>5, <1>6 DEF FleetTypes
<1>8. Bookkeeping'
  BY <1>1, <1>2, <1>5 DEF Bookkeeping
<1>9. QED BY <1>7, <1>8

LEMMA LifeTypes ==
    ASSUME FleetTypes, Bookkeeping, Assign \/ Crash \/ Start
    PROVE  FleetTypes' /\ Bookkeeping'
<1>1. /\ UNCHANGED <<crew, pair, commitWire, completeWire, issued, plans,
                     dropped, completed, missed>>
      /\ fleet' = fleet \/ fleet' = Fresh
  BY DEF Assign, Crash, Start, topics, history
<1>2. fleet' \in NodeType(plans)
  BY <1>1, FreshTypes, FleetAssumption DEF FleetTypes
<1>3. FleetTypes'
  BY <1>1, <1>2 DEF FleetTypes
<1>4. CASE fleet' = Fresh
  BY <1>1, <1>3, <1>4 DEF Bookkeeping, Fresh
<1>5. CASE fleet' = fleet
  BY <1>1, <1>3, <1>5 DEF Bookkeeping
<1>6. QED BY <1>1, <1>3, <1>4, <1>5

LEMMA TypesKept ==
    ASSUME FleetTypes, Bookkeeping, [Next]_vars
    PROVE  FleetTypes' /\ Bookkeeping'
<1>1. CASE UNCHANGED vars
  BY <1>1 DEF vars, FleetTypes, Bookkeeping
<1>2. CASE Next
  BY <1>2, NodeSteps, StartSteps, PublishSteps, FaultTypes, ReportTypes,
     CrewTypes, LifeTypes DEF Next
<1>3. QED BY <1>1, <1>2

\* The flag on its way is set by a repetition, and cleared when it is heard or
\* lost.
LEMMA FlagKept == FlagType /\ [Next]_vars => FlagType'
<1> SUFFICES ASSUME FlagType, [Next]_vars PROVE FlagType'
  OBVIOUS
<1>1. CASE LiftedRepeated \/ LiftedCb \/ Crash
  BY <1>1 DEF LiftedRepeated, LiftedCb, Crash, FlagType
<1>2. CASE \/ \E v \in Vehicles \cup {Anonymous}, s \in Slots \cup {NoSlot} :
                 ApprovePark(v, s)
           \/ TargetSeen \/ ApprovalLapses \/ \E m \in Missions : StartPark(m)
           \/ \E m \in Missions, s \in Slots : StartRetrieve(m, s)
           \/ StartPlanning \/ \E s \in Slots : Reserve(s)
           \/ PublishPark \/ PublishFails \/ PlanRetrieve
  BY <1>2
  DEF ApprovePark, TargetSeen, ApprovalLapses, StartPark, StartRetrieve,
      StartPlanning, Reserve, PublishPark, PublishFails, PlanRetrieve, topics,
      FlagType
<1>3. CASE \/ ArrivedCb \/ SyncFault \/ Rearm \/ CommitCb \/ CommitIgnored
           \/ CompleteCb \/ CompleteIgnored
  BY <1>3
  DEF ArrivedCb, SyncFault, Rearm, CommitCb, CommitIgnored, CompleteCb,
      CompleteIgnored, topics, FlagType
<1>4. CASE \/ CrewEnters \/ CrewLifts \/ CrewCommitsDrive \/ PairArrives
           \/ CrewCommitsRelease \/ CrewCommitsReturn \/ CrewCommitsHome
           \/ CrewRestarts \/ Assign \/ Start
  BY <1>4
  DEF CrewEnters, CrewLifts, CrewCommitsDrive, PairArrives,
      CrewCommitsRelease, CrewCommitsReturn, CrewCommitsHome, CrewRestarts,
      Assign, Start, topics, FlagType
<1>5. CASE UNCHANGED vars
  BY <1>5 DEF vars, FlagType
<1>6. QED BY <1>1, <1>2, <1>3, <1>4, <1>5 DEF Next

LEMMA TypesAtStart == Init => FleetTypes /\ Bookkeeping
<1> SUFFICES ASSUME Init PROVE FleetTypes /\ Bookkeeping
  OBVIOUS
<1>1. /\ fleet \in NodeType(plans) /\ crew \in CrewType
      /\ pair \in PairType(plans)
      /\ dropped \in [Missions -> SpotType(plans)]
  BY FreshTypes
  DEF Init, Away, CrewType, Steps, NoPath, PairType, Nowhere, SpotType
<1>2. commitWire \in Seq(Sent) /\ Len(commitWire) = 0
  BY DEF Init
<1>3. FleetTypes
  BY <1>1, <1>2, FleetAssumption DEF Init, FleetTypes
<1>4. Bookkeeping
  BY <1>2 DEF Init, Bookkeeping, Fresh, Away
<1>5. QED BY <1>3, <1>4

-----------------------------------------------------------------------------
(* The theorems. *)

\* The invariant: the registry's and the fleet's own types.
Joint == Reg!IndInv /\ FleetTypes /\ FlagType /\ Bookkeeping

LEMMA JointIsTyped == Joint => Typed
BY TypeParts, SameState DEF Joint, Typed, Reg!IndInv

LEMMA JointAtStart == Init => Joint
<1>1. Init => Reg!Init
  BY SameState DEF Init
<1>2. Reg!Init => Reg!IndInv
  BY RegistryAssumed, Reg!InitEstablishes
<1>3. Init => FlagType
  BY DEF Init, FlagType
<1>4. QED BY <1>1, <1>2, <1>3, TypesAtStart DEF Joint

LEMMA JointKept == Joint /\ [Next]_vars => Joint' /\ [Reg!Next]_registry
<1> SUFFICES ASSUME Joint, [Next]_vars
             PROVE  Joint' /\ [Reg!Next]_registry
  OBVIOUS
<1>1. [Reg!Next]_registry
  BY JointIsTyped, RegistryStep
<1>2. [Reg!Next]_(Reg!vars)
  BY <1>1 DEF registry, Reg!vars
<1>3. Reg!IndInv'
  BY <1>2, RegistryAssumed, Reg!NextPreserves DEF Joint
<1>4. QED BY <1>1, <1>3, TypesKept, FlagKept DEF Joint

THEOREM JointInvariant == Spec => []Joint
<1>1. QED BY JointAtStart, JointKept, PTL DEF Spec

\* Every field of the node, the crew, the topics and the rows keeps its type.
THEOREM FleetTypeCorrect == Spec => []TypeOK
<1>1. Joint => TypeOK
  BY JointIsTyped DEF Typed
<1>2. QED BY <1>1, JointInvariant, PTL

\* The fleet changes the rows only by calls of the registry: everything
\* proved of every behaviour of ParkingRegistry holds of the rows while
\* missions, faults and crashes go on around them.
THEOREM FleetUsesRegistry == Spec => Reg!Spec
<1>1. Init => Reg!Init
  BY SameState DEF Init
<1>2. Joint /\ [Next]_vars => [Reg!Next]_(Reg!vars)
  BY JointKept DEF registry, Reg!vars
<1>3. QED BY <1>1, <1>2, JointInvariant, PTL DEF Spec, Reg!Spec

\* Of the rows inside the fleet: no number in two rows, no row half written,
\* and a car set down stays recorded until a retrieval ends.
THEOREM FleetKeepsRows ==
    Spec => /\ []Reg!OneSlotPerVehicle
            /\ []Reg!RowsWellFormed
            /\ Reg!PlacedCarIsNotLost
BY RegistryAssumed, FleetUsesRegistry, Reg!VehiclesAreUnique,
   Reg!RowsAreWellFormed, Reg!PlacedCarsStay, PTL

\* Of the rows inside the fleet: each slot walks the abstract lifecycle, and no
\* mission takes over a slot another one holds.  The node, the two topics and
\* the restarts of the fleet are invisible in it.
THEOREM FleetImplementsLifecycle == Spec => Reg!ImplementsSlotLifecycle
BY RegistryAssumed, FleetUsesRegistry, Reg!RegistryImplementsLifecycle, PTL

-----------------------------------------------------------------------------
(***************************************************************************)
(* What the rows owe to the mission in hand, for any slots, missions,      *)
(* vehicles, bounds and troubles, provided that no parking is rearmed      *)
(* after a sync fault (the rearm of a parking reserves a second slot).     *)
(***************************************************************************)

\* A row in hand is the destination of a parking or the source of a
\* retrieval.
InHand(s) ==
    \/ fleet.kind = "park" /\ s = fleet.destination
    \/ fleet.kind = "retrieve" /\ s = fleet.source

RowsAreFleets ==
    node = "up" =>
        \A s \in Slots :
            disk[s].mission # NoMission =>
               disk[s].mission = fleet.mission /\ InHand(s)

\* The rows are cut off from the fleet by a crash; there is one at most.
OneRowHeld ==
    \A s, t \in Slots :
        disk[s].mission # NoMission /\ disk[t].mission # NoMission => s = t

\* A parking that still has to reserve has no destination.
NotYetReserved ==
    /\ fleet.kind = "park" /\ fleet.unpublished = NoSlot
    /\ fleet.state \in {"WAIT_LIFT", "PLAN_PATH"}
    => fleet.destination = NoSlot

IdleHasNoSlot == fleet.state = "WAIT_TARGET" => fleet.destination = NoSlot

NumberIsMine ==
    node = "up" /\ fleet.number # Anonymous =>
        \A s \in Slots :
            disk[s].number = fleet.number => s = fleet.destination

DownIsFresh == node # "up" => fleet = Fresh

SlotInv ==
    /\ RowsAreFleets
    /\ OneRowHeld
    /\ NotYetReserved
    /\ IdleHasNoSlot
    /\ NumberIsMine
    /\ DownIsFresh

-----------------------------------------------------------------------------
(* What the calls write, for the registry of the fleet. *)

LEMMA JointFacts ==
    ASSUME Joint
    PROVE  /\ Reg!IndInv /\ Typed /\ FleetTypes /\ Bookkeeping
           /\ disk \in [Slots -> Registry!ParkingRecord]
           /\ Free => memory = disk
           /\ \A s \in Slots :
                 /\ disk[s].lifecycle \in {"OCCUPIED", "EMPTY"} =>
                       disk[s].mission = NoMission
                 /\ disk[s].lifecycle = "EMPTY" => disk[s].number = Anonymous
<1>1. Reg!IndInv /\ Typed /\ FleetTypes /\ Bookkeeping /\ TypeOK
  BY JointIsTyped DEF Joint, Typed
<1>2. /\ disk \in [Slots -> Registry!ParkingRecord]
      /\ memory \in [Slots -> Registry!ParkingRecord]
  BY <1>1 DEF TypeOK, Registry!TypeOK
<1>3. ASSUME Free PROVE memory = disk
  <2>1. \A s \in Slots : memory[s] = disk[s]
    BY <1>1, <1>3, FleetAssumption
    DEF Free, Reg!IndInv, Reg!MemoryMirrorsDisk
  <2>2. QED BY <1>2, <2>1
<1>4. ASSUME NEW s \in Slots
      PROVE  /\ disk[s].lifecycle \in {"OCCUPIED", "EMPTY"} =>
                   disk[s].mission = NoMission
             /\ disk[s].lifecycle = "EMPTY" => disk[s].number = Anonymous
  <2>1. disk[s].lifecycle = "EMPTY" => disk[s] = Reg!EmptyRecord
    BY <1>1 DEF Reg!IndInv, Reg!RowsWellFormed, Reg!WellFormed
  <2>2. disk[s].lifecycle = "OCCUPIED" => disk[s].mission = NoMission
    BY <1>1 DEF Reg!IndInv, Reg!RowsWellFormed, Reg!WellFormed
  <2>3. /\ Reg!EmptyRecord.mission = NoMission
        /\ Reg!EmptyRecord.number = Anonymous
    BY DEF Reg!EmptyRecord
  <2>4. QED BY <2>1, <2>2, <2>3
<1>5. QED BY <1>1, <1>2, <1>3, <1>4

\* A reservation, for a parking or a retrieval.
LEMMA ReserveRow ==
    ASSUME Joint, NEW s \in Slots, NEW m \in Missions,
           NEW v \in Vehicles \cup {Anonymous}, NEW c \in BOOLEAN,
           Registry!ReservePark(s, m, v, c)
    PROVE  /\ node = "up" /\ node' = node
           /\ v # Anonymous => \A t \in Slots : disk[t].number # v
           /\ \E rec : /\ disk' = [disk EXCEPT ![s] = rec]
                       /\ rec.mission = m /\ rec.number = v
<1>1. Reg!ReservePark(s, m, v, c) /\ Reg!IndInv /\ v \in Reg!Numbers
  BY SameCalls, JointFacts DEF Reg!Numbers
<1>2. /\ v # Anonymous => \A t \in Slots : disk[t].number # v
      /\ \E rec \in Reg!ParkingRecord :
            /\ disk' = [disk EXCEPT ![s] = rec]
            /\ rec.lifecycle = "RESERVED" /\ rec.mission = m /\ rec.number = v
  BY <1>1, RegistryAssumed, Reg!ReserveParkWrites
<1>3. node = "up" /\ node' = node
  BY DEF Registry!ReservePark, Registry!RequireState, Registry!Save
<1>4. QED BY <1>2, <1>3

LEMMA RetrieveRow ==
    ASSUME Joint, NEW s \in Slots, NEW m \in Missions,
           Registry!ReserveRetrieve(s, m)
    PROVE  /\ node = "up" /\ node' = node
           /\ \E rec : /\ disk' = [disk EXCEPT ![s] = rec]
                       /\ rec.mission = m /\ rec.number = disk[s].number
<1>1. Reg!ReserveRetrieve(s, m) /\ Reg!IndInv
  BY SameCalls, JointFacts
<1>2. \E rec \in Reg!ParkingRecord :
         /\ disk' = [disk EXCEPT ![s] = rec]
         /\ rec.lifecycle = "EXIT_RESERVED" /\ rec.mission = m
         /\ rec.number = disk[s].number /\ rec.placed
  BY <1>1, RegistryAssumed, Reg!ReserveRetrieveWrites
<1>3. node = "up" /\ node' = node
  BY DEF Registry!ReserveRetrieve, Registry!RequireState, Registry!Save
<1>4. QED BY <1>2, <1>3

\* No row gets a mission or a number it has not had.
RowsCleared ==
    \A t \in Slots : /\ disk'[t].mission \in {disk[t].mission, NoMission}
                     /\ disk'[t].number \in {disk[t].number, Anonymous}

LEMMA RollbackRow ==
    ASSUME Joint, NEW s \in Slots, NEW m \in Missions,
           Registry!RollbackUnpublishedPark(s, m)
    PROVE  /\ node = "up" /\ node' = node /\ RowsCleared
           /\ disk'[s].mission = NoMission /\ disk'[s].number = Anonymous
<1>1. Reg!RollbackUnpublishedPark(s, m) /\ Reg!IndInv
  BY SameCalls, JointFacts
<1>2. disk' = [disk EXCEPT ![s] = Reg!EmptyRecord]
  BY <1>1, RegistryAssumed, Reg!RollbackWrites
<1>3. node = "up" /\ node' = node
  BY DEF Registry!RollbackUnpublishedPark, Registry!RequireHeld,
         Registry!RequireState, Registry!Save
<1>4. QED BY <1>2, <1>3, JointFacts DEF RowsCleared, Reg!EmptyRecord

LEMMA MarkRow ==
    ASSUME Joint, NEW s \in Slots, NEW m \in Missions,
           Registry!MarkRetrieveExiting(s, m)
    PROVE  node' = node /\ RowsCleared
<1>1. Reg!MarkRetrieveExiting(s, m) /\ Reg!IndInv
  BY SameCalls, JointFacts
<1>2. /\ disk[s].mission = m
      /\ \E rec \in Reg!ParkingRecord :
            /\ disk' = [disk EXCEPT ![s] = rec]
            /\ rec.lifecycle = "EXITING" /\ rec.mission = m
            /\ rec.number = disk[s].number /\ rec.placed
  BY <1>1, RegistryAssumed, Reg!MarkExitingWrites
<1>3. node' = node
  BY DEF Registry!MarkRetrieveExiting, Registry!Save
<1>4. QED BY <1>2, <1>3, JointFacts DEF RowsCleared

LEMMA FreeRow ==
    ASSUME Joint, NEW s \in Slots, NEW m \in Missions,
           Registry!CompleteRetrieve(s, m)
    PROVE  node' = node /\ RowsCleared
<1>1. Reg!CompleteRetrieve(s, m) /\ Reg!IndInv
  BY SameCalls, JointFacts
<1>2. disk' = [disk EXCEPT ![s] = Reg!EmptyRecord]
  BY <1>1, RegistryAssumed, Reg!CompleteRetrieveWrites
<1>3. node' = node
  BY DEF Registry!CompleteRetrieve, Registry!Save
<1>4. QED BY <1>2, <1>3, JointFacts DEF RowsCleared, Reg!EmptyRecord

LEMMA ParkedRow ==
    ASSUME Joint, NEW s \in Slots, NEW m \in Missions,
           Registry!CompletePark(s, m)
    PROVE  node' = node /\ RowsCleared
<1>1. Reg!CompletePark(s, m) /\ Reg!IndInv
  BY SameCalls, JointFacts
<1>2. \E rec \in Reg!ParkingRecord :
         /\ disk' = [disk EXCEPT ![s] = rec]
         /\ rec.lifecycle = "OCCUPIED" /\ rec.mission = NoMission
         /\ rec.number = disk[s].number
  BY <1>1, RegistryAssumed, Reg!CompleteParkWrites
<1>3. node' = node
  BY DEF Registry!CompletePark, Registry!Save
<1>4. QED BY <1>2, <1>3, JointFacts DEF RowsCleared

LEMMA SameRows ==
    ASSUME Joint, disk' = disk PROVE RowsCleared
BY DEF RowsCleared

-----------------------------------------------------------------------------
(* The steps. *)

\* The fields of the node that SlotInv reads stay, or move on in a mission.
Moves ==
    /\ fleet'.mission = fleet.mission /\ fleet'.kind = fleet.kind
    /\ fleet'.source = fleet.source
    /\ fleet'.destination = fleet.destination
    /\ \/ fleet'.number = fleet.number
       \/ fleet'.number = Anonymous
       \/ \A s \in Slots : disk[s].number # fleet'.number
    /\ \/ fleet'.state = fleet.state /\ fleet'.unpublished = fleet.unpublished
       \/ /\ fleet.state = "WAIT_LIFT" /\ fleet'.state = "PLAN_PATH"
          /\ fleet'.unpublished = fleet.unpublished
       \/ fleet'.state \in {"NAVIGATING", "FAULT"}
       \/ fleet.kind = "retrieve" /\ fleet'.state # "WAIT_TARGET"
    /\ node' = node
    /\ node # "up" => fleet' = fleet

LEMMA MovesKeep ==
    ASSUME Joint, SlotInv, Moves, RowsCleared
    PROVE  SlotInv'
<1> USE DEF SlotInv, Moves
<1>1. RowsAreFleets'
  BY DEF RowsAreFleets, RowsCleared, InHand
<1>2. OneRowHeld'
  BY DEF OneRowHeld, RowsCleared
<1>3. NotYetReserved' /\ IdleHasNoSlot'
  BY DEF NotYetReserved, IdleHasNoSlot
<1>4. NumberIsMine'
  BY DEF NumberIsMine, RowsCleared
<1>5. DownIsFresh'
  BY DEF DownIsFresh, Fresh
<1>6. QED BY <1>1, <1>2, <1>3, <1>4, <1>5

\* A node that is Fresh beside rows nobody holds, or that is not up.
LEMMA FreshKeeps ==
    ASSUME Joint, SlotInv, fleet' = Fresh, disk' = disk,
           node' # "up" \/ \A s \in Slots : disk[s].mission = NoMission
    PROVE  SlotInv'
<1> USE DEF SlotInv, Fresh
<1>1. RowsAreFleets'
  BY DEF RowsAreFleets, InHand
<1>2. OneRowHeld'
  BY DEF OneRowHeld
<1>3. NotYetReserved' /\ IdleHasNoSlot' /\ NumberIsMine' /\ DownIsFresh'
  BY DEF NotYetReserved, IdleHasNoSlot, NumberIsMine, DownIsFresh
<1>4. QED BY <1>1, <1>2, <1>3

\* No row is held while the node has no mission in hand, or a parking that
\* still has to reserve.
LEMMA NothingHeld ==
    ASSUME Joint, SlotInv, node = "up",
           \/ fleet.state = "WAIT_TARGET"
           \/ /\ fleet.kind = "park" /\ fleet.state = "PLAN_PATH"
              /\ fleet.unpublished = NoSlot
    PROVE  /\ \A s \in Slots : disk[s].mission = NoMission
           /\ fleet.destination = NoSlot
<1>1. fleet.destination = NoSlot
  BY DEF SlotInv, IdleHasNoSlot, NotYetReserved
<1>2. fleet.state = "WAIT_TARGET" => fleet.mission = NoMission
  BY JointFacts DEF Bookkeeping
<1>3. QED
  BY <1>1, <1>2, FleetAssumption DEF SlotInv, RowsAreFleets, InHand

LEMMA QuietSteps ==
    ASSUME Joint, SlotInv, "park" \notin Rearms,
           \/ \E v \in Vehicles \cup {Anonymous}, s \in Slots \cup {NoSlot} :
                 ApprovePark(v, s)
           \/ TargetSeen \/ ApprovalLapses \/ LiftedRepeated \/ LiftedCb
           \/ StartPlanning \/ PublishPark \/ PlanRetrieve \/ SyncFault \/ Rearm
           \/ CommitIgnored \/ CompleteIgnored
    PROVE  SlotInv'
<1>1. fleet \in NodeType(plans) /\ Bookkeeping
  BY JointFacts DEF FleetTypes
<1>2. disk' = disk /\ node' = node
  BY DEF ApprovePark, TargetSeen, ApprovalLapses, LiftedRepeated, LiftedCb,
         StartPlanning, PublishPark, PlanRetrieve, SyncFault, Rearm,
         CommitIgnored, CompleteIgnored, registry
<1>3. Moves
  <2>1. ASSUME NEW v \in Vehicles \cup {Anonymous},
               NEW s \in Slots \cup {NoSlot}, ApprovePark(v, s)
        PROVE  Moves
    <3>1. /\ fleet' = [fleet EXCEPT !.approved = TRUE, !.number = v,
                                    !.requested = s]
          /\ node = "up" /\ Free
          /\ v # Anonymous => ~Registry!Registered(v)
      BY <2>1 DEF ApprovePark, Free
    <3>2. v # Anonymous => \A t \in Slots : disk[t].number # v
      BY <3>1, JointFacts DEF Registry!Registered
    <3>3. QED BY <1>1, <1>2, <3>1, <3>2 DEF Moves, NodeType
  <2>2. CASE TargetSeen
    <3>1. fleet' = [fleet EXCEPT !.target = TRUE] /\ node = "up"
      BY <2>2 DEF TargetSeen, Free
    <3>2. QED BY <1>1, <1>2, <3>1 DEF Moves, NodeType
  <2>3. CASE ApprovalLapses
    <3>1. PICK target :
             fleet' = [fleet EXCEPT !.approved = FALSE, !.number = Anonymous,
                                    !.requested = NoSlot, !.target = target]
      BY <2>3 DEF ApprovalLapses
    <3>2. node = "up"
      BY <2>3 DEF ApprovalLapses, Free
    <3>3. QED BY <1>1, <1>2, <3>1, <3>2 DEF Moves, NodeType
  <2>4. CASE LiftedCb
    <3>1. fleet' = [fleet EXCEPT !.lifted = TRUE] /\ node = "up"
      BY <2>4 DEF LiftedCb, Free
    <3>2. QED BY <1>1, <1>2, <3>1 DEF Moves, NodeType
  <2>5. CASE StartPlanning
    <3>1. /\ fleet' = [fleet EXCEPT !.state = "PLAN_PATH"] /\ node = "up"
          /\ fleet.state = "WAIT_LIFT"
      BY <2>5 DEF StartPlanning, Free
    <3>2. QED BY <1>1, <1>2, <3>1 DEF Moves, NodeType
  <2>6. CASE PublishPark \/ PlanRetrieve
    <3>1. /\ node = "up"
          /\ fleet' = [fleet EXCEPT !.state = "NAVIGATING", !.plan = plans',
                                    !.unpublished = NoSlot]
      BY <2>6 DEF PublishPark, PlanRetrieve, PublishPath, Free
    <3>2. QED BY <1>1, <1>2, <3>1 DEF Moves, NodeType
  <2>7. CASE SyncFault
    <3>1. \/ fleet' = fleet
          \/ node = "up" /\ fleet' = [fleet EXCEPT !.state = "FAULT"]
      BY <2>7 DEF SyncFault, Free
    <3>2. QED BY <1>1, <1>2, <3>1 DEF Moves, NodeType
  <2>8. CASE Rearm
    <3>1. /\ node = "up" /\ fleet.kind # "park" /\ fleet.state = "FAULT"
          /\ fleet' = [fleet EXCEPT !.state = "PLAN_PATH"]
      BY <2>8 DEF Rearm, Free
    <3>2. fleet.kind = "retrieve"
      BY <1>1, <3>1 DEF NodeType, Bookkeeping, Kinds
    <3>3. QED BY <1>1, <1>2, <3>1, <3>2 DEF Moves, NodeType
  <2>9. CASE CommitIgnored \/ CompleteIgnored \/ LiftedRepeated
    BY <1>2, <2>9 DEF CommitIgnored, CompleteIgnored, LiftedRepeated, Moves
  <2>10. QED
    BY <2>1, <2>2, <2>3, <2>4, <2>5, <2>6, <2>7, <2>8, <2>9
<1>4. QED BY <1>2, <1>3, SameRows, MovesKeep

LEMMA CrewKeepsSlots ==
    ASSUME Joint, SlotInv,
           \/ CrewEnters \/ CrewLifts \/ CrewCommitsDrive \/ PairArrives
           \/ CrewCommitsRelease \/ CrewCommitsReturn \/ CrewCommitsHome
           \/ CrewRestarts \/ UNCHANGED vars
    PROVE  SlotInv'
<1>1. disk' = disk /\ node' = node /\ fleet' = fleet
  BY DEF CrewEnters, CrewLifts, CrewCommitsDrive, PairArrives,
         CrewCommitsRelease, CrewCommitsReturn, CrewCommitsHome,
         CrewRestarts, registry, vars
<1>2. Moves
  BY <1>1 DEF Moves
<1>3. QED BY <1>1, <1>2, SameRows, MovesKeep

LEMMA StartKeepsSlots ==
    ASSUME Joint, SlotInv, NEW m \in Missions,
           StartPark(m) \/ \E s \in Slots : StartRetrieve(m, s)
    PROVE  SlotInv'
<1> USE DEF SlotInv
<1>1. fleet \in NodeType(plans) /\ Bookkeeping
  BY JointFacts DEF FleetTypes
<1>2. /\ node = "up" /\ fleet.state = "WAIT_TARGET"
      /\ fleet.unpublished = NoSlot
      /\ \A s \in Slots : disk[s].mission = NoMission
      /\ fleet.destination = NoSlot
  <2>1. /\ node = "up" /\ fleet.state = "WAIT_TARGET"
        /\ fleet.unpublished = NoSlot
    BY DEF StartPark, StartRetrieve, Free
  <2>2. QED BY <2>1, NothingHeld
<1>3. CASE StartPark(m)
  <2>1. /\ disk' = disk /\ node' = node
        /\ fleet' = [fleet EXCEPT !.state = "WAIT_LIFT", !.mission = m,
                                  !.kind = "park", !.approved = FALSE]
    BY <1>3 DEF StartPark, registry
  <2>2. /\ fleet'.state = "WAIT_LIFT" /\ fleet'.destination = NoSlot
        /\ fleet'.number = fleet.number
    BY <1>1, <1>2, <2>1 DEF NodeType
  <2>3. RowsAreFleets' /\ OneRowHeld'
    BY <1>2, <2>1 DEF RowsAreFleets, OneRowHeld
  <2>4. NotYetReserved' /\ IdleHasNoSlot' /\ NumberIsMine' /\ DownIsFresh'
    BY <1>2, <2>1, <2>2
    DEF NotYetReserved, IdleHasNoSlot, NumberIsMine, DownIsFresh
  <2>5. QED BY <2>3, <2>4
<1>4. ASSUME NEW s \in Slots, StartRetrieve(m, s) PROVE SlotInv'
  <2>1. /\ Registry!ReserveRetrieve(s, m)
        /\ fleet' = [fleet EXCEPT !.state = "WAIT_LIFT", !.mission = m,
                                  !.kind = "retrieve", !.source = s,
                                  !.target = TRUE]
    BY <1>4 DEF StartRetrieve
  <2>2. PICK rec : /\ disk' = [disk EXCEPT ![s] = rec]
                   /\ rec.mission = m /\ rec.number = disk[s].number
    BY <2>1, RetrieveRow
  <2>3. node' = "up"
    BY <1>2, <2>1, RetrieveRow
  <2>4. /\ fleet'.state = "WAIT_LIFT" /\ fleet'.destination = NoSlot
        /\ fleet'.number = fleet.number /\ fleet'.mission = m
        /\ fleet'.kind = "retrieve" /\ fleet'.source = s
    BY <1>1, <1>2, <2>1 DEF NodeType
  <2>5. /\ \A t \in Slots \ {s} : disk'[t] = disk[t]
        /\ disk'[s] = rec
    BY <2>2, JointFacts
  <2>6. RowsAreFleets' /\ OneRowHeld'
    BY <1>2, <2>2, <2>4, <2>5 DEF RowsAreFleets, OneRowHeld, InHand
  <2>7. NotYetReserved' /\ IdleHasNoSlot' /\ NumberIsMine' /\ DownIsFresh'
    BY <1>2, <2>2, <2>3, <2>4, <2>5
    DEF NotYetReserved, IdleHasNoSlot, NumberIsMine, DownIsFresh
  <2>8. QED BY <2>6, <2>7
<1>5. QED BY <1>3, <1>4

LEMMA ReserveKeepsSlots ==
    ASSUME Joint, SlotInv, NEW s \in Slots, Reserve(s)
    PROVE  SlotInv'
<1> USE DEF SlotInv
<1>1. fleet \in NodeType(plans) /\ Bookkeeping
  BY JointFacts DEF FleetTypes
<1>2. /\ node = "up" /\ fleet.state = "PLAN_PATH" /\ fleet.kind = "park"
      /\ fleet.unpublished = NoSlot
      /\ fleet' = [fleet EXCEPT !.destination = s, !.unpublished = s]
  BY DEF Reserve, Free
<1>3. \A t \in Slots : disk[t].mission = NoMission
  BY <1>2, NothingHeld
<1>4. /\ fleet.mission \in Missions
      /\ fleet.number \in Vehicles \cup {Anonymous}
  BY <1>1, <1>2 DEF NodeType, Bookkeeping
<1>5. PICK v \in Vehicles \cup {Anonymous}, m \in Missions, c \in BOOLEAN :
         /\ v = fleet.number /\ m = fleet.mission
         /\ Registry!ReservePark(s, m, v, c)
  <2>1. (fleet.number # Anonymous) \in BOOLEAN
    OBVIOUS
  <2>2. QED BY <1>4, <2>1 DEF Reserve
<1>6. /\ node = "up" /\ node' = node
      /\ v # Anonymous => \A t \in Slots : disk[t].number # v
  BY <1>5, ReserveRow
<1>7. PICK rec : /\ disk' = [disk EXCEPT ![s] = rec]
                 /\ rec.mission = fleet.mission /\ rec.number = fleet.number
  BY <1>5, ReserveRow
<1>8. /\ \A t \in Slots \ {s} : disk'[t] = disk[t]
      /\ disk'[s] = rec
  BY <1>7, JointFacts
<1>9. /\ fleet'.state = "PLAN_PATH" /\ fleet'.destination = s
      /\ fleet'.unpublished = s /\ fleet'.number = fleet.number
      /\ fleet'.mission = fleet.mission /\ fleet'.kind = "park"
  BY <1>1, <1>2 DEF NodeType
<1>10. RowsAreFleets' /\ OneRowHeld'
  BY <1>3, <1>7, <1>8, <1>9 DEF RowsAreFleets, OneRowHeld, InHand
<1>11. NotYetReserved' /\ IdleHasNoSlot' /\ NumberIsMine' /\ DownIsFresh'
  BY <1>2, <1>5, <1>6, <1>8, <1>9, FleetAssumption
  DEF NotYetReserved, IdleHasNoSlot, NumberIsMine, DownIsFresh
<1>12. QED BY <1>10, <1>11

LEMMA PublishFailsKeepsSlots ==
    ASSUME Joint, SlotInv, PublishFails
    PROVE  SlotInv'
<1> USE DEF SlotInv
<1>1. fleet \in NodeType(plans) /\ Bookkeeping
  BY JointFacts DEF FleetTypes
<1>2. /\ Registry!RollbackUnpublishedPark(fleet.unpublished, fleet.mission)
      /\ fleet' = [fleet EXCEPT !.destination = NoSlot,
                                !.unpublished = NoSlot]
      /\ fleet.unpublished \in Slots /\ fleet.mission \in Missions
      /\ fleet.kind = "park" /\ fleet.unpublished = fleet.destination
  BY <1>1 DEF PublishFails, NodeType, Bookkeeping
<1>3. /\ node = "up" /\ node' = node /\ RowsCleared
      /\ disk'[fleet.destination].mission = NoMission
      /\ disk'[fleet.destination].number = Anonymous
  BY <1>2, RollbackRow
<1>4. /\ fleet'.state = fleet.state /\ fleet'.destination = NoSlot
      /\ fleet'.number = fleet.number /\ fleet'.mission = fleet.mission
      /\ fleet'.kind = fleet.kind /\ fleet'.source = fleet.source
  BY <1>1, <1>2 DEF NodeType
<1>5. \A t \in Slots : disk'[t].mission = NoMission
  BY <1>2, <1>3 DEF RowsAreFleets, InHand, RowsCleared
<1>6. RowsAreFleets' /\ OneRowHeld'
  BY <1>5 DEF RowsAreFleets, OneRowHeld
<1>7. NumberIsMine'
  BY <1>2, <1>3, <1>4 DEF NumberIsMine, RowsCleared
<1>8. NotYetReserved' /\ IdleHasNoSlot' /\ DownIsFresh'
  BY <1>3, <1>4 DEF NotYetReserved, IdleHasNoSlot, DownIsFresh
<1>9. QED BY <1>6, <1>7, <1>8

\* A mission is finalized when its row is at rest.
LEMMA FinalizeKeepsSlots ==
    ASSUME Joint, SlotInv, Free, Finalize, fleet.mission # NoMission,
           NEW f, f.kind = fleet.kind, f.destination = fleet.destination,
           f.source = fleet.source, RegistryReady(f)
    PROVE  SlotInv'
<1>1. /\ fleet' = Fresh /\ disk' = disk /\ node = "up" /\ memory = disk
  BY JointFacts DEF Finalize, Free, registry
<1>2. /\ fleet.destination \in Slots \cup {NoSlot}
      /\ fleet.kind = "retrieve" => fleet.source \in Slots
  BY JointFacts DEF FleetTypes, NodeType, Bookkeeping
<1>3. \A s \in Slots : InHand(s) => disk[s].mission = NoMission
  BY <1>1, <1>2, JointFacts DEF InHand, RegistryReady
<1>4. \A s \in Slots : disk[s].mission = NoMission
  BY <1>1, <1>3 DEF SlotInv, RowsAreFleets
<1>5. QED BY <1>1, <1>4, FreshKeeps

LEMMA TryCompleteClears ==
    ASSUME Joint, NEW f, f.destination \in Slots \cup {NoSlot},
           f.mission \in Missions, TryCompletePark(f)
    PROVE  node' = node /\ RowsCleared
<1>1. CASE ParkComplete(f)
  BY <1>1, ParkedRow DEF TryCompletePark, ParkComplete
<1>2. CASE ~ParkComplete(f)
  BY <1>2, SameRows DEF TryCompletePark, registry
<1>3. QED BY <1>1, <1>2

LEMMA EffectClears ==
    ASSUME Joint, NEW f, NEW stage, f.destination \in Slots \cup {NoSlot},
           f.kind = "retrieve" => f.source \in Slots,
           f.mission \in Missions, CommitEffect(f, stage)
    PROVE  node' = node /\ RowsCleared
<1>1. CASE f.kind = "retrieve" /\ Registry!MarkRetrieveExiting(f.source, f.mission)
  BY <1>1, MarkRow
<1>2. CASE f.kind = "retrieve" /\ Registry!CompleteRetrieve(f.source, f.mission)
  BY <1>2, FreeRow
<1>3. CASE TryCompletePark(f)
  BY <1>3, TryCompleteClears
<1>4. CASE UNCHANGED registry
  BY <1>4, SameRows DEF registry
<1>5. QED BY <1>1, <1>2, <1>3, <1>4 DEF CommitEffect, FreesSource

LEMMA ReportsKeepSlots ==
    ASSUME Joint, SlotInv, ArrivedCb \/ CommitCb \/ CompleteCb
    PROVE  SlotInv'
<1>1. fleet \in NodeType(plans) /\ Typed /\ Free /\ node = "up"
  BY JointFacts DEF FleetTypes, ArrivedCb, CommitCb, CompleteCb, Free
<1>2. CASE ArrivedCb
  <2> DEFINE f == [fleet EXCEPT !.pose = pair.plan]
  <2>1. /\ fleet' = f /\ TryCompletePark(f)
        /\ f.destination \in Slots \cup {NoSlot} /\ f.mission \in Missions
        /\ fleet'.mission = fleet.mission /\ fleet'.kind = fleet.kind
        /\ fleet'.source = fleet.source
        /\ fleet'.destination = fleet.destination
        /\ fleet'.number = fleet.number /\ fleet'.state = fleet.state
        /\ fleet'.unpublished = fleet.unpublished
    BY <1>1, <1>2 DEF ArrivedCb, HeardArrival, NodeType
  <2> HIDE DEF f
  <2>2. node' = node /\ RowsCleared
    BY <2>1, TryCompleteClears
  <2>3. QED BY <1>1, <2>1, <2>2, MovesKeep DEF Moves
<1>3. CASE CommitCb
  <2> DEFINE stage == Head(commitWire).stage
             f == [fleet EXCEPT !.stages = @ \cup {stage}]
  <2>1. /\ commitWire # <<>> /\ Head(commitWire).mission = fleet.mission
        /\ \/ RegistryReady(f) /\ Finalize
           \/ fleet' = f /\ CommitEffect(f, stage)
    BY <1>3 DEF CommitCb
  <2>2. /\ f.destination \in Slots \cup {NoSlot} /\ fleet.mission \in Missions
        /\ f.kind = "retrieve" => f.source \in Slots
        /\ f.mission = fleet.mission /\ f.kind = fleet.kind
        /\ f.source = fleet.source /\ f.destination = fleet.destination
    BY <1>1, <2>1, CommitNoted
  <2>3. f.number = fleet.number /\ f.state = fleet.state
        /\ f.unpublished = fleet.unpublished
    BY <1>1 DEF NodeType
  <2> HIDE DEF f
  <2>4. CASE RegistryReady(f) /\ Finalize
    BY <1>1, <2>2, <2>4, FinalizeKeepsSlots, FleetAssumption
  <2>5. CASE fleet' = f /\ CommitEffect(f, stage)
    <3>1. node' = node /\ RowsCleared
      BY <2>2, <2>5, EffectClears
    <3>2. QED BY <1>1, <2>2, <2>3, <2>5, <3>1, MovesKeep DEF Moves
  <2>6. QED BY <2>1, <2>4, <2>5
<1>4. CASE CompleteCb
  <2>1. CASE RegistryReady(fleet) /\ Finalize /\ fleet.mission # NoMission
    BY <1>1, <2>1, FinalizeKeepsSlots
  <2>2. CASE UNCHANGED registry /\ fleet' = fleet
    BY <1>1, <2>2, SameRows, MovesKeep DEF Moves, registry
  <2>3. CASE /\ UNCHANGED registry
             /\ fleet' = [fleet EXCEPT !.completion = TRUE]
    <3>1. Moves /\ disk' = disk
      BY <1>1, <2>3 DEF Moves, NodeType, registry
    <3>2. QED BY <3>1, SameRows, MovesKeep
  <2>4. QED BY <1>4, <2>1, <2>2, <2>3 DEF CompleteCb
<1>5. QED BY <1>2, <1>3, <1>4

LEMMA LifeKeepsSlots ==
    ASSUME Joint, SlotInv, Assign \/ Crash \/ Start
    PROVE  SlotInv'
<1>1. CASE Assign
  <2>1. Moves /\ disk' = disk
    BY <1>1 DEF Assign, Registry!Assign, Moves
  <2>2. QED BY <2>1, SameRows, MovesKeep
<1>2. CASE Crash
  BY <1>2, FreshKeeps DEF Crash, Registry!Crash
<1>3. CASE Start
  <2>1. fleet' = fleet /\ node # "up" /\ disk' = disk
    BY <1>3 DEF Start, Registry!Restore, Registry!Refuse
  <2>2. fleet' = Fresh
    BY <2>1 DEF SlotInv, DownIsFresh
  <2>3. CASE Registry!Restore
    <3>1. \A s \in Slots : disk[s].mission = NoMission
      <4>1. /\ \A s \in Slots : disk[s] = Registry!EmptyRecord
                                \/ disk[s].mission = NoMission
        BY <2>3 DEF Registry!Restore, Registry!ValidRestored
      <4>2. Registry!EmptyRecord.mission = NoMission
        BY DEF Registry!EmptyRecord
      <4>3. QED BY <4>1, <4>2
    <3>2. QED BY <2>1, <2>2, <3>1, FreshKeeps
  <2>4. CASE Registry!Refuse
    BY <2>1, <2>2, <2>4, FreshKeeps DEF Registry!Refuse
  <2>5. QED BY <1>3, <2>3, <2>4 DEF Start
<1>4. QED BY <1>1, <1>2, <1>3

-----------------------------------------------------------------------------
(* The theorems. *)

LEMMA SlotsAtStart == Init => SlotInv
<1> SUFFICES ASSUME Init PROVE SlotInv
  OBVIOUS
<1>1. fleet = Fresh /\ node = "up" /\ disk = Registry!AllEmpty
  BY DEF Init, Registry!Init
<1>2. \A s \in Slots : disk[s].mission = NoMission
  BY <1>1 DEF Registry!AllEmpty, Registry!EmptyRecord
<1>3. QED
  BY <1>1, <1>2
  DEF SlotInv, RowsAreFleets, OneRowHeld, NotYetReserved, IdleHasNoSlot,
      NumberIsMine, DownIsFresh, Fresh

LEMMA SlotsKept ==
    ASSUME "park" \notin Rearms
    PROVE  Joint /\ SlotInv /\ [Next]_vars => SlotInv'
<1> SUFFICES ASSUME Joint, SlotInv, [Next]_vars PROVE SlotInv'
  OBVIOUS
<1>1. CASE UNCHANGED vars
  BY <1>1, CrewKeepsSlots
<1>2. CASE Next
  BY <1>2, QuietSteps, StartKeepsSlots, ReserveKeepsSlots,
     PublishFailsKeepsSlots, ReportsKeepSlots, LifeKeepsSlots, CrewKeepsSlots
  DEF Next
<1>3. QED BY <1>1, <1>2

LEMMA SlotInvariant ==
    ASSUME "park" \notin Rearms PROVE Spec => []SlotInv
BY SlotsAtStart, SlotsKept, JointInvariant, PTL DEF Spec

\* Without a rearm of parkings no mission holds two slots.
THEOREM NoSecondSlot ==
    ASSUME "park" \notin Rearms PROVE Spec => []OneSlotPerMission
<1>1. SlotInv => OneSlotPerMission
  BY DEF SlotInv, OneRowHeld, OneSlotPerMission, Holds
<1>2. QED BY <1>1, SlotInvariant, PTL

\* A running fleet has every reserved row in hand: no order of reports ends a
\* mission and leaves its slot reserved.
THEOREM NoSlotIsOrphaned ==
    ASSUME "park" \notin Rearms PROVE Spec => []NoOrphanedSlot
<1>1. SlotInv => NoOrphanedSlot
  BY DEF SlotInv, RowsAreFleets, NoOrphanedSlot, Free
<1>2. QED BY <1>1, SlotInvariant, PTL

\* The number accepted with the request is still free when the slot is
\* reserved: the registry does not refuse it with the car lifted.
THEOREM AcceptedNumberIsFree ==
    ASSUME "park" \notin Rearms PROVE Spec => []NumberStillFree
<1>1. Joint /\ SlotInv => NumberStillFree
  <2> SUFFICES ASSUME Joint, SlotInv, Free, fleet.number # Anonymous,
                      fleet.destination = NoSlot
               PROVE  ~Registry!Registered(fleet.number)
    BY DEF NumberStillFree
  <2>1. memory = disk /\ node = "up"
    BY JointFacts DEF Free
  <2>2. QED
    BY <2>1, FleetAssumption DEF SlotInv, NumberIsMine, Registry!Registered
<1>2. QED BY <1>1, SlotInvariant, JointInvariant, PTL

-----------------------------------------------------------------------------
(***************************************************************************)
(* What the rows owe to the car: a row is freed, or filled, only for a car *)
(* that the robots have set down.                                          *)
(***************************************************************************)

\* Has Front reported that mission m has let go of the car?
ReturnReported(m) ==
    \/ \E i \in 1 .. Len(commitWire) :
          commitWire[i].mission = m /\ commitWire[i].stage = "RETURN"
    \/ fleet.mission = m /\ "RETURN" \in fleet.stages

ReturnKnown ==
    \A m \in Missions : ReturnReported(m) => dropped[m].plan # 0

\* The crew is away or on the mission in hand, while there is one.
CrewMine ==
    /\ fleet.state = "WAIT_TARGET" /\ fleet.approved = TRUE => crew = Away
    /\ fleet.mission # NoMission => crew = Away \/ crew.mission = fleet.mission

CrewHasPath == crew.step = "RELEASE" => pair.mission = crew.mission

PathIsNumbered ==
    /\ pair.mission # NoMission => pair.plan # 0
    /\ pair.mission \in issued \cup {NoMission}
    /\ \A m \in Missions : dropped[m].plan # 0 => m \in issued

IdleHasNoStages == fleet.state = "WAIT_TARGET" => fleet.stages = {}

PublishingPlans == fleet.unpublished # NoSlot => fleet.state = "PLAN_PATH"

PathInv ==
    /\ ReturnKnown /\ CrewMine /\ CrewHasPath /\ PathIsNumbered
    /\ IdleHasNoStages /\ PublishingPlans

\* A parking that has not published has no path and no pose.
Unplanned ==
    \/ fleet.state = "WAIT_TARGET"
    \/ fleet.kind = "park" /\ fleet.state \in {"WAIT_LIFT", "PLAN_PATH"}
    => fleet.plan = 0 /\ fleet.pose = 0

Planned == fleet.state \in {"NAVIGATING", "FAULT"}

\* The one path of a parking, with the pair and where the car was set down.
PairMine ==
    fleet.kind = "park" /\ pair.mission = fleet.mission =>
       Planned /\ pair.plan = fleet.plan /\ pair.slot = fleet.destination

DroppedMine ==
    fleet.kind = "park" /\ dropped[fleet.mission].plan # 0 =>
       /\ Planned
       /\ dropped[fleet.mission] =
             [plan |-> fleet.plan, slot |-> fleet.destination]

PoseMine == fleet.kind = "park" /\ fleet.pose # 0 => fleet.pose = fleet.plan

ParkInv == Unplanned /\ PairMine /\ DroppedMine /\ PoseMine

-----------------------------------------------------------------------------
(* What the steps of the node change. *)

NodeGoes(state, destination, unpublished, plan, pose) ==
    /\ fleet'.state = state /\ fleet'.destination = destination
    /\ fleet'.unpublished = unpublished
    /\ fleet'.plan = plan /\ fleet'.pose = pose
    /\ fleet'.mission = fleet.mission /\ fleet'.kind = fleet.kind
    /\ fleet'.stages = fleet.stages
    /\ fleet'.approved = TRUE => fleet.approved = TRUE \/ crew = Away
    /\ UNCHANGED <<crew, commitWire, issued, dropped>>

Stays ==
    /\ NodeGoes(fleet.state, fleet.destination, fleet.unpublished,
                fleet.plan, fleet.pose)
    /\ pair' = pair

Turns(state) ==
    /\ fleet.unpublished = NoSlot
    /\ NodeGoes(state, fleet.destination, NoSlot, fleet.plan, fleet.pose)

Reserves ==
    /\ fleet.kind = "park" /\ fleet.state = "PLAN_PATH"
    /\ \E s \in Slots : NodeGoes("PLAN_PATH", s, s, fleet.plan, fleet.pose)
    /\ pair' = pair

GivesUp ==
    /\ fleet.kind = "park" /\ fleet.unpublished # NoSlot
    /\ NodeGoes(fleet.state, NoSlot, NoSlot, fleet.plan, fleet.pose)
    /\ pair' = pair

Publishes ==
    /\ fleet.mission \in Missions
    /\ fleet.state = "PLAN_PATH" \/ fleet.unpublished # NoSlot
    /\ plans' # 0
    /\ NodeGoes("NAVIGATING", fleet.destination, NoSlot, plans', fleet.pose)
    /\ pair'.plan = plans' /\ pair'.mission = fleet.mission
    /\ fleet.kind = "park" => pair'.slot = fleet.destination

Hears ==
    /\ fleet.state \in {"PLAN_PATH", "NAVIGATING"}
    /\ fleet.plan # 0
    /\ NodeGoes(fleet.state, fleet.destination, fleet.unpublished,
                fleet.plan, fleet.plan)
    /\ pair' = pair

LEMMA NodeEffects ==
    ASSUME Joint,
           \/ \E v \in Vehicles \cup {Anonymous}, s \in Slots \cup {NoSlot} :
                 ApprovePark(v, s)
           \/ TargetSeen \/ ApprovalLapses \/ LiftedRepeated \/ LiftedCb \/ StartPlanning
           \/ \E s \in Slots : Reserve(s)
           \/ PublishPark \/ PublishFails \/ PlanRetrieve
           \/ ArrivedCb \/ SyncFault \/ Rearm
    PROVE  \/ Stays \/ Reserves \/ GivesUp \/ Publishes \/ Hears
           \/ fleet.state = "WAIT_LIFT" /\ Turns("PLAN_PATH") /\ pair' = pair
           \/ /\ fleet.state = "FAULT" /\ fleet.kind \in Rearms
              /\ Turns("PLAN_PATH") /\ pair' = pair
           \/ /\ crew.step = "DRIVE" /\ pair' = NoPath
              /\ \/ /\ fleet' = fleet
                    /\ UNCHANGED <<crew, commitWire, issued, dropped>>
                 \/ Turns("FAULT")
<1>1. fleet \in NodeType(plans) /\ Bookkeeping /\ FleetTypes /\ plans \in Nat
  BY JointFacts, FleetAssumption DEF FleetTypes
<1>2. ASSUME NEW v \in Vehicles \cup {Anonymous},
             NEW s \in Slots \cup {NoSlot}, ApprovePark(v, s)
      PROVE  Stays
  <2>1. /\ fleet' = [fleet EXCEPT !.approved = TRUE, !.number = v,
                                  !.requested = s]
        /\ crew = Away
        /\ UNCHANGED <<crew, commitWire, issued, dropped, pair>>
    BY <1>2 DEF ApprovePark, RobotsIdle, topics, history
  <2>2. QED BY <1>1, <2>1 DEF Stays, NodeGoes, NodeType
<1>3. CASE TargetSeen
  <2>1. /\ fleet' = [fleet EXCEPT !.target = TRUE]
        /\ UNCHANGED <<crew, commitWire, issued, dropped, pair>>
    BY <1>3 DEF TargetSeen, topics, history
  <2>2. QED BY <1>1, <2>1 DEF Stays, NodeGoes, NodeType
<1>4. CASE ApprovalLapses
  <2>1. PICK target :
           fleet' = [fleet EXCEPT !.approved = FALSE, !.number = Anonymous,
                                  !.requested = NoSlot, !.target = target]
    BY <1>4 DEF ApprovalLapses
  <2>2. UNCHANGED <<crew, commitWire, issued, dropped, pair>>
    BY <1>4 DEF ApprovalLapses, topics, history
  <2>3. QED BY <1>1, <2>1, <2>2 DEF Stays, NodeGoes, NodeType
<1>5. CASE LiftedCb
  <2>1. /\ fleet' = [fleet EXCEPT !.lifted = TRUE]
        /\ UNCHANGED <<crew, commitWire, issued, dropped, pair>>
    BY <1>5 DEF LiftedCb, topics, history
  <2>2. QED BY <1>1, <2>1 DEF Stays, NodeGoes, NodeType
<1>6. CASE StartPlanning
  <2>1. /\ fleet' = [fleet EXCEPT !.state = "PLAN_PATH"]
        /\ fleet.state = "WAIT_LIFT" /\ fleet.unpublished = NoSlot
        /\ UNCHANGED <<crew, commitWire, issued, dropped, pair>>
    BY <1>6 DEF StartPlanning, Free, topics, history
  <2>2. QED BY <1>1, <2>1 DEF Turns, NodeGoes, NodeType
<1>7. ASSUME NEW s \in Slots, Reserve(s) PROVE Reserves
  <2>1. /\ fleet' = [fleet EXCEPT !.destination = s, !.unpublished = s]
        /\ fleet.kind = "park" /\ fleet.state = "PLAN_PATH"
        /\ UNCHANGED <<crew, commitWire, issued, dropped, pair>>
    BY <1>7 DEF Reserve, topics, history
  <2>2. NodeGoes("PLAN_PATH", s, s, fleet.plan, fleet.pose)
    BY <1>1, <2>1 DEF NodeGoes, NodeType
  <2>3. QED BY <2>1, <2>2 DEF Reserves
<1>8. CASE PublishFails
  <2>1. /\ fleet' = [fleet EXCEPT !.destination = NoSlot,
                                  !.unpublished = NoSlot]
        /\ fleet.kind = "park" /\ fleet.unpublished # NoSlot
        /\ UNCHANGED <<crew, commitWire, issued, dropped, pair>>
    BY <1>1, <1>8 DEF PublishFails, topics, history, Bookkeeping
  <2>2. QED BY <1>1, <2>1 DEF GivesUp, NodeGoes, NodeType
<1>9. CASE PublishPark \/ PlanRetrieve
  <2>1. PICK s : /\ PublishPath(s)
                 /\ fleet.kind = "park" => s = fleet.destination
    BY <1>1, <1>9 DEF PublishPark, PlanRetrieve, Bookkeeping
  <2>2. /\ fleet' = [fleet EXCEPT !.state = "NAVIGATING", !.plan = plans',
                                  !.unpublished = NoSlot]
        /\ pair'.plan = plans' /\ pair'.mission = fleet.mission
        /\ pair'.slot = s
        /\ plans' = plans + 1
    BY <2>1 DEF PublishPath
  <2>3. /\ fleet.state = "PLAN_PATH" \/ fleet.unpublished # NoSlot
        /\ fleet.kind # "none"
        /\ UNCHANGED <<crew, commitWire, issued, dropped>>
    BY <1>1, <1>9 DEF PublishPark, PlanRetrieve, topics, Bookkeeping
  <2>4. fleet.mission \in Missions
    BY <1>1, <2>3 DEF NodeType, Bookkeeping
  <2>5. plans' # 0
    BY <1>1, <2>2
  <2>6. NodeGoes("NAVIGATING", fleet.destination, NoSlot, plans', fleet.pose)
    <3> DEFINE p == plans'
    <3>1. fleet' = [fleet EXCEPT !.state = "NAVIGATING", !.plan = p,
                                 !.unpublished = NoSlot]
      BY <2>2
    <3> HIDE DEF p
    <3>2. NodeGoes("NAVIGATING", fleet.destination, NoSlot, p, fleet.pose)
      BY <1>1, <2>3, <3>1 DEF NodeGoes, NodeType
    <3>3. QED BY <3>2 DEF p
  <2>7. QED BY <2>1, <2>2, <2>3, <2>4, <2>5, <2>6 DEF Publishes
<1>10. CASE ArrivedCb
  <2>1. /\ fleet' = [fleet EXCEPT !.pose = pair.plan]
        /\ pair.plan = fleet.plan /\ fleet.plan # 0
        /\ fleet.state \in {"PLAN_PATH", "NAVIGATING"}
        /\ UNCHANGED <<crew, commitWire, issued, dropped, pair>>
    BY <1>10 DEF ArrivedCb, HeardArrival, topics, history
  <2>2. QED BY <1>1, <2>1 DEF Hears, NodeGoes, NodeType
<1>11. CASE SyncFault
  <2>1. /\ crew.step = "DRIVE" /\ pair' = NoPath
        /\ UNCHANGED <<crew, commitWire, issued, dropped>>
        /\ \/ fleet' = fleet
           \/ /\ fleet.unpublished = NoSlot
              /\ fleet' = [fleet EXCEPT !.state = "FAULT"]
    BY <1>11 DEF SyncFault, Free, topics, history
  <2>2. QED BY <1>1, <2>1 DEF Turns, NodeGoes, NodeType
<1>12. CASE Rearm
  <2>1. /\ fleet' = [fleet EXCEPT !.state = "PLAN_PATH"]
        /\ fleet.state = "FAULT" /\ fleet.unpublished = NoSlot
        /\ fleet.kind \in Rearms
        /\ UNCHANGED <<crew, commitWire, issued, dropped, pair>>
    BY <1>12 DEF Rearm, Free, topics, history
  <2>2. QED BY <1>1, <2>1 DEF Turns, NodeGoes, NodeType
<1>13. CASE LiftedRepeated
  BY <1>13 DEF LiftedRepeated, history, Stays, NodeGoes
<1>14. QED
  BY <1>2, <1>3, <1>4, <1>5, <1>6, <1>7, <1>8, <1>9, <1>10, <1>11, <1>12, <1>13

-----------------------------------------------------------------------------
(* The pair carries what the mission's path says. *)

\* Steps that keep the mission and its stages, and the wire, the crew and
\* what was set down.
LEMMA NodeKeepsPath ==
    ASSUME Joint, PathInv,
           \/ Stays \/ Reserves \/ GivesUp \/ Publishes \/ Hears
           \/ fleet.state = "WAIT_LIFT" /\ Turns("PLAN_PATH") /\ pair' = pair
           \/ /\ fleet.state = "FAULT" /\ Turns("PLAN_PATH") /\ pair' = pair
           \/ /\ crew.step = "DRIVE" /\ pair' = NoPath
              /\ \/ /\ fleet' = fleet
                    /\ UNCHANGED <<crew, commitWire, issued, dropped>>
                 \/ Turns("FAULT")
    PROVE  PathInv'
<1> USE DEF PathInv
<1>1. /\ UNCHANGED <<crew, commitWire, issued, dropped>>
      /\ fleet'.mission = fleet.mission /\ fleet'.stages = fleet.stages
      /\ fleet'.approved = TRUE => fleet.approved = TRUE \/ crew = Away
      /\ fleet'.state = "WAIT_TARGET" => fleet.state = "WAIT_TARGET"
      /\ fleet'.unpublished # NoSlot => fleet'.state = "PLAN_PATH"
  BY DEF Stays, Reserves, GivesUp, Publishes, Hears, Turns, NodeGoes,
         PublishingPlans
<1>2. /\ fleet.mission \in issued \cup {NoMission}
      /\ crew.mission \in issued \cup {NoMission}
      /\ crew = Away => crew.step = "away"
  BY JointFacts DEF Bookkeeping, Away
<1>3. \/ pair'.mission = pair.mission /\ pair'.plan = pair.plan
      \/ pair'.mission = NoMission /\ crew.step = "DRIVE"
      \/ /\ fleet.mission \in Missions /\ pair'.mission = fleet.mission
         /\ pair'.plan # 0
  BY DEF Stays, Reserves, GivesUp, Publishes, Hears, NoPath
<1>4. ReturnKnown'
  BY <1>1 DEF ReturnKnown, ReturnReported
<1>5. CrewMine' /\ IdleHasNoStages' /\ PublishingPlans'
  BY <1>1 DEF CrewMine, IdleHasNoStages, PublishingPlans
<1>6. CrewHasPath'
  BY <1>1, <1>2, <1>3, FleetAssumption DEF CrewHasPath, CrewMine
<1>7. PathIsNumbered'
  BY <1>1, <1>2, <1>3, FleetAssumption DEF PathIsNumbered
<1>8. QED BY <1>4, <1>5, <1>6, <1>7

LEMMA StartKeepsPath ==
    ASSUME Joint, PathInv, NEW m \in Missions,
           StartPark(m) \/ \E s \in Slots : StartRetrieve(m, s)
    PROVE  PathInv'
<1> USE DEF PathInv
<1>1. fleet \in NodeType(plans) /\ Bookkeeping
  BY JointFacts DEF FleetTypes
<1>2. /\ UNCHANGED <<crew, commitWire, dropped, pair>>
      /\ issued' = issued \cup {m} /\ m \notin issued
      /\ fleet.state = "WAIT_TARGET" /\ fleet.unpublished = NoSlot
      /\ fleet.approved = TRUE \/ crew = Away
  BY DEF StartPark, StartRetrieve, Free, RobotsIdle, topics
<1>3. /\ fleet'.mission = m /\ fleet'.stages = fleet.stages
      /\ fleet'.state = "WAIT_LIFT" /\ fleet'.unpublished = NoSlot
  <2>1. CASE StartPark(m)
    <3>1. fleet' = [fleet EXCEPT !.state = "WAIT_LIFT", !.mission = m,
                                 !.kind = "park", !.approved = FALSE]
      BY <2>1 DEF StartPark
    <3>2. QED BY <1>1, <1>2, <3>1 DEF NodeType
  <2>2. ASSUME NEW s \in Slots, StartRetrieve(m, s) PROVE <1>3!:
    <3>1. fleet' = [fleet EXCEPT !.state = "WAIT_LIFT", !.mission = m,
                                 !.kind = "retrieve", !.source = s,
                                 !.target = TRUE]
      BY <2>2 DEF StartRetrieve
    <3>2. QED BY <1>1, <1>2, <3>1 DEF NodeType
  <2>3. QED BY <2>1, <2>2
<1>4. ReturnKnown'
  BY <1>2, <1>3 DEF ReturnKnown, ReturnReported, IdleHasNoStages
<1>5. CrewMine'
  BY <1>2, <1>3 DEF CrewMine
<1>6. CrewHasPath' /\ PathIsNumbered' /\ IdleHasNoStages' /\ PublishingPlans'
  BY <1>2, <1>3
  DEF CrewHasPath, PathIsNumbered, IdleHasNoStages, PublishingPlans
<1>7. QED BY <1>4, <1>5, <1>6

LEMMA FreshKeepsPath ==
    ASSUME Joint, PathInv, fleet' = Fresh,
           UNCHANGED <<crew, dropped, pair, issued>>,
           \A i \in 1 .. Len(commitWire') :
              \E j \in 1 .. Len(commitWire) : commitWire'[i] = commitWire[j]
    PROVE  PathInv'
<1> USE DEF PathInv, Fresh
<1>1. ReturnKnown'
  BY FleetAssumption DEF ReturnKnown, ReturnReported
<1>2. CrewMine' /\ CrewHasPath' /\ PathIsNumbered' /\ IdleHasNoStages'
      /\ PublishingPlans'
  BY DEF CrewMine, CrewHasPath, PathIsNumbered, IdleHasNoStages,
         PublishingPlans
<1>3. QED BY <1>1, <1>2

\* The reports take commits off the wire.
LEMMA WireShrinks ==
    ASSUME Joint, CommitCb \/ CommitIgnored \/ CompleteCb \/ CompleteIgnored
    PROVE  \A i \in 1 .. Len(commitWire') :
              \E j \in 1 .. Len(commitWire) : commitWire'[i] = commitWire[j]
<1>1. CASE commitWire' = commitWire
  BY <1>1
<1>2. CASE commitWire # <<>> /\ commitWire' = Tail(commitWire)
  <2>1. commitWire \in Seq(Sent)
    BY JointFacts DEF FleetTypes
  <2>2. /\ Len(commitWire) \in Nat \ {0}
        /\ Len(commitWire') = Len(commitWire) - 1
        /\ \A i \in 1 .. Len(commitWire') : commitWire'[i] = commitWire[i + 1]
    BY <1>2, <2>1
  <2>3. \A i \in 1 .. Len(commitWire') : i + 1 \in 1 .. Len(commitWire)
    BY <2>2
  <2>4. QED BY <2>2, <2>3
<1>3. QED BY <1>1, <1>2 DEF CommitCb, CommitIgnored, CompleteCb, CompleteIgnored

\* The node takes note of a commit or of the completion.
LEMMA ReportsKeepPath ==
    ASSUME Joint, PathInv, CommitCb \/ CommitIgnored \/ CompleteCb \/ CompleteIgnored
    PROVE  PathInv'
<1> USE DEF PathInv
<1>1. /\ fleet \in NodeType(plans) /\ Typed /\ Bookkeeping
      /\ commitWire \in Seq(Sent)
  BY JointFacts DEF FleetTypes
<1>2. UNCHANGED <<crew, dropped, pair, issued>>
  BY DEF CommitCb, CommitIgnored, CompleteCb, CompleteIgnored
<1>3. \A i \in 1 .. Len(commitWire') :
         \E j \in 1 .. Len(commitWire) : commitWire'[i] = commitWire[j]
  BY WireShrinks
<1>4. CASE fleet' = Fresh
  BY <1>2, <1>3, <1>4, FreshKeepsPath
<1>5. ASSUME fleet' # Fresh
      PROVE  /\ fleet'.mission = fleet.mission /\ fleet'.state = fleet.state
             /\ fleet'.approved = fleet.approved
             /\ fleet'.unpublished = fleet.unpublished
             /\ \/ fleet'.stages = fleet.stages
                \/ \E j \in 1 .. Len(commitWire) :
                      /\ commitWire[j].mission = fleet.mission
                      /\ fleet.mission \in Missions
                      /\ fleet'.stages =
                            fleet.stages \cup {commitWire[j].stage}
  <2>1. CASE CommitCb
    <3>1. /\ commitWire # <<>> /\ Head(commitWire).mission = fleet.mission
          /\ fleet' = [fleet EXCEPT !.stages = @ \cup {Head(commitWire).stage}]
      BY <1>5, <2>1 DEF CommitCb, Finalize
    <3>2. Head(commitWire) = commitWire[1] /\ 1 \in 1 .. Len(commitWire)
      BY <1>1, <3>1
    <3>3. fleet.mission \in Missions
      BY <1>1, <3>1, CommitNoted
    <3>4. /\ fleet'.mission = fleet.mission /\ fleet'.state = fleet.state
          /\ fleet'.approved = fleet.approved
          /\ fleet'.unpublished = fleet.unpublished
          /\ fleet'.stages = fleet.stages \cup {Head(commitWire).stage}
      BY <1>1, <3>1 DEF NodeType
    <3>5. QED BY <3>1, <3>2, <3>3, <3>4
  <2>2. CASE CommitIgnored \/ CompleteIgnored
    BY <2>2 DEF CommitIgnored, CompleteIgnored
  <2>3. CASE CompleteCb
    <3>1. fleet' = fleet \/ fleet' = [fleet EXCEPT !.completion = TRUE]
      BY <1>5, <2>3 DEF CompleteCb, Finalize
    <3>2. QED BY <1>1, <3>1 DEF NodeType
  <2>4. QED BY <2>1, <2>2, <2>3
<1>6. CASE fleet' # Fresh
  <2>1. ReturnKnown'
    BY <1>2, <1>3, <1>5, <1>6 DEF ReturnKnown, ReturnReported
  <2>2. IdleHasNoStages'
    BY <1>1, <1>5, <1>6, FleetAssumption DEF IdleHasNoStages, Bookkeeping
  <2>3. CrewMine' /\ CrewHasPath' /\ PathIsNumbered' /\ PublishingPlans'
    BY <1>2, <1>5, <1>6
    DEF CrewMine, CrewHasPath, PathIsNumbered, PublishingPlans
  <2>4. QED BY <2>1, <2>2, <2>3
<1>7. QED BY <1>4, <1>6

LEMMA CrewKeepsPath ==
    ASSUME Joint, PathInv,
           \/ CrewEnters \/ CrewLifts \/ CrewCommitsDrive \/ PairArrives
           \/ CrewCommitsRelease \/ CrewCommitsReturn \/ CrewCommitsHome
           \/ CrewRestarts
    PROVE  PathInv'
<1> USE DEF PathInv
<1>1. /\ fleet' = fleet /\ issued' = issued
      /\ commitWire \in Seq(Sent) /\ Bookkeeping
      /\ pair \in PairType(plans) /\ crew \in CrewType
      /\ dropped \in [Missions -> SpotType(plans)]
      /\ pair'.mission = pair.mission /\ pair'.plan = pair.plan
  BY JointFacts
  DEF CrewEnters, CrewLifts, CrewCommitsDrive, PairArrives,
      CrewCommitsRelease, CrewCommitsReturn, CrewCommitsHome,
      CrewRestarts, history, FleetTypes, PairType
<1>2. /\ crew.step = "RELEASE" => crew.mission \in Missions
      /\ crew.mission \in issued \cup {NoMission} /\ issued \subseteq Missions
      /\ crew # Away => crew.step # "away" \/ crew.mission # NoMission
  BY <1>1, JointFacts DEF Bookkeeping, FleetTypes, CrewType, Away
<1>3. CASE CrewCommitsReturn
  <2>1. /\ crew.step = "RELEASE"
        /\ crew' = [crew EXCEPT !.step = "RETURN"]
        /\ dropped' = [dropped EXCEPT ![crew.mission] =
                          [plan |-> pair.plan, slot |-> pair.slot]]
        /\ commitWire' = Append(commitWire, [mission |-> crew.mission,
                                             stage |-> "RETURN"])
    BY <1>3 DEF CrewCommitsReturn, Commit
  <2>2. crew.mission \in issued /\ pair.plan # 0
    BY <1>2, <2>1, FleetAssumption DEF CrewHasPath, PathIsNumbered
  <2>3. /\ dropped'[crew.mission].plan # 0
        /\ \A m \in Missions \ {crew.mission} : dropped'[m] = dropped[m]
    BY <1>1, <1>2, <2>1, <2>2
  <2>4. \A i \in 1 .. Len(commitWire') :
           commitWire'[i].mission = crew.mission
           \/ (i \in 1 .. Len(commitWire) /\ commitWire'[i] = commitWire[i])
    BY <1>1, <2>1
  <2>5. ReturnKnown'
    BY <1>1, <2>3, <2>4 DEF ReturnKnown, ReturnReported
  <2>6. /\ crew'.step = "RETURN" /\ crew'.mission = crew.mission
        /\ crew # Away
    BY <1>1, <2>1 DEF CrewType, Away
  <2>7. CrewMine' /\ CrewHasPath' /\ IdleHasNoStages' /\ PublishingPlans'
    BY <1>1, <2>6
    DEF CrewMine, CrewHasPath, IdleHasNoStages, PublishingPlans
  <2>8. PathIsNumbered'
    BY <1>1, <2>2, <2>3 DEF PathIsNumbered
  <2>9. QED BY <2>5, <2>7, <2>8
<1>4. CASE ~CrewCommitsReturn
  <2>1. dropped' = dropped
    BY <1>4
    DEF CrewEnters, CrewLifts, CrewCommitsDrive, PairArrives,
        CrewCommitsRelease, CrewCommitsHome, CrewRestarts, history
  <2>2. \A i \in 1 .. Len(commitWire') :
           commitWire'[i].stage # "RETURN"
           \/ (i \in 1 .. Len(commitWire) /\ commitWire'[i] = commitWire[i])
    <3>1. ASSUME NEW stage, stage # "RETURN", Commit(stage)
          PROVE  <2>2!:
      BY <1>1, <3>1 DEF Commit
    <3>2. CASE CrewCommitsDrive    BY <3>1, <3>2 DEF CrewCommitsDrive
    <3>3. CASE CrewCommitsRelease  BY <3>1, <3>3 DEF CrewCommitsRelease
    <3>4. CASE CrewCommitsHome     BY <3>1, <3>4 DEF CrewCommitsHome
    <3>5. CASE CrewEnters \/ CrewLifts \/ PairArrives \/ CrewRestarts
      BY <3>5 DEF CrewEnters, CrewLifts, PairArrives, CrewRestarts, topics
    <3>6. QED BY <1>4, <3>2, <3>3, <3>4, <3>5
  <2>3. ReturnKnown' /\ PathIsNumbered' /\ IdleHasNoStages' /\ PublishingPlans'
    BY <1>1, <2>1, <2>2
    DEF ReturnKnown, ReturnReported, PathIsNumbered, IdleHasNoStages,
        PublishingPlans
  <2>4. \/ crew' = Away
        \/ crew' = crew
        \/ /\ crew' = [mission |-> fleet.mission, step |-> "entering"]
           /\ fleet.state = "WAIT_LIFT"
        \/ \E step \in {"lifted", "DRIVE"} :
              crew # Away /\ crew' = [crew EXCEPT !.step = step]
        \/ /\ crew # Away /\ pair.mission = crew.mission
           /\ crew' = [crew EXCEPT !.step = "RELEASE"]
    BY <1>4
    DEF CrewEnters, CrewLifts, CrewCommitsDrive, PairArrives,
        CrewCommitsRelease, CrewCommitsHome, CrewRestarts, Away
  <2>5. CrewMine' /\ CrewHasPath'
    BY <1>1, <2>4 DEF CrewMine, CrewHasPath, CrewType, Away
  <2>6. QED BY <2>3, <2>5
<1>5. QED BY <1>3, <1>4

LEMMA LifeKeepsPath ==
    ASSUME Joint, PathInv, Assign \/ Crash \/ Start \/ UNCHANGED vars
    PROVE  PathInv'
<1>1. /\ UNCHANGED <<crew, commitWire, dropped, pair, issued>>
      /\ fleet' = fleet \/ fleet' = Fresh
  BY DEF Assign, Crash, Start, vars, topics, history
<1>2. CASE fleet' = Fresh
  BY <1>1, <1>2, FreshKeepsPath
<1>3. CASE fleet' = fleet
  BY <1>1, <1>3
  DEF PathInv, ReturnKnown, ReturnReported, CrewMine, CrewHasPath,
      PathIsNumbered, IdleHasNoStages, PublishingPlans
<1>4. QED BY <1>1, <1>2, <1>3

LEMMA PathKept == Joint /\ PathInv /\ [Next]_vars => PathInv'
<1> SUFFICES ASSUME Joint, PathInv, [Next]_vars PROVE PathInv'
  OBVIOUS
<1>1. CASE UNCHANGED vars
  BY <1>1, LifeKeepsPath
<1>2. CASE \/ \E v \in Vehicles \cup {Anonymous}, s \in Slots \cup {NoSlot} :
                 ApprovePark(v, s)
           \/ TargetSeen \/ ApprovalLapses \/ LiftedRepeated \/ LiftedCb \/ StartPlanning
           \/ \E s \in Slots : Reserve(s)
           \/ PublishPark \/ PublishFails \/ PlanRetrieve
           \/ ArrivedCb \/ SyncFault \/ Rearm
  BY <1>2, NodeEffects, NodeKeepsPath
<1>3. CASE \/ \E m \in Missions : StartPark(m)
           \/ \E m \in Missions, s \in Slots : StartRetrieve(m, s)
  BY <1>3, StartKeepsPath
<1>4. CASE CommitCb \/ CommitIgnored \/ CompleteCb \/ CompleteIgnored
  BY <1>4, ReportsKeepPath
<1>5. CASE \/ CrewEnters \/ CrewLifts \/ CrewCommitsDrive \/ PairArrives
           \/ CrewCommitsRelease \/ CrewCommitsReturn \/ CrewCommitsHome
           \/ CrewRestarts
  BY <1>5, CrewKeepsPath
<1>6. CASE Assign \/ Crash \/ Start
  BY <1>6, LifeKeepsPath
<1>7. QED BY <1>1, <1>2, <1>3, <1>4, <1>5, <1>6 DEF Next

LEMMA PathAtStart == Init => PathInv
<1> SUFFICES ASSUME Init PROVE PathInv
  OBVIOUS
<1>1. /\ fleet = Fresh /\ crew = Away /\ pair = NoPath /\ commitWire = <<>>
      /\ dropped = [m \in Missions |-> Nowhere]
  BY DEF Init
<1>2. Len(commitWire) = 0 /\ \A m \in Missions : dropped[m].plan = 0
  BY <1>1 DEF Nowhere
<1>3. ReturnKnown /\ CrewMine /\ CrewHasPath /\ PathIsNumbered
  BY <1>1, <1>2
  DEF ReturnKnown, ReturnReported, CrewMine, CrewHasPath, PathIsNumbered,
      Fresh, Away, NoPath
<1>4. QED BY <1>1, <1>3
      DEF PathInv, IdleHasNoStages, PublishingPlans, Fresh

LEMMA PathInvariant == Spec => []PathInv
BY PathAtStart, PathKept, JointInvariant, PTL DEF Spec

-----------------------------------------------------------------------------
(* The one path of a parking. *)

LEMMA NodeKeepsPark ==
    ASSUME Joint, PathInv, ParkInv,
           \/ Stays \/ Reserves \/ GivesUp \/ Publishes \/ Hears
           \/ fleet.state = "WAIT_LIFT" /\ Turns("PLAN_PATH") /\ pair' = pair
           \/ /\ fleet.state = "FAULT" /\ fleet.kind # "park"
              /\ Turns("PLAN_PATH") /\ pair' = pair
           \/ /\ crew.step = "DRIVE" /\ pair' = NoPath
              /\ \/ /\ fleet' = fleet
                    /\ UNCHANGED <<crew, commitWire, issued, dropped>>
                 \/ Turns("FAULT")
    PROVE  ParkInv'
<1> USE DEF ParkInv
<1>1. /\ fleet'.mission = fleet.mission /\ fleet'.kind = fleet.kind
      /\ dropped' = dropped
  BY DEF Stays, Reserves, GivesUp, Publishes, Hears, Turns, NodeGoes
<1>2. /\ fleet.kind = "park" => fleet.mission # NoMission
      /\ fleet.unpublished # NoSlot => fleet.state = "PLAN_PATH"
      /\ fleet.plan \in Nat
  BY JointFacts, FleetAssumption
  DEF Bookkeeping, FleetTypes, NodeType, PathInv, PublishingPlans
<1>3. Unplanned'
  BY <1>1, <1>2
  DEF Stays, Reserves, GivesUp, Publishes, Hears, Turns, NodeGoes, Unplanned
<1>4. PairMine'
  BY <1>1, <1>2
  DEF Stays, Reserves, GivesUp, Publishes, Hears, Turns, NodeGoes, PairMine,
      Planned, NoPath
<1>5. DroppedMine'
  BY <1>1, <1>2
  DEF Stays, Reserves, GivesUp, Publishes, Hears, Turns, NodeGoes,
      DroppedMine, Planned
<1>6. PoseMine'
  BY <1>1, <1>2
  DEF Stays, Reserves, GivesUp, Publishes, Hears, Turns, NodeGoes, PoseMine,
      Unplanned
<1>7. QED BY <1>3, <1>4, <1>5, <1>6

LEMMA StartKeepsPark ==
    ASSUME Joint, PathInv, ParkInv, NEW m \in Missions,
           StartPark(m) \/ \E s \in Slots : StartRetrieve(m, s)
    PROVE  ParkInv'
<1>1. fleet \in NodeType(plans) /\ Bookkeeping
  BY JointFacts DEF FleetTypes
<1>2. CASE StartPark(m)
  <2>1. /\ fleet' = [fleet EXCEPT !.state = "WAIT_LIFT", !.mission = m,
                                  !.kind = "park", !.approved = FALSE]
        /\ UNCHANGED <<dropped, pair>>
        /\ m \notin issued /\ fleet.state = "WAIT_TARGET"
    BY <1>2 DEF StartPark
  <2>2. /\ fleet'.plan = fleet.plan /\ fleet'.pose = fleet.pose
        /\ fleet'.mission = m
    BY <1>1, <2>1 DEF NodeType
  <2>3. /\ fleet.plan = 0 /\ fleet.pose = 0
        /\ pair.mission # m /\ ~(dropped[m].plan # 0)
    BY <2>1, FleetAssumption DEF ParkInv, Unplanned, PathInv, PathIsNumbered
  <2>4. QED
    BY <2>1, <2>2, <2>3
    DEF ParkInv, Unplanned, PairMine, DroppedMine, PoseMine
<1>3. ASSUME NEW s \in Slots, StartRetrieve(m, s) PROVE ParkInv'
  <2>1. fleet' = [fleet EXCEPT !.state = "WAIT_LIFT", !.mission = m,
                               !.kind = "retrieve", !.source = s,
                               !.target = TRUE]
    BY <1>3 DEF StartRetrieve
  <2>2. fleet'.kind = "retrieve" /\ fleet'.state = "WAIT_LIFT"
    BY <1>1, <2>1 DEF NodeType
  <2>3. QED
    BY <2>2 DEF ParkInv, Unplanned, PairMine, DroppedMine, PoseMine
<1>4. QED BY <1>2, <1>3

LEMMA FreshKeepsPark ==
    ASSUME fleet' = Fresh PROVE ParkInv'
BY DEF Fresh, ParkInv, Unplanned, PairMine, DroppedMine, PoseMine

LEMMA SameKeepsPark ==
    ASSUME ParkInv, UNCHANGED <<pair, dropped>>,
           fleet'.kind = fleet.kind, fleet'.mission = fleet.mission,
           fleet'.state = fleet.state, fleet'.plan = fleet.plan,
           fleet'.pose = fleet.pose, fleet'.destination = fleet.destination
    PROVE  ParkInv'
BY DEF ParkInv, Unplanned, PairMine, DroppedMine, PoseMine, Planned

LEMMA ReportsKeepPark ==
    ASSUME Joint, ParkInv, CommitCb \/ CommitIgnored \/ CompleteCb \/ CompleteIgnored
    PROVE  ParkInv'
<1>1. /\ fleet \in NodeType(plans)
      /\ UNCHANGED <<dropped, pair>>
  BY JointFacts DEF FleetTypes, CommitCb, CommitIgnored, CompleteCb, CompleteIgnored
<1>2. \/ fleet' = Fresh
      \/ fleet' = fleet
      \/ fleet' = [fleet EXCEPT !.completion = TRUE]
      \/ fleet' = [fleet EXCEPT !.stages = @ \cup {Head(commitWire).stage}]
  BY DEF CommitCb, CommitIgnored, CompleteCb, CompleteIgnored, Finalize
<1>3. CASE fleet' = Fresh
  BY <1>3, FreshKeepsPark
<1>4. CASE fleet' # Fresh
  <2>1. /\ fleet'.kind = fleet.kind /\ fleet'.mission = fleet.mission
        /\ fleet'.state = fleet.state /\ fleet'.plan = fleet.plan
        /\ fleet'.pose = fleet.pose
        /\ fleet'.destination = fleet.destination
    BY <1>1, <1>2, <1>4 DEF NodeType
  <2>2. QED BY <1>1, <2>1, SameKeepsPark
<1>5. QED BY <1>3, <1>4

LEMMA CrewKeepsPark ==
    ASSUME Joint, PathInv, ParkInv,
           \/ CrewEnters \/ CrewLifts \/ CrewCommitsDrive \/ PairArrives
           \/ CrewCommitsRelease \/ CrewCommitsReturn \/ CrewCommitsHome
           \/ CrewRestarts
    PROVE  ParkInv'
<1>1. /\ fleet' = fleet
      /\ pair \in PairType(plans) /\ crew \in CrewType
      /\ dropped \in [Missions -> SpotType(plans)]
      /\ pair'.mission = pair.mission /\ pair'.plan = pair.plan
      /\ pair'.slot = pair.slot
  BY JointFacts
  DEF CrewEnters, CrewLifts, CrewCommitsDrive, PairArrives,
      CrewCommitsRelease, CrewCommitsReturn, CrewCommitsHome,
      CrewRestarts, history, FleetTypes, PairType
<1>2. CASE CrewCommitsReturn
  <2>1. /\ crew.step = "RELEASE"
        /\ dropped' = [dropped EXCEPT ![crew.mission] =
                          [plan |-> pair.plan, slot |-> pair.slot]]
    BY <1>2 DEF CrewCommitsReturn
  <2>2. /\ pair.mission = crew.mission
        /\ crew.mission \in Missions
        /\ fleet.kind = "park" => fleet.mission \in Missions
    BY <1>1, <2>1, JointFacts
    DEF PathInv, CrewHasPath, Bookkeeping, CrewType, FleetTypes, NodeType
  <2>3. /\ dropped'[crew.mission] = [plan |-> pair.plan, slot |-> pair.slot]
        /\ \A m \in Missions \ {crew.mission} : dropped'[m] = dropped[m]
    BY <1>1, <2>1, <2>2
  <2>4. DroppedMine'
    BY <1>1, <2>2, <2>3 DEF ParkInv, DroppedMine, PairMine, Planned
  <2>5. QED
    BY <1>1, <2>4 DEF ParkInv, Unplanned, PairMine, PoseMine, Planned
<1>3. CASE ~CrewCommitsReturn
  <2>1. dropped' = dropped
    BY <1>3
    DEF CrewEnters, CrewLifts, CrewCommitsDrive, PairArrives,
        CrewCommitsRelease, CrewCommitsHome, CrewRestarts, history
  <2>2. QED
    BY <1>1, <2>1
    DEF ParkInv, Unplanned, PairMine, DroppedMine, PoseMine, Planned
<1>4. QED BY <1>2, <1>3

LEMMA LifeKeepsPark ==
    ASSUME ParkInv, Assign \/ Crash \/ Start \/ UNCHANGED vars
    PROVE  ParkInv'
<1>1. /\ UNCHANGED <<dropped, pair>>
      /\ fleet' = fleet \/ fleet' = Fresh
  BY DEF Assign, Crash, Start, vars, topics, history
<1>2. QED BY <1>1, FreshKeepsPark, SameKeepsPark

LEMMA ParkKept ==
    ASSUME "park" \notin Rearms
    PROVE  Joint /\ PathInv /\ ParkInv /\ [Next]_vars => ParkInv'
<1> SUFFICES ASSUME Joint, PathInv, ParkInv, [Next]_vars PROVE ParkInv'
  OBVIOUS
<1>1. CASE UNCHANGED vars
  BY <1>1, LifeKeepsPark
<1>2. CASE \/ \E v \in Vehicles \cup {Anonymous}, s \in Slots \cup {NoSlot} :
                 ApprovePark(v, s)
           \/ TargetSeen \/ ApprovalLapses \/ LiftedRepeated \/ LiftedCb \/ StartPlanning
           \/ \E s \in Slots : Reserve(s)
           \/ PublishPark \/ PublishFails \/ PlanRetrieve
           \/ ArrivedCb \/ SyncFault \/ Rearm
  <2>1. fleet.kind \in Rearms => fleet.kind # "park"
    OBVIOUS
  <2>2. QED BY <1>2, <2>1, NodeEffects, NodeKeepsPark
<1>3. CASE \/ \E m \in Missions : StartPark(m)
           \/ \E m \in Missions, s \in Slots : StartRetrieve(m, s)
  BY <1>3, StartKeepsPark
<1>4. CASE CommitCb \/ CommitIgnored \/ CompleteCb \/ CompleteIgnored
  BY <1>4, ReportsKeepPark
<1>5. CASE \/ CrewEnters \/ CrewLifts \/ CrewCommitsDrive \/ PairArrives
           \/ CrewCommitsRelease \/ CrewCommitsReturn \/ CrewCommitsHome
           \/ CrewRestarts
  BY <1>5, CrewKeepsPark
<1>6. CASE Assign \/ Crash \/ Start
  BY <1>6, LifeKeepsPark
<1>7. QED BY <1>1, <1>2, <1>3, <1>4, <1>5, <1>6 DEF Next

LEMMA ParkAtStart == Init => ParkInv
BY DEF Init, Fresh, ParkInv, Unplanned, PairMine, DroppedMine, PoseMine

LEMMA ParkInvariant ==
    ASSUME "park" \notin Rearms PROVE Spec => []ParkInv
BY ParkAtStart, ParkKept, PathInvariant, JointInvariant, PTL DEF Spec

-----------------------------------------------------------------------------
(* Which calls place a car in a row, and take it out. *)

PlacedSame == \A t \in Slots : disk'[t].placed = disk[t].placed

\* Only row s, held by m, may change, and to what is given.
PlacedOnly(s, m, placed) ==
    /\ s \in Slots /\ disk[s].mission = m
    /\ disk'[s].placed = placed
    /\ \A t \in Slots \ {s} : disk'[t].placed = disk[t].placed

RowsPlaced ==
    \A s \in Slots :
        /\ disk[s].placed \in BOOLEAN
        /\ disk[s].lifecycle \in {"EMPTY", "RESERVED"} =>
              disk[s].placed = FALSE
        /\ disk[s].lifecycle \in {"OCCUPIED", "EXIT_RESERVED", "EXITING"} =>
              disk[s].placed = TRUE

LEMMA RowsArePlaced == Joint => RowsPlaced
<1> SUFFICES ASSUME Joint, NEW s \in Slots
             PROVE  /\ disk[s].placed \in BOOLEAN
                    /\ disk[s].lifecycle \in {"EMPTY", "RESERVED"} =>
                          disk[s].placed = FALSE
                    /\ disk[s].lifecycle \in
                             {"OCCUPIED", "EXIT_RESERVED", "EXITING"} =>
                          disk[s].placed = TRUE
  BY DEF RowsPlaced
<1>1. disk[s] \in Reg!ParkingRecord /\ Reg!WellFormed(disk[s])
  BY DEF Joint, Reg!IndInv, Reg!TypeOK, Reg!RowsWellFormed
<1>2. disk[s].placed \in BOOLEAN
  BY <1>1 DEF Reg!ParkingRecord
<1>3. disk[s].lifecycle = "EMPTY" => disk[s] = Reg!EmptyRecord
  BY <1>1 DEF Reg!WellFormed
<1>4. Reg!EmptyRecord.placed = FALSE
  BY DEF Reg!EmptyRecord
<1>5. disk[s].lifecycle = "RESERVED" => ~disk[s].placed
  BY <1>1 DEF Reg!WellFormed
<1>6. disk[s].lifecycle \in {"OCCUPIED", "EXIT_RESERVED", "EXITING"} =>
         disk[s].placed
  BY <1>1 DEF Reg!WellFormed
<1>7. QED BY <1>2, <1>3, <1>4, <1>5, <1>6

\* The row a call replaces, and the others.
LEMMA ReplacedRow ==
    ASSUME Joint, Joint', NEW s \in Slots, NEW rec,
           disk' = [disk EXCEPT ![s] = rec]
    PROVE  /\ \A t \in Slots \ {s} : disk'[t] = disk[t]
           /\ disk'[s] = rec
           /\ rec.lifecycle \in {"EMPTY", "RESERVED"} =>
                 disk'[s].placed = FALSE
           /\ rec.lifecycle \in {"OCCUPIED", "EXIT_RESERVED", "EXITING"} =>
                 disk'[s].placed = TRUE
           /\ disk[s].lifecycle \in {"EMPTY", "RESERVED"} =>
                 disk[s].placed = FALSE
           /\ disk[s].lifecycle \in {"OCCUPIED", "EXIT_RESERVED", "EXITING"}
                 => disk[s].placed = TRUE
<1>1. RowsPlaced /\ RowsPlaced'
  BY RowsArePlaced, PTL
<1>2. /\ disk'[s] = rec
      /\ \A t \in Slots \ {s} : disk'[t] = disk[t]
  BY JointFacts
<1>3. QED BY <1>1, <1>2 DEF RowsPlaced

\* Calls that neither place a car nor take one out.
LEMMA QuietCalls ==
    ASSUME Joint, Joint', NEW s \in Slots, NEW m \in Missions,
           \/ \E v \in Vehicles \cup {Anonymous}, c \in BOOLEAN :
                 Registry!ReservePark(s, m, v, c)
           \/ Registry!RollbackUnpublishedPark(s, m)
           \/ Registry!ReserveRetrieve(s, m)
           \/ Registry!MarkRetrieveExiting(s, m)
    PROVE  PlacedSame
<1> USE JointFacts, SameCalls, RegistryAssumed
<1>1. ASSUME NEW v \in Vehicles \cup {Anonymous}, NEW c \in BOOLEAN,
             Registry!ReservePark(s, m, v, c)
      PROVE  PlacedSame
  <2>1. Reg!ReservePark(s, m, v, c) /\ Reg!IndInv /\ v \in Reg!Numbers
    BY <1>1 DEF Reg!Numbers
  <2>2. PICK rec \in Reg!ParkingRecord :
           /\ disk' = [disk EXCEPT ![s] = rec]
           /\ rec.lifecycle = "RESERVED" /\ rec.mission = m /\ rec.number = v
    BY <2>1, Reg!ReserveParkWrites
  <2>3. disk[s].lifecycle = "EMPTY"
    BY <2>1, Reg!ReserveParkWrites
  <2>4. QED BY <2>2, <2>3, ReplacedRow DEF PlacedSame
<1>2. CASE Registry!RollbackUnpublishedPark(s, m)
  <2>1. Reg!RollbackUnpublishedPark(s, m) /\ Reg!IndInv
    BY <1>2
  <2>2. /\ disk[s].lifecycle = "RESERVED"
        /\ disk' = [disk EXCEPT ![s] = Reg!EmptyRecord]
    BY <2>1, Reg!RollbackWrites
  <2>3. Reg!EmptyRecord.lifecycle = "EMPTY"
    BY DEF Reg!EmptyRecord
  <2>4. QED BY <2>2, <2>3, ReplacedRow DEF PlacedSame
<1>3. CASE Registry!ReserveRetrieve(s, m)
  <2>1. Reg!ReserveRetrieve(s, m) /\ Reg!IndInv
    BY <1>3
  <2>2. PICK rec \in Reg!ParkingRecord :
           /\ disk' = [disk EXCEPT ![s] = rec]
           /\ rec.lifecycle = "EXIT_RESERVED" /\ rec.mission = m
           /\ rec.number = disk[s].number /\ rec.placed
    BY <2>1, Reg!ReserveRetrieveWrites
  <2>3. disk[s].lifecycle = "OCCUPIED"
    BY <2>1, Reg!ReserveRetrieveWrites
  <2>4. QED BY <2>2, <2>3, ReplacedRow DEF PlacedSame
<1>4. CASE Registry!MarkRetrieveExiting(s, m)
  <2>1. Reg!MarkRetrieveExiting(s, m) /\ Reg!IndInv
    BY <1>4
  <2>2. PICK rec \in Reg!ParkingRecord :
           /\ disk' = [disk EXCEPT ![s] = rec]
           /\ rec.lifecycle = "EXITING" /\ rec.mission = m
           /\ rec.number = disk[s].number /\ rec.placed
    BY <2>1, Reg!MarkExitingWrites
  <2>3. disk[s].lifecycle = "EXIT_RESERVED"
    BY <2>1, Reg!MarkExitingWrites
  <2>4. QED BY <2>2, <2>3, ReplacedRow DEF PlacedSame
<1>5. QED BY <1>1, <1>2, <1>3, <1>4

LEMMA ParkPlaces ==
    ASSUME Joint, Joint', NEW s \in Slots, NEW m \in Missions,
           Registry!CompletePark(s, m)
    PROVE  PlacedOnly(s, m, TRUE)
<1>1. Reg!CompletePark(s, m) /\ Reg!IndInv
  BY JointFacts, SameCalls
<1>2. PICK rec \in Reg!ParkingRecord :
         /\ disk' = [disk EXCEPT ![s] = rec]
         /\ rec.lifecycle = "OCCUPIED" /\ rec.mission = NoMission
         /\ rec.number = disk[s].number
  BY <1>1, RegistryAssumed, Reg!CompleteParkWrites
<1>3. disk[s].mission = m
  BY <1>1, RegistryAssumed, Reg!CompleteParkWrites
<1>4. /\ \A t \in Slots \ {s} : disk'[t] = disk[t]
      /\ disk'[s].placed = TRUE
  <2>1. /\ \A t \in Slots \ {s} : disk'[t] = disk[t]
        /\ rec.lifecycle \in {"OCCUPIED", "EXIT_RESERVED", "EXITING"} =>
              disk'[s].placed = TRUE
    BY <1>2, ReplacedRow
  <2>2. QED BY <2>1, <1>2
<1>5. QED BY <1>3, <1>4 DEF PlacedOnly

LEMMA RetrieveFrees ==
    ASSUME Joint, Joint', NEW s \in Slots, NEW m \in Missions,
           Registry!CompleteRetrieve(s, m)
    PROVE  PlacedOnly(s, m, FALSE)
<1>1. Reg!CompleteRetrieve(s, m) /\ Reg!IndInv
  BY JointFacts, SameCalls
<1>2. /\ disk[s].mission = m
      /\ disk' = [disk EXCEPT ![s] = Reg!EmptyRecord]
  BY <1>1, RegistryAssumed, Reg!CompleteRetrieveWrites
<1>3. Reg!EmptyRecord.lifecycle = "EMPTY"
  BY DEF Reg!EmptyRecord
<1>4. /\ \A t \in Slots \ {s} : disk'[t] = disk[t]
      /\ disk'[s].placed = FALSE
  <2>1. /\ \A t \in Slots \ {s} : disk'[t] = disk[t]
        /\ Reg!EmptyRecord.lifecycle \in {"EMPTY", "RESERVED"} =>
              disk'[s].placed = FALSE
    BY <1>2, ReplacedRow
  <2>2. QED BY <2>1, <1>3
<1>5. QED BY <1>2, <1>4 DEF PlacedOnly

\* The two steps at which a row is filled or freed, and their conditions.
Fills(f) ==
    /\ ParkComplete(f) /\ PlacedOnly(f.destination, f.mission, TRUE)
    /\ fleet' = f

Frees ==
    /\ commitWire # <<>> /\ Head(commitWire).mission = fleet.mission
    /\ Head(commitWire).stage = "RETURN"
    /\ PlacedOnly(fleet.source, fleet.mission, FALSE)

LEMMA TryPlaces ==
    ASSUME Joint, Joint', NEW f, f.destination \in Slots \cup {NoSlot},
           f.mission \in Missions, TryCompletePark(f)
    PROVE  \/ PlacedSame
           \/ /\ ParkComplete(f)
              /\ PlacedOnly(f.destination, f.mission, TRUE)
<1>1. CASE ParkComplete(f)
  BY <1>1, ParkPlaces DEF TryCompletePark, ParkComplete
<1>2. CASE ~ParkComplete(f)
  BY <1>2 DEF TryCompletePark, registry, PlacedSame
<1>3. QED BY <1>1, <1>2

\* Every step leaves the placed cars where they are, or is one of the two.
LEMMA PlacedSteps ==
    ASSUME Joint, Joint', [Next]_vars
    PROVE  \/ PlacedSame
           \/ ArrivedCb /\ Fills([fleet EXCEPT !.pose = pair.plan])
           \/ /\ CommitCb
              /\ Fills([fleet EXCEPT !.stages = @ \cup {Head(commitWire).stage}])
              /\ Head(commitWire).mission = fleet.mission
              /\ commitWire # <<>>
           \/ Frees
<1>1. fleet \in NodeType(plans) /\ Bookkeeping /\ Typed
  BY JointFacts DEF FleetTypes
<1>2. CASE disk' = disk
  BY <1>2 DEF PlacedSame
<1>3. ASSUME NEW m \in Missions, NEW s \in Slots, StartRetrieve(m, s)
      PROVE  PlacedSame
  BY <1>3, QuietCalls DEF StartRetrieve
<1>4. ASSUME NEW s \in Slots, Reserve(s) PROVE PlacedSame
  <2>1. fleet.mission \in Missions /\ fleet.number \in Vehicles \cup {Anonymous}
    BY <1>1, <1>4 DEF Reserve, NodeType, Bookkeeping
  <2>2. (fleet.number # Anonymous) \in BOOLEAN
    OBVIOUS
  <2>3. PICK m \in Missions, v \in Vehicles \cup {Anonymous}, c \in BOOLEAN :
           Registry!ReservePark(s, m, v, c)
    BY <1>4, <2>1, <2>2 DEF Reserve
  <2>4. QED BY <2>3, QuietCalls
<1>5. CASE PublishFails
  <2>1. fleet.mission \in Missions /\ fleet.unpublished \in Slots
    BY <1>1, <1>5 DEF PublishFails, NodeType, Bookkeeping
  <2>2. QED BY <1>5, <2>1, QuietCalls DEF PublishFails
<1>6. CASE ArrivedCb
  <2> DEFINE f == [fleet EXCEPT !.pose = pair.plan]
  <2>1. /\ f.destination \in Slots \cup {NoSlot} /\ f.mission \in Missions
        /\ TryCompletePark(f) /\ fleet' = f
    BY <1>1, <1>6 DEF ArrivedCb, HeardArrival, NodeType
  <2> HIDE DEF f
  <2>2. PlacedSame \/ Fills(f)
    BY <2>1, TryPlaces DEF Fills
  <2>3. QED BY <1>6, <2>2 DEF f
<1>7. CASE CommitCb
  <2> DEFINE stage == Head(commitWire).stage
             f == [fleet EXCEPT !.stages = @ \cup {stage}]
  <2>1. /\ commitWire # <<>> /\ Head(commitWire).mission = fleet.mission
        /\ \/ UNCHANGED registry
           \/ fleet' = f /\ CommitEffect(f, stage)
    BY <1>7 DEF CommitCb, Finalize
  <2>2. /\ f.destination \in Slots \cup {NoSlot} /\ f.mission \in Missions
        /\ f.kind = "retrieve" => f.source \in Slots
        /\ f.mission = fleet.mission /\ f.source = fleet.source
    BY <1>1, <2>1, CommitNoted
  <2> HIDE DEF f
  <2>3. CASE UNCHANGED registry
    BY <1>2, <2>3 DEF registry
  <2>4. CASE f.kind = "retrieve" /\ Registry!MarkRetrieveExiting(f.source, f.mission)
    BY <2>2, <2>4, QuietCalls
  <2>5. CASE /\ f.kind = "retrieve" /\ stage = "RETURN"
             /\ Registry!CompleteRetrieve(f.source, f.mission)
    BY <2>1, <2>2, <2>5, RetrieveFrees DEF Frees
  <2>6. CASE TryCompletePark(f) /\ fleet' = f
    <3>1. PlacedSame \/ Fills(f)
      BY <2>2, <2>6, TryPlaces DEF Fills
    <3>2. QED BY <1>7, <2>1, <3>1 DEF f
  <2>7. QED
    BY <2>1, <2>3, <2>4, <2>5, <2>6 DEF CommitEffect, FreesSource
<1>8. CASE CompleteCb
  BY <1>2, <1>8 DEF CompleteCb, Finalize, registry
<1>9. CASE Assign \/ Crash \/ Start \/ UNCHANGED vars
  BY <1>2, <1>9
  DEF Assign, Crash, Start, Registry!Assign, Registry!Crash,
      Registry!Restore, Registry!Refuse, vars
<1>10. CASE \/ \E v \in Vehicles \cup {Anonymous}, s \in Slots \cup {NoSlot} :
                  ApprovePark(v, s)
            \/ TargetSeen \/ ApprovalLapses \/ \E m \in Missions : StartPark(m)
            \/ LiftedRepeated \/ LiftedCb \/ StartPlanning \/ PublishPark
            \/ PlanRetrieve \/ SyncFault \/ Rearm \/ CommitIgnored
            \/ CompleteIgnored
  BY <1>2, <1>10 DEF ApprovePark, TargetSeen, ApprovalLapses, StartPark,
     LiftedRepeated, LiftedCb, StartPlanning, PublishPark, PlanRetrieve,
     SyncFault, Rearm, CommitIgnored, CompleteIgnored, registry
<1>11. CASE \/ CrewEnters \/ CrewLifts \/ CrewCommitsDrive \/ PairArrives
            \/ CrewCommitsRelease \/ CrewCommitsReturn \/ CrewCommitsHome
            \/ CrewRestarts
  BY <1>2, <1>11 DEF CrewEnters, CrewLifts, CrewCommitsDrive, PairArrives,
     CrewCommitsRelease, CrewCommitsReturn, CrewCommitsHome, CrewRestarts,
     registry
<1>12. QED
  BY <1>3, <1>4, <1>5, <1>6, <1>7, <1>8, <1>9, <1>10, <1>11 DEF Next

-----------------------------------------------------------------------------
(* The theorems. *)

\* A RETURN at the head of the wire is a report, too.
LEMMA HeadReported ==
    ASSUME Joint, PathInv, commitWire # <<>>,
           Head(commitWire).mission = fleet.mission,
           \/ Head(commitWire).stage = "RETURN"
           \/ "RETURN" \in fleet.stages
    PROVE  fleet.mission \in Missions /\ dropped[fleet.mission].plan # 0
<1>1. fleet.mission \in Missions
  BY JointFacts, CommitNoted
<1>2. Head(commitWire) = commitWire[1] /\ 1 \in 1 .. Len(commitWire)
  <2>1. commitWire \in Seq(Sent)
    BY JointFacts DEF FleetTypes
  <2>2. QED BY <2>1
<1>3. ReturnReported(fleet.mission)
  BY <1>2 DEF ReturnReported
<1>4. QED BY <1>1, <1>3 DEF PathInv, ReturnKnown

\* A retrieval frees its row only after the robots have set the car down on
\* the mission's path.
THEOREM RowsFreedWhenSetDown == Spec => FreedWhenSetDown
<1>1. ASSUME Joint, PathInv, [Next]_vars
      PROVE  [\A s \in Slots :
                 disk[s].placed /\ ~disk'[s].placed =>
                    dropped[disk[s].mission].plan # 0]_vars
  <2> SUFFICES ASSUME NEW s \in Slots, disk[s].placed, ~disk'[s].placed
               PROVE  dropped[disk[s].mission].plan # 0
    OBVIOUS
  <2>1. Joint'
    BY <1>1, JointKept
  <2>2. disk'[s].placed # disk[s].placed /\ disk'[s].placed # TRUE
    OBVIOUS
  <2>3. Frees /\ s = fleet.source /\ disk[s].mission = fleet.mission
    BY <1>1, <2>1, <2>2, PlacedSteps
    DEF PlacedSame, Fills, Frees, PlacedOnly
  <2>4. QED BY <1>1, <2>3, HeadReported DEF Frees
<1>2. QED BY <1>1, JointInvariant, PathInvariant, PTL
      DEF Spec, FreedWhenSetDown

\* A row is filled only for the car that was set down in it, with the pose of
\* the path it was driven on.
THEOREM RowsRecordSetDown ==
    ASSUME "park" \notin Rearms PROVE Spec => RecordedWhereSetDown
<1>1. ASSUME Joint, PathInv, ParkInv, [Next]_vars
      PROVE  [\A s \in Slots :
                 ~disk[s].placed /\ disk'[s].placed =>
                    dropped[disk[s].mission] =
                       [plan |-> fleet'.pose, slot |-> s]]_vars
  <2> SUFFICES ASSUME NEW s \in Slots, ~disk[s].placed, disk'[s].placed
               PROVE  dropped[disk[s].mission] =
                         [plan |-> fleet'.pose, slot |-> s]
    OBVIOUS
  <2>1. Joint' /\ fleet \in NodeType(plans)
    BY <1>1, JointKept, JointFacts DEF FleetTypes
  <2>2. disk'[s].placed # disk[s].placed /\ disk'[s].placed # FALSE
    OBVIOUS
  <2> DEFINE g == [fleet EXCEPT !.pose = pair.plan]
             h == [fleet EXCEPT !.stages = @ \cup {Head(commitWire).stage}]
  <2>3. /\ g.destination = fleet.destination /\ g.mission = fleet.mission
        /\ g.kind = fleet.kind /\ g.pose = pair.plan
        /\ g.stages = fleet.stages
    BY <2>1 DEF NodeType
  <2>4. /\ h.destination = fleet.destination /\ h.mission = fleet.mission
        /\ h.kind = fleet.kind /\ h.pose = fleet.pose
        /\ h.stages = fleet.stages \cup {Head(commitWire).stage}
    BY <2>1 DEF NodeType
  <2>5. \/ ArrivedCb /\ Fills(g)
        \/ /\ Fills(h) /\ Head(commitWire).mission = fleet.mission
           /\ commitWire # <<>>
    BY <1>1, <2>1, <2>2, PlacedSteps DEF PlacedSame, Frees, PlacedOnly
  <2> HIDE DEF g, h
  <2>6. CASE ArrivedCb /\ Fills(g)
    <3>1. /\ fleet.kind = "park" /\ "RETURN" \in fleet.stages
          /\ s = fleet.destination /\ disk[s].mission = fleet.mission
          /\ fleet'.pose = pair.plan
      BY <2>2, <2>3, <2>6 DEF Fills, ParkComplete, PlacedOnly
    <3>2. fleet.mission \in Missions /\ pair.plan = fleet.plan
      BY <2>1, <2>6 DEF ArrivedCb, HeardArrival, NodeType
    <3>3. dropped[fleet.mission].plan # 0
      BY <1>1, <3>1, <3>2 DEF PathInv, ReturnKnown, ReturnReported
    <3>4. QED BY <1>1, <3>1, <3>2, <3>3 DEF ParkInv, DroppedMine
  <2>7. CASE /\ Fills(h) /\ Head(commitWire).mission = fleet.mission
             /\ commitWire # <<>>
    <3>1. /\ fleet.kind = "park"
          /\ "RETURN" \in fleet.stages \/ Head(commitWire).stage = "RETURN"
          /\ s = fleet.destination /\ disk[s].mission = fleet.mission
          /\ fleet.pose # 0 /\ fleet'.pose = fleet.pose
      BY <2>2, <2>4, <2>7 DEF Fills, ParkComplete, PlacedOnly
    <3>2. dropped[fleet.mission].plan # 0
      BY <1>1, <2>7, <3>1, HeadReported
    <3>3. QED BY <1>1, <3>1, <3>2 DEF ParkInv, DroppedMine, PoseMine
  <2>8. QED BY <2>5, <2>6, <2>7
<1>2. QED BY <1>1, JointInvariant, PathInvariant, ParkInvariant, PTL
      DEF Spec, RecordedWhereSetDown

=============================================================================
