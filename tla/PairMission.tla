----------------------------- MODULE PairMission -----------------------------
(***************************************************************************)
(* What the two robots promise the rest of the system: they take a car     *)
(* through a mission                                                       *)
(*                                                                         *)
(*   away -> aligning -> lifting -> driving -> waiting -> releasing        *)
(*        -> returning -> away                                             *)
(*                                                                         *)
(* at most one stage apart.  Front goes first, from a stage in which Rear  *)
(* stands as well; Rear follows into the stage in which it sees Front.     *)
(* The car is lifted by both before either drives, and stands on the       *)
(* ground before either returns.                                           *)
(* Announcements, commits, the servo's orders, faults and rearms are       *)
(* invisible here: they are stutters.                                      *)
(***************************************************************************)
CONSTANTS
    Missions,     \* mission ids
    NoMission     \* no mission

VARIABLES
    stage,        \* stage of each robot
    task,         \* mission each robot is on, or NoMission
    holds,        \* does the robot hold its wheels of the car?
    completed     \* last mission declared complete, or NoMission

vars == <<stage, task, holds, completed>>

Robots == {"front", "rear"}

Peer(r) == IF r = "front" THEN "rear" ELSE "front"

Together == task["front"] = task["rear"] /\ task["front"] # NoMission

-----------------------------------------------------------------------------
Init ==
    /\ stage = [r \in Robots |-> "away"]
    /\ task = [r \in Robots |-> NoMission]
    /\ holds = [r \in Robots |-> FALSE]
    /\ completed = NoMission

Enter(r, new) == stage' = [stage EXCEPT ![r] = new]

\* A robot at rest takes a mission its peer is not yet working on.
Accept(r, m) ==
    /\ stage[r] = "away" /\ task[r] = NoMission
    /\ task[Peer(r)] = m => stage[Peer(r)] \in {"away", "aligning"}
    /\ task' = [task EXCEPT ![r] = m]
    /\ UNCHANGED <<stage, holds, completed>>

\* Each robot finds its own way to the car.
Align(r) ==
    /\ stage[r] = "away" /\ task[r] # NoMission
    /\ Enter(r, "aligning")
    /\ UNCHANGED <<task, holds, completed>>

\* Front leaves a stage with Rear in it, Rear enters a stage Front is in.
Step(r, from, to) ==
    /\ Together
    /\ stage[r] = from
    /\ stage[Peer(r)] = IF r = "front" THEN from ELSE to
    /\ Enter(r, to)
    /\ UNCHANGED <<task, holds, completed>>

Lift(r) == Step(r, "aligning", "lifting")

Drive(r) == Step(r, "lifting", "driving") /\ \A q \in Robots : holds[q]

\* The pair is at its goal: each robot stops on its own.
Arrive(r) ==
    /\ Together
    /\ stage[r] = "driving" /\ stage[Peer(r)] \in {"driving", "waiting"}
    /\ Enter(r, "waiting")
    /\ UNCHANGED <<task, holds, completed>>

Release(r) == Step(r, "waiting", "releasing")

Return(r) == Step(r, "releasing", "returning") /\ \A q \in Robots : ~holds[q]

\* Front declares the mission complete with Rear on its way home.
Complete ==
    /\ Together
    /\ \A r \in Robots : stage[r] = "returning"
    /\ Enter("front", "away")
    /\ task' = [task EXCEPT !["front"] = NoMission]
    /\ completed' = task["front"]
    /\ UNCHANGED holds

\* Rear is home in a mission that Front has completed.
FollowHome ==
    /\ ~Together
    /\ stage["rear"] = "returning"
    /\ Enter("rear", "away")
    /\ task' = [task EXCEPT !["rear"] = NoMission]
    /\ UNCHANGED <<holds, completed>>

Grip(r) ==
    /\ stage[r] = "lifting"
    /\ holds' = [holds EXCEPT ![r] = TRUE]
    /\ UNCHANGED <<stage, task, completed>>

LetGo(r) ==
    /\ stage[r] = "releasing"
    /\ holds' = [holds EXCEPT ![r] = FALSE]
    /\ UNCHANGED <<stage, task, completed>>

Next ==
    \/ \E r \in Robots :
          \/ \E m \in Missions : Accept(r, m)
          \/ Align(r) \/ Lift(r) \/ Drive(r) \/ Arrive(r) \/ Release(r)
          \/ Return(r) \/ Grip(r) \/ LetGo(r)
    \/ Complete
    \/ FollowHome

Spec == Init /\ [][Next]_vars
=============================================================================
