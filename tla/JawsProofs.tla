------------------------------ MODULE JawsProofs ------------------------------
(* Why the jaws of a robot move only the way its mission asks, for every set *)
(* of sessions, every length of the line and of the scheduler, and whatever  *)
(* goes wrong however often: the operations of the firmware, one by one, and *)
(* the invariant that no action of another stage is left anywhere.           *)
EXTENDS RobotLinkProofs

-----------------------------------------------------------------------------
(* The jaws. What an operation of the firmware does to them, and to what     *)
(* decides where they go next.                                               *)

\* The errors after which the bridge stops sending actions at once.
Stern == Code \ {"LIFT_WHILE_MOVING", "SERVO_NOT_ATTACHED"}

\* What stays through an operation that moves no servo.
SameJaws(m, n) ==
    /\ n.servo = m.servo /\ n.current = m.current
    /\ n.jaws = m.jaws /\ n.pulsed = m.pulsed
    /\ n.gripDone = m.gripDone /\ n.releaseDone = m.releaseDone
    /\ n.turning = m.turning

\* The operation stops what it stops, and holds the servo or does not.
Eases(m, n) ==
    /\ SameJaws(m, n)
    /\ n.estop = m.estop /\ n.ack = m.ack
    /\ n.target => m.target
    /\ n.attached => m.attached /\ n.session = m.session
    /\ n.session \in {m.session, None}
    /\ \/ n.moving = m.moving /\ n.goal = m.goal
       \/ ~n.moving /\ n.goal = n.current

\* If it holds the servo it says so.
Leaves(m, n) ==
    /\ Eases(m, n)
    /\ \/ n.err = m.err /\ n.moving = m.moving /\ n.goal = m.goal
       \/ n.err \in Stern

LEMMA LeavesOn == ASSUME NEW m, NEW n, NEW o, Leaves(m, n), Leaves(n, o) PROVE Leaves(m, o)
  BY DEF Leaves, Eases, SameJaws

LEMMA EasesOn == ASSUME NEW m, NEW n, NEW o, Eases(m, n), Eases(n, o) PROVE Eases(m, o)
  BY DEF Eases, SameJaws

LEMMA LeavesSame == ASSUME NEW m PROVE Leaves(m, m)
  BY DEF Leaves, Eases, SameJaws

LEMMA SternKinds ==
  /\ CommunicationTimeout \cup RequiresNewSession \cup Physical \subseteq Stern
  /\ "REQUIRED" \in Stern /\ "ESTOP_LATCHED" \in Stern /\ Stern \subseteq Code
  BY DEF Stern, Code, CommunicationTimeout, RequiresNewSession, Physical

LEMMA StoppedJaws ==
  ASSUME NEW m \in Mcu
  PROVE  LET s == Stopped(m)
         IN /\ s \in Mcu /\ SameJaws(m, s) /\ ~s.target
            /\ s.session = m.session /\ s.estop = m.estop /\ s.err = m.err /\ s.ack = m.ack
            /\ s.attached = m.attached /\ s.moving = m.moving /\ s.goal = m.goal
<1> DEFINE s == Stopped(m)
<1>1. s \in Mcu
  BY StoppedType
<1>2. /\ SameJaws(m, s) /\ ~s.target
      /\ s.session = m.session /\ s.estop = m.estop /\ s.err = m.err /\ s.ack = m.ack
      /\ s.attached = m.attached /\ s.moving = m.moving /\ s.goal = m.goal
  BY DEF Mcu, Stopped, SameJaws
<1> QED
  BY <1>1, <1>2

LEMMA LeavesStopped == ASSUME NEW m \in Mcu PROVE Leaves(m, Stopped(m))
  BY DEF Mcu, Stopped, Leaves, Eases, SameJaws

LEMMA EasesHeld == ASSUME NEW m \in Mcu PROVE Eases(m, Held(m))
  BY DEF Mcu, Held, Eases, SameJaws

LEMMA EasesClosed ==
  ASSUME NEW m \in Mcu
  PROVE  Eases(m, [m EXCEPT !.session = None, !.hbSeen = FALSE, !.cmdSeen = FALSE,
                            !.manual = FALSE, !.attached = FALSE])
  BY DEF Mcu, Eases, SameJaws

LEMMA EasesSame == ASSUME NEW m PROVE Eases(m, m)
  BY LeavesSame DEF Leaves

\* A failure: the bridge is told.
LEMMA LeavesFailed ==
  ASSUME NEW m \in Mcu, NEW code \in Stern PROVE Leaves(m, Failed(m, code))
<1> DEFINE lost == code \in CommunicationTimeout \cup RequiresNewSession
           stopped == IF code \in Physical \cup {"ESTOP_LATCHED"} THEN m ELSE Stopped(m)
           held == IF lost THEN Held(stopped) ELSE stopped
           shut == [held EXCEPT !.session = None, !.hbSeen = FALSE, !.cmdSeen = FALSE,
                                !.manual = FALSE, !.attached = FALSE]
           closed == IF code \in RequiresNewSession THEN shut ELSE held
           latched == closed.safety \/ code \in Physical
           failed == [closed EXCEPT !.safety = latched, !.err = code]
<1>1. Failed(m, code) = failed
  BY DEF Failed
<1>2. stopped \in Mcu /\ Eases(m, stopped)
  BY StoppedType, LeavesStopped, EasesSame DEF Leaves
<1> HIDE DEF stopped, lost
<1>3. held \in Mcu /\ Eases(m, held)
  <2>1. Held(stopped) \in Mcu
    BY <1>2, HeldType
  <2>2. Eases(m, Held(stopped))
    BY <1>2, EasesHeld, EasesOn
  <2> QED BY <1>2, <2>1, <2>2
<1> HIDE DEF held
<1>4. closed \in Mcu /\ Eases(m, closed)
  <2>1. shut \in Mcu
    BY <1>3, ClosedType
  <2>2. Eases(held, shut)
    BY <1>3, EasesClosed
  <2>3. Eases(m, shut)
    BY <1>3, <2>2, EasesOn
  <2> HIDE DEF shut
  <2> QED BY <1>3, <2>1, <2>3
<1> HIDE DEF closed, latched
<1>5. Eases(closed, failed) /\ failed.err = code
  BY <1>4 DEF Mcu, Eases, SameJaws
<1> HIDE DEF failed
<1>6. Eases(m, failed)
  BY <1>4, <1>5, EasesOn
<1> QED
  BY <1>1, <1>5, <1>6 DEF Leaves

\* An action or an attach that comes at the wrong time is refused.
Refuses(m, n, code) ==
    /\ SameJaws(m, n) /\ n.estop = m.estop /\ n.ack = m.ack /\ ~n.target
    /\ n.attached = m.attached /\ n.session = m.session
    /\ n.moving = m.moving /\ n.goal = m.goal /\ n.err = code

LEMMA RefusesFailed ==
  ASSUME NEW m \in Mcu, NEW code \in {"LIFT_WHILE_MOVING", "SERVO_NOT_ATTACHED"}
  PROVE  Refuses(m, Failed(m, code), code)
<1>1. code \notin CommunicationTimeout \cup RequiresNewSession \cup Physical \cup {"ESTOP_LATCHED"}
  BY DEF CommunicationTimeout, RequiresNewSession, Physical
<1> DEFINE s == Stopped(m)
<1>2. s \in Mcu
  BY StoppedType
<1>3. Failed(m, code) = [s EXCEPT !.safety = s.safety \/ code \in Physical, !.err = code]
  BY <1>1 DEF Failed
<1>4. SameJaws(m, s) /\ s.estop = m.estop /\ s.ack = m.ack /\ ~s.target
      /\ s.attached = m.attached /\ s.session = m.session
      /\ s.moving = m.moving /\ s.goal = m.goal
  BY StoppedJaws
<1> HIDE DEF s
<1> QED
  BY <1>2, <1>3, <1>4 DEF Mcu, Refuses, SameJaws

LEMMA LeavesLate == ASSUME NEW m \in Mcu, NEW code \in Stern PROVE Leaves(m, Late(m, code))
<1> DEFINE struck == [m EXCEPT !.hbOut = @ \/ code = "HEARTBEAT_TIMEOUT",
                               !.cmdOut = @ \/ code = "COMMAND_TIMEOUT"]
<1>1. struck \in Mcu
  <2>1. (m.hbOut \/ code = "HEARTBEAT_TIMEOUT") \in BOOLEAN
        /\ (m.cmdOut \/ code = "COMMAND_TIMEOUT") \in BOOLEAN
    OBVIOUS
  <2> QED BY <2>1, OutType
<1>2. Leaves(m, struck)
  BY DEF Mcu, Leaves, Eases, SameJaws
<1>3. Late(m, code) = Failed(struck, code)
  BY DEF Late
<1> HIDE DEF struck
<1> QED
  BY <1>1, <1>2, <1>3, LeavesFailed, LeavesOn

LEMMA LeavesHeartbeat ==
  ASSUME NEW m \in Mcu, NEW session \in Session PROVE Leaves(m, Heartbeat(m, session))
<1>1. Leaves(m, [m EXCEPT !.hbSeen = TRUE, !.hbOld = FALSE,
                          !.hback = [kind |-> "HB", session |-> session]])
  BY DEF Mcu, Leaves, Eases, SameJaws
<1> QED
  BY <1>1, LeavesFailed, LeavesLate, SternKinds DEF Heartbeat, CommunicationTimeout

\* A velocity, or the zero probe of a session, that is accepted.
Drives(m, n, drive, session) ==
    /\ SameJaws(m, n) /\ n.estop = m.estop /\ n.err = m.err /\ n.target = drive
    /\ n.attached = m.attached /\ n.session = m.session
    /\ n.moving = m.moving /\ n.goal = m.goal
    /\ n.ack = IF session = None THEN m.ack ELSE [kind |-> "zero", session |-> session]

LEMMA DrivesVelocity ==
  ASSUME NEW m \in Mcu, NEW drive \in BOOLEAN, NEW session \in Session \cup {None}
  PROVE  LET n == Velocity(m, drive, session) IN Leaves(m, n) \/ Drives(m, n, drive, session)
<1> DEFINE ack == IF session = None THEN m.ack ELSE [kind |-> "zero", session |-> session]
           driving == [m EXCEPT !.target = drive, !.cmdSeen = TRUE, !.cmdOld = FALSE,
                                !.manual = FALSE, !.openLoop = FALSE, !.ack = ack]
<1>1. driving = [m EXCEPT !.target = drive, !.cmdSeen = TRUE, !.cmdOld = FALSE,
                   !.manual = FALSE, !.openLoop = FALSE,
                   !.ack = IF session = None THEN @ ELSE [kind |-> "zero", session |-> session]]
  OBVIOUS
<1>2. Drives(m, driving, drive, session)
  <2> HIDE DEF ack
  <2>1. SameJaws(m, driving) /\ driving.ack = ack /\ driving.target = drive
        /\ driving.estop = m.estop /\ driving.err = m.err
        /\ driving.attached = m.attached /\ driving.session = m.session
        /\ driving.moving = m.moving /\ driving.goal = m.goal
    BY DEF Mcu, SameJaws
  <2> HIDE DEF driving
  <2> QED BY <2>1 DEF Drives, ack
<1> HIDE DEF driving
<1> QED
  BY <1>1, <1>2, LeavesFailed, LeavesLate, SternKinds DEF Velocity, CommunicationTimeout

\* An emergency stop: the servo is held, and the bridge knows why.
Freezes(m, n) ==
    /\ SameJaws(m, n) /\ n.estop /\ n.err = m.err /\ ~n.target
    /\ n.attached = m.attached /\ n.session = m.session
    /\ ~n.moving /\ n.goal = n.current /\ n.ack = [kind |-> "other"]

LEMMA FreezesEstop == ASSUME NEW m \in Mcu PROVE Freezes(m, Estop(m))
<1> DEFINE hit == [m EXCEPT !.estop = TRUE]
           s == Stopped(hit)
           h == Held(s)
<1>1. hit \in Mcu /\ SameJaws(m, hit) /\ hit.estop /\ hit.err = m.err
      /\ hit.attached = m.attached /\ hit.session = m.session
  BY DEF Mcu, SameJaws
<1> HIDE DEF hit
<1>2. s \in Mcu /\ SameJaws(hit, s) /\ s.estop /\ s.err = hit.err /\ ~s.target
      /\ s.attached = hit.attached /\ s.session = hit.session
  BY <1>1, StoppedJaws
<1> HIDE DEF s
<1>3. h \in Mcu
  BY <1>2, HeldType
<1>4. SameJaws(s, h) /\ h.estop /\ h.err = s.err /\ ~h.target
      /\ h.attached = s.attached /\ h.session = s.session /\ ~h.moving /\ h.goal = h.current
  BY <1>2 DEF Mcu, Held, SameJaws
<1> HIDE DEF h
<1>5. Freezes(h, Acked(h, [kind |-> "other"]))
  BY <1>3, <1>4 DEF Mcu, Acked, SameJaws, Freezes
<1>6. Estop(m) = Acked(h, [kind |-> "other"])
  BY DEF Estop, h, s, hit
<1> QED
  BY <1>1, <1>2, <1>4, <1>5, <1>6 DEF Freezes, SameJaws

\* A session opens: the servo is no longer attached, and goes on.
Opens(m, n, session) ==
    /\ SameJaws(m, n) /\ n.estop = m.estop /\ n.err \in {m.err, None} /\ ~n.target
    /\ ~n.attached /\ n.session = session
    /\ n.moving = m.moving /\ n.goal = m.goal
    /\ n.ack = [kind |-> "HELLO", session |-> session]

LEMMA OpensHello ==
  ASSUME NEW m \in Mcu, NEW session \in Session
  PROVE  Leaves(m, Hello(m, session)) \/ Opens(m, Hello(m, session), session)
<1> DEFINE same == m.session = session
           hbLate == same /\ (m.hbOut \/ (m.hbSeen /\ m.hbOld))
           cmdLate == same /\ (m.cmdOut \/ (m.cmdSeen /\ m.cmdOld))
           s == Stopped(m)
           late == [s EXCEPT !.hbOut = @ \/ hbLate, !.cmdOut = @ \/ cmdLate]
           err == IF s.err \in CommunicationTimeout THEN None ELSE s.err
           opened == [s EXCEPT
                !.session = session,
                !.hbSeen = FALSE, !.hbOld = FALSE, !.hbOut = FALSE,
                !.cmdSeen = FALSE, !.cmdOld = FALSE, !.cmdOut = FALSE,
                !.manual = FALSE, !.attached = FALSE,
                !.err = err,
                !.ack = [kind |-> "HELLO", session |-> session]]
<1>1. Hello(m, session) =
        IF m.estop THEN Failed(s, "ESTOP_LATCHED")
        ELSE IF m.txFault THEN s
        ELSE IF m.safety THEN Failed(s, "WHEEL_DIR_MISMATCH")
        ELSE IF hbLate \/ cmdLate
        THEN Failed(late, IF hbLate THEN "HEARTBEAT_TIMEOUT" ELSE "COMMAND_TIMEOUT")
        ELSE opened
  BY DEF Hello
<1>2. s \in Mcu /\ Leaves(m, s)
  BY StoppedType, LeavesStopped
<1>3. Opens(m, opened, session)
  <2>1. SameJaws(m, s) /\ s.estop = m.estop /\ s.err = m.err /\ ~s.target
        /\ s.moving = m.moving /\ s.goal = m.goal
    BY DEF Mcu, Stopped, SameJaws
  <2> HIDE DEF s
  <2>2. err \in {s.err, None}
    OBVIOUS
  <2> HIDE DEF err
  <2>3. SameJaws(s, opened) /\ opened.estop = s.estop /\ opened.err = err /\ opened.target = s.target
        /\ ~opened.attached /\ opened.session = session
        /\ opened.moving = s.moving /\ opened.goal = s.goal
        /\ opened.ack = [kind |-> "HELLO", session |-> session]
    BY <1>2 DEF Mcu, SameJaws
  <2> HIDE DEF opened
  <2> QED BY <2>1, <2>2, <2>3 DEF Opens, SameJaws
<1> HIDE DEF s
<1>4. late \in Mcu /\ Leaves(s, late)
  <2>1. (s.hbOut \/ hbLate) \in BOOLEAN /\ (s.cmdOut \/ cmdLate) \in BOOLEAN
    OBVIOUS
  <2> HIDE DEF hbLate, cmdLate
  <2>2. late \in Mcu
    BY <1>2, <2>1, OutType
  <2>3. Leaves(s, late)
    BY <1>2 DEF Mcu, Leaves, Eases, SameJaws
  <2> QED BY <2>2, <2>3
<1> HIDE DEF late, opened, hbLate, cmdLate
<1>5. \A code \in Stern : Leaves(m, Failed(s, code)) /\ Leaves(m, Failed(late, code))
  BY <1>2, <1>4, LeavesFailed, LeavesOn
<1> QED
  BY <1>1, <1>2, <1>3, <1>5, SternKinds DEF CommunicationTimeout, Physical

\* A pulse is put out: where the jaws are is where they shall be.
Puts(m, n, pulse) ==
    /\ n.current = pulse /\ n.goal = pulse /\ n.jaws = pulse /\ ~n.moving
    /\ n.servo = "attach" /\ n.pulsed /\ n.attached /\ m.session # None
    /\ n.session = m.session /\ n.estop = m.estop /\ n.err = m.err
    /\ ~m.target /\ ~m.turning /\ ~n.target /\ ~n.turning
    /\ n.gripDone = m.gripDone /\ n.releaseDone = m.releaseDone
    /\ n.ack = [kind |-> "attach"]

LEMMA PutsAttach ==
  ASSUME NEW m \in Mcu, NEW pulse \in Pulse
  PROVE  LET n == Attach(m, pulse)
         IN \/ Leaves(m, n) \/ Puts(m, n, pulse)
            \/ Refuses(m, n, "LIFT_WHILE_MOVING") /\ ~IsStopped(m)
<1> DEFINE s == Stopped(m)
           put == [s EXCEPT !.current = pulse, !.goal = pulse, !.jaws = pulse,
                            !.moving = FALSE, !.servo = "attach",
                            !.pulsed = TRUE, !.attached = TRUE]
           n == Acked(put, [kind |-> "attach"])
<1>1. Attach(m, pulse) =
        IF m.estop THEN Failed(m, "ESTOP_LATCHED")
        ELSE IF ~IsStopped(m) THEN Failed(m, "LIFT_WHILE_MOVING")
        ELSE IF m.session = None \/ ~m.hbSeen \/ ~m.cmdSeen \/ m.hbOut \/ m.cmdOut
        THEN Failed(m, "REQUIRED")
        ELSE n
  BY DEF Attach
<1>2. s \in Mcu /\ SameJaws(m, s) /\ ~s.target /\ s.session = m.session /\ s.estop = m.estop
      /\ s.err = m.err
  BY StoppedJaws
<1> HIDE DEF s
<1>3. put \in Mcu
  BY <1>2, PutOutType
<1>4. /\ put.current = pulse /\ put.goal = pulse /\ put.jaws = pulse /\ ~put.moving
      /\ put.servo = "attach" /\ put.pulsed /\ put.attached
      /\ put.session = s.session /\ put.estop = s.estop /\ put.err = s.err
      /\ put.target = s.target /\ put.turning = s.turning
      /\ put.gripDone = s.gripDone /\ put.releaseDone = s.releaseDone
  BY <1>2 DEF Mcu
<1> HIDE DEF put
<1>5. IsStopped(m) /\ m.session # None => Puts(m, n, pulse)
  <2>1. /\ n.current = put.current /\ n.goal = put.goal /\ n.jaws = put.jaws
        /\ n.moving = put.moving /\ n.servo = put.servo /\ n.pulsed = put.pulsed
        /\ n.attached = put.attached
        /\ n.session = put.session /\ n.estop = put.estop /\ n.err = put.err
        /\ n.target = put.target /\ n.turning = put.turning
        /\ n.gripDone = put.gripDone /\ n.releaseDone = put.releaseDone
        /\ n.ack = [kind |-> "attach"]
    BY <1>3 DEF Mcu, Acked
  <2> HIDE DEF n
  <2> QED BY <1>2, <1>4, <2>1 DEF Puts, SameJaws, IsStopped
<1> HIDE DEF n
<1> QED
  BY <1>1, <1>5, LeavesFailed, RefusesFailed, SternKinds

\* An action of the jaws starts, or one that is repeated is answered.
Lifts(m, n, action) ==
    /\ m.attached /\ ~m.estop /\ ~m.target /\ ~m.turning
    /\ n.current = m.current /\ n.jaws = m.current /\ n.pulsed
    /\ n.attached /\ n.session = m.session /\ n.estop = m.estop /\ n.err = m.err
    /\ ~n.target /\ ~n.turning /\ n.ack = [kind |-> "other"]
    /\ \/ /\ m.servo = action /\ n.servo = m.servo
          /\ n.moving = m.moving /\ n.goal = m.goal
          /\ n.gripDone = (m.gripDone \/ (~m.moving /\ action = "grip"))
          /\ n.releaseDone = (m.releaseDone \/ (~m.moving /\ action = "release"))
       \/ /\ m.servo # action /\ n.servo = action
          /\ n.moving /\ n.goal = (IF action = "grip" THEN "grip" ELSE "open")
          /\ n.gripDone = m.gripDone /\ n.releaseDone = m.releaseDone

LEMMA LiftsLift ==
  ASSUME NEW m \in Mcu, NEW action \in {"grip", "release"}
  PROVE  LET n == Lift(m, action)
         IN \/ Leaves(m, n) \/ Lifts(m, n, action)
            \/ Refuses(m, n, "LIFT_WHILE_MOVING") /\ ~IsStopped(m)
            \/ Refuses(m, n, "SERVO_NOT_ATTACHED") /\ ~m.attached
<1> DEFINE on == [m EXCEPT !.pulsed = TRUE, !.jaws = m.current]
           goal == IF action = "grip" THEN "grip" ELSE "open"
           started == [on EXCEPT !.servo = action, !.moving = TRUE, !.goal = goal]
           done == ~on.moving
           grip == on.gripDone \/ (done /\ action = "grip")
           release == on.releaseDone \/ (done /\ action = "release")
           again == [on EXCEPT !.gripDone = grip, !.releaseDone = release]
           other == [kind |-> "other"]
<1>1. Lift(m, action) =
        IF m.estop THEN Failed(m, "ESTOP_LATCHED")
        ELSE IF ~IsStopped(m) THEN Failed(m, "LIFT_WHILE_MOVING")
        ELSE IF ~m.attached THEN Failed(m, "SERVO_NOT_ATTACHED")
        ELSE Acked(IF m.servo = action THEN again ELSE started, other)
  BY DEF Lift
<1>2. on \in Mcu /\ goal \in Pulse
  BY DEF Mcu, Pulse
<1>3. /\ on.current = m.current /\ on.jaws = m.current /\ on.pulsed /\ on.servo = m.servo
      /\ on.attached = m.attached /\ on.session = m.session /\ on.estop = m.estop
      /\ on.err = m.err /\ on.target = m.target /\ on.turning = m.turning
      /\ on.moving = m.moving /\ on.goal = m.goal
      /\ on.gripDone = m.gripDone /\ on.releaseDone = m.releaseDone
  BY DEF Mcu
<1>4. grip \in BOOLEAN /\ release \in BOOLEAN
      /\ grip = (m.gripDone \/ (~m.moving /\ action = "grip"))
      /\ release = (m.releaseDone \/ (~m.moving /\ action = "release"))
  BY <1>3
<1> HIDE DEF on, goal, done, grip, release
<1>5. started \in Mcu /\ again \in Mcu
  BY <1>2, <1>4, LiftingType, DoneType
<1> DEFINE Kept(n) ==
             /\ n.current = on.current /\ n.jaws = on.jaws /\ n.pulsed = on.pulsed
             /\ n.attached = on.attached /\ n.session = on.session /\ n.estop = on.estop
             /\ n.err = on.err /\ n.target = on.target /\ n.turning = on.turning
<1>6. Kept(started) /\ started.servo = action /\ started.moving /\ started.goal = goal
      /\ started.gripDone = on.gripDone /\ started.releaseDone = on.releaseDone
  BY <1>2 DEF Mcu
<1>7. Kept(again) /\ again.servo = on.servo /\ again.moving = on.moving /\ again.goal = on.goal
      /\ again.gripDone = grip /\ again.releaseDone = release
  BY <1>2, <1>4 DEF Mcu
<1> HIDE DEF started, again
<1>8. ASSUME NEW n \in Mcu
      PROVE  LET a == Acked(n, other)
             IN /\ a.current = n.current /\ a.jaws = n.jaws /\ a.pulsed = n.pulsed
                /\ a.attached = n.attached /\ a.session = n.session /\ a.estop = n.estop
                /\ a.err = n.err /\ a.target = n.target /\ a.turning = n.turning
                /\ a.servo = n.servo /\ a.moving = n.moving /\ a.goal = n.goal
                /\ a.gripDone = n.gripDone /\ a.releaseDone = n.releaseDone /\ a.ack = other
  BY DEF Mcu, Acked
<1> DEFINE a == Acked(again, other)
           b == Acked(started, other)
<1>9. CASE m.estop
  BY <1>1, <1>9, LeavesFailed, SternKinds
<1>10. CASE ~m.estop /\ ~IsStopped(m)
  BY <1>1, <1>10, RefusesFailed
<1>11. CASE ~m.estop /\ IsStopped(m) /\ ~m.attached
  BY <1>1, <1>11, RefusesFailed
<1>12. CASE ~m.estop /\ IsStopped(m) /\ m.attached /\ m.servo = action
  <2>1. Lift(m, action) = a
    BY <1>1, <1>12
  <2>2. /\ a.current = again.current /\ a.jaws = again.jaws /\ a.pulsed = again.pulsed
        /\ a.attached = again.attached /\ a.session = again.session /\ a.estop = again.estop
        /\ a.err = again.err /\ a.target = again.target /\ a.turning = again.turning
        /\ a.servo = again.servo /\ a.moving = again.moving /\ a.goal = again.goal
        /\ a.gripDone = again.gripDone /\ a.releaseDone = again.releaseDone /\ a.ack = other
    BY <1>5, <1>8
  <2> HIDE DEF a
  <2>3. Lifts(m, a, action)
    BY <1>3, <1>4, <1>7, <1>12, <2>2 DEF Lifts, IsStopped
  <2> QED BY <2>1, <2>3
<1>13. CASE ~m.estop /\ IsStopped(m) /\ m.attached /\ m.servo # action
  <2>1. Lift(m, action) = b
    BY <1>1, <1>13
  <2>2. /\ b.current = started.current /\ b.jaws = started.jaws /\ b.pulsed = started.pulsed
        /\ b.attached = started.attached /\ b.session = started.session /\ b.estop = started.estop
        /\ b.err = started.err /\ b.target = started.target /\ b.turning = started.turning
        /\ b.servo = started.servo /\ b.moving = started.moving /\ b.goal = started.goal
        /\ b.gripDone = started.gripDone /\ b.releaseDone = started.releaseDone /\ b.ack = other
    BY <1>5, <1>8
  <2> HIDE DEF b
  <2>3. Lifts(m, b, action)
    BY <1>3, <1>6, <1>13, <2>2 DEF Lifts, IsStopped, goal
  <2> QED BY <2>1, <2>3
<1> QED
  BY <1>9, <1>10, <1>11, <1>12, <1>13

-----------------------------------------------------------------------------
(* What the firmware does with what it is sent, and of its own accord.       *)

SentKinds == {"ESTOP", "HELLO", "HB", "V", "zero", "grip", "release", "attach"}

\* A frame that does more than leave the jaws.
Obeys(m, n, frame) ==
    \/ frame.kind = "ESTOP" /\ Freezes(m, n)
    \/ frame.kind = "HELLO" /\ Opens(m, n, frame.session)
    \/ frame.kind = "V" /\ Drives(m, n, frame.drive, None)
    \/ frame.kind = "zero" /\ Drives(m, n, FALSE, frame.session)
    \/ frame.kind = "attach" /\ Puts(m, n, frame.pulse)
    \/ frame.kind \in {"grip", "release"} /\ Lifts(m, n, frame.kind)
    \/ /\ frame.kind \in {"attach", "grip", "release"}
       /\ ~IsStopped(m) /\ Refuses(m, n, "LIFT_WHILE_MOVING")
    \/ /\ frame.kind \in {"grip", "release"}
       /\ ~m.attached /\ Refuses(m, n, "SERVO_NOT_ATTACHED")

LEMMA ExecutedObeys ==
  ASSUME NEW m \in Mcu, NEW frame \in Frame, frame.kind \in SentKinds
  PROVE  \/ Leaves(m, Executed(m, frame)) /\ frame.kind # "ESTOP"
         \/ Obeys(m, Executed(m, frame), frame)
<1>1. CASE frame.kind = "ESTOP"
  BY <1>1, FreezesEstop DEF Executed, Obeys
<1>2. CASE frame.kind = "HELLO"
  <2>1. frame.session \in Session
    BY <1>2 DEF Frame
  <2> QED BY <1>2, <2>1, OpensHello DEF Executed, Obeys
<1>3. CASE frame.kind = "HB"
  <2>1. frame.session \in Session
    BY <1>3 DEF Frame
  <2> QED BY <1>3, <2>1, LeavesHeartbeat DEF Executed
<1>4. CASE frame.kind = "V"
  <2>1. frame.drive \in BOOLEAN
    BY <1>4 DEF Frame
  <2> QED BY <1>4, <2>1, DrivesVelocity DEF Executed, Obeys
<1>5. CASE frame.kind = "zero"
  <2>1. frame.session \in Session
    BY <1>5 DEF Frame
  <2> QED BY <1>5, <2>1, DrivesVelocity DEF Executed, Obeys
<1>6. CASE frame.kind = "attach"
  <2>1. frame.pulse \in Pulse
    BY <1>6 DEF Frame
  <2> QED BY <1>6, <2>1, PutsAttach DEF Executed, Obeys
<1>7. CASE frame.kind \in {"grip", "release"}
  BY <1>7, LiftsLift DEF Executed, Obeys
<1> QED
  BY <1>1, <1>2, <1>3, <1>4, <1>5, <1>6, <1>7 DEF SentKinds

\* The servo task: nothing, a step further, or the goal and the answer.
Ramps(m, n) ==
    /\ n.servo = m.servo /\ n.goal = m.goal /\ n.pulsed = m.pulsed /\ n.turning = m.turning
    /\ n.target = m.target /\ n.attached = m.attached /\ n.session = m.session
    /\ n.estop = m.estop /\ n.err = m.err /\ n.ack = m.ack
    /\ n.jaws = IF m.pulsed THEN n.current ELSE m.jaws
    /\ m.current = m.goal => n.current = m.goal
    /\ m.current = "between" => n.current = m.goal
    /\ m.current # m.goal /\ m.current # "between" => n.current = "between"
    /\ n.moving => m.moving /\ n.gripDone = m.gripDone /\ n.releaseDone = m.releaseDone
    /\ m.moving /\ ~n.moving => /\ n.current = n.goal
                                /\ n.gripDone = (m.gripDone \/ m.servo # "release")
                                /\ n.releaseDone = (m.releaseDone \/ m.servo = "release")
    /\ ~m.moving => n.gripDone = m.gripDone /\ n.releaseDone = m.releaseDone

LEMMA RampsServoStepped == ASSUME NEW m \in Mcu PROVE Ramps(m, ServoStepped(m))
<1> DEFINE next == IF m.current = m.goal THEN m.goal
                   ELSE IF m.current = "between" THEN m.goal ELSE "between"
           there == m.moving /\ next = m.goal
           jaws == IF m.pulsed THEN next ELSE m.jaws
           moving == m.moving /\ ~there
           grip == m.gripDone \/ (there /\ m.servo # "release")
           release == m.releaseDone \/ (there /\ m.servo = "release")
           n == [m EXCEPT !.current = next, !.jaws = jaws, !.moving = moving,
                          !.gripDone = grip, !.releaseDone = release]
<1>1. ServoStepped(m) = n
  BY DEF ServoStepped
<1>2. /\ m.current = m.goal => next = m.goal
      /\ m.current = "between" => next = m.goal
      /\ m.current # m.goal /\ m.current # "between" => next = "between"
      /\ moving = (m.moving /\ next # m.goal)
      /\ grip = (m.gripDone \/ (m.moving /\ next = m.goal /\ m.servo # "release"))
      /\ release = (m.releaseDone \/ (m.moving /\ next = m.goal /\ m.servo = "release"))
  OBVIOUS
<1>3. jaws = IF m.pulsed THEN next ELSE m.jaws
  OBVIOUS
<1> HIDE DEF next, there, jaws, moving, grip, release
<1>4. /\ n.servo = m.servo /\ n.goal = m.goal /\ n.pulsed = m.pulsed /\ n.turning = m.turning
      /\ n.target = m.target /\ n.attached = m.attached /\ n.session = m.session
      /\ n.estop = m.estop /\ n.err = m.err /\ n.ack = m.ack
      /\ n.jaws = jaws /\ n.current = next /\ n.moving = moving
      /\ n.gripDone = grip /\ n.releaseDone = release
  BY DEF Mcu
<1>5. m.moving \in BOOLEAN /\ m.gripDone \in BOOLEAN /\ m.releaseDone \in BOOLEAN
  BY DEF Mcu
<1> HIDE DEF n
<1>6. n.moving => m.moving /\ n.gripDone = m.gripDone /\ n.releaseDone = m.releaseDone
  BY <1>2, <1>4, <1>5
<1>7. m.moving /\ ~n.moving => /\ n.current = n.goal
                               /\ n.gripDone = (m.gripDone \/ m.servo # "release")
                               /\ n.releaseDone = (m.releaseDone \/ m.servo = "release")
  BY <1>2, <1>4
<1>8. ~m.moving => n.gripDone = m.gripDone /\ n.releaseDone = m.releaseDone
  BY <1>2, <1>4, <1>5
<1> QED
  BY <1>1, <1>2, <1>3, <1>4, <1>6, <1>7, <1>8 DEF Ramps

\* What neither the mailbox nor a wheel has to do with.
SameServo(m, n) ==
    /\ n.servo = m.servo /\ n.goal = m.goal /\ n.pulsed = m.pulsed /\ n.jaws = m.jaws
    /\ n.current = m.current /\ n.moving = m.moving /\ n.attached = m.attached
    /\ n.session = m.session /\ n.estop = m.estop /\ n.target = m.target

Turns(m, n) ==
    /\ SameServo(m, n) /\ n.err = m.err /\ n.ack = m.ack
    /\ n.gripDone = m.gripDone /\ n.releaseDone = m.releaseDone

LEMMA TurnsWheels == ASSUME NEW m \in Mcu PROVE Turns(m, [m EXCEPT !.turning = m.driven])
  BY DEF Mcu, Turns, SameServo

\* An answer leaves the mailbox: an error before all others.
Mails(m, n, answer) ==
    /\ SameServo(m, n) /\ n.turning = m.turning
    /\ \/ /\ m.err # None /\ answer = [kind |-> "ERR", code |-> m.err] /\ n.err = None
          /\ n.ack = m.ack /\ n.gripDone = m.gripDone /\ n.releaseDone = m.releaseDone
       \/ /\ m.err = None /\ n.err = None /\ answer.kind = "HB"
          /\ n.ack = m.ack /\ n.gripDone = m.gripDone /\ n.releaseDone = m.releaseDone
       \/ /\ m.err = None /\ n.err = None /\ m.ack # None /\ answer = m.ack
          /\ n.ack = None /\ n.gripDone = m.gripDone /\ n.releaseDone = m.releaseDone
       \/ /\ m.err = None /\ n.err = None /\ m.gripDone /\ answer = [kind |-> "GRIP_DONE"]
          /\ n.ack = m.ack /\ ~n.gripDone /\ n.releaseDone = m.releaseDone
       \/ /\ m.err = None /\ n.err = None /\ m.releaseDone /\ answer = [kind |-> "RELEASE_DONE"]
          /\ n.ack = m.ack /\ n.gripDone = m.gripDone /\ ~n.releaseDone

LEMMA MailsSent ==
  ASSUME NEW m \in Mcu, Pending(m) # <<>>
  PROVE  Pending(m) = <<Pending(m)[1]>> /\ Mails(m, Sent(m), Pending(m)[1])
<1>1. ~m.txFault
  BY DEF Pending
<1>2. CASE m.err # None
  <2>1. Pending(m) = <<[kind |-> "ERR", code |-> m.err]>> /\ Sent(m) = [m EXCEPT !.err = None]
    BY <1>1, <1>2 DEF Pending, Sent
  <2>2. Mails(m, Sent(m), [kind |-> "ERR", code |-> m.err])
    BY <1>2, <2>1 DEF Mcu, Mails, SameServo
  <2> QED BY <2>1, <2>2
<1>3. CASE m.err = None /\ m.hback # None
  <2>1. Pending(m) = <<m.hback>> /\ Sent(m) = [m EXCEPT !.hback = None] /\ m.hback.kind = "HB"
    BY <1>1, <1>3 DEF Pending, Sent, Mcu, HeartbeatAnswer
  <2>2. Mails(m, Sent(m), m.hback)
    BY <1>3, <2>1 DEF Mcu, Mails, SameServo
  <2> QED BY <2>1, <2>2
<1>4. CASE m.err = None /\ m.hback = None /\ m.ack # None
  <2>1. Pending(m) = <<m.ack>> /\ Sent(m) = [m EXCEPT !.ack = None]
    BY <1>1, <1>4 DEF Pending, Sent
  <2>2. Mails(m, Sent(m), m.ack)
    BY <1>4, <2>1 DEF Mcu, Mails, SameServo
  <2> QED BY <2>1, <2>2
<1>5. CASE m.err = None /\ m.hback = None /\ m.ack = None /\ m.gripDone
  <2>1. Pending(m) = <<[kind |-> "GRIP_DONE"]>> /\ Sent(m) = [m EXCEPT !.gripDone = FALSE]
    BY <1>1, <1>5 DEF Pending, Sent
  <2>2. Mails(m, Sent(m), [kind |-> "GRIP_DONE"])
    BY <1>5, <2>1 DEF Mcu, Mails, SameServo
  <2> QED BY <2>1, <2>2
<1>6. CASE m.err = None /\ m.hback = None /\ m.ack = None /\ ~m.gripDone
  <2>1. Pending(m) = <<[kind |-> "RELEASE_DONE"]>> /\ Sent(m) = [m EXCEPT !.releaseDone = FALSE]
        /\ m.releaseDone
    BY <1>1, <1>6 DEF Pending, Sent
  <2>2. Mails(m, Sent(m), [kind |-> "RELEASE_DONE"])
    BY <1>6, <2>1 DEF Mcu, Mails, SameServo
  <2> QED BY <2>1, <2>2
<1> QED
  BY <1>2, <1>3, <1>4, <1>5, <1>6

LEMMA LeavesControlled == ASSUME NEW m \in Mcu PROVE Leaves(m, Controlled(m))
<1>1. Watched(m) \in Mcu /\ Leaves(m, Watched(m))
  BY WatchedType, LeavesLate, LeavesSame, SternKinds DEF Watched, CommunicationTimeout
<1>2. Leaves(m, Stopped(Watched(m)))
  BY <1>1, LeavesStopped, LeavesOn
<1>3. Leaves(m, [m EXCEPT !.driven = m.target])
  BY DEF Mcu, Leaves, Eases, SameJaws
<1> QED
  BY <1>2, <1>3, LeavesSame DEF Controlled

-----------------------------------------------------------------------------
(* The steps at the other end.                                               *)

AtBridge == UNCHANGED <<bridge, scheduler, mission, halt>>

Rests == AtBridge /\ UNCHANGED toPi /\ Leaves(mcu, mcu') /\ Drains(toMcu, toMcu')

Gets(frame) ==
    /\ AtBridge /\ UNCHANGED toPi
    /\ toMcu # <<>> /\ toMcu' = Tail(toMcu) /\ frame = Head(toMcu)
    /\ Obeys(mcu, mcu', frame)

Idle == AtBridge /\ UNCHANGED <<toPi, toMcu>> /\ Still

Tells(answer) ==
    /\ AtBridge /\ UNCHANGED toMcu
    /\ Mails(mcu, mcu', answer)
    /\ \/ ~bridge.connected /\ toPi' = toPi
       \/ Len(toPi) < Line /\ toPi' = Append(toPi, answer)

Restarts == /\ AtBridge /\ UNCHANGED toPi /\ toMcu' = <<>>
            /\ mcu' = Started(mcu.jaws)

LineFrames == out \cup Elements(toMcu)
Speaks == \A frame \in LineFrames : frame.kind \in SentKinds

LEMMA McuSteps ==
  ASSUME TypeOK, Speaks,
         \/ ReceiveCommand \/ Answers \/ Task \/ EvidenceGrowsOld \/ WheelMismatch \/ Garbled
         \/ McuRestarts
  PROVE  \/ Rests \/ \E frame \in Frame : Gets(frame)
         \/ Idle /\ Ramps(mcu, mcu')
         \/ Idle /\ Turns(mcu, mcu')
         \/ \E answer \in Answer : Tells(answer)
         \/ Restarts /\ McuRestarts
<1>1. mcu \in Mcu /\ toMcu \in Seq(Frame) /\ toPi \in Seq(Answer)
  BY DEF TypeOK
<1>2. CASE ReceiveCommand
  <2> DEFINE frame == Head(toMcu)
  <2>1. AtBridge /\ UNCHANGED toPi /\ toMcu # <<>> /\ toMcu' = Tail(toMcu)
        /\ mcu' = Executed(mcu, frame)
    BY <1>2 DEF ReceiveCommand, Receive, AtBridge
  <2>2. frame \in Frame /\ frame.kind \in SentKinds
    BY <1>1, <2>1 DEF Speaks, LineFrames, Elements
  <2>3. CASE Leaves(mcu, mcu')
    BY <2>1, <2>3 DEF Rests, Drains
  <2>4. CASE Obeys(mcu, mcu', frame)
    BY <2>1, <2>2, <2>4 DEF Gets
  <2> HIDE DEF frame
  <2> QED BY <1>1, <2>1, <2>2, <2>3, <2>4, ExecutedObeys
<1>3. CASE Answers
  <2> DEFINE answer == Pending(mcu)[1]
  <2>1. /\ Len(toPi) < Line /\ Pending(mcu) # <<>> /\ mcu' = Sent(mcu)
        /\ (~bridge.connected /\ toPi' = toPi) \/ toPi' = toPi \o Pending(mcu)
        /\ AtBridge /\ UNCHANGED toMcu
    BY <1>3 DEF Answers, SendPending, AtBridge
  <2>2. Pending(mcu) = <<answer>> /\ Mails(mcu, mcu', answer)
    BY <1>1, <2>1, MailsSent
  <2>3. answer \in Answer
    BY <1>1, <2>1, <2>2, PendingType
  <2> HIDE DEF answer
  <2>4. toPi \o <<answer>> = Append(toPi, answer)
    BY <1>1, <2>3
  <2> QED BY <2>1, <2>2, <2>3, <2>4 DEF Tells
<1>4. CASE Task
  <2>1. AtBridge /\ UNCHANGED <<toPi, toMcu>> /\ Still
    BY <1>4 DEF Task, AtBridge
  <2>2. CASE MotorTask
    BY <1>1, <2>1, <2>2, LeavesControlled DEF MotorTask, Rests, Drains
  <2>3. CASE ServoTask
    BY <1>1, <2>1, <2>3, RampsServoStepped DEF ServoTask, Idle
  <2>4. CASE WheelsFollow
    BY <1>1, <2>1, <2>4, TurnsWheels DEF WheelsFollow, Idle
  <2> QED BY <1>4, <2>2, <2>3, <2>4 DEF Task
<1>5. CASE EvidenceGrowsOld
  <2>1. Leaves(mcu, mcu')
    BY <1>1, <1>5 DEF EvidenceGrowsOld, HeartbeatGrowsOld, CommandGrowsOld, Mcu, Leaves, Eases, SameJaws
  <2> QED BY <1>5, <2>1 DEF EvidenceGrowsOld, Rests, AtBridge, Drains
<1>6. CASE WheelMismatch
  <2>1. Leaves(mcu, mcu')
    <3>1. Stopped(mcu) \in Mcu /\ Leaves(mcu, Stopped(mcu))
      BY <1>1, StoppedType, LeavesStopped
    <3>2. "WHEEL_DIR_MISMATCH" \in Stern
      BY DEF Stern, Code, Physical
    <3>3. Leaves(Stopped(mcu), Failed(Stopped(mcu), "WHEEL_DIR_MISMATCH"))
      BY <3>1, <3>2, LeavesFailed
    <3> QED BY <1>6, <3>1, <3>3, LeavesOn DEF WheelMismatch, WheelRunsWrong, WrongDirection
  <2> QED BY <1>6, <2>1 DEF WheelMismatch, Rests, AtBridge, Drains
<1>7. CASE Garbled
  <2>1. "UART_RX_ERROR" \in Stern
    BY DEF Stern, Code, RequiresNewSession
  <2>2. Leaves(mcu, mcu')
    BY <1>1, <1>7, <2>1, LeavesFailed DEF Garbled, ReceiveFails
  <2> QED BY <1>7, <2>2 DEF Garbled, Rests, AtBridge, Drains
<1>8. CASE McuRestarts
  BY <1>8 DEF McuRestarts, Restart, Restarts, AtBridge
<1> QED
  BY <1>2, <1>3, <1>4, <1>5, <1>6, <1>7, <1>8

-----------------------------------------------------------------------------
(* One way. The scheduler and the line hold actions of the stage the mission *)
(* is in and of no other, and the servo heads where that stage has it head,  *)
(* or nowhere.                                                               *)

Way == IF Loading THEN "grip" ELSE "release"

Plain(frame) == frame.kind \in SentKinds \ {"grip", "release"}

ThisWay(frame) == frame.kind \in SentKinds /\ (frame.kind \in {"grip", "release"} => frame.kind = Way)

OneWay ==
    /\ \A frame \in out : Plain(frame)
    /\ \A i \in DOMAIN actions : actions[i] = Way
    /\ \A i \in DOMAIN toMcu : ThisWay(toMcu[i])

RightGoal(m) ==
    /\ ~m.moving => m.goal = m.current
    /\ m.goal \in {m.current, IF Loading THEN "grip" ELSE "open"}
    /\ m.pulsed => m.jaws = m.current
    /\ m.attached => m.pulsed

JawsInv == OneWay /\ RightGoal(mcu)

\* A step of the bridge: it may drop actions, or ask the one of the stage.
SendsThisWay ==
    /\ UNCHANGED mcu
    /\ Drains(toMcu, toMcu')
    /\ Loading' = Loading
    /\ \A frame \in out' : Plain(frame)
    /\ actions' \in {actions, <<>>, Append(actions, Way)}

LEMMA OneWayDrains ==
  ASSUME TypeOK, OneWay, Drains(toMcu, toMcu'), Loading' = Loading
  PROVE  \A i \in DOMAIN toMcu' : ThisWay(toMcu'[i])
<1>1. \A i \in DOMAIN toMcu' : \E j \in DOMAIN toMcu : toMcu'[i] = toMcu[j]
  BY Drained DEF TypeOK
<1> QED
  BY <1>1 DEF OneWay

LEMMA KeepsJaws == ASSUME TypeOK, JawsInv, SendsThisWay PROVE JawsInv'
<1>1. Way' = Way /\ (\A i \in DOMAIN actions : actions[i] = Way)
  BY DEF JawsInv, OneWay, SendsThisWay, Way
<1>2. \A i \in DOMAIN actions' : actions'[i] = Way
  <2>1. actions \in Seq({"grip", "release"}) /\ Way \in {"grip", "release"}
    BY DEF TypeOK, Way
  <2>2. CASE actions' = Append(actions, Way)
    BY <1>1, <2>1, <2>2
  <2>3. CASE actions' = actions \/ actions' = <<>>
    BY <1>1, <2>3
  <2> QED BY <2>2, <2>3 DEF SendsThisWay
<1>3. \A i \in DOMAIN toMcu' : ThisWay(toMcu'[i])
  BY OneWayDrains DEF JawsInv, SendsThisWay
<1>4. OneWay'
  BY <1>1, <1>2, <1>3 DEF OneWay, SendsThisWay, Plain, ThisWay
<1>5. RightGoal(mcu)'
  BY DEF JawsInv, SendsThisWay, RightGoal
<1> QED
  BY <1>4, <1>5 DEF JawsInv

LEMMA PlainFrames ==
  /\ \A b : Plain(HelloOf(b)) /\ Plain(HeartbeatOf(b)) /\ Plain(ZeroOf(b)) /\ Plain(AttachOf(b))
  /\ \A drive : Plain([kind |-> "V", drive |-> drive])
  /\ Plain([kind |-> "ESTOP"])
  BY DEF Plain, SentKinds, HelloOf, HeartbeatOf, ZeroOf, AttachOf

LEMMA PlainWith ==
  ASSUME OneWay, NEW frame, Plain(frame), out' = out \/ out' = With(out, frame)
  PROVE  \A f \in out' : Plain(f)
  BY DEF OneWay, With

LEMMA HaltsLoading == ASSUME NEW class, Halts(class) PROVE Loading' = Loading
  BY DEF Halts, Loading

LEMMA RecoverKeeps ==
  ASSUME OneWay, NEW b, Recover(b), UNCHANGED <<mcu, toMcu>> PROVE SendsThisWay
<1>1. CASE UNCHANGED <<scheduler, mission>>
  BY <1>1 DEF SendsThisWay, OneWay, Drains, scheduler, Loading
<1>2. CASE out' = {HelloOf(bridge')} /\ actions' = <<>> /\ Halts("recoverable")
  BY <1>2, HaltsLoading, PlainFrames DEF SendsThisWay, Drains
<1> QED
  BY <1>1, <1>2 DEF Recover

LEMMA BridgeStepKeeps == ASSUME TypeOK, OneWay, BridgeStep PROVE SendsThisWay
<1>1. UNCHANGED <<mcu, toMcu>> /\ Drains(toMcu, toMcu')
  BY DEF BridgeStep, Drains
<1>2. ASSUME UNCHANGED <<actions, mission>>, NEW frame, Plain(frame),
             out' = out \/ out' = With(out, frame)
      PROVE  SendsThisWay
  BY <1>1, <1>2, PlainWith DEF SendsThisWay, Loading
<1>3. CASE SendHello \/ SendZero \/ SendAttach \/ SendHeartbeat
  BY <1>2, <1>3, PlainFrames DEF SendHello, SendZero, SendAttach, SendHeartbeat
<1>4. CASE HandshakeTimeout
  BY <1>1, <1>4, HaltsLoading DEF HandshakeTimeout, scheduler, SendsThisWay, OneWay
<1>5. CASE HeartbeatLate
  BY <1>1, <1>5, RecoverKeeps DEF HeartbeatLate
<1>6. CASE SendVelocity
  BY <1>2, <1>6, PlainFrames DEF SendVelocity
<1>7. CASE SendGrip
  <2>1. Asked = Way
    BY <1>7 DEF SendGrip, Asked, Way, Loading
  <2>2. UNCHANGED <<out, mission>> /\ actions' \in {actions, Append(actions, Way)}
    BY <1>7, <2>1 DEF SendGrip, Orders
  <2> QED BY <1>1, <2>2 DEF SendsThisWay, OneWay, Loading
<1> QED
  BY <1>3, <1>4, <1>5, <1>6, <1>7 DEF BridgeStep

LEMMA ReadAnswerKeeps == ASSUME TypeOK, OneWay, ReadAnswer PROVE SendsThisWay
<1> DEFINE answer == Head(toPi)
<1>1. UNCHANGED <<mcu, toMcu>> /\ Drains(toMcu, toMcu')
  BY DEF ReadAnswer, Drains
<1> HIDE DEF answer
<1>2. ASSUME UNCHANGED <<actions, mission>>, NEW frame, Plain(frame),
             out' = out \/ out' = With(out, frame)
      PROVE  SendsThisWay
  BY <1>1, <1>2, PlainWith DEF SendsThisWay, Loading
<1>3. ASSUME UNCHANGED scheduler, Loading' = Loading PROVE SendsThisWay
  BY <1>1, <1>3 DEF SendsThisWay, OneWay, scheduler
<1>4. ASSUME UNCHANGED mission PROVE Loading' = Loading
  BY <1>4 DEF Loading
<1>5. CASE HelloAck(answer) /\ UNCHANGED mission
  BY <1>2, <1>3, <1>4, <1>5, PlainFrames DEF HelloAck
<1>6. CASE HeartbeatAck(answer) /\ UNCHANGED mission
  <2>1. CASE UNCHANGED scheduler
    BY <1>3, <1>4, <1>6, <2>1
  <2>2. CASE UNCHANGED actions /\ \E b : out' = out \/ out' = With(out, ZeroOf(b))
    BY <1>2, <1>6, <2>2, PlainFrames
  <2> QED BY <1>6, <2>1, <2>2 DEF HeartbeatAck
<1>7. CASE ZeroAck(answer) /\ UNCHANGED mission
  <2>1. CASE UNCHANGED scheduler
    BY <1>3, <1>4, <1>7, <2>1
  <2>2. CASE UNCHANGED actions /\ \E b : out' = out \/ out' = With(out, AttachOf(b))
    BY <1>2, <1>7, <2>2, PlainFrames
  <2> QED BY <1>7, <2>1, <2>2 DEF ZeroAck
<1>8. CASE (AttachAck \/ UNCHANGED <<bridge, scheduler>>) /\ UNCHANGED mission
  BY <1>3, <1>4, <1>8 DEF AttachAck
<1>9. CASE Error(answer.code)
  BY <1>1, <1>3, <1>4, <1>9, HaltsLoading, RecoverKeeps DEF Error
<1>10. CASE Lifted("grip") \/ Lifted("release")
  BY <1>3, <1>10 DEF Lifted, Loading
<1> QED
  BY <1>5, <1>6, <1>7, <1>8, <1>9, <1>10 DEF ReadAnswer, answer

\* The steps that send nothing.
LEMMA OtherKeeps ==
  ASSUME TypeOK, OneWay,
         \/ ReadTelemetry \/ Rearm \/ Reconnect \/ AckGrowsOld \/ HandshakeGrowsOld
         \/ EmergencyStop \/ Lost \/ Unplugged
  PROVE  SendsThisWay
<1>1. ASSUME UNCHANGED <<mcu, toMcu, scheduler, mission>> PROVE SendsThisWay
  BY <1>1 DEF SendsThisWay, OneWay, scheduler, Drains, Loading
<1>2. CASE ReadTelemetry \/ Rearm \/ AckGrowsOld \/ HandshakeGrowsOld \/ Lost
  BY <1>1, <1>2 DEF ReadTelemetry, Rearm, AckGrowsOld, HandshakeGrowsOld, Lost
<1>3. CASE Reconnect
  BY <1>3, RecoverKeeps DEF Reconnect
<1>4. CASE EmergencyStop
  BY <1>4, HaltsLoading, PlainFrames DEF EmergencyStop, SendsThisWay, Drains
<1>5. CASE Unplugged
  BY <1>5, HaltsLoading DEF Unplugged, SendsThisWay, Drains
<1> QED
  BY <1>2, <1>3, <1>4, <1>5

\* The writer puts what it takes behind what is on the line.
LEMMA WriteNextJaws == ASSUME TypeOK, JawsInv, WriteNext PROVE JawsInv'
<1>1. PICK frame \in Frame : Pops(frame) /\ toMcu' = Append(toMcu, frame)
  BY DEF WriteNext
<1>2. UNCHANGED <<mcu, mission>> /\ toMcu \in Seq(Frame) /\ actions \in Seq({"grip", "release"})
  BY DEF WriteNext, TypeOK
<1>3. ThisWay(frame) /\ (\A f \in out' : Plain(f)) /\ \A i \in DOMAIN actions' : actions'[i] = Way
  <2>1. CASE frame \in out /\ out' = out \ {frame} /\ UNCHANGED actions
    BY <2>1 DEF JawsInv, OneWay, Plain, ThisWay
  <2>2. CASE /\ actions # <<>> /\ frame = [kind |-> Head(actions)]
             /\ actions' = Tail(actions) /\ UNCHANGED out
    <3>1. Head(actions) = Way /\ Way \in {"grip", "release"}
      BY <1>2, <2>2 DEF JawsInv, OneWay, Way
    <3>2. \A i \in DOMAIN actions' : actions'[i] = Way
      BY <1>2, <2>2 DEF JawsInv, OneWay
    <3>3. ThisWay(frame)
      BY <2>2, <3>1 DEF ThisWay, SentKinds
    <3> QED BY <2>2, <3>2, <3>3 DEF JawsInv, OneWay
  <2> QED BY <1>1, <2>1, <2>2 DEF Pops
<1>4. Way' = Way /\ (Loading' = Loading)
  BY <1>2 DEF Way, Loading
<1>5. \A i \in DOMAIN toMcu' : ThisWay(toMcu'[i])
  BY <1>1, <1>2, <1>3 DEF JawsInv, OneWay
<1>6. OneWay'
  BY <1>3, <1>4, <1>5 DEF OneWay, Plain, ThisWay
<1>7. RightGoal(mcu)'
  BY <1>2, <1>4 DEF JawsInv, RightGoal
<1> QED
  BY <1>6, <1>7 DEF JawsInv

\* A stage of the other direction begins with nothing on its way.
LEMMA NextStageJaws == ASSUME TypeOK, JawsInv, NextStage PROVE JawsInv'
<1>1. UNCHANGED <<mcu, out, actions, toMcu>>
  BY DEF NextStage, scheduler
<1>2. CASE \/ mission = "lifted" /\ mission' = "carry"
           \/ mission = "lowered" /\ mission' = "empty"
  <2>1. Loading' = Loading
    BY <1>2 DEF Loading
  <2> QED BY <1>1, <2>1, KeepsJaws DEF SendsThisWay, Drains, JawsInv, OneWay
<1>3. CASE Still /\ ~mcu.moving
  <2>1. out' = {} /\ actions' = <<>> /\ toMcu' = <<>>
    BY <1>1, <1>3 DEF Still
  <2>2. OneWay'
    BY <2>1 DEF OneWay
  <2>3. RightGoal(mcu)'
    BY <1>1, <1>3 DEF JawsInv, RightGoal
  <2> QED BY <2>2, <2>3 DEF JawsInv
<1> QED
  BY <1>2, <1>3 DEF NextStage

-----------------------------------------------------------------------------
(* The firmware.                                                             *)

\* What a step of the firmware does to the jaws.
Right(m, n) == RightGoal(n) /\ (n.jaws # m.jaws => (Width(n.jaws) > Width(m.jaws) <=> Loading))

LEMMA LeavesRight == ASSUME NEW m, NEW n, RightGoal(m), Leaves(m, n) PROVE Right(m, n)
  BY DEF Leaves, Eases, SameJaws, RightGoal, Right

LEMMA ObeysRight ==
  ASSUME NEW m \in Mcu, NEW n, NEW frame, RightGoal(m), ThisWay(frame), Obeys(m, n, frame)
  PROVE  RightGoal(n) /\ (frame.kind = "attach" \/ Right(m, n))
<1>1. CASE Freezes(m, n)
  BY <1>1 DEF Freezes, SameJaws, RightGoal, Right
<1>2. CASE Opens(m, n, frame.session)
  BY <1>2 DEF Opens, SameJaws, RightGoal, Right
<1>3. CASE Drives(m, n, frame.drive, None) \/ Drives(m, n, FALSE, frame.session)
  BY <1>3 DEF Drives, SameJaws, RightGoal, Right
<1>4. CASE frame.kind = "attach" /\ Puts(m, n, frame.pulse)
  BY <1>4 DEF Puts, RightGoal
<1>5. CASE frame.kind \in {"grip", "release"} /\ Lifts(m, n, frame.kind)
  BY <1>5 DEF Lifts, ThisWay, Way, RightGoal, Right
<1>6. CASE Refuses(m, n, "LIFT_WHILE_MOVING") \/ Refuses(m, n, "SERVO_NOT_ATTACHED")
  BY <1>6 DEF Refuses, SameJaws, RightGoal, Right
<1> QED
  BY <1>1, <1>2, <1>3, <1>4, <1>5, <1>6 DEF Obeys

LEMMA RampsRight ==
  ASSUME NEW m \in Mcu, NEW n, RightGoal(m), Ramps(m, n) PROVE Right(m, n)
<1>1. m.current \in {"open", "between", "grip"} /\ m.moving \in BOOLEAN
  BY DEF Mcu, Pulse
<1>2. CASE m.current = m.goal
  BY <1>2 DEF Ramps, RightGoal, Right
<1>3. CASE m.current # m.goal
  <2>1. m.moving /\ m.goal = (IF Loading THEN "grip" ELSE "open")
    BY <1>3 DEF RightGoal
  <2>2. n.current = IF m.current = "between" THEN m.goal ELSE "between"
    BY <1>3 DEF Ramps
  <2>3. RightGoal(n)
    BY <2>1 DEF Ramps, RightGoal
  <2>4. Width(n.current) > Width(m.current) <=> Loading
    BY <1>1, <1>3, <2>1, <2>2 DEF Width
  <2> QED BY <2>3, <2>4 DEF Ramps, RightGoal, Right
<1> QED
  BY <1>2, <1>3

\* What a step does to the jaws, and how the line and the scheduler stay.
LEMMA McuStepJaws ==
  ASSUME TypeOK, JawsInv,
         \/ ReceiveCommand \/ Answers \/ Task \/ EvidenceGrowsOld \/ WheelMismatch \/ Garbled
         \/ McuRestarts
  PROVE  JawsInv' /\ (Attaches \/ Right(mcu, mcu'))
<1>1. mcu \in Mcu /\ toMcu \in Seq(Frame)
  BY DEF TypeOK
<1>2. Speaks
  BY DEF JawsInv, OneWay, Plain, ThisWay, Speaks, LineFrames, Elements
<1>3. ASSUME AtBridge, Drains(toMcu, toMcu'), RightGoal(mcu') PROVE JawsInv'
  <2>1. Loading' = Loading /\ Way' = Way
    BY <1>3 DEF AtBridge, Loading, Way
  <2>2. \A i \in DOMAIN toMcu' : ThisWay(toMcu'[i])
    BY <1>3, <2>1, OneWayDrains DEF JawsInv
  <2>3. OneWay'
    BY <1>3, <2>1, <2>2 DEF JawsInv, OneWay, AtBridge, scheduler, Plain, ThisWay
  <2>4. RightGoal(mcu)'
    BY <1>3, <2>1 DEF RightGoal
  <2> QED BY <2>3, <2>4 DEF JawsInv
<1>4. CASE Rests
  BY <1>3, <1>4, LeavesRight DEF Rests, Right, JawsInv
<1>5. CASE \E frame \in Frame : Gets(frame)
  <2>1. PICK frame \in Frame : Gets(frame)
    BY <1>5
  <2>2. frame = toMcu[1] /\ 1 \in DOMAIN toMcu /\ Drains(toMcu, toMcu') /\ AtBridge
    BY <1>1, <2>1 DEF Gets, Drains
  <2>3. ThisWay(frame)
    BY <2>2 DEF JawsInv, OneWay
  <2>4. RightGoal(mcu') /\ (frame.kind = "attach" \/ Right(mcu, mcu'))
    BY <1>1, <2>1, <2>3, ObeysRight DEF Gets, JawsInv
  <2> QED BY <1>3, <2>1, <2>2, <2>4 DEF Gets, Attaches
<1>6. CASE Idle /\ Ramps(mcu, mcu')
  BY <1>1, <1>3, <1>6, RampsRight DEF Idle, Right, JawsInv, Drains
<1>7. CASE Idle /\ Turns(mcu, mcu')
  BY <1>3, <1>7 DEF Idle, Turns, SameServo, RightGoal, Right, JawsInv, Drains
<1>8. CASE \E answer \in Answer : Tells(answer)
  BY <1>3, <1>8 DEF Tells, Mails, SameServo, RightGoal, Right, JawsInv, Drains
<1>9. CASE Restarts
  BY <1>3, <1>9 DEF Restarts, Started, RightGoal, Right, Drains
<1> QED
  BY <1>2, <1>4, <1>5, <1>6, <1>7, <1>8, <1>9, McuSteps

LEMMA JawsStep ==
  ASSUME TypeOK, JawsInv, [Next]_vars
  PROVE  JawsInv' /\ (mcu'.jaws = mcu.jaws \/ Attaches \/ Right(mcu, mcu'))
<1>1. CASE BridgeStep
  BY <1>1, BridgeStepKeeps, KeepsJaws DEF JawsInv, SendsThisWay
<1>2. CASE ReadAnswer
  BY <1>2, ReadAnswerKeeps, KeepsJaws DEF JawsInv, SendsThisWay
<1>3. CASE \/ ReadTelemetry \/ Rearm \/ Reconnect \/ AckGrowsOld \/ HandshakeGrowsOld
           \/ EmergencyStop \/ Lost \/ Unplugged
  BY <1>3, OtherKeeps, KeepsJaws DEF JawsInv, SendsThisWay
<1>4. CASE WriteNext
  BY <1>4, WriteNextJaws DEF WriteNext
<1>5. CASE NextStage
  BY <1>5, NextStageJaws DEF NextStage
<1>6. CASE \/ ReceiveCommand \/ Answers \/ Task \/ EvidenceGrowsOld \/ WheelMismatch \/ Garbled
           \/ McuRestarts
  BY <1>6, McuStepJaws
<1>7. CASE UNCHANGED vars
  BY <1>7 DEF vars, JawsInv, OneWay, RightGoal, Way, ThisWay, Loading, Plain
<1> QED
  BY <1>1, <1>2, <1>3, <1>4, <1>5, <1>6, <1>7 DEF Next, Trouble

LEMMA JawsInit == Init => JawsInv
  BY DEF Init, FirmwareInit, Started, JawsInv, OneWay, RightGoal, Loading

\* Nothing of another stage is ever left in the scheduler, on the line or in
\* the servo task, whatever was repeated, halted, recovered or restarted.
THEOREM JawsInvariant == Spec => []JawsInv
  BY JawsInit, JawsStep, LinkTypes, PTL DEF Spec

\* The jaws close for a car and open to let it go, and an attach is all that
\* can put them elsewhere: no late, repeated or left over action lets a car go.
THEOREM MissionMovesJaws == Spec => JawsFollowMission
<1>1. TypeOK /\ JawsInv /\ [Next]_vars =>
        [mcu'.jaws # mcu.jaws /\ ~Attaches => (Width(mcu'.jaws) > Width(mcu.jaws) <=> Loading)]_vars
  BY JawsStep DEF Right
<1> QED
  BY <1>1, JawsInvariant, LinkTypes, PTL DEF Spec, JawsFollowMission
=============================================================================
