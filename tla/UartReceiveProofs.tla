------------------------- MODULE UartReceiveProofs -------------------------
(* Proofs about UartReceive for a queue of any depth and frames of any      *)
(* length: its types, that no command after a loss moves anything, and that *)
(* its ring is the queue of CommandFifo.                                    *)
EXTENDS UartReceive, TLAPS

\* The slot of the k-th command that waits.
Slot(k) == (tail + k) % Depth

HeadFollows == head = Slot(count)

\* While no error is pending nothing that follows a loss can reach an open
\* session: the loss is known only to an empty queue, or the first command of
\* the queue carries it, and the session is closed.
Safe ==
    /\ torn => count = 0 /\ pc # "apply" /\ ~session
    /\ \A k \in 0..count - 1 :
           commands[Slot(k)].gap => k = 0 /\ pc # "apply" /\ ~session
    /\ broken => ~session
    /\ pc = "apply" /\ taken.gap => ~session

-----------------------------------------------------------------------------
(* The ring.                                                                *)

\* Remainders by Depth, of an index and a length.
LEMMA WrapSum ==
    ASSUME NEW t \in 0..Depth - 1, NEW k \in 0..Depth
    PROVE  /\ (t + k) % Depth = IF t + k < Depth THEN t + k ELSE t + k - Depth
           /\ (t + k) % Depth \in 0..Depth - 1
<1>1. (t + k) % Depth = IF t + k < Depth THEN t + k ELSE t + k - Depth
  BY SMT, DepthAssumption
<1> QED
  BY <1>1, DepthAssumption

LEMMA WrapApart ==
    ASSUME NEW t \in 0..Depth - 1, NEW n \in 0..Depth - 1, NEW k \in 0..n - 1
    PROVE  (t + k) % Depth # (t + n) % Depth
<1>1. k \in 0..Depth /\ n \in 0..Depth
  BY DepthAssumption
<1>2. /\ (t + k) % Depth = IF t + k < Depth THEN t + k ELSE t + k - Depth
      /\ (t + n) % Depth = IF t + n < Depth THEN t + n ELSE t + n - Depth
  BY <1>1, WrapSum
<1> QED
  BY <1>2, DepthAssumption

\* One further at either end.
LEMMA WrapNext ==
    ASSUME NEW t \in 0..Depth - 1, NEW k \in 0..Depth - 1
    PROVE  /\ (((t + 1) % Depth) + k) % Depth = (t + (k + 1)) % Depth
           /\ (((t + k) % Depth) + 1) % Depth = (t + (k + 1)) % Depth
<1> DEFINE next == (t + 1) % Depth
           last == (t + k) % Depth
<1>1. 1 \in 0..Depth /\ k \in 0..Depth /\ k + 1 \in 0..Depth
  BY DepthAssumption
<1>2. /\ next = IF t + 1 < Depth THEN t + 1 ELSE t + 1 - Depth
      /\ next \in 0..Depth - 1
  BY <1>1, WrapSum
<1>3. /\ last = IF t + k < Depth THEN t + k ELSE t + k - Depth
      /\ last \in 0..Depth - 1
  BY <1>1, WrapSum
<1>4. (t + (k + 1)) % Depth
          = IF t + (k + 1) < Depth THEN t + (k + 1) ELSE t + (k + 1) - Depth
  BY <1>1, WrapSum
<1> HIDE DEF next, last
<1>5. (next + k) % Depth = IF next + k < Depth THEN next + k ELSE next + k - Depth
  BY <1>1, <1>2, WrapSum
<1>6. (last + 1) % Depth = IF last + 1 < Depth THEN last + 1 ELSE last + 1 - Depth
  BY <1>1, <1>3, WrapSum
<1>7. (next + k) % Depth = (t + (k + 1)) % Depth
  BY <1>2, <1>4, <1>5, DepthAssumption
<1>8. (last + 1) % Depth = (t + (k + 1)) % Depth
  BY <1>3, <1>4, <1>6, DepthAssumption
<1> QED
  BY <1>7, <1>8 DEF next, last

\* A command that is put in changes no slot in which another waits.
LEMMA PutRing ==
    ASSUME TypeOK, HeadFollows, count < Depth,
           head' = (head + 1) % Depth, count' = count + 1, tail' = tail
    PROVE  /\ head' \in 0..Depth - 1
           /\ HeadFollows'
           /\ \A k \in 0..count - 1 : Slot(k) # head /\ Slot(k) \in 0..Depth - 1
<1>1. tail \in 0..Depth - 1 /\ count \in 0..Depth - 1
  BY DepthAssumption DEF TypeOK
<1>2. head' = (tail + (count + 1)) % Depth
  BY <1>1, WrapNext DEF HeadFollows, Slot
<1>3. HeadFollows'
  BY <1>2 DEF HeadFollows, Slot
<1>4. head' \in 0..Depth - 1
  <2>1. count + 1 \in 0..Depth
    BY <1>1, DepthAssumption
  <2> QED
    BY <1>1, <1>2, <2>1, WrapSum
<1>5. ASSUME NEW k \in 0..count - 1
      PROVE  Slot(k) # head /\ Slot(k) \in 0..Depth - 1
  <2>1. k \in 0..Depth
    BY <1>1, DepthAssumption
  <2>2. (tail + k) % Depth # (tail + count) % Depth
    BY <1>1, WrapApart
  <2>3. (tail + k) % Depth \in 0..Depth - 1
    BY <1>1, <2>1, WrapSum
  <2> QED
    BY <2>2, <2>3 DEF HeadFollows, Slot
<1> QED
  BY <1>3, <1>4, <1>5

\* After one is taken out, the others wait where they did.
LEMMA TakeRing ==
    ASSUME TypeOK, HeadFollows, count > 0,
           tail' = (tail + 1) % Depth, count' = count - 1, head' = head
    PROVE  /\ tail' \in 0..Depth - 1
           /\ HeadFollows'
           /\ \A k \in 0..count' - 1 : Slot(k)' = Slot(k + 1)
           /\ Slot(0) = tail
<1>1. /\ tail \in 0..Depth - 1
      /\ count - 1 \in 0..Depth - 1
      /\ count - 1 + 1 = count
      /\ 0 \in 0..Depth /\ 1 \in 0..Depth
      /\ tail + 0 = tail
  BY DepthAssumption DEF TypeOK
<1>2. tail' \in 0..Depth - 1
  BY <1>1, WrapSum
<1>3. ASSUME NEW k \in 0..Depth - 1 PROVE (tail' + k) % Depth = (tail + (k + 1)) % Depth
  BY <1>1, WrapNext
<1>4. HeadFollows'
  <2>1. (tail' + (count - 1)) % Depth = (tail + count) % Depth
    BY <1>1, <1>3
  <2> QED
    BY <2>1 DEF HeadFollows, Slot
<1>5. \A k \in 0..count' - 1 : Slot(k)' = Slot(k + 1)
  <2>1. \A k \in 0..count' - 1 : k \in 0..Depth - 1
    BY <1>1, DepthAssumption
  <2> QED
    BY <1>3, <2>1 DEF Slot
<1>6. Slot(0) = tail
  <2>1. (tail + 0) % Depth = IF tail + 0 < Depth THEN tail + 0 ELSE tail + 0 - Depth
    BY <1>1, WrapSum
  <2> QED
    BY <1>1, <2>1, DepthAssumption DEF Slot
<1> QED
  BY <1>2, <1>4, <1>5, <1>6

LEMMA Zero == 0 \in 0..Depth - 1 /\ 0 \in 0..Depth /\ 0 \in 0..Room
  BY DepthAssumption, RoomAssumption

LEMMA EmptyRing ==
    ASSUME head' = 0, tail' = 0, count' = 0
    PROVE  HeadFollows'
<1>1. 0 % Depth = 0
  BY DepthAssumption
<1> QED
  BY <1>1 DEF HeadFollows, Slot

\* The ring and the overflow flag after a byte that completes a command or not.
RingTyped ==
    /\ commands \in [0..Depth - 1 -> Command]
    /\ head \in 0..Depth - 1 /\ tail \in 0..Depth - 1 /\ count \in 0..Depth
    /\ overflow \in BOOLEAN

LEMMA QueueStep ==
    ASSUME TypeOK, HeadFollows, QueueRxCommand
    PROVE  RingTyped' /\ HeadFollows'
<1>1. CASE UNCHANGED ring /\ overflow' \in BOOLEAN
  BY <1>1 DEF ring, RingTyped, HeadFollows, Slot, TypeOK
<1>2. ASSUME Completed # {}, count < Depth,
             NEW kind \in Completed,
             commands' = [commands EXCEPT ![head] = [kind |-> kind, gap |-> torn \/ bad]],
             head' = (head + 1) % Depth,
             count' = count + 1,
             UNCHANGED <<tail, overflow>>
      PROVE  RingTyped' /\ HeadFollows'
  <2>1. head' \in 0..Depth - 1 /\ HeadFollows'
    BY <1>2, PutRing
  <2>2. kind \in Kind /\ (torn \/ bad) \in BOOLEAN
    BY DEF Completed, Legacy, Parsed, Kind, TypeOK
  <2>3. [kind |-> kind, gap |-> torn \/ bad] \in Command
    BY <2>2 DEF Command
  <2>4. count' \in 0..Depth
    BY <1>2, DepthAssumption DEF TypeOK
  <2> QED
    BY <1>2, <2>1, <2>3, <2>4 DEF RingTyped, TypeOK
<1> QED
  BY <1>1, <1>2 DEF QueueRxCommand, Overlong, TypeOK

LEMMA FlushStep ==
    ASSUME TypeOK, FlushAndClose
    PROVE  /\ RingTyped' /\ HeadFollows'
           /\ session' \in BOOLEAN /\ broken' \in BOOLEAN /\ misled' \in BOOLEAN
<1>1. HeadFollows'
  BY EmptyRing DEF FlushAndClose
<1> QED
  BY <1>1, Zero DEF FlushAndClose, RingTyped, TypeOK

\* What stays as it was.
LEMMA SameRing ==
    ASSUME TypeOK, HeadFollows, UNCHANGED <<ring, overflow>>
    PROVE  RingTyped' /\ HeadFollows'
  BY DEF ring, RingTyped, HeadFollows, Slot, TypeOK

-----------------------------------------------------------------------------
(* The types.                                                               *)

LEMMA TypeInit == Init => TypeOK /\ HeadFollows
<1> SUFFICES ASSUME Init PROVE TypeOK /\ HeadFollows
  OBVIOUS
<1>1. 0 % Depth = 0
  BY DepthAssumption
<1>2. HeadFollows
  BY <1>1 DEF Init, HeadFollows, Slot
<1>3. NoCommand \in Command
  BY DEF NoCommand, Command, Kind
<1>4. commands \in [0..Depth - 1 -> Command]
  BY <1>3 DEF Init
<1> QED
  BY <1>2, <1>3, <1>4, Zero DEF Init, TypeOK, Pc, NoByte

LEMMA TypeStep ==
    ASSUME TypeOK, HeadFollows, [Next]_vars
    PROVE  TypeOK' /\ HeadFollows'
<1> USE DEF wire, assembly, flags, loop
<1>1. ASSUME NEW byte \in Byte, NEW damaged \in BOOLEAN, ByteArrives(byte, damaged)
      PROVE  TypeOK' /\ HeadFollows'
  <2>1. RingTyped' /\ HeadFollows'
    BY <1>1, SameRing DEF ByteArrives
  <2> QED
    BY <1>1, <2>1 DEF ByteArrives, TypeOK, RingTyped
<1>2. CASE ReceiveIrq
  <2>1. RingTyped' /\ HeadFollows'
    BY <1>2, QueueStep, SameRing DEF ReceiveIrq
  <2>2. active' \in BOOLEAN /\ idx' \in 0..Room /\ torn' \in BOOLEAN
    <3>1. CASE DropFrame
      BY <3>1, Zero DEF DropFrame
    <3>2. CASE Assemble
      <4>1. idx' \in 0..Room
        <5>1. CASE active /\ active'
          <6>1. idx < Room /\ idx' = idx + 1
            BY <3>2, <5>1, Zenon DEF Assemble
          <6>2. idx \in 0..Room
            BY DEF TypeOK
          <6> QED
            BY <6>1, <6>2, RoomAssumption
        <5>2. CASE ~(active /\ active')
          BY <3>2, <5>2, Zero DEF Assemble
        <5> QED
          BY <5>1, <5>2
      <4>2. active' \in BOOLEAN
        BY <3>2 DEF Assemble, TypeOK
      <4>3. torn' \in BOOLEAN
        BY <3>2 DEF Assemble, TypeOK
      <4> QED
        BY <4>1, <4>2, <4>3
    <3> QED
      BY <1>2, <3>1, <3>2 DEF ReceiveIrq
  <2> QED
    BY <1>2, <2>1, <2>2 DEF ReceiveIrq, TypeOK, RingTyped, NoByte
<1>3. CASE ErrorIrq
  <2>1. RingTyped' /\ HeadFollows'
    BY <1>3, QueueStep, SameRing DEF ErrorIrq
  <2> QED
    BY <1>3, <2>1, Zero DEF ErrorIrq, DropFrame, TypeOK, RingTyped, NoByte
<1>4. ASSUME NEW here \in Pc, NEW there \in Pc, Maintain(here, there)
      PROVE  TypeOK' /\ HeadFollows'
  <2>1. /\ RingTyped' /\ HeadFollows'
        /\ session' \in BOOLEAN /\ broken' \in BOOLEAN /\ misled' \in BOOLEAN
    BY <1>4, FlushStep, SameRing DEF Maintain, TypeOK
  <2> QED
    BY <1>4, <2>1, Zero DEF Maintain, Step, TypeOK, RingTyped
<1>5. ASSUME NEW here \in Pc, NEW clear \in Pc, NEW there \in Pc,
             RearmRx(here, clear, there)
      PROVE  TypeOK' /\ HeadFollows'
  <2>1. RingTyped' /\ HeadFollows'
    BY <1>5, SameRing DEF RearmRx
  <2> QED
    BY <1>5, <2>1 DEF RearmRx, Step, TypeOK, RingTyped
<1>6. ASSUME NEW here \in Pc, NEW there \in Pc, ClearRearm(here, there)
      PROVE  TypeOK' /\ HeadFollows'
  <2>1. RingTyped' /\ HeadFollows'
    BY <1>6, SameRing DEF ClearRearm
  <2> QED
    BY <1>6, <2>1 DEF ClearRearm, Step, TypeOK, RingTyped
<1>7. CASE Process
  <2>1. /\ RingTyped' /\ HeadFollows'
        /\ session' \in BOOLEAN /\ broken' \in BOOLEAN /\ misled' \in BOOLEAN
    BY <1>7, FlushStep, SameRing DEF Process, TypeOK
  <2> QED
    BY <1>7, <2>1 DEF Process, Step, Pc, TypeOK, RingTyped
<1>8. CASE Take
  <2>1. ASSUME count > 0, Step("take", "apply"), taken' = commands[tail],
               tail' = (tail + 1) % Depth, count' = count - 1,
               UNCHANGED <<commands, head>>
        PROVE  TypeOK' /\ HeadFollows'
    <3>1. tail' \in 0..Depth - 1 /\ HeadFollows'
      BY <2>1, TakeRing
    <3>2. count' \in 0..Depth /\ taken' \in Command
      BY <2>1, DepthAssumption DEF TypeOK
    <3> QED
      BY <1>8, <2>1, <3>1, <3>2 DEF Take, Step, Pc, TypeOK
  <2>2. ASSUME Step("take", "maintainAgain"), UNCHANGED <<ring, taken>>
        PROVE  TypeOK' /\ HeadFollows'
    <3>1. RingTyped' /\ HeadFollows'
      BY <1>8, <2>2, SameRing DEF Take
    <3> QED
      BY <1>8, <2>2, <3>1 DEF Take, Step, Pc, TypeOK, RingTyped
  <2> QED
    BY <1>8, <2>1, <2>2 DEF Take
<1>9. CASE Apply
  <2>1. RingTyped' /\ HeadFollows'
    BY <1>9, SameRing DEF Apply
  <2>2. NoCommand \in Command
    BY DEF NoCommand, Command, Kind
  <2>3. session' \in BOOLEAN /\ broken' \in BOOLEAN /\ misled' \in BOOLEAN
    BY <1>9 DEF Apply, Execute, TypeOK
  <2> QED
    BY <1>9, <2>1, <2>2, <2>3 DEF Apply, Step, Pc, TypeOK, RingTyped
<1>10. CASE UNCHANGED vars
  <2>1. RingTyped' /\ HeadFollows'
    BY <1>10, SameRing DEF vars
  <2> QED
    BY <1>10, <2>1 DEF vars, TypeOK, RingTyped
<1> QED
  BY <1>1, <1>2, <1>3, <1>4, <1>5, <1>6, <1>7, <1>8, <1>9, <1>10
     DEF Next, Irq, MainLoop, Pc

\* The types of the receiver, its ring and its main loop.
THEOREM ReceiverTypes == Spec => []TypeOK
<1>1. TypeOK /\ HeadFollows /\ [Next]_vars => (TypeOK /\ HeadFollows)'
  BY TypeStep
<1> QED
  BY TypeInit, <1>1, PTL DEF Spec

-----------------------------------------------------------------------------
(* No command after a loss moves anything.                                  *)

SafeUnlessError == ~errorPending => Safe

\* Nothing that Safe speaks of changes, and the main loop is not about to
\* execute a command.
LEMMA SafeKept ==
    ASSUME SafeUnlessError, UNCHANGED <<commands, tail, count, torn, session, broken, taken>>,
           errorPending' = errorPending, pc' = pc \/ pc' # "apply"
    PROVE  SafeUnlessError'
<1> SUFFICES ASSUME ~errorPending' PROVE Safe'
  BY DEF SafeUnlessError
<1>1. Safe
  BY DEF SafeUnlessError
<1>2. (torn => count = 0 /\ pc # "apply" /\ ~session)'
  BY <1>1 DEF Safe
<1>3. (\A k \in 0..count - 1 : commands[Slot(k)].gap => k = 0 /\ pc # "apply" /\ ~session)'
  BY <1>1 DEF Safe, Slot
<1> QED
  BY <1>1, <1>2, <1>3 DEF Safe

\* An empty queue and a closed session are safe.
LEMMA SafeWhenFlushed ==
    ASSUME TypeOK, FlushAndClose, pc' # "apply"
    PROVE  Safe' /\ misled' = misled
<1>1. \A k \in 0..count' - 1 : FALSE
  BY DEF FlushAndClose
<1> QED
  BY <1>1 DEF FlushAndClose, Safe

\* A byte that comes in without an error: what it completes is marked with the
\* loss before it, and then the queue was empty.
LEMMA SafeReceive ==
    ASSUME TypeOK, HeadFollows, Safe, ~errorPending,
           QueueRxCommand, Assemble, ~bad, ~ore, UNCHANGED <<pc, loop>>
    PROVE  Safe'
<1> USE DEF loop
<1>1. (torn => count = 0 /\ pc # "apply" /\ ~session)'
  <2> SUFFICES ASSUME torn' PROVE count' = 0 /\ pc # "apply" /\ ~session
    BY DEF loop
  <2>1. torn /\ (Completed = {} \/ count >= Depth)
    BY Zenon DEF Assemble
  <2>2. count = 0 /\ pc # "apply" /\ ~session
    BY <2>1 DEF Safe
  <2>3. Completed = {}
    BY <2>1, <2>2, DepthAssumption
  <2>4. count' = count
    BY <2>3 DEF QueueRxCommand, ring
  <2> QED
    BY <2>2, <2>4
<1>2. (\A k \in 0..count - 1 : commands[Slot(k)].gap => k = 0 /\ pc # "apply" /\ ~session)'
  <2>1. CASE UNCHANGED ring
    BY <2>1 DEF Safe, Slot, ring
  <2>2. ASSUME count < Depth, NEW kind \in Completed,
               commands' = [commands EXCEPT ![head] = [kind |-> kind, gap |-> torn \/ bad]],
               head' = (head + 1) % Depth, count' = count + 1, UNCHANGED <<tail, overflow>>
        PROVE  (\A k \in 0..count - 1 :
                    commands[Slot(k)].gap => k = 0 /\ pc # "apply" /\ ~session)'
    <3> SUFFICES ASSUME NEW k \in 0..count' - 1, commands'[Slot(k)'].gap
                 PROVE  k = 0 /\ pc # "apply" /\ ~session
      BY DEF Slot
    <3>1. Slot(k)' = Slot(k)
      BY <2>2 DEF Slot
    <3>2. CASE k = count
      <4>1. Slot(k) = head /\ head \in DOMAIN commands
        BY <3>2 DEF HeadFollows, TypeOK
      <4>2. commands'[Slot(k)'].gap = (torn \/ bad)
        BY <2>2, <3>1, <4>1
      <4>3. torn
        BY <4>2
      <4> QED
        BY <3>2, <4>3 DEF Safe
    <3>3. CASE k # count
      <4>1. k \in 0..count - 1
        BY <2>2, <3>3 DEF TypeOK
      <4>2. Slot(k) # head /\ Slot(k) \in DOMAIN commands
        BY <2>2, <4>1, PutRing DEF TypeOK
      <4>3. commands'[Slot(k)'] = commands[Slot(k)]
        BY <2>2, <3>1, <4>2
      <4> QED
        BY <4>1, <4>3 DEF Safe
    <3> QED
      BY <3>2, <3>3
  <2> QED
    BY <2>1, <2>2 DEF QueueRxCommand
<1> QED
  BY <1>1, <1>2 DEF Safe

LEMMA SafeTake ==
    ASSUME TypeOK, HeadFollows, Safe, Take, ~errorPending
    PROVE  Safe' /\ misled' = misled
<1> USE DEF assembly, flags
<1>1. CASE Step("take", "maintainAgain") /\ UNCHANGED <<ring, taken>>
  <2>1. UNCHANGED <<commands, tail, count, torn, session, broken, taken, errorPending, misled>>
    BY <1>1 DEF Take, ring
  <2>2. pc' # "apply"
    BY <1>1 DEF Step
  <2> QED
    BY <2>1, <2>2, SafeKept DEF SafeUnlessError
<1>2. ASSUME count > 0, Step("take", "apply"), taken' = commands[tail],
             tail' = (tail + 1) % Depth, count' = count - 1, UNCHANGED <<commands, head>>
      PROVE  Safe' /\ misled' = misled
  <2>1. /\ \A k \in 0..count' - 1 : Slot(k)' = Slot(k + 1)
        /\ Slot(0) = tail
    BY <1>2, TakeRing
  <2>2. ~torn /\ UNCHANGED <<torn, session, broken, misled>>
    BY <1>2 DEF Safe, Take
  <2>3. \A k \in 0..count' - 1 : ~commands'[Slot(k)'].gap
    <3> SUFFICES ASSUME NEW k \in 0..count' - 1 PROVE ~commands'[Slot(k)'].gap
      OBVIOUS
    <3>1. k + 1 \in 0..count - 1 /\ k + 1 # 0
      BY <1>2 DEF TypeOK
    <3>2. ~commands[Slot(k + 1)].gap
      BY <3>1 DEF Safe
    <3> QED
      BY <1>2, <2>1, <3>2
  <2>4. taken'.gap => ~session
    <3>1. 0 \in 0..count - 1
      BY <1>2 DEF TypeOK
    <3> QED
      BY <1>2, <2>1, <3>1 DEF Safe
  <2> QED
    BY <2>2, <2>3, <2>4 DEF Safe, Slot
<1> QED
  BY <1>1, <1>2 DEF Take

LEMMA SafeApply ==
    ASSUME TypeOK, Safe, TornNeverActs, Apply, ~errorPending
    PROVE  Safe' /\ TornNeverActs'
<1> USE DEF assembly, flags, ring
<1>1. pc = "apply" /\ pc' = "take" /\ Execute
  BY DEF Apply, Step
<1>2. UNCHANGED <<commands, tail, count, torn>>
  BY DEF Apply
<1>3. ~torn /\ \A k \in 0..count - 1 : ~commands[Slot(k)].gap
  BY <1>1 DEF Safe
<1>4. session => ~broken /\ ~taken.gap
  BY <1>1 DEF Safe
<1>5. broken' => ~session'
  BY <1>4, <1>1, Zenon DEF Execute
<1>6. TornNeverActs'
  BY <1>4, <1>1, Zenon DEF Execute, TornNeverActs
<1> QED
  BY <1>1, <1>2, <1>3, <1>5, <1>6 DEF Safe, Slot

LEMMA SafeStep ==
    ASSUME TypeOK, HeadFollows, SafeUnlessError, TornNeverActs, [Next]_vars
    PROVE  SafeUnlessError' /\ TornNeverActs'
<1> USE DEF wire, assembly, flags, loop, ring
<1>1. ASSUME NEW byte \in Byte, NEW damaged \in BOOLEAN, ByteArrives(byte, damaged)
      PROVE  SafeUnlessError' /\ TornNeverActs'
  BY <1>1, SafeKept DEF ByteArrives, TornNeverActs
<1>2. CASE ReceiveIrq
  <2>1. CASE errorPending
    BY <1>2, <2>1 DEF ReceiveIrq, SafeUnlessError, TornNeverActs
  <2>2. CASE ~errorPending
    <3>1. Safe'
      BY <1>2, <2>2, SafeReceive DEF ReceiveIrq, SafeUnlessError
    <3> QED
      BY <1>2, <3>1 DEF ReceiveIrq, SafeUnlessError, TornNeverActs
  <2> QED
    BY <2>1, <2>2
<1>3. CASE ErrorIrq
  BY <1>3 DEF ErrorIrq, SafeUnlessError, TornNeverActs
<1>4. ASSUME NEW here \in Pc, NEW there \in Pc \ {"apply"}, Maintain(here, there)
      PROVE  SafeUnlessError' /\ TornNeverActs'
  <2>0. pc' # "apply"
    BY <1>4 DEF Maintain, Step
  <2>1. CASE errorPending
    <3>1. FlushAndClose
      BY <1>4, <2>1 DEF Maintain
    <3> QED
      BY <2>0, <3>1, SafeWhenFlushed DEF SafeUnlessError, TornNeverActs
  <2>2. CASE ~errorPending
    <3>1. UNCHANGED <<commands, tail, count, torn, session, broken, taken, errorPending, misled>>
      BY <1>4, <2>2 DEF Maintain
    <3> QED
      BY <2>0, <3>1, SafeKept DEF TornNeverActs
  <2> QED
    BY <2>1, <2>2
<1>5. ASSUME NEW here \in Pc, NEW clear \in Pc \ {"apply"}, NEW there \in Pc \ {"apply"},
             RearmRx(here, clear, there)
      PROVE  SafeUnlessError' /\ TornNeverActs'
  BY <1>5, SafeKept DEF RearmRx, Step, TornNeverActs
<1>6. ASSUME NEW here \in Pc, NEW there \in Pc \ {"apply"}, ClearRearm(here, there)
      PROVE  SafeUnlessError' /\ TornNeverActs'
  BY <1>6, SafeKept DEF ClearRearm, Step, TornNeverActs
<1>7. CASE Process
  <2>0. pc' # "apply" /\ errorPending' = errorPending
    BY <1>7 DEF Process, Step
  <2>1. CASE FlushAndClose
    BY <2>0, <2>1, SafeWhenFlushed DEF SafeUnlessError, TornNeverActs
  <2>2. CASE UNCHANGED <<ring, overflow, session, broken, misled>>
    BY <1>7, <2>0, <2>2, SafeKept DEF Process, TornNeverActs
  <2> QED
    BY <1>7, <2>1, <2>2 DEF Process
<1>8. CASE Take
  <2>1. CASE errorPending
    BY <1>8, <2>1 DEF Take, SafeUnlessError, TornNeverActs
  <2>2. CASE ~errorPending
    BY <1>8, <2>2, SafeTake DEF SafeUnlessError, TornNeverActs
  <2> QED
    BY <2>1, <2>2
<1>9. CASE Apply
  <2>1. CASE errorPending
    BY <1>9, <2>1 DEF Apply, SafeUnlessError, TornNeverActs
  <2>2. CASE ~errorPending
    BY <1>9, <2>2, SafeApply DEF SafeUnlessError
  <2> QED
    BY <2>1, <2>2
<1>10. CASE UNCHANGED vars
  BY <1>10, SafeKept DEF vars, TornNeverActs
<1> QED
  BY <1>1, <1>2, <1>3, <1>4, <1>5, <1>6, <1>7, <1>8, <1>9, <1>10
     DEF Next, Irq, MainLoop, Pc

IndInv ==
    /\ TypeOK
    /\ HeadFollows
    /\ SafeUnlessError
    /\ TornNeverActs

\* No command that follows a lost or damaged byte ever actuates, for a queue
\* of any depth, frames of any length and any interleaving of the interrupt
\* with the main loop.
THEOREM NothingTornActs == Spec => []TornNeverActs
<1>1. Init => IndInv
  <2> SUFFICES ASSUME Init PROVE IndInv
    OBVIOUS
  <2>1. \A k \in 0..count - 1 : FALSE
    BY DEF Init
  <2> QED
    BY <2>1, TypeInit DEF Init, IndInv, SafeUnlessError, Safe, TornNeverActs, NoCommand
<1>2. IndInv /\ [Next]_vars => IndInv'
  BY TypeStep, SafeStep DEF IndInv
<1>3. IndInv => TornNeverActs
  BY DEF IndInv
<1> QED
  BY <1>1, <1>2, <1>3, PTL DEF Spec

-----------------------------------------------------------------------------
(* The ring is a queue.                                                     *)

\* A stretch of the ring, as a sequence.
LEMMA Stretch ==
    ASSUME NEW t \in 0..Depth - 1, NEW n \in 0..Depth,
           NEW f \in [0..Depth - 1 -> Command]
    PROVE  LET w == [i \in 1..n |-> f[(t + i - 1) % Depth]]
           IN  /\ w \in Seq(Command) /\ Len(w) = n
               /\ \A i \in 1..n : w[i] = f[(t + (i - 1)) % Depth]
<1> DEFINE w == [i \in 1..n |-> f[(t + i - 1) % Depth]]
<1>1. n \in Nat
  BY DepthAssumption
<1>2. \A i \in 1..n : /\ (t + i - 1) % Depth = (t + (i - 1)) % Depth
                      /\ (t + (i - 1)) % Depth \in 0..Depth - 1
  <2> SUFFICES ASSUME NEW i \in 1..n
               PROVE  /\ (t + i - 1) % Depth = (t + (i - 1)) % Depth
                      /\ (t + (i - 1)) % Depth \in 0..Depth - 1
    OBVIOUS
  <2>1. t + i - 1 = t + (i - 1) /\ i - 1 \in 0..Depth
    BY DepthAssumption
  <2> QED
    BY <2>1, WrapSum
<1> DEFINE at(i) == (t + (i - 1)) % Depth
<1>3. /\ w = [i \in 1..n |-> f[at(i)]]
      /\ \A i \in 1..n : f[at(i)] \in Command
  BY <1>2
<1> HIDE DEF at, w
<1>4. w \in Seq(Command)
  BY <1>1, <1>3
<1>5. Len(w) = n
  BY <1>1, <1>3
<1>6. \A i \in 1..n : w[i] = f[at(i)]
  BY <1>3
<1> QED
  BY <1>4, <1>5, <1>6 DEF at, w

LEMMA WaitingNow ==
    ASSUME TypeOK
    PROVE  /\ Waiting \in Seq(Command) /\ Len(Waiting) = count
           /\ \A i \in 1..count : Waiting[i] = commands[Slot(i - 1)]
<1>1. /\ tail \in 0..Depth - 1 /\ count \in 0..Depth
      /\ commands \in [0..Depth - 1 -> Command]
  BY DEF TypeOK
<1>2. Waiting = [i \in 1..count |-> commands[(tail + i - 1) % Depth]]
  BY DEF Waiting
<1> QED
  BY <1>1, <1>2, Stretch DEF Slot

LEMMA WaitingNext ==
    ASSUME TypeOK'
    PROVE  /\ Waiting' \in Seq(Command) /\ Len(Waiting') = count'
           /\ \A i \in 1..count' : Waiting'[i] = commands'[(tail' + (i - 1)) % Depth]
<1>1. /\ tail' \in 0..Depth - 1 /\ count' \in 0..Depth
      /\ commands' \in [0..Depth - 1 -> Command]
  BY DEF TypeOK
<1>2. Waiting' = [i \in 1..count' |-> commands'[(tail' + i - 1) % Depth]]
  BY DEF Waiting
<1> QED
  BY <1>1, <1>2, Stretch

LEMMA PutWaits ==
    ASSUME TypeOK, HeadFollows, TypeOK', NEW command \in Command,
           count < Depth, commands' = [commands EXCEPT ![head] = command],
           head' = (head + 1) % Depth, count' = count + 1, tail' = tail
    PROVE  Waiting' = Append(Waiting, command)
<1>1. /\ Waiting \in Seq(Command) /\ Len(Waiting) = count
      /\ \A i \in 1..count : Waiting[i] = commands[Slot(i - 1)]
  BY WaitingNow
<1>2. /\ Waiting' \in Seq(Command) /\ Len(Waiting') = count + 1
      /\ \A i \in 1..count + 1 : Waiting'[i] = commands'[Slot(i - 1)]
  BY WaitingNext DEF Slot
<1>3. count \in Nat /\ head \in 0..Depth - 1
  BY DepthAssumption DEF TypeOK
<1>4. \A i \in 1..count : Waiting'[i] = Waiting[i]
  <2> SUFFICES ASSUME NEW i \in 1..count PROVE Waiting'[i] = Waiting[i]
    OBVIOUS
  <2>1. i - 1 \in 0..count - 1
    BY <1>3
  <2>2. Slot(i - 1) # head /\ Slot(i - 1) \in 0..Depth - 1
    BY <2>1, PutRing
  <2>3. commands'[Slot(i - 1)] = commands[Slot(i - 1)]
    BY <2>2 DEF TypeOK
  <2> QED
    BY <1>1, <1>2, <1>3, <2>3
<1>5. Waiting'[count + 1] = command
  <2>1. Slot(count + 1 - 1) = head
    BY <1>3 DEF HeadFollows
  <2> QED
    BY <1>2, <1>3, <2>1 DEF TypeOK
<1> QED
  BY <1>1, <1>2, <1>3, <1>4, <1>5

LEMMA TakeWaits ==
    ASSUME TypeOK, HeadFollows, TypeOK', count > 0, UNCHANGED <<commands, head>>,
           tail' = (tail + 1) % Depth, count' = count - 1
    PROVE  Waiting # <<>> /\ Waiting' = Tail(Waiting)
<1>1. /\ Waiting \in Seq(Command) /\ Len(Waiting) = count
      /\ \A i \in 1..count : Waiting[i] = commands[Slot(i - 1)]
  BY WaitingNow
<1>2. /\ Waiting' \in Seq(Command) /\ Len(Waiting') = count - 1
      /\ \A i \in 1..count - 1 :
            Waiting'[i] = commands[(tail' + (i - 1)) % Depth]
  BY WaitingNext
<1>3. count \in Nat
  BY DepthAssumption DEF TypeOK
<1>4. \A i \in 1..count - 1 : Waiting'[i] = Waiting[i + 1]
  <2> SUFFICES ASSUME NEW i \in 1..count - 1 PROVE Waiting'[i] = Waiting[i + 1]
    OBVIOUS
  <2>1. i - 1 \in 0..count' - 1 /\ i - 1 + 1 = i /\ i + 1 - 1 = i /\ i + 1 \in 1..count
    BY <1>3
  <2>2. (tail' + (i - 1)) % Depth = Slot(i)
    BY <2>1, TakeRing DEF Slot
  <2>3. Waiting'[i] = commands[Slot(i)]
    BY <1>2, <2>2
  <2> QED
    BY <1>1, <2>1, <2>3
<1> QED
  BY <1>1, <1>2, <1>3, <1>4

\* A byte puts in one command, or none and perhaps notes an overflow.
LEMMA QueueWaits ==
    ASSUME TypeOK, HeadFollows, TypeOK', QueueRxCommand
    PROVE  \/ Waiting' = Waiting /\ overflow' \in {overflow, TRUE}
           \/ /\ overflow' = overflow
              /\ \E command \in Command : Len(Waiting) < Depth
                                          /\ Waiting' = Append(Waiting, command)
<1>1. CASE UNCHANGED ring /\ overflow' = (overflow \/ Overlong)
  <2>1. Overlong \in BOOLEAN
    BY DEF Overlong, TypeOK
  <2> QED
    BY <1>1, <2>1 DEF ring, Waiting, TypeOK
<1>2. CASE UNCHANGED ring /\ overflow' = TRUE
  BY <1>2 DEF ring, Waiting
<1>3. ASSUME Completed # {}, count < Depth,
             NEW kind \in Completed,
             commands' = [commands EXCEPT ![head] = [kind |-> kind, gap |-> torn \/ bad]],
             head' = (head + 1) % Depth,
             count' = count + 1,
             tail' = tail
      PROVE  \E command \in Command : Len(Waiting) < Depth
                                      /\ Waiting' = Append(Waiting, command)
  <2>1. kind \in Kind /\ (torn \/ bad) \in BOOLEAN
    BY DEF Completed, Legacy, Parsed, Kind, TypeOK
  <2>2. [kind |-> kind, gap |-> torn \/ bad] \in Command
    BY <2>1 DEF Command
  <2>3. Waiting' = Append(Waiting, [kind |-> kind, gap |-> torn \/ bad])
    BY <1>3, <2>2, PutWaits
  <2> QED
    BY <1>3, <2>2, <2>3, WaitingNow
<1> QED
  BY <1>1, <1>2, <1>3 DEF QueueRxCommand

LEMMA FlushWaits ==
    ASSUME FlushAndClose
    PROVE  Waiting' = <<>> /\ session' = FALSE /\ overflow' = FALSE
  BY DEF FlushAndClose, Waiting

\* Every step of the receiver is one of the queue, or none.
LEMMA FifoStep ==
    ASSUME TypeOK, HeadFollows, TypeOK', [Next]_vars
    PROVE  [Fifo!Next]_Fifo!vars
<1> USE DEF wire, assembly, flags, loop
<1>1. CASE UNCHANGED <<ring, session, overflow, Taking>>
  BY <1>1 DEF ring, Waiting, Fifo!vars
<1>2. CASE Irq
  <2>1. session' = session /\ Taking' = Taking
    BY <1>2 DEF Irq, ReceiveIrq, ErrorIrq, Taking
  <2>2. CASE UNCHANGED ring /\ overflow' = overflow
    BY <1>1, <2>1, <2>2
  <2>3. CASE QueueRxCommand
    <3>1. CASE Waiting' = Waiting /\ overflow' \in {overflow, TRUE}
      BY <2>1, <3>1 DEF Fifo!Next, Fifo!Refuse, Fifo!vars
    <3>2. CASE /\ overflow' = overflow
               /\ \E command \in Command : Len(Waiting) < Depth
                                           /\ Waiting' = Append(Waiting, command)
      BY <2>1, <3>2 DEF Fifo!Next, Fifo!Put
    <3> QED
      BY <2>3, <3>1, <3>2, QueueWaits
  <2> QED
    BY <1>2, <2>2, <2>3 DEF Irq, ReceiveIrq, ErrorIrq
<1>3. CASE /\ FlushAndClose /\ Taking = FALSE /\ Taking' = FALSE
  BY <1>3, FlushWaits DEF Fifo!Next, Fifo!Discard
<1>4. CASE Process
  <2>1. CASE Step("process", "maintainAgain") /\ FlushAndClose
    <3>1. Taking = FALSE /\ Taking' = FALSE
      BY <2>1 DEF Step, Taking
    <3> QED
      BY <1>3, <2>1, <3>1
  <2>2. CASE /\ Step("process", "maintainAgain")
             /\ UNCHANGED <<ring, overflow, session>>
    <3>1. Taking' = Taking
      BY <2>2 DEF Step, Taking
    <3> QED
      BY <1>1, <2>2, <3>1
  <2>3. CASE /\ ~overflow /\ Step("process", "take")
             /\ UNCHANGED <<ring, overflow, session>>
    <3>1. Taking' = TRUE
      BY <2>3 DEF Step, Taking
    <3> QED
      BY <2>3, <3>1 DEF ring, Waiting, Fifo!Next, Fifo!Begin
  <2> QED
    BY <1>4, <2>1, <2>2, <2>3 DEF Process
<1>5. CASE Take
  <2>1. Taking = TRUE /\ UNCHANGED <<overflow, session>>
    BY <1>5 DEF Take, Step, Taking
  <2>2. CASE /\ count > 0 /\ Step("take", "apply")
             /\ tail' = (tail + 1) % Depth /\ count' = count - 1
             /\ UNCHANGED <<commands, head>>
    <3>1. Taking' = Taking
      BY <2>2 DEF Step, Taking
    <3> QED
      BY <2>1, <2>2, <3>1, TakeWaits DEF Fifo!Next, Fifo!Take
  <2>3. CASE Step("take", "maintainAgain") /\ UNCHANGED ring
    <3>1. Taking' = FALSE
      BY <2>3 DEF Step, Taking
    <3> QED
      BY <2>1, <2>3, <3>1 DEF ring, Waiting, Fifo!Next, Fifo!End
  <2> QED
    BY <1>5, <2>2, <2>3 DEF Take
<1>6. CASE Apply
  <2>1. Taking = TRUE /\ UNCHANGED <<ring, overflow>>
    BY <1>6 DEF Apply, Step, Taking
  <2>2. CASE Step("apply", "take") /\ Execute
    <3>1. Taking' = Taking /\ session' \in BOOLEAN
      BY <2>2 DEF Step, Taking, TypeOK
    <3> QED
      BY <2>1, <3>1 DEF ring, Waiting, Fifo!Next, Fifo!Execute
  <2>3. CASE Step("apply", "maintainAgain") /\ UNCHANGED session
    <3>1. Taking' = FALSE
      BY <2>3 DEF Step, Taking
    <3> QED
      BY <2>1, <2>3, <3>1 DEF ring, Waiting, Fifo!Next, Fifo!End
  <2> QED
    BY <1>6, <2>2, <2>3 DEF Apply
<1>7. CASE MainLoop /\ ~Process /\ ~Take /\ ~Apply
  <2>1. Taking = FALSE /\ Taking' = FALSE
    BY <1>7 DEF MainLoop, Maintain, RearmRx, ClearRearm, Step, Taking
  <2>2. FlushAndClose \/ UNCHANGED <<ring, session, overflow>>
    BY <1>7 DEF MainLoop, Maintain, RearmRx, ClearRearm
  <2> QED
    BY <1>1, <1>3, <2>1, <2>2
<1>8. CASE \E byte \in Byte, damaged \in BOOLEAN : ByteArrives(byte, damaged)
  BY <1>1, <1>8 DEF ByteArrives, Taking
<1>9. CASE UNCHANGED vars
  BY <1>1, <1>9 DEF vars, Taking
<1> QED
  BY <1>2, <1>4, <1>5, <1>6, <1>7, <1>8, <1>9 DEF Next

\* The ring with its indices and counter is a bounded queue that loses commands
\* only all together and with the session, and after a command was refused
\* executes none in a new round before that, for a ring of any depth.
THEOREM ReceiverImplementsFifo == Spec => ImplementsFifo
<1>1. Init => Fifo!Init
  BY DEF Init, Fifo!Init, Waiting, Taking
<1>2. TypeOK /\ HeadFollows /\ [Next]_vars => (TypeOK /\ HeadFollows)'
  BY TypeStep
<1>3. TypeOK /\ HeadFollows /\ TypeOK' /\ [Next]_vars => [Fifo!Next]_Fifo!vars
  BY FifoStep
<1> QED
  BY TypeInit, <1>1, <1>2, <1>3, PTL DEF Spec, ImplementsFifo, Fifo!Spec
=============================================================================
