---------------------------- MODULE UartReceive ----------------------------
(* How the firmware of a robot receives: the USART, the HAL's interrupt     *)
(* handler, the callbacks that assemble frames and fill the command queue,  *)
(* and the part of the main loop that empties it, maintains the receiver    *)
(* and closes the session after an error.                                   *)
(*                                                                          *)
(* The line delivers any bytes in any order at any moment, damaged or not:  *)
(* the bridge sends frames, the line and a restart of the Pi send the rest. *)
(* A byte is "@", the end of a line or any other; a carriage return, which  *)
(* the callbacks skip, is left out. Of a command the model keeps its kind.  *)
(* An interrupt runs to its end (both handlers have priority 0) and the     *)
(* main loop does not move while one is due; between two steps of the main  *)
(* loop any number of them may run.                                         *)
EXTENDS Naturals, Sequences

CONSTANTS
    Depth,      \* RX_COMMAND_QUEUE_DEPTH
    Room        \* sizeof(uart_rx_buf) - 1, the longest command

ASSUME DepthAssumption == Depth \in Nat \ {0}
ASSUME RoomAssumption == Room \in Nat \ {0}

Byte == {"@", "eol", "other"}
NoByte == "none"

\* HELLO opens a session, an unknown command ends it, and every other command
\* needs one (those that do not, such as HB or ESTOP, are counted among them).
Kind == {"hello", "actuate", "unknown"}

\* gap: was a byte lost or damaged after the command before this one and not
\* later than the last byte of this one? It is no part of the code.
Command == [kind : Kind, gap : BOOLEAN]

VARIABLES
    dr,             \* the data register: a byte that nobody has read, or NoByte
    bad,            \* SR: that byte came with a framing or noise error
    ore,            \* SR: a byte was lost because dr was occupied
    armed,          \* RxState is BUSY_RX and the receive interrupt is enabled
    active,         \* uart_frame_active
    idx,            \* uart_rx_idx
    commands,       \* g_rx_commands
    head,           \* g_rx_command_head: the next one to write
    tail,           \* g_rx_command_tail: the next one to read
    count,          \* g_rx_command_count
    overflow,       \* g_rx_queue_overflow
    errorPending,   \* g_uart_rx_error_pending
    rearmPending,   \* g_uart_rx_rearm_pending
    pc,             \* where the main loop is
    taken,          \* its copy of the command it is about to execute
    session,        \* protocol_session_active
    torn,           \* was a byte lost since the last command was queued?
    broken,         \* ... since the HELLO of the session?
    misled          \* did a command that followed a loss ever actuate?

wire == <<dr, bad, ore>>
assembly == <<active, idx, torn>>
ring == <<commands, head, tail, count>>
flags == <<overflow, errorPending, rearmPending>>
loop == <<taken, session, broken, misled>>
vars == <<wire, armed, assembly, ring, flags, pc, loop>>

Pc == {"maintain", "rearm", "clear", "process", "take", "apply",
       "maintainAgain", "rearmAgain", "clearAgain"}

NoCommand == [kind |-> "unknown", gap |-> FALSE]

TypeOK ==
    /\ dr \in Byte \cup {NoByte} /\ bad \in BOOLEAN /\ ore \in BOOLEAN
    /\ armed \in BOOLEAN /\ active \in BOOLEAN /\ idx \in 0..Room
    /\ commands \in [0..Depth - 1 -> Command]
    /\ head \in 0..Depth - 1 /\ tail \in 0..Depth - 1 /\ count \in 0..Depth
    /\ overflow \in BOOLEAN /\ errorPending \in BOOLEAN /\ rearmPending \in BOOLEAN
    /\ pc \in Pc /\ taken \in Command /\ session \in BOOLEAN
    /\ torn \in BOOLEAN /\ broken \in BOOLEAN /\ misled \in BOOLEAN

\* Robot_Init: everything is empty and the receiver is armed.
Init ==
    /\ dr = NoByte /\ bad = FALSE /\ ore = FALSE
    /\ armed = TRUE /\ active = FALSE /\ idx = 0
    /\ commands = [i \in 0..Depth - 1 |-> NoCommand]
    /\ head = 0 /\ tail = 0 /\ count = 0
    /\ overflow = FALSE /\ errorPending = FALSE /\ rearmPending = FALSE
    /\ pc = "maintain" /\ taken = NoCommand /\ session = FALSE
    /\ torn = FALSE /\ broken = FALSE /\ misled = FALSE

-----------------------------------------------------------------------------
(* The USART.                                                               *)

\* A byte comes in; if the one before is still there, the new one is lost.
ByteArrives(byte, damaged) ==
    /\ IF dr = NoByte
       THEN dr' = byte /\ bad' = damaged /\ UNCHANGED ore
       ELSE ore' = TRUE /\ UNCHANGED <<dr, bad>>
    /\ UNCHANGED <<armed, assembly, ring, flags, pc, loop>>

-----------------------------------------------------------------------------
(* The interrupt.                                                           *)

\* A byte outside a frame is a legacy command. An empty frame is unknown; any
\* other may be any command, for the model does not count the bytes of one.
Legacy == {"actuate"}
Parsed(n) == IF n = 0 THEN {"unknown"} ELSE Kind

\* What kinds of command may the byte in dr complete? Outside a frame any byte
\* but the two that frame is a command, inside one the end of the line is.
Completed == IF ~active THEN IF dr = "other" THEN Legacy ELSE {}
             ELSE IF dr = "eol" THEN Parsed(idx) ELSE {}

Overlong == active /\ dr # "eol" /\ idx = Room

\* Mutant: a full queue is written over.
QueueRxCommandOverwrites ==
    \/ /\ Completed = {}
       /\ overflow' = (overflow \/ Overlong)
       /\ UNCHANGED ring
    \/ /\ Completed # {}
       /\ \E kind \in Completed :
              commands' = [commands EXCEPT ![head] = [kind |-> kind, gap |-> torn \/ bad]]
       /\ head' = (head + 1) % Depth
       /\ count' = count + 1
       /\ UNCHANGED <<tail, overflow>>

\* UART_QueueRxCommand of what the byte completes, if it completes anything;
\* a frame that is too long counts as an overflow of the queue.
QueueRxCommand ==
    \/ /\ Completed = {}
       /\ overflow' = (overflow \/ Overlong)
       /\ UNCHANGED ring
    \/ /\ Completed # {} /\ count >= Depth
       /\ overflow' = TRUE
       /\ UNCHANGED ring
    \/ /\ Completed # {} /\ count < Depth
       /\ \E kind \in Completed :
              commands' = [commands EXCEPT ![head] = [kind |-> kind, gap |-> torn \/ bad]]
       /\ head' = (head + 1) % Depth
       /\ count' = count + 1
       /\ UNCHANGED <<tail, overflow>>

\* The frame after that byte.
Assemble ==
    /\ active' = IF active THEN dr # "eol" /\ idx < Room ELSE dr = "@"
    /\ idx' = IF active /\ active' THEN idx + 1 ELSE 0
    /\ torn' = (ore \/ ((torn \/ bad) /\ (Completed = {} \/ count >= Depth)))

DropFrame == active' = FALSE /\ idx' = 0 /\ torn' = TRUE

Due == armed /\ dr # NoByte

\* HAL_UART_IRQHandler with no error in SR, and HAL_UART_RxCpltCallback: while
\* an error is pending it drops the byte and leaves the receiver off; otherwise
\* it takes the byte and arms the receiver again.
ReceiveIrq ==
    /\ Due /\ ~bad /\ ~ore
    /\ dr' = NoByte
    /\ \/ /\ errorPending
          /\ DropFrame
          /\ armed' = FALSE /\ rearmPending' = TRUE
          /\ UNCHANGED <<ring, overflow>>
       \/ /\ ~errorPending
          /\ QueueRxCommand /\ Assemble
          /\ rearmPending' = FALSE
          /\ UNCHANGED armed
    /\ UNCHANGED <<bad, ore, errorPending, pc, loop>>

\* Mutant: the frame is dropped but the main loop not told of the error.
ErrorIrqInSilence ==
    /\ Due /\ (bad \/ ore)
    /\ dr' = NoByte /\ bad' = FALSE /\ ore' = FALSE
    /\ \/ errorPending /\ UNCHANGED <<ring, overflow>>
       \/ ~errorPending /\ QueueRxCommand
    /\ armed' = ~errorPending
    /\ DropFrame
    /\ rearmPending' = TRUE
    /\ UNCHANGED <<errorPending, pc, loop>>

\* HAL_UART_IRQHandler with an error in SR: it receives the byte first, which
\* clears SR, and HAL_UART_ErrorCallback then drops the frame. A receiver
\* that was armed again meanwhile stays armed, for arming forgets the error
\* code and with it that an overrun was to end the transfer.
ErrorIrq ==
    /\ Due /\ (bad \/ ore)
    /\ dr' = NoByte /\ bad' = FALSE /\ ore' = FALSE
    /\ \/ errorPending /\ UNCHANGED <<ring, overflow>>
       \/ ~errorPending /\ QueueRxCommand
    /\ armed' = ~errorPending
    /\ DropFrame
    /\ errorPending' = TRUE /\ rearmPending' = TRUE
    /\ UNCHANGED <<pc, loop>>

-----------------------------------------------------------------------------
(* The main loop.                                                           *)

\* A step of the main loop, from one place to another.
Step(here, there) == pc = here /\ ~Due /\ pc' = there

\* Mutant: the queue is emptied but its reader not moved to the start of it.
FlushAndCloseKeepsTail ==
    /\ head' = 0 /\ count' = 0
    /\ overflow' = FALSE /\ session' = FALSE /\ broken' = TRUE
    /\ UNCHANGED <<commands, tail, misled>>

\* A session ends and its commands are thrown away; what comes next follows
\* a loss.
FlushAndClose ==
    /\ head' = 0 /\ tail' = 0 /\ count' = 0
    /\ overflow' = FALSE /\ session' = FALSE /\ broken' = TRUE
    /\ UNCHANGED <<commands, misled>>

\* Mutant: the error is left to UART_ProcessPendingCommands, which refuses to
\* run while it is pending and does no more.
MaintainIgnoresError(here, there) ==
    /\ Step(here, there)
    /\ UNCHANGED <<wire, armed, assembly, ring, flags, loop>>

\* Mutant: the request to arm the receiver goes with the error it came with.
MaintainDropsRequest(here, there) ==
    /\ Step(here, there)
    /\ \/ /\ errorPending
          /\ errorPending' = FALSE /\ rearmPending' = FALSE
          /\ active' = FALSE /\ idx' = 0
          /\ FlushAndClose
       \/ /\ ~errorPending
          /\ UNCHANGED <<errorPending, rearmPending, active, idx, ring, overflow,
                         session, broken, misled>>
    /\ UNCHANGED <<wire, armed, torn, taken>>

\* UART_MaintainRx up to the end of its critical section, and QueueError.
Maintain(here, there) ==
    /\ Step(here, there)
    /\ \/ /\ errorPending
          /\ errorPending' = FALSE
          /\ active' = FALSE /\ idx' = 0
          /\ FlushAndClose
       \/ /\ ~errorPending
          /\ UNCHANGED <<errorPending, active, idx, ring, overflow, session, broken, misled>>
    /\ UNCHANGED <<wire, armed, torn, rearmPending, taken>>

\* ... its second half: a receiver that is off is armed (UART_ArmReceive), one
\* that is on is left alone; in both cases the request is cleared afterwards.
RearmRx(here, clear, there) ==
    /\ IF rearmPending THEN Step(here, clear) /\ armed' = TRUE
                       ELSE Step(here, there) /\ UNCHANGED armed
    /\ UNCHANGED <<wire, assembly, ring, flags, loop>>

ClearRearm(here, there) ==
    /\ Step(here, there)
    /\ rearmPending' = FALSE
    /\ UNCHANGED <<wire, armed, assembly, ring, overflow, errorPending, loop>>

\* Mutant: an overflow is noted, but the commands are executed all the same.
ProcessIgnoresOverflow ==
    /\ \/ errorPending /\ Step("process", "maintainAgain")
       \/ ~errorPending /\ Step("process", "take")
    /\ UNCHANGED <<wire, armed, assembly, ring, flags, loop>>

\* UART_ProcessPendingCommands up to its loop.
Process ==
    /\ \/ /\ errorPending
          /\ Step("process", "maintainAgain")
          /\ UNCHANGED <<ring, overflow, session, broken, misled>>
       \/ /\ ~errorPending /\ overflow
          /\ Step("process", "maintainAgain")
          /\ FlushAndClose
       \/ /\ ~errorPending /\ ~overflow
          /\ Step("process", "take")
          /\ UNCHANGED <<ring, overflow, session, broken, misled>>
    /\ UNCHANGED <<wire, armed, assembly, errorPending, rearmPending, taken>>

\* One round of it: the oldest command is copied ...
Take ==
    /\ \/ /\ count > 0 /\ ~errorPending
          /\ Step("take", "apply")
          /\ taken' = commands[tail]
          /\ tail' = (tail + 1) % Depth
          /\ count' = count - 1
          /\ UNCHANGED <<commands, head>>
       \/ /\ count = 0 \/ errorPending
          /\ Step("take", "maintainAgain")
          /\ UNCHANGED <<ring, taken>>
    /\ UNCHANGED <<wire, armed, assembly, flags, session, broken, misled>>

\* ... and executed, unless an error came in between: a HELLO that is accepted
\* opens the session, an actuation needs it, an unknown command ends it.
Execute ==
    LET gap == broken \/ taken.gap
    IN /\ session' = (taken.kind = "hello" \/ (session /\ taken.kind # "unknown"))
       /\ broken' = (gap /\ taken.kind # "hello")
       /\ misled' = (misled \/ (taken.kind = "actuate" /\ session /\ gap))

Apply ==
    /\ \/ ~errorPending /\ Step("apply", "take") /\ Execute
       \/ /\ errorPending /\ Step("apply", "maintainAgain")
          /\ broken' = TRUE
          /\ UNCHANGED <<session, misled>>
    /\ taken' = NoCommand
    /\ UNCHANGED <<wire, armed, assembly, ring, flags>>

MainLoop ==
    \/ Maintain("maintain", "rearm")
    \/ RearmRx("rearm", "clear", "process")
    \/ ClearRearm("clear", "process")
    \/ Process \/ Take \/ Apply
    \/ Maintain("maintainAgain", "rearmAgain")
    \/ RearmRx("rearmAgain", "clearAgain", "maintain")
    \/ ClearRearm("clearAgain", "maintain")

Irq == ReceiveIrq \/ ErrorIrq

Next ==
    \/ \E byte \in Byte, damaged \in BOOLEAN : ByteArrives(byte, damaged)
    \/ Irq
    \/ MainLoop

Spec == Init /\ [][Next]_vars

FairSpec == Spec /\ WF_vars(Irq) /\ SF_vars(MainLoop)

-----------------------------------------------------------------------------
(* What the receiver promises.                                              *)

\* A command that follows a lost or damaged byte moves nothing: whatever an
\* interrupt does between two steps of the main loop, the session is closed
\* before such a command is executed, and only a new HELLO opens one again.
TornNeverActs == ~misled

\* The ring, its two indices and its counter are a bounded queue: commands
\* come out whole and in order, none twice, and they are thrown away only all
\* together and with the session. A frame that finds the ring full, or is too
\* long, costs the rest: once UART_ProcessPendingCommands has left its loop, it
\* executes nothing more before the queue is emptied and the session closed.
Waiting == [i \in 1..count |-> commands[(tail + i - 1) % Depth]]
Taking == pc \in {"take", "apply"}
Fifo == INSTANCE CommandFifo
            WITH queue <- Waiting, open <- session, refused <- overflow,
                 round <- Taking
ImplementsFifo == Fifo!Spec

\* Such a frame ends the session, if only the loop that takes the commands out
\* ends from time to time: the line must not fill the ring again for ever
\* while it is emptied.
RefusalClosesSession == []<>~Taking => (overflow ~> ~session)

\* A receiver that an interrupt has left off is on again, unless the interrupt
\* came while the main loop had served an older request and not yet cleared
\* it: then the request is cleared unserved, and the receiver stays off.
Clearing == pc \in {"clear", "clearAgain"}
RequestIsServed == (~armed /\ rearmPending /\ ~Clearing) ~> armed

\* Once the receiver has lost a byte the session ends, however the interrupts
\* and the main loop interleave.
LossClosesSession == (ore \/ torn) ~> ~session
=============================================================================
