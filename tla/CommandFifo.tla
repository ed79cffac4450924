---------------------------- MODULE CommandFifo ----------------------------
(* What the receive queue of the firmware promises to the main loop: the    *)
(* commands come out complete and in the order in which they were put in,   *)
(* at most Depth of them wait, and if some are ever thrown away then all of *)
(* them are, and the session they belong to is over. The main loop takes    *)
(* them out in rounds. When a command was refused, a round under way may go *)
(* on, but none begins before the rest have been thrown away.               *)
EXTENDS Naturals, Sequences

CONSTANTS
    Depth,      \* how many commands may wait
    Command     \* the commands

VARIABLES
    queue,      \* the commands that wait, oldest first
    open,       \* is a session open, so that a command may actuate?
    refused,    \* was a command refused since they were last thrown away?
    round       \* is the main loop taking commands out?

vars == <<queue, open, refused, round>>

Init == queue = <<>> /\ open = FALSE /\ refused = FALSE /\ round = FALSE

Put(command) ==
    /\ Len(queue) < Depth
    /\ queue' = Append(queue, command)
    /\ UNCHANGED <<open, refused, round>>

\* There is no room for a command.
Refuse ==
    /\ refused' = TRUE
    /\ UNCHANGED <<queue, open, round>>

Begin ==
    /\ ~refused
    /\ round' = TRUE
    /\ UNCHANGED <<queue, open, refused>>

Take ==
    /\ round /\ queue # <<>>
    /\ queue' = Tail(queue)
    /\ UNCHANGED <<open, refused, round>>

\* What a command that was taken does to the session.
Execute ==
    /\ round
    /\ open' \in BOOLEAN
    /\ UNCHANGED <<queue, refused, round>>

End ==
    /\ round' = FALSE
    /\ UNCHANGED <<queue, open, refused>>

Discard ==
    /\ ~round
    /\ queue' = <<>> /\ open' = FALSE /\ refused' = FALSE
    /\ UNCHANGED round

Next ==
    \/ \E command \in Command : Put(command)
    \/ Refuse \/ Begin \/ Take \/ Execute \/ End \/ Discard

Spec == Init /\ [][Next]_vars
=============================================================================
