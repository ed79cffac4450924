--------------------------- MODULE MCUartReceive ---------------------------
(* UartReceive on an instance that TLC can exhaust.                         *)
EXTENDS UartReceive
=============================================================================
