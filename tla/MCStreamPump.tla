---------------------------- MODULE MCStreamPump ----------------------------
(* A queue of 9 bytes, packets of 4 and a buffer of 5.  The encoder sends  *)
(* units of 2 bytes, alone, in pairs or in threes, which the buffer cuts;  *)
(* and somebody may send an empty datagram.                                *)
EXTENDS StreamPump

=============================================================================
