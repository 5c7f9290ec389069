---------------------------- MODULE MCRemoteControl ----------------------------
(* RemoteControl with a function whose code goes out as one full piece and *)
(* a rest, and a function without a code.                                  *)
EXTENDS RemoteControl

MCFunctions == {"power", "typo"}
MCKnown == {"power"}
MCCodeLength == [f \in MCFunctions |-> 3]

=============================================================================
