---------------------------- MODULE MCNTVService ----------------------------
(* Packets of two bytes and a queue of one or two of them, one slot, a     *)
(* viewer who logs in and presses a key, and a local connection that sets  *)
(* the key or shuts down.                                                  *)
EXTENDS NTVService

CONSTANTS k1, sd, hd

Login == [type |-> "login", arg |-> k1]
UpKey == [type |-> "key", arg |-> "up"]
MCViewerMessages == {Login, UpKey}
LiveViewerMessages == {Login}
SetUp == [quality |-> hd, key |-> k1, shutdown |-> FALSE]
ShutDown == [quality |-> Nothing, key |-> Nothing, shutdown |-> TRUE]
MCLocalMessages == {SetUp, ShutDown}

=============================================================================
