----------------------------- MODULE MCSessions -----------------------------
(* Two settings of the same model.  "Slots": three viewers contend for two *)
(* slots with one message each, so that slots are reused.  "Messages": two *)
(* viewers contend for one slot and send two messages each, which arrive   *)
(* apart or glued together.  cmd:shutdown is in MCNTVService.              *)
EXTENDS Sessions, TLC

CONSTANTS k1, k2, sd, hd, p, q

Login(k) == [type |-> "login", arg |-> k]
StopCmd == [type |-> "cmd", arg |-> "stop"]
UpKey == [type |-> "key", arg |-> "up"]
Noise == [type |-> "other", arg |-> "noise"]
Setup(quality, key) == [quality |-> quality, key |-> key, shutdown |-> FALSE]

SlotsViewerMessages == {Login(k1), UpKey, Noise}
SlotsLocalMessages == {Setup(hd, k1)}
SlotsBatches == {<<p>>}

MessagesViewerMessages == {Login(k1), StopCmd}
MessagesLocalMessages == {Setup(hd, k1), Setup(Nothing, NoKey)}
MessagesBatches == {<<p, q>>}

MCViewerSymmetry == Permutations(Viewers)

=============================================================================
