------------------------------ MODULE Audience ------------------------------
(***************************************************************************)
(* What the TCP side of the daemon promises the people who watch: at most  *)
(* max_user of them are served at a time, nobody is turned away while      *)
(* there is room, and every packet of the stream goes to everybody whose   *)
(* login has been granted, and to nobody else, in the order of the stream. *)
(***************************************************************************)
EXTENDS Naturals, Sequences, FiniteSets

CONSTANTS Viewers, max_user, Qualities, Batches

VARIABLES stage,        \* "out", "guest", "viewer" or "left", for each viewer
          seen          \* the header and the packets each of them was sent

audienceVars == <<stage, seen>>

Inside == {v \in Viewers : stage[v] \in {"guest", "viewer"}}

Init == /\ stage = [v \in Viewers |-> "out"]
        /\ seen = [v \in Viewers |-> << >>]

Admit(v) == /\ stage[v] = "out"
            /\ Cardinality(Inside) < max_user
            /\ stage' = [stage EXCEPT ![v] = "guest"]
            /\ UNCHANGED seen

TurnAway(v) == /\ stage[v] = "out"
               /\ Cardinality(Inside) = max_user
               /\ stage' = [stage EXCEPT ![v] = "left"]
               /\ UNCHANGED seen

\* A login opens with the header of one of the three qualities.
Grant(v) == /\ stage[v] = "guest"
            /\ stage' = [stage EXCEPT ![v] = "viewer"]
            /\ \E q \in Qualities : seen' = [seen EXCEPT ![v] = <<q>>]

Leave(v) == /\ v \in Inside
            /\ stage' = [stage EXCEPT ![v] = "left"]
            /\ UNCHANGED seen

Show(packets) == /\ seen' = [v \in Viewers |-> IF stage[v] = "viewer"
                                               THEN seen[v] \o packets
                                               ELSE seen[v]]
                 /\ UNCHANGED stage

Next == \/ \E v \in Viewers : Admit(v) \/ TurnAway(v) \/ Grant(v) \/ Leave(v)
        \/ \E packets \in Batches : Show(packets)

Spec == Init /\ [][Next]_audienceVars

=============================================================================
