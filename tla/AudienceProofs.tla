--------------------------- MODULE AudienceProofs ---------------------------
(***************************************************************************)
(* What the audience gets: Sessions implements Audience, and every viewer  *)
(* is sent the stream without a gap.                                       *)
(***************************************************************************)
EXTENDS SessionsProofs, FiniteSetTheorems, SequenceTheorems

(***************************************************************************)
(* Sessions implements Audience.  Two facts are added to the invariant of  *)
(* SessionsProofs: those who wait for their login have been sent nothing,  *)
(* and the viewers inside are as many as the slots in use.                 *)
(***************************************************************************)

(* Before its login is granted a connection is sent nothing. *)
Unserved == \A c \in Conns : since[c] = 0 => out[c] = << >>

(* Nothing is sent to connections without a grant.                         *)
LEMMA UnservedStep == IInv /\ Unserved /\ [Next]_vars => Unserved'
<1> SUFFICES ASSUME IInv, Unserved, [Next]_vars PROVE Unserved'
  OBVIOUS
<1>0. /\ Table /\ Rest /\ DOMAIN out = Conns /\ since \in [Conns -> Nat]
      /\ Len(fanned) \in Nat
  BY DEF IInv, Table, TableType, Rest
<1>1. CASE UNCHANGED <<out, since>>
  BY <1>1 DEF Unserved
<1>2. ASSUME NEW c \in Conns, bev[c] = "user", Grant(ptr[c]), UNCHANGED <<bev, ptr>>
      PROVE  Unserved'
  <2>1. /\ since' = [since EXCEPT ![c] = Len(fanned) + 1]
        /\ out' = [out EXCEPT ![c] = Append(@, tsheader)]
    BY <1>0, <1>2, GrantKeeps
  <2>2. since'[c] # 0 /\ \A d \in Conns : d # c => since'[d] = since[d] /\ out'[d] = out[d]
    BY <1>0, <2>1
  <2>3. QED
    BY <2>2 DEF Unserved
<1>3. ASSUME NEW packets, FanOut(packets) PROVE Unserved'
  <2> SUFFICES ASSUME NEW c \in Conns, since[c] = 0
               PROVE  out'[c] = << >>
    BY <1>3 DEF Unserved, FanOut
  <2>1. ~ \E x \in Slots : Watching(x) /\ user_array[x].bev = c
    BY <1>0 DEF Watching, Table, LoginEarned
  <2>2. QED
    BY <1>3, <2>1 DEF FanOut, Unserved
<1>4. \/ UNCHANGED <<out, since>>
      \/ \E c \in Conns : bev[c] = "user" /\ Grant(ptr[c]) /\ UNCHANGED <<bev, ptr>>
      \/ \E packets : FanOut(packets)
  BY DEF Next, vars, streamVars, Connect, Send, End, listener_cb, Callback,
         conn_eventcb, conn_readcb, conn_readcb_login, conn_readcb_key,
         conn_readcb_cmd, conn_readcb_other, conn_localhostcb, ReadsHead
<1>5. QED
  BY <1>1, <1>2, <1>3, <1>4

(***************************************************************************)
(* The mapping.                                                            *)
(***************************************************************************)

Stages == [v \in Viewers |-> StageOf(v)]
Seen == [v \in Viewers |-> out[v]]
Inside == {v \in Viewers : Stages[v] \in {"guest", "viewer"}}

(* Those inside are the viewers that hold a slot.                          *)
LEMMA InsideHolds == Table => Inside = {v \in Viewers : bev[v] = "user"}
<1> SUFFICES ASSUME Table, NEW v \in Viewers
             PROVE  StageOf(v) \in {"guest", "viewer"} <=> bev[v] = "user"
  BY DEF Inside, Stages
<1>1. bev[v] \in {"none", "syn", "user", "local", "freed"} /\ bev[v] # "local"
  BY ConnsAssumption DEF Table, TableType, LocalsAre, Conns
<1>2. QED
  BY <1>1 DEF StageOf

(* There is room for somebody exactly when a slot is free.                 *)
LEMMA RoomIsASlot ==
  ASSUME Table
  PROVE  /\ (\E x \in Slots : ~InUse(x)) => Cardinality(Inside) < max_user
         /\ (\A x \in Slots : InUse(x)) => Cardinality(Inside) = max_user
<1> DEFINE f == [v \in Inside |-> ptr[v]]
<1>0. /\ max_user \in Nat /\ IsFiniteSet(Slots) /\ Cardinality(Slots) = max_user
  BY SlotsAssumption, FS_Interval DEF Slots
<1>1. \A v \in Inside : /\ ptr[v] \in Slots /\ InUse(ptr[v])
                        /\ user_array[ptr[v]].bev = v
  BY InsideHolds DEF Table, ViewersHeld, Conns
<1>2. \A x \in Slots : InUse(x) => user_array[x].bev \in Inside
                                   /\ ptr[user_array[x].bev] = x
  BY InsideHolds DEF Table, SlotsHold
<1>3. f \in Injection(Inside, Slots)
  BY <1>1 DEF Injection, IsInjective
<1>4. /\ IsFiniteSet(Inside) /\ Cardinality(Inside) <= Cardinality(Slots)
      /\ Cardinality(Inside) = Cardinality(Slots) <=> f \in Surjection(Inside, Slots)
  BY <1>0, <1>3, FS_Injection, Zenon
<1>5. Cardinality(Inside) \in Nat
  BY <1>4, FS_CardinalityType
<1>6. ASSUME NEW x \in Slots, ~InUse(x) PROVE f \notin Surjection(Inside, Slots)
  BY <1>1, <1>6 DEF Surjection
<1>7. ASSUME \A x \in Slots : InUse(x) PROVE f \in Surjection(Inside, Slots)
  BY <1>1, <1>2, <1>7 DEF Surjection
<1> HIDE DEF f
<1>8. QED
  BY <1>0, <1>4, <1>5, <1>6, <1>7

(* The daemon before its first connection is a hall before the first guest.*)
LEMMA InitIsEmptyHall == Init => People!Init
<1> SUFFICES ASSUME Init PROVE People!Init
  OBVIOUS
<1>1. \A v \in Viewers : StageOf(v) = "out" /\ out[v] = << >>
  BY DEF Init, StageOf, Conns
<1>2. QED
  BY <1>1 DEF People!Init

(***************************************************************************)
(* The steps.                                                              *)
(***************************************************************************)

(* Both modules count in the same way.                                     *)
LEMMA SameCount == People!Cardinality(People!Inside) = Cardinality(Inside)
<1>1. People!Inside = Inside
  BY DEF People!Inside, Inside, Stages
<1>2. \A S : People!Cardinality(S) = Cardinality(S)
  BY DEF People!Cardinality, Cardinality
<1>3. QED
  BY <1>1, <1>2

(* A step that changes neither connections nor what they were sent is a    *)
(* stutter for the audience.                                               *)
LEMMA StutterSeen ==
  ASSUME UNCHANGED <<since, out>>,
         \A v \in Viewers : bev'[v] = bev[v] \/ (bev[v] = "none" /\ bev'[v] = "syn")
  PROVE  UNCHANGED People!audienceVars
<1>1. \A v \in Viewers : StageOf(v)' = StageOf(v) /\ out'[v] = out[v]
  BY DEF StageOf
<1>2. QED
  BY <1>1 DEF People!audienceVars

(* One viewer moves to another stage, the others stay where they are.      *)
LEMMA StageMoves ==
  ASSUME NEW v \in Viewers, NEW s, StageOf(v)' = s,
         \A w \in Viewers : w # v => StageOf(w)' = StageOf(w)
  PROVE  Stages' = [Stages EXCEPT ![v] = s]
BY DEF Stages

(* The listener admits a viewer or, when all slots are taken, turns it away.*)
LEMMA DoorStep ==
  ASSUME Table, NEW c \in Conns, listener_cb(c)
  PROVE  \/ UNCHANGED People!audienceVars
         \/ \E v \in Viewers : People!Admit(v) \/ People!TurnAway(v)
<1>0. /\ bev[c] = "syn" /\ since[c] = 0 /\ UNCHANGED <<since, out>>
      /\ bev \in [Conns -> {"none", "syn", "user", "local", "freed"}]
      /\ Viewers \subseteq Conns
  BY DEF listener_cb, Accepted, streamVars, Table, TableType, NotYet, Conns
<1>1. CASE c \in Locals /\ bev' = [bev EXCEPT ![c] = "local"]
  <2>1. \A v \in Viewers : bev'[v] = bev[v]
    BY <1>0, <1>1, ConnsAssumption
  <2>2. QED
    BY <1>0, <2>1, StutterSeen
<1>2. ASSUME c \in Viewers, NEW s \in {"user", "freed"}, bev' = [bev EXCEPT ![c] = s]
      PROVE  /\ Stages[c] = "out" /\ UNCHANGED Seen
             /\ Stages' = [Stages EXCEPT ![c] = IF s = "user" THEN "guest" ELSE "left"]
  <2>1. bev'[c] = s /\ \A w \in Viewers : w # c => bev'[w] = bev[w]
    BY <1>0, <1>2
  <2>2. StageOf(c)' = IF s = "user" THEN "guest" ELSE "left"
    BY <1>0, <1>2, <2>1 DEF StageOf
  <2>3. \A w \in Viewers : w # c => StageOf(w)' = StageOf(w)
    BY <1>0, <2>1 DEF StageOf
  <2>4. Stages[c] = "out"
    BY <1>0, <1>2 DEF Stages, StageOf
  <2>5. QED
    BY <1>0, <1>2, <2>2, <2>3, <2>4, StageMoves DEF Seen
<1>3. CASE c \in Viewers /\ UserConnect(c) /\ bev' = [bev EXCEPT ![c] = "user"]
  <2>1. Cardinality(Inside) < max_user
    BY <1>3, RoomIsASlot DEF UserConnect, FirstFree
  <2>2. /\ Stages[c] = "out" /\ UNCHANGED Seen
        /\ Stages' = [Stages EXCEPT ![c] = "guest"]
    BY <1>2, <1>3
  <2>3. People!Admit(c)
    BY <2>1, <2>2, SameCount DEF People!Admit, Stages, Seen
  <2>4. QED
    BY <1>3, <2>3
<1>4. CASE c \in Viewers /\ Refuse(c)
  <2>1. Cardinality(Inside) = max_user
    BY <1>4, RoomIsASlot DEF Refuse
  <2>2. /\ Stages[c] = "out" /\ UNCHANGED Seen
        /\ Stages' = [Stages EXCEPT ![c] = "left"]
    BY <1>2, <1>4 DEF Refuse
  <2>3. People!TurnAway(c)
    BY <2>1, <2>2, SameCount DEF People!TurnAway, Stages, Seen
  <2>4. QED
    BY <1>4, <2>3
<1>5. QED
  BY <1>1, <1>3, <1>4 DEF listener_cb

(* A connection that is disconnected leaves the hall.                      *)
LEMMA LeaveStep ==
  ASSUME Table, NEW c \in Conns, bev[c] = "user", UserDisconnect(ptr[c]),
         UNCHANGED <<ptr, since, out>>
  PROVE  \E v \in Viewers : People!Leave(v)
<1>0. /\ c \in Viewers /\ bev' = [bev EXCEPT ![c] = "freed"]
      /\ bev \in [Conns -> {"none", "syn", "user", "local", "freed"}]
      /\ Viewers \subseteq Conns
  BY DisconnectKeeps DEF Table, TableType, ViewersHeld, Conns
<1>1. bev'[c] = "freed" /\ \A w \in Viewers : w # c => bev'[w] = bev[w]
  BY <1>0
<1>2. StageOf(c)' = "left" /\ \A w \in Viewers : w # c => StageOf(w)' = StageOf(w)
  BY <1>1 DEF StageOf
<1>3. Stages' = [Stages EXCEPT ![c] = "left"]
  BY <1>0, <1>2, StageMoves
<1>4. c \in Inside
  BY <1>0, InsideHolds
<1>5. People!Leave(c)
  BY <1>3, <1>4 DEF People!Leave, People!Inside, Inside, Stages
<1>6. QED
  BY <1>0, <1>5

(* A login that is granted makes a guest a viewer and opens with a header. *)
LEMMA GrantStep ==
  ASSUME Table, Rest, Unserved, NEW c \in Conns, bev[c] = "user",
         ~LoggedIn(ptr[c]), Grant(ptr[c]), UNCHANGED <<bev, ptr>>
  PROVE  \E v \in Viewers : People!Grant(v)
<1>0. /\ c \in Viewers /\ since[c] = 0 /\ out[c] = << >> /\ tsheader \in Qualities
      /\ Viewers \subseteq Conns /\ DOMAIN out = Conns /\ Len(fanned) \in Nat
  BY DEF Table, ViewersHeld, LoginEarned, Unserved, Rest, Conns
<1>1. /\ since' = [since EXCEPT ![c] = Len(fanned) + 1]
      /\ out' = [out EXCEPT ![c] = Append(@, tsheader)]
      /\ since \in [Conns -> Nat]
  BY GrantKeeps DEF Table, TableType
<1>2. /\ since'[c] # 0 /\ out'[c] = <<tsheader>>
      /\ \A w \in Viewers : w # c => since'[w] = since[w] /\ out'[w] = out[w]
  BY <1>0, <1>1
<1>3. /\ StageOf(c) = "guest" /\ StageOf(c)' = "viewer"
      /\ \A w \in Viewers : w # c => StageOf(w)' = StageOf(w)
  BY <1>0, <1>2 DEF StageOf
<1>4. Stages[c] = "guest" /\ Stages' = [Stages EXCEPT ![c] = "viewer"]
  BY <1>0, <1>3, StageMoves DEF Stages
<1>5. Seen' = [Seen EXCEPT ![c] = <<tsheader>>]
  BY <1>0, <1>2 DEF Seen
<1>6. People!Grant(c)
  BY <1>0, <1>4, <1>5 DEF People!Grant, Stages, Seen
<1>7. QED
  BY <1>0, <1>6

(* The fan-out shows its packets to the viewers and to nobody else.        *)
LEMMA ShowStep ==
  ASSUME Table, NEW packets, FanOut(packets)
  PROVE  People!Show(packets)
<1>1. ASSUME NEW v \in Viewers
      PROVE  (\E x \in Slots : Watching(x) /\ user_array[x].bev = v)
             <=> StageOf(v) = "viewer"
  <2>0. v \in Conns /\ bev[v] \in {"none", "syn", "user", "local", "freed"}
        /\ bev[v] # "local"
    BY ConnsAssumption DEF Table, TableType, LocalsAre, Conns
  <2>1. StageOf(v) = "viewer" <=> bev[v] = "user" /\ since[v] # 0
    BY <2>0 DEF StageOf
  <2>2. ASSUME bev[v] = "user", since[v] # 0
        PROVE  \E x \in Slots : Watching(x) /\ user_array[x].bev = v
    BY <2>0, <2>2 DEF Table, ViewersHeld, LoginEarned, Watching
  <2>3. ASSUME NEW x \in Slots, Watching(x), user_array[x].bev = v
        PROVE  bev[v] = "user" /\ since[v] # 0
    BY <2>3 DEF Table, SlotsHold, LoginEarned, Watching
  <2>4. QED
    BY <2>1, <2>2, <2>3
<1>2. \A v \in Viewers : out'[v] = IF StageOf(v) = "viewer" THEN out[v] \o packets
                                                         ELSE out[v]
  BY <1>1 DEF FanOut, Conns
<1>3. \A v \in Viewers : StageOf(v)' = StageOf(v)
  BY DEF FanOut, tableVars, StageOf
<1>4. Seen' = [v \in Viewers |-> IF Stages[v] = "viewer" THEN Seen[v] \o packets ELSE Seen[v]]
  BY <1>2 DEF Seen, Stages
<1>5. UNCHANGED Stages
  BY <1>3 DEF Stages
<1>6. QED
  BY <1>4, <1>5 DEF People!Show, Seen, Stages

(* Every step of the daemon is a step of its audience or none.             *)
LEMMA AudienceStep == IInv /\ Unserved /\ [Next]_vars => [People!Next]_(People!audienceVars)
<1> SUFFICES ASSUME IInv, Unserved, [Next]_vars
             PROVE  People!Next \/ UNCHANGED People!audienceVars
  OBVIOUS
<1>0. Table /\ Rest
  BY DEF IInv
<1>1. CASE UNCHANGED <<bev, since, out>>
  BY <1>1, StutterSeen
<1>2. ASSUME NEW c \in Conns, Connect(c)
      PROVE  UNCHANGED People!audienceVars
  <2>1. \A v \in Viewers : bev'[v] = bev[v] \/ (bev[v] = "none" /\ bev'[v] = "syn")
    BY <1>0, <1>2 DEF Connect, Table, TableType, Conns
  <2>2. QED
    BY <1>2, <2>1, StutterSeen DEF Connect, streamVars
<1>3. ASSUME NEW c \in Conns, listener_cb(c)
      PROVE  People!Next \/ UNCHANGED People!audienceVars
  BY <1>0, <1>3, DoorStep DEF People!Next
<1>4. ASSUME NEW c \in Conns, bev[c] = "user", UserDisconnect(ptr[c]),
             UNCHANGED <<ptr, since, out>>
      PROVE  People!Next
  BY <1>0, <1>4, LeaveStep DEF People!Next
<1>5. ASSUME NEW c \in Conns, bev[c] = "user", ~LoggedIn(ptr[c]), Grant(ptr[c]),
             UNCHANGED <<bev, ptr>>
      PROVE  People!Next
  BY <1>0, <1>5, GrantStep DEF People!Next
<1>6. ASSUME NEW packets \in Batches, FanOut(packets)
      PROVE  People!Next
  BY <1>0, <1>6, ShowStep DEF People!Next
<1>7. \/ UNCHANGED <<bev, since, out>>
      \/ \E c \in Conns : \/ Connect(c) \/ listener_cb(c)
                          \/ /\ bev[c] = "user" /\ UserDisconnect(ptr[c])
                             /\ UNCHANGED <<ptr, since, out>>
                          \/ /\ bev[c] = "user" /\ ~LoggedIn(ptr[c])
                             /\ Grant(ptr[c]) /\ UNCHANGED <<bev, ptr>>
      \/ \E packets \in Batches : FanOut(packets)
  BY DEF Next, vars, tableVars, streamVars, Send, End, Callback,
         conn_eventcb, conn_readcb, conn_readcb_login, conn_readcb_key,
         conn_readcb_cmd, conn_readcb_other, conn_localhostcb, ReadsHead
<1>8. QED
  BY <1>1, <1>2, <1>3, <1>4, <1>5, <1>6, <1>7

(***************************************************************************)
(* The theorem.                                                            *)
(***************************************************************************)

(* The daemon serves its audience as Audience promises, for any number of  *)
(* viewers and slots: callbacks, slots and keys refine the abstract steps. *)
THEOREM ImplementsAudience == Spec => ServesAudience
<1>1. Init => Unserved
  BY DEF Init, Unserved
<1>2. Spec => []Unserved
  BY Inductive, <1>1, UnservedStep, PTL DEF Spec
<1>3. QED
  BY Inductive, <1>2, InitIsEmptyHall, AudienceStep, PTL
     DEF Spec, ServesAudience, People!Spec

(***************************************************************************)
(* Every viewer is sent the stream without a gap.                          *)
(***************************************************************************)

(* The part of the stream that a connection has been sent ends at packet   *)
(* n: the last one taken from the queue for as long as it is connected.    *)
Streamed(c) ==
  IF since[c] = 0
  THEN out[c] = << >>
  ELSE /\ since[c] \in 1 .. Len(fanned) + 1
       /\ \E q \in Qualities, n \in (since[c] - 1) .. Len(fanned) :
            /\ out[c] = <<q>> \o SubSeq(fanned, since[c], n)
            /\ bev[c] = "user" => n = Len(fanned)

StreamInv == \A c \in Conns : Streamed(c)

(* A stretch of a sequence stays what it is when the sequence grows, and   *)
(* the stretch to its end grows with it.                                   *)
LEMMA StretchGrows ==
  ASSUME NEW T, NEW s \in Seq(T), NEW t \in Seq(T),
         NEW m \in 1 .. Len(s) + 1, NEW n \in (m - 1) .. Len(s)
  PROVE  /\ SubSeq(s \o t, m, n) = SubSeq(s, m, n)
         /\ SubSeq(s, m, Len(s)) \o t = SubSeq(s \o t, m, Len(s \o t))
<1>0. /\ s \o t \in Seq(T) /\ Len(s \o t) = Len(s) + Len(t)
      /\ Len(s) \in Nat /\ Len(t) \in Nat /\ m \in Int /\ n \in Int
  BY ConcatProperties
<1>1. ASSUME NEW k \in (m - 1) .. Len(s)
      PROVE  SubSeq(s \o t, m, k) = SubSeq(s, m, k)
  <2>1. CASE k < m
    BY <1>0, <2>1, SubSeqEmpty
  <2>2. CASE m <= k
    BY <1>0, <2>2, SubSeqOfConcat1
  <2>3. QED
    BY <1>0, <2>1, <2>2
<1>2. SubSeq(s \o t, Len(s) + 1, Len(s \o t)) = t
  <2>1. CASE t = << >>
    BY <1>0, <2>1, SubSeqEmpty
  <2>2. CASE t # << >>
    <3>1. Len(t) > 0
      BY <2>2, EmptySeq
    <3>2. SubSeq(s \o t, Len(s) + 1, Len(s) + Len(t)) = SubSeq(t, 1, Len(t))
      <4> DEFINE a == Len(s) + 1
                 b == Len(s) + Len(t)
      <4>1. /\ a \in Len(s)+1 .. Len(s)+Len(t) /\ b \in Len(s)+1 .. Len(s)+Len(t)
            /\ a - Len(s) = 1 /\ b - Len(s) = Len(t)
        BY <1>0, <3>1
      <4> HIDE DEF a, b
      <4>2. SubSeq(s \o t, a, b) = SubSeq(t, a - Len(s), b - Len(s))
        BY <4>1, SubSeqOfConcat2
      <4>3. QED
        BY <4>1, <4>2 DEF a, b
    <3>3. QED
      BY <1>0, <3>2, SubSeqFull
  <2>3. QED
    BY <2>1, <2>2
<1>3. SubSeq(s \o t, m, Len(s)) \o SubSeq(s \o t, Len(s) + 1, Len(s \o t))
        = SubSeq(s \o t, m, Len(s \o t))
  <2>1. /\ m \in 1 .. Len(s \o t) + 1 /\ Len(s) \in m - 1 .. Len(s \o t)
        /\ Len(s \o t) \in Len(s) .. Len(s \o t)
    BY <1>0
  <2>2. QED
    BY <1>0, <2>1, ConcatAdjacentSubSeq, Zenon
<1>4. SubSeq(s \o t, m, Len(s)) = SubSeq(s, m, Len(s))
  <2>1. Len(s) \in (m - 1) .. Len(s)
    BY <1>0
  <2>2. QED
    BY <1>1, <2>1
<1>5. SubSeq(s, m, Len(s)) \o t = SubSeq(s \o t, m, Len(s \o t))
  BY <1>2, <1>3, <1>4, Zenon
<1>6. SubSeq(s \o t, m, n) = SubSeq(s, m, n)
  BY <1>1
<1>7. QED
  BY <1>5, <1>6

(* Nothing has been sent before the first connection.                      *)
LEMMA InitStream == Init => StreamInv
BY DEF Init, StreamInv, Streamed

(* A connection that the step leaves alone, or only frees, keeps its part. *)
LEMMA StreamKept ==
  ASSUME NEW c \in Conns, Streamed(c), since'[c] = since[c], out'[c] = out[c],
         UNCHANGED fanned, bev'[c] = "user" => bev[c] = "user" \/ since[c] = 0
  PROVE  Streamed(c)'
BY DEF Streamed

(* A grant starts the part of a connection with a header.                  *)
LEMMA StreamStarts ==
  ASSUME Table, Rest, StreamInv, NEW c \in Conns, bev[c] = "user",
         ~LoggedIn(ptr[c]), Grant(ptr[c]), UNCHANGED <<bev, ptr, fanned>>
  PROVE  StreamInv'
<1>0. /\ since[c] = 0 /\ out[c] = << >> /\ tsheader \in Qualities
      /\ DOMAIN out = Conns /\ fanned \in Seq(AnyPacket) /\ Len(fanned) \in Nat
      /\ since \in [Conns -> Nat]
  <2>1. since[c] = 0
    BY DEF Table, ViewersHeld, LoginEarned
  <2>2. out[c] = << >>
    BY <2>1 DEF StreamInv, Streamed
  <2>3. /\ tsheader \in Qualities /\ DOMAIN out = Conns
        /\ fanned \in Seq(AnyPacket) /\ Len(fanned) \in Nat
    BY DEF Rest
  <2>4. QED
    BY <2>1, <2>2, <2>3 DEF Table, TableType
<1>1. /\ since' = [since EXCEPT ![c] = Len(fanned) + 1]
      /\ out' = [out EXCEPT ![c] = Append(@, tsheader)]
  BY GrantKeeps
<1>2. Streamed(c)'
  <2>1. since'[c] = Len(fanned) + 1 /\ out'[c] = <<tsheader>>
    BY <1>0, <1>1
  <2>2. SubSeq(fanned, Len(fanned) + 1, Len(fanned)) = << >>
    BY <1>0, SubSeqEmpty
  <2>3. out'[c] = <<tsheader>> \o SubSeq(fanned, since'[c], Len(fanned))
    BY <2>1, <2>2
  <2>4. /\ since'[c] # 0 /\ since'[c] \in 1 .. Len(fanned) + 1
        /\ Len(fanned) \in (since'[c] - 1) .. Len(fanned)
    BY <1>0, <2>1
  <2>5. QED
    BY <1>0, <2>3, <2>4 DEF Streamed
<1>3. ASSUME NEW d \in Conns, d # c PROVE Streamed(d)'
  BY <1>0, <1>1, <1>3, StreamKept DEF StreamInv
<1>4. QED
  BY <1>2, <1>3 DEF StreamInv

(* A stretch of a sequence: its type, its length and what it reads.        *)
LEMMA StretchReads ==
  ASSUME NEW S, NEW s \in Seq(S), NEW m \in 1 .. Len(s) + 1, NEW n \in (m - 1) .. Len(s)
  PROVE  /\ SubSeq(s, m, n) \in Seq(S)
         /\ Len(SubSeq(s, m, n)) = n - m + 1
         /\ \A i \in 1 .. n - m + 1 : SubSeq(s, m, n)[i] = s[m + i - 1]
<1>1. /\ Len(s) \in Nat /\ m \in Int /\ n \in Int
      /\ \A i \in m .. n : i \in 1 .. Len(s)
  OBVIOUS
<1>2. \A i \in m .. n : s[i] \in S
  BY <1>1
<1>3. /\ SubSeq(s, m, n) \in Seq(S)
      /\ Len(SubSeq(s, m, n)) = IF m <= n THEN n - m + 1 ELSE 0
      /\ \A i \in 1 .. n - m + 1 : SubSeq(s, m, n)[i] = s[m + i - 1]
  BY <1>1, <1>2, SubSeqProperties
<1>4. (IF m <= n THEN n - m + 1 ELSE 0) = n - m + 1
  BY <1>1
<1>5. QED
  BY <1>3, <1>4

(* The fan-out adds its packets to the part of whoever is connected.       *)
LEMMA StreamGrows ==
  ASSUME Table, Rest, StreamInv, NEW packets \in Batches, FanOut(packets)
  PROVE  StreamInv'
<1>0. /\ fanned \in Seq(AnyPacket) /\ packets \in Seq(AnyPacket)
      /\ fanned' = fanned \o packets /\ UNCHANGED <<since, bev>>
  <2>1. packets \in Seq(Range(packets)) /\ Range(packets) \subseteq AnyPacket
    BY BatchesAssumption DEF AnyPacket
  <2>2. packets \in Seq(AnyPacket)
    BY <2>1
  <2>3. QED
    BY <2>2 DEF FanOut, tableVars, Rest
<1>1. /\ Len(fanned) \in Nat /\ Len(packets) \in Nat
      /\ Len(fanned') = Len(fanned) + Len(packets)
  BY <1>0
<1> SUFFICES ASSUME NEW c \in Conns PROVE Streamed(c)'
  BY DEF StreamInv
<1>2. Streamed(c) /\ since[c] \in Nat
  BY DEF StreamInv, Table, TableType
<1>3. out'[c] = IF bev[c] = "user" /\ since[c] # 0 THEN out[c] \o packets ELSE out[c]
  <2>1. (\E x \in Slots : Watching(x) /\ user_array[x].bev = c)
        <=> bev[c] = "user" /\ since[c] # 0
    BY DEF Table, SlotsHold, ViewersHeld, LoginEarned, Watching
  <2>2. QED
    BY <2>1 DEF FanOut
<1>4. CASE since[c] = 0
  BY <1>0, <1>2, <1>3, <1>4 DEF Streamed
<1>5. CASE since[c] # 0
  <2>1. PICK q \in Qualities, n \in (since[c] - 1) .. Len(fanned) :
           /\ since[c] \in 1 .. Len(fanned) + 1
           /\ out[c] = <<q>> \o SubSeq(fanned, since[c], n)
           /\ bev[c] = "user" => n = Len(fanned)
    BY <1>2, <1>5 DEF Streamed
  <2>2. /\ SubSeq(fanned', since[c], n) = SubSeq(fanned, since[c], n)
        /\ SubSeq(fanned, since[c], Len(fanned)) \o packets
             = SubSeq(fanned', since[c], Len(fanned'))
    BY <1>0, <2>1, StretchGrows
  <2>3. CASE bev[c] = "user"
    <3> DEFINE part == SubSeq(fanned, since[c], Len(fanned))
    <3>1. out[c] = <<q>> \o part
      BY <2>1, <2>3
    <3>2. part \in Seq(AnyPacket)
      <4>1. Len(fanned) \in (since[c] - 1) .. Len(fanned)
        BY <1>1, <1>2, <2>1
      <4>2. QED
        BY <1>0, <2>1, <4>1, StretchReads, Zenon
    <3> HIDE DEF part
    <3>3. (<<q>> \o part) \o packets = <<q>> \o (part \o packets)
      BY <1>0, <3>2
    <3>4. out'[c] = <<q>> \o SubSeq(fanned', since[c], Len(fanned'))
      BY <1>3, <1>5, <2>2, <2>3, <3>1, <3>3 DEF part
    <3>5. /\ since'[c] \in 1 .. Len(fanned') + 1
          /\ Len(fanned') \in (since'[c] - 1) .. Len(fanned')
      BY <1>0, <1>1, <1>2, <2>1
    <3>6. QED
      BY <1>0, <1>5, <3>4, <3>5 DEF Streamed
  <2>4. CASE bev[c] # "user"
    <3>1. out'[c] = <<q>> \o SubSeq(fanned', since'[c], n)
      BY <1>0, <1>3, <2>1, <2>2, <2>4
    <3>2. since'[c] \in 1 .. Len(fanned') + 1 /\ n \in (since'[c] - 1) .. Len(fanned')
      <4>1. since'[c] = since[c]
        BY <1>0
      <4>2. /\ since[c] \in 1 .. Len(fanned') + 1
            /\ n \in (since[c] - 1) .. Len(fanned')
        <5>1. since[c] \in 1 .. Len(fanned) + 1 /\ n \in (since[c] - 1) .. Len(fanned)
          BY <2>1
        <5>2. QED
          BY <1>1, <1>2, <5>1
      <4>3. QED
        BY <4>1, <4>2, Zenon
    <3>3. bev'[c] # "user" /\ since'[c] # 0
      BY <1>0, <1>5, <2>4
    <3>4. QED
      BY <3>1, <3>2, <3>3, Zenon DEF Streamed
  <2>5. QED
    BY <2>3, <2>4
<1>6. QED
  BY <1>4, <1>5

(* Every step keeps everybody's part of the stream.                        *)
LEMMA StreamStep == IInv /\ StreamInv /\ [Next]_vars => StreamInv'
<1> SUFFICES ASSUME IInv, StreamInv, [Next]_vars PROVE StreamInv'
  OBVIOUS
<1>0. Table /\ Rest
  BY DEF IInv
<1>1. ASSUME UNCHANGED streamVars,
             \A c \in Conns : bev'[c] = "user" => bev[c] = "user" \/ since[c] = 0
      PROVE  StreamInv'
  BY <1>1, StreamKept DEF StreamInv, streamVars
<1>2. ASSUME NEW c \in Conns, NEW s \in {"syn", "user", "local", "freed"},
             bev[c] \in {"none", "syn"}, bev' = [bev EXCEPT ![c] = s]
      PROVE  \A d \in Conns : bev'[d] = "user" => bev[d] = "user" \/ since[d] = 0
  BY <1>0, <1>2 DEF Table, TableType, NotYet
<1>3. ASSUME NEW c \in Conns, Connect(c) \/ listener_cb(c) PROVE StreamInv'
  <2>1. /\ bev[c] \in {"none", "syn"} /\ UNCHANGED streamVars
        /\ \E s \in {"syn", "user", "local", "freed"} : bev' = [bev EXCEPT ![c] = s]
    BY <1>3 DEF Connect, listener_cb, Accepted, Refuse
  <2>2. QED
    BY <1>1, <1>2, <2>1
<1>4. ASSUME NEW c \in Conns, bev[c] = "user", UserDisconnect(ptr[c]),
             UNCHANGED <<ptr, streamVars>>
      PROVE  StreamInv'
  <2>1. bev' = [bev EXCEPT ![c] = "freed"]
    BY <1>0, <1>4, DisconnectKeeps DEF streamVars
  <2>2. \A d \in Conns : bev'[d] = "user" => bev[d] = "user"
    BY <1>0, <2>1 DEF Table, TableType
  <2>3. QED
    BY <1>1, <1>4, <2>2
<1>5. ASSUME NEW c \in Conns, bev[c] = "user", ~LoggedIn(ptr[c]), Grant(ptr[c]),
             UNCHANGED <<bev, ptr, fanned>>
      PROVE  StreamInv'
  BY <1>0, <1>5, StreamStarts
<1>6. ASSUME NEW packets \in Batches, FanOut(packets) PROVE StreamInv'
  BY <1>0, <1>6, StreamGrows
<1>7. CASE UNCHANGED <<bev, streamVars>>
  BY <1>1, <1>7
<1>8. \/ UNCHANGED <<bev, streamVars>>
      \/ \E c \in Conns : \/ Connect(c) \/ listener_cb(c)
                          \/ /\ bev[c] = "user" /\ UserDisconnect(ptr[c])
                             /\ UNCHANGED <<ptr, streamVars>>
                          \/ /\ bev[c] = "user" /\ ~LoggedIn(ptr[c])
                             /\ Grant(ptr[c]) /\ UNCHANGED <<bev, ptr, fanned>>
      \/ \E packets \in Batches : FanOut(packets)
  BY DEF Next, vars, tableVars, Send, End, Callback,
         conn_eventcb, conn_readcb, conn_readcb_login, conn_readcb_key,
         conn_readcb_cmd, conn_readcb_other, conn_localhostcb, ReadsHead
<1>9. QED
  BY <1>3, <1>4, <1>5, <1>6, <1>7, <1>8

(* A connection's part of the stream is the stretch of it that the         *)
(* property speaks of.                                                     *)
LEMMA StreamedIsViewed == IInv /\ StreamInv => ViewerStream
<1> SUFFICES ASSUME IInv, StreamInv, NEW c \in Conns, since[c] # 0
             PROVE  /\ out[c] # << >> /\ Head(out[c]) \in Qualities
                    /\ IsPrefix(Tail(out[c]), SubSeq(fanned, since[c], Len(fanned)))
                    /\ bev[c] = "user" => Tail(out[c]) = SubSeq(fanned, since[c], Len(fanned))
  BY DEF ViewerStream, StreamInv, Streamed
<1>0. fanned \in Seq(AnyPacket) /\ Len(fanned) \in Nat
  BY DEF IInv, Rest
<1>1. PICK q \in Qualities, n \in (since[c] - 1) .. Len(fanned) :
         /\ since[c] \in 1 .. Len(fanned) + 1
         /\ out[c] = <<q>> \o SubSeq(fanned, since[c], n)
         /\ bev[c] = "user" => n = Len(fanned)
  BY DEF StreamInv, Streamed
<1> DEFINE part == SubSeq(fanned, since[c], n)
           all == SubSeq(fanned, since[c], Len(fanned))
<1>2. /\ part \in Seq(AnyPacket) /\ all \in Seq(AnyPacket)
      /\ Len(part) = n - since[c] + 1 /\ Len(all) = Len(fanned) - since[c] + 1
      /\ \A i \in 1 .. Len(part) : part[i] = all[i]
  <2>1. /\ since[c] \in 1 .. Len(fanned) + 1 /\ n \in (since[c] - 1) .. Len(fanned)
        /\ Len(fanned) \in (since[c] - 1) .. Len(fanned)
    BY <1>0, <1>1
  <2>2. /\ part \in Seq(AnyPacket) /\ Len(part) = n - since[c] + 1
        /\ \A i \in 1 .. n - since[c] + 1 : part[i] = fanned[since[c] + i - 1]
    BY <1>0, <2>1, StretchReads, Zenon
  <2>3. /\ all \in Seq(AnyPacket) /\ Len(all) = Len(fanned) - since[c] + 1
        /\ \A i \in 1 .. Len(fanned) - since[c] + 1 : all[i] = fanned[since[c] + i - 1]
    BY <1>0, <2>1, StretchReads, Zenon
  <2> HIDE DEF part, all
  <2>4. 1 .. n - since[c] + 1 \subseteq 1 .. Len(fanned) - since[c] + 1
    BY <1>0, <2>1
  <2>5. \A i \in 1 .. Len(part) : part[i] = all[i]
    BY <2>2, <2>3, <2>4, Zenon
  <2>6. QED
    BY <2>2, <2>3, <2>5
<1> HIDE DEF part, all
<1>3. out[c] = <<q>> \o part
  BY <1>1 DEF part
<1>4. out[c] # << >> /\ Head(out[c]) = q /\ Tail(out[c]) = part
  BY <1>2, <1>3
<1>5. IsPrefix(part, all)
  <2>1. SubSeq(part, 1, Len(part)) = SubSeq(all, 1, Len(part))
    BY <1>2
  <2>2. Len(part) <= Len(all)
    BY <1>0, <1>1, <1>2
  <2>3. QED
    BY <2>1, <2>2 DEF IsPrefix
<1>6. bev[c] = "user" => part = all
  BY <1>1 DEF part, all
<1>7. QED
  BY <1>4, <1>5, <1>6 DEF all

(* Every connection has its part of the stream in every state.             *)
LEMMA StreamInductive == Spec => []StreamInv
BY Inductive, InitStream, StreamStep, PTL DEF Spec

(* Whoever logs in is sent one header and then every packet of the stream, *)
(* in order and without a gap, until it is freed; nobody else is sent      *)
(* anything.                                                               *)
THEOREM StreamWithoutGaps == Spec => []ViewerStream
BY Inductive, StreamInductive, StreamedIsViewed, PTL

=============================================================================
