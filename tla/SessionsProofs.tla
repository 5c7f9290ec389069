--------------------------- MODULE SessionsProofs ---------------------------
(***************************************************************************)
(* Proofs about the table of users and the connections of Sessions.  The   *)
(* invariant is inductive on the table alone (Table); what the messages    *)
(* and the histories add (Rest) is preserved given it.                     *)
(***************************************************************************)
EXTENDS Sessions, TLAPS

SlotType == [uses : {0, 1}, login : {0, 1}, bev : Viewers \cup {Nothing}]

TableType ==
  /\ user_array \in [Slots -> SlotType]
  /\ bev \in [Conns -> {"none", "syn", "user", "local", "freed"}]
  /\ ptr \in [Conns -> Slots \cup {Nothing}]
  /\ since \in [Conns -> Nat]

(* A slot in use holds a live viewer whose callbacks carry that slot. *)
SlotsHold == \A x \in Slots : InUse(x) => /\ user_array[x].bev \in Viewers
                                          /\ bev[user_array[x].bev] = "user"
                                          /\ ptr[user_array[x].bev] = x

(* A live viewer connection carries a slot in use that holds it. *)
ViewersHeld == \A c \in Conns : bev[c] = "user" => /\ c \in Viewers
                                                   /\ ptr[c] \in Slots
                                                   /\ InUse(ptr[c])
                                                   /\ user_array[ptr[c]].bev = c

LocalsAre == \A c \in Conns : bev[c] = "local" => c \in Locals

(* Nobody is granted a login before it has a slot. *)
NotYet == \A c \in Conns : bev[c] \in {"none", "syn"} => since[c] = 0

Table == TableType /\ SlotsHold /\ ViewersHeld /\ LocalsAre /\ NotYet /\ LoginEarned

Asked == [from : Viewers, chunk : Seq(ViewerMessages)]

AnyPacket == UNION {Range(b) : b \in Batches}

Rest ==
  /\ peer \in [Conns -> {"up", "fin", "rst"}]
  /\ inbox \in [Conns -> Seq(ViewerMessages \cup LocalMessages)]
  /\ \A c \in Viewers : inbox[c] \in Seq(ViewerMessages)
  /\ \A c \in Locals : inbox[c] \in Seq(LocalMessages)
  /\ budget \in [Conns -> Nat]
  /\ NTV_Key \in Keys \cup {NoKey, Unset}
  /\ tsheader \in Qualities
  /\ rc \in Seq(Asked)
  /\ \A r \in commands : r.from \in Viewers
  /\ DOMAIN out = Conns
  /\ fanned \in Seq(AnyPacket)

IInv == Table /\ Rest /\ OnlyViewersAsk

(* What a sequence holds after one more element.                           *)
LEMMA AppendHolds ==
  ASSUME NEW T, NEW s \in Seq(T), NEW e \in T
  PROVE  /\ Append(s, e) \in Seq(T)
         /\ \A i \in DOMAIN s : s[i] \in T
         /\ \A i \in DOMAIN Append(s, e) :
               Append(s, e)[i] = e \/ (i \in DOMAIN s /\ Append(s, e)[i] = s[i])
OBVIOUS

(* The elements of a sequence are of its type.                             *)
LEMMA SeqHolds ==
  ASSUME NEW T, NEW s \in Seq(T)
  PROVE  \A i \in DOMAIN s : s[i] \in T
OBVIOUS

(* The table starts empty.                                                 *)
LEMMA InitTable == Init => IInv
<1> SUFFICES ASSUME Init PROVE IInv
  OBVIOUS
<1> USE SlotsAssumption, NothingAssumption
<1>1. Table
  BY DEF Init, Table, TableType, SlotsHold, ViewersHeld, LocalsAre, NotYet,
         LoginEarned, EmptySlot, SlotType, InUse, LoggedIn, Slots
<1>2. Rest
  BY QualitiesAssumption, BoundsAssumption DEF Init, Rest, Conns
<1>3. OnlyViewersAsk
  BY DEF Init, OnlyViewersAsk
<1>4. QED
  BY <1>1, <1>2, <1>3 DEF IInv

(* Steps that leave the table and the grants alone keep Table.             *)
LEMMA TableUntouched ==
  ASSUME Table, UNCHANGED <<user_array, bev, ptr, since>>
  PROVE  Table'
BY DEF Table, TableType, SlotsHold, ViewersHeld, LocalsAre, NotYet, LoginEarned,
       InUse, LoggedIn

(* A connection that holds no slot moves between the stages without one.   *)
LEMMA SlotlessMove ==
  ASSUME Table, NEW c \in Conns, NEW s \in {"syn", "local", "freed"},
         bev[c] \in {"none", "syn"}, s = "local" => c \in Locals,
         bev' = [bev EXCEPT ![c] = s], UNCHANGED <<user_array, ptr, since>>
  PROVE  Table'
<1> USE DEF Table, TableType, SlotType
<1>1. TableType'
  OBVIOUS
<1>2. SlotsHold'
  <2> SUFFICES ASSUME NEW x \in Slots, InUse(x)'
               PROVE  /\ user_array'[x].bev \in Viewers
                      /\ bev'[user_array'[x].bev] = "user"
                      /\ ptr'[user_array'[x].bev] = x
    BY DEF SlotsHold
  <2>1. InUse(x)
    BY DEF InUse
  <2>2. user_array[x].bev \in Viewers /\ bev[user_array[x].bev] = "user"
        /\ ptr[user_array[x].bev] = x
    BY <2>1 DEF SlotsHold
  <2>3. QED
    BY <2>2 DEF Conns
<1>3. ViewersHeld'
  BY DEF ViewersHeld, InUse
<1>4. LocalsAre' /\ NotYet'
  BY DEF LocalsAre, NotYet
<1>5. LoginEarned'
  BY DEF LoginEarned, InUse, LoggedIn
<1>6. QED
  BY <1>1, <1>2, <1>3, <1>4, <1>5

(* A newcomer fills a free slot, whose login is reset.                     *)
LEMMA FillKeeps ==
  ASSUME Table, NEW c \in Viewers, NEW x \in Slots, FirstFree(x),
         bev[c] = "syn",
         user_array' = Fill(x, c), ptr' = [ptr EXCEPT ![c] = x],
         bev' = [bev EXCEPT ![c] = "user"], UNCHANGED since
  PROVE  Table'
<1> USE DEF Table, TableType, SlotType
<1>0. c \in Conns /\ ~InUse(x) /\ since[c] = 0
  BY DEF Conns, FirstFree, NotYet
<1>1. TableType'
  BY <1>0 DEF Fill
<1>2. \A y \in Slots : user_array'[y] = IF y = x THEN [uses |-> 1, login |-> 0, bev |-> c]
                                                 ELSE user_array[y]
  BY DEF Fill
<1>3. \A d \in Conns : /\ bev'[d] = IF d = c THEN "user" ELSE bev[d]
                       /\ ptr'[d] = IF d = c THEN x ELSE ptr[d]
  OBVIOUS
<1>4. SlotsHold'
  <2> SUFFICES ASSUME NEW y \in Slots, InUse(y)'
               PROVE  /\ user_array'[y].bev \in Viewers
                      /\ bev'[user_array'[y].bev] = "user"
                      /\ ptr'[user_array'[y].bev] = y
    BY DEF SlotsHold
  <2>1. CASE y = x
    BY <2>1, <1>0, <1>2, <1>3
  <2>2. CASE y # x
    <3>1. InUse(y)
      BY <2>2, <1>2 DEF InUse
    <3>2. user_array[y].bev \in Viewers /\ bev[user_array[y].bev] = "user"
          /\ ptr[user_array[y].bev] = y
      BY <3>1 DEF SlotsHold
    <3>3. user_array[y].bev # c
      BY <3>2
    <3>4. QED
      BY <2>2, <3>2, <3>3, <1>2, <1>3 DEF Conns
  <2>3. QED
    BY <2>1, <2>2
<1>5. ViewersHeld'
  <2> SUFFICES ASSUME NEW d \in Conns, bev'[d] = "user"
               PROVE  /\ d \in Viewers /\ ptr'[d] \in Slots /\ InUse(ptr[d])'
                      /\ user_array'[ptr'[d]].bev = d
    BY DEF ViewersHeld
  <2>1. CASE d = c
    BY <2>1, <1>0, <1>2, <1>3 DEF InUse
  <2>2. CASE d # c
    <3>1. /\ d \in Viewers /\ ptr[d] \in Slots /\ InUse(ptr[d])
          /\ user_array[ptr[d]].bev = d
      BY <2>2, <1>3 DEF ViewersHeld
    <3>2. ptr[d] # x
      BY <3>1, <1>0
    <3>3. QED
      BY <2>2, <3>1, <3>2, <1>2, <1>3 DEF InUse
  <2>3. QED
    BY <2>1, <2>2
<1>6. LocalsAre' /\ NotYet'
  BY <1>0, <1>3 DEF LocalsAre, NotYet
<1>7. LoginEarned'
  <2> SUFFICES ASSUME NEW y \in Slots, InUse(y)'
               PROVE  LoggedIn(y)' <=> since'[user_array'[y].bev] # 0
    BY DEF LoginEarned
  <2>1. CASE y = x
    BY <2>1, <1>0, <1>2 DEF LoggedIn
  <2>2. CASE y # x
    BY <2>2, <1>2 DEF LoginEarned, InUse, LoggedIn
  <2>3. QED
    BY <2>1, <2>2
<1>8. QED
  BY <1>1, <1>4, <1>5, <1>6, <1>7

(* A viewer's callback that disconnects it frees its slot and itself.      *)
LEMMA DisconnectKeeps ==
  ASSUME Table, NEW c \in Conns, bev[c] = "user",
         UserDisconnect(ptr[c]), UNCHANGED <<ptr, since>>
  PROVE  Table' /\ bev' = [bev EXCEPT ![c] = "freed"]
<1> USE DEF Table, TableType, SlotType
<1> DEFINE x == ptr[c]
<1>0. c \in Viewers /\ x \in Slots /\ InUse(x) /\ user_array[x].bev = c
  BY DEF ViewersHeld
<1>1. /\ user_array' = [user_array EXCEPT ![x].uses = 0]
      /\ bev' = [bev EXCEPT ![c] = "freed"]
  BY <1>0 DEF UserDisconnect
<1> HIDE DEF x
<1>2. TableType'
  BY <1>0, <1>1
<1>3. \A y \in Slots : /\ user_array'[y].bev = user_array[y].bev
                       /\ user_array'[y].login = user_array[y].login
                       /\ user_array'[y].uses = IF y = x THEN 0 ELSE user_array[y].uses
  BY <1>0, <1>1
<1>4. \A d \in Conns : bev'[d] = IF d = c THEN "freed" ELSE bev[d]
  BY <1>1
<1>5. SlotsHold'
  <2> SUFFICES ASSUME NEW y \in Slots, InUse(y)'
               PROVE  /\ user_array'[y].bev \in Viewers
                      /\ bev'[user_array'[y].bev] = "user"
                      /\ ptr'[user_array'[y].bev] = y
    BY DEF SlotsHold
  <2>1. y # x /\ InUse(y)
    BY <1>3 DEF InUse
  <2>2. user_array[y].bev \in Viewers /\ bev[user_array[y].bev] = "user"
        /\ ptr[user_array[y].bev] = y
    BY <2>1 DEF SlotsHold
  <2>3. user_array[y].bev # c
    BY <2>1, <2>2 DEF x
  <2>4. QED
    BY <2>2, <2>3, <1>3, <1>4 DEF Conns
<1>6. ViewersHeld'
  <2> SUFFICES ASSUME NEW d \in Conns, bev'[d] = "user"
               PROVE  /\ d \in Viewers /\ ptr'[d] \in Slots /\ InUse(ptr[d])'
                      /\ user_array'[ptr'[d]].bev = d
    BY DEF ViewersHeld
  <2>1. d # c /\ bev[d] = "user"
    BY <1>4
  <2>2. /\ d \in Viewers /\ ptr[d] \in Slots /\ InUse(ptr[d])
        /\ user_array[ptr[d]].bev = d
    BY <2>1 DEF ViewersHeld
  <2>3. ptr[d] # x
    BY <2>1, <2>2, <1>0
  <2>4. QED
    BY <2>2, <2>3, <1>3 DEF InUse
<1>7. LocalsAre' /\ NotYet'
  BY <1>4 DEF LocalsAre, NotYet
<1>8. LoginEarned'
  BY <1>3 DEF LoginEarned, InUse, LoggedIn
<1>9. QED
  BY <1>1, <1>2, <1>5, <1>6, <1>7, <1>8

(* A grant logs the caller's own slot in, and nobody else's.               *)
LEMMA GrantKeeps ==
  ASSUME Table, Rest, NEW c \in Conns, bev[c] = "user",
         Grant(ptr[c]), UNCHANGED <<bev, ptr>>
  PROVE  /\ Table'
         /\ since' = [since EXCEPT ![c] = Len(fanned) + 1]
         /\ out' = [out EXCEPT ![c] = Append(@, tsheader)]
<1> USE DEF Table, TableType, SlotType
<1> DEFINE x == ptr[c]
<1>0. c \in Viewers /\ x \in Slots /\ InUse(x) /\ user_array[x].bev = c
  BY DEF ViewersHeld
<1>1. /\ user_array' = [user_array EXCEPT ![x].login = 1]
      /\ since' = [since EXCEPT ![c] = Len(fanned) + 1]
      /\ out' = [out EXCEPT ![c] = Append(@, tsheader)]
  BY <1>0 DEF Grant
<1>2. Len(fanned) \in Nat
  BY DEF Rest
<1> HIDE DEF x
<1>3. TableType'
  <2>1. user_array' \in [Slots -> SlotType]
    <3>1. user_array[x] \in SlotType
      BY <1>0
    <3>2. [user_array[x] EXCEPT !.login = 1] \in SlotType
      BY <3>1
    <3>3. QED
      BY <1>0, <1>1, <3>2
  <2>2. since' \in [Conns -> Nat]
    <3> DEFINE n == Len(fanned) + 1
    <3>1. n \in Nat
      BY <1>2
    <3> HIDE DEF n
    <3>2. [since EXCEPT ![c] = n] \in [Conns -> Nat]
      BY <3>1
    <3>3. QED
      BY <1>1, <3>2 DEF n
  <2>3. QED
    BY <2>1, <2>2
<1>4. \A y \in Slots : /\ user_array'[y].bev = user_array[y].bev
                       /\ user_array'[y].uses = user_array[y].uses
                       /\ user_array'[y].login = IF y = x THEN 1 ELSE user_array[y].login
  BY <1>0, <1>1
<1>5. \A d \in Conns : since'[d] = IF d = c THEN Len(fanned) + 1 ELSE since[d]
  BY <1>1
<1>6. SlotsHold' /\ ViewersHeld' /\ LocalsAre'
  <2>1. SlotsHold'
    BY <1>4 DEF SlotsHold, InUse
  <2>2. ASSUME NEW d \in Conns, bev[d] = "user"
        PROVE  /\ d \in Viewers /\ ptr[d] \in Slots /\ InUse(ptr[d])'
               /\ user_array'[ptr[d]].bev = d
    BY <2>2, <1>4 DEF ViewersHeld, InUse
  <2>3. ViewersHeld'
    BY <2>2 DEF ViewersHeld, InUse
  <2>4. QED
    BY <2>1, <2>3 DEF LocalsAre
<1>7. NotYet'
  BY <1>5 DEF NotYet
<1>8. LoginEarned'
  <2> SUFFICES ASSUME NEW y \in Slots, InUse(y)'
               PROVE  LoggedIn(y)' <=> since'[user_array'[y].bev] # 0
    BY DEF LoginEarned
  <2>1. InUse(y) /\ user_array[y].bev \in Viewers /\ ptr[user_array[y].bev] = y
    BY <1>4 DEF InUse, SlotsHold
  <2>2. CASE y = x
    BY <2>2, <1>0, <1>2, <1>4, <1>5 DEF LoggedIn
  <2>3. CASE y # x
    <3>1. user_array[y].bev # c
      BY <2>1, <2>3 DEF x
    <3>2. LoggedIn(y) <=> since[user_array[y].bev] # 0
      BY <2>1 DEF LoginEarned
    <3>3. QED
      BY <2>1, <2>3, <3>1, <3>2, <1>4, <1>5 DEF LoggedIn, Conns
  <2>4. QED
    BY <2>2, <2>3
<1>9. QED
  BY <1>1, <1>3, <1>6, <1>7, <1>8

(***************************************************************************)
(* The steps.                                                              *)
(***************************************************************************)

(* Every step keeps the table.                                             *)
LEMMA TableStep == IInv /\ [Next]_vars => Table'
<1> SUFFICES ASSUME IInv, [Next]_vars PROVE Table'
  OBVIOUS
<1>0. Table /\ Rest
  BY DEF IInv
<1>1. CASE UNCHANGED vars
  BY <1>0, <1>1, TableUntouched DEF vars, tableVars, streamVars
<1>2. ASSUME NEW c \in Conns, Connect(c) PROVE Table'
  BY <1>0, <1>2, SlotlessMove DEF Connect, streamVars
<1>3. ASSUME NEW c \in Conns, NEW m, Send(c, m) PROVE Table'
  BY <1>0, <1>3, TableUntouched DEF Send, tableVars, streamVars
<1>4. ASSUME NEW c \in Conns, NEW how, End(c, how) PROVE Table'
  BY <1>0, <1>4, TableUntouched DEF End, tableVars, streamVars
<1>5. ASSUME NEW c \in Conns, listener_cb(c) PROVE Table'
  <2>0. bev[c] = "syn" /\ UNCHANGED since
    BY <1>5 DEF listener_cb, Accepted, streamVars
  <2>1. CASE c \in Locals /\ bev' = [bev EXCEPT ![c] = "local"]
             /\ UNCHANGED <<user_array, ptr>>
    BY <1>0, <2>0, <2>1, SlotlessMove
  <2>2. CASE c \in Viewers /\ UserConnect(c) /\ bev' = [bev EXCEPT ![c] = "user"]
    <3>1. PICK x \in Slots : /\ FirstFree(x)
                             /\ user_array' = Fill(x, c)
                             /\ ptr' = [ptr EXCEPT ![c] = x]
      BY <2>2 DEF UserConnect
    <3>2. QED
      BY <1>0, <2>0, <2>2, <3>1, FillKeeps
  <2>3. CASE Refuse(c)
    BY <1>0, <2>0, <2>3, SlotlessMove DEF Refuse
  <2>4. QED
    BY <1>5, <2>1, <2>2, <2>3 DEF listener_cb
<1>6. ASSUME NEW c \in Conns, conn_eventcb(c) PROVE Table'
  BY <1>0, <1>6, DisconnectKeeps DEF conn_eventcb, streamVars
<1>7. ASSUME NEW c \in Conns, conn_readcb(c) PROVE Table'
  <2>0. bev[c] = "user" /\ UNCHANGED ptr
    BY <1>7 DEF conn_readcb, conn_readcb_login, conn_readcb_key, conn_readcb_cmd,
                conn_readcb_other, ReadsHead, tableVars
  <2>1. CASE UserDisconnect(ptr[c]) /\ UNCHANGED since
    BY <1>0, <2>0, <2>1, DisconnectKeeps
  <2>2. CASE Grant(ptr[c]) /\ UNCHANGED bev
    BY <1>0, <2>0, <2>2, GrantKeeps
  <2>3. CASE UNCHANGED <<user_array, bev, since>>
    BY <1>0, <2>0, <2>3, TableUntouched
  <2>4. QED
    BY <1>7, <2>1, <2>2, <2>3
       DEF conn_readcb, conn_readcb_login, conn_readcb_key, conn_readcb_cmd,
           conn_readcb_other, tableVars, streamVars
<1>8. ASSUME NEW c \in Conns, conn_localhostcb(c) PROVE Table'
  BY <1>0, <1>8, TableUntouched DEF conn_localhostcb, tableVars, streamVars
<1>9. ASSUME NEW packets, FanOut(packets) PROVE Table'
  BY <1>0, <1>9, TableUntouched DEF FanOut, tableVars
<1>10. QED
  BY <1>1, <1>2, <1>3, <1>4, <1>5, <1>6, <1>7, <1>8, <1>9
     DEF Next, Callback, Conns

(* What waits to be read is of the sender's kind, and stays so.            *)
LEMMA InboxesKeep ==
  ASSUME Rest, NEW c \in Conns,
         \/ UNCHANGED inbox
         \/ inbox' = [inbox EXCEPT ![c] = << >>]
         \/ \E m : /\ inbox' = [inbox EXCEPT ![c] = Append(@, m)]
                  /\ \/ c \in Viewers /\ m \in ViewerMessages
                     \/ c \in Locals /\ m \in LocalMessages
  PROVE  /\ inbox' \in [Conns -> Seq(ViewerMessages \cup LocalMessages)]
         /\ \A d \in Viewers : inbox'[d] \in Seq(ViewerMessages)
         /\ \A d \in Locals : inbox'[d] \in Seq(LocalMessages)
<1> USE ConnsAssumption DEF Rest, Conns
<1>1. CASE UNCHANGED inbox
  BY <1>1
<1>2. CASE inbox' = [inbox EXCEPT ![c] = << >>]
  BY <1>2
<1>3. ASSUME NEW m \in ViewerMessages, c \in Viewers,
             inbox' = [inbox EXCEPT ![c] = Append(@, m)]
      PROVE  /\ inbox' \in [Conns -> Seq(ViewerMessages \cup LocalMessages)]
             /\ \A d \in Viewers : inbox'[d] \in Seq(ViewerMessages)
             /\ \A d \in Locals : inbox'[d] \in Seq(LocalMessages)
  BY <1>3
<1>4. ASSUME NEW m \in LocalMessages, c \in Locals,
             inbox' = [inbox EXCEPT ![c] = Append(@, m)]
      PROVE  /\ inbox' \in [Conns -> Seq(ViewerMessages \cup LocalMessages)]
             /\ \A d \in Viewers : inbox'[d] \in Seq(ViewerMessages)
             /\ \A d \in Locals : inbox'[d] \in Seq(LocalMessages)
  BY <1>4
<1>5. QED
  BY <1>1, <1>2, <1>3, <1>4

(* A run of packets makes the history longer.                              *)
LEMMA FannedGrows ==
  ASSUME Rest, NEW packets \in Batches, fanned' = fanned \o packets
  PROVE  fanned' \in Seq(AnyPacket)
<1>1. packets \in Seq(Range(packets))
  BY BatchesAssumption
<1>2. Range(packets) \subseteq AnyPacket
  BY DEF AnyPacket
<1>3. packets \in Seq(AnyPacket)
  BY <1>1, <1>2
<1>4. QED
  BY <1>3 DEF Rest

(* Every step keeps the types of the rest.                                 *)
LEMMA RestStep == IInv /\ [Next]_vars => Rest'
<1> SUFFICES ASSUME IInv, [Next]_vars PROVE Rest'
  OBVIOUS
<1>0. Table /\ Rest
  BY DEF IInv
<1> DEFINE Inboxes == /\ inbox \in [Conns -> Seq(ViewerMessages \cup LocalMessages)]
                      /\ \A d \in Viewers : inbox[d] \in Seq(ViewerMessages)
                      /\ \A d \in Locals : inbox[d] \in Seq(LocalMessages)
<1>1. CASE UNCHANGED vars
  BY <1>0, <1>1 DEF Rest, vars, networkVars, configVars, effectVars, streamVars
<1>2. ASSUME NEW c \in Conns, Connect(c) PROVE Rest'
  BY <1>0, <1>2 DEF Connect, Rest, networkVars, configVars, effectVars, streamVars
<1>3. ASSUME NEW c \in Conns, NEW m, Send(c, m),
             \/ c \in Viewers /\ m \in ViewerMessages
             \/ c \in Locals /\ m \in LocalMessages
      PROVE  Rest'
  <2>1. Inboxes'
    BY <1>0, <1>3, InboxesKeep DEF Send
  <2>2. budget' \in [Conns -> Nat]
    BY <1>0, <1>3 DEF Send, Rest
  <2>3. QED
    BY <1>0, <1>3, <2>1, <2>2 DEF Send, Rest, configVars, effectVars, streamVars
<1>4. ASSUME NEW c \in Conns, NEW how \in {"fin", "rst"}, End(c, how) PROVE Rest'
  BY <1>0, <1>4 DEF End, Rest, configVars, effectVars, streamVars
<1>5. ASSUME NEW c \in Conns, listener_cb(c) \/ conn_eventcb(c) PROVE Rest'
  BY <1>0, <1>5 DEF listener_cb, conn_eventcb, Rest, networkVars, configVars,
                    effectVars, streamVars
<1>6. ASSUME NEW c \in Conns, conn_readcb(c) PROVE Rest'
  <2>1. /\ bev[c] = "user" /\ c \in Viewers
        /\ inbox' = [inbox EXCEPT ![c] = << >>]
        /\ UNCHANGED <<peer, budget, NTV_Key, tsheader>>
    BY <1>0, <1>6 DEF conn_readcb, conn_readcb_login, conn_readcb_key,
       conn_readcb_cmd, conn_readcb_other, ReadsHead, configVars, Table, ViewersHeld
  <2>2. Inboxes'
    BY <1>0, <2>1, InboxesKeep
  <2>3. UNCHANGED fanned
    BY <1>6 DEF conn_readcb, conn_readcb_login, conn_readcb_key,
       conn_readcb_cmd, conn_readcb_other, streamVars
  <2>4. DOMAIN out' = Conns
    BY <1>0, <1>6 DEF conn_readcb, conn_readcb_login, conn_readcb_key,
       conn_readcb_cmd, conn_readcb_other, streamVars, Rest, Grant
  <2>5. rc' \in Seq(Asked)
    <3>1. [from |-> c, chunk |-> inbox[c]] \in Asked
      BY <1>0, <2>1 DEF Rest, Asked
    <3>2. \/ UNCHANGED rc
          \/ rc' = Append(rc, [from |-> c, chunk |-> inbox[c]])
      BY <1>6 DEF conn_readcb, conn_readcb_login, conn_readcb_key,
         conn_readcb_cmd, conn_readcb_other, effectVars
    <3>3. rc \in Seq(Asked)
      BY <1>0 DEF Rest
    <3>4. QED
      BY <3>1, <3>2, <3>3, AppendHolds
  <2>6. \A r \in commands' : r.from \in Viewers
    <3>1. \/ UNCHANGED commands
          \/ commands' = commands \cup {[from |-> c, cmd |-> Head(inbox[c]).arg]}
      BY <1>6 DEF conn_readcb, conn_readcb_login, conn_readcb_key,
         conn_readcb_cmd, conn_readcb_other, effectVars
    <3>2. QED
      BY <1>0, <2>1, <3>1 DEF Rest
  <2>7. QED
    BY <1>0, <2>1, <2>2, <2>3, <2>4, <2>5, <2>6 DEF Rest
<1>7. ASSUME NEW c \in Conns, conn_localhostcb(c) PROVE Rest'
  <2>1. c \in Locals /\ inbox[c] \in Seq(LocalMessages) /\ inbox[c] # << >>
    BY <1>0, <1>7 DEF conn_localhostcb, Table, LocalsAre, Rest
  <2>2. Head(inbox[c]) \in LocalMessages
    BY <2>1
  <2>3. tsheader' \in Qualities /\ NTV_Key' \in Keys \cup {NoKey, Unset}
    BY <1>0, <1>7, <2>2, LocalMessagesAssumption
       DEF conn_localhostcb, HeaderFor, KeyFor, Rest
  <2>4. Inboxes'
    BY <1>0, <1>7, InboxesKeep DEF conn_localhostcb
  <2>5. QED
    BY <1>0, <1>7, <2>3, <2>4 DEF conn_localhostcb, Rest, effectVars, streamVars
<1>8. ASSUME NEW packets \in Batches, FanOut(packets) PROVE Rest'
  <2>1. fanned' \in Seq(AnyPacket)
    BY <1>0, <1>8, FannedGrows DEF FanOut
  <2>2. DOMAIN out' = Conns
    BY <1>8 DEF FanOut
  <2>3. QED
    BY <1>0, <1>8, <2>1, <2>2 DEF FanOut, Rest, networkVars, configVars, effectVars
<1>9. QED
  BY <1>1, <1>2, <1>3, <1>4, <1>5, <1>6, <1>7, <1>8 DEF Next, Callback, Conns

(* A grant is never taken back in the history.                             *)
LEMMA GrantsStay ==
  IInv /\ [Next]_vars => \A c \in Conns : since[c] # 0 => since'[c] # 0
<1> SUFFICES ASSUME IInv, [Next]_vars
             PROVE  \A c \in Conns : since[c] # 0 => since'[c] # 0
  OBVIOUS
<1>0. Table /\ Rest /\ since \in [Conns -> Nat] /\ Len(fanned) \in Nat
  BY DEF IInv, Table, TableType, Rest
<1>1. \/ UNCHANGED since
      \/ \E c \in Conns : bev[c] = "user" /\ Grant(ptr[c]) /\ UNCHANGED <<bev, ptr>>
  BY DEF Next, vars, streamVars, Connect, Send, End, listener_cb, Callback,
         conn_eventcb, conn_readcb, conn_readcb_login, conn_readcb_key,
         conn_readcb_cmd, conn_readcb_other, conn_localhostcb, FanOut, ReadsHead
<1>2. CASE UNCHANGED since
  BY <1>2
<1>3. ASSUME NEW c \in Conns, bev[c] = "user", Grant(ptr[c]), UNCHANGED <<bev, ptr>>
      PROVE  \A d \in Conns : since[d] # 0 => since'[d] # 0
  <2>1. since' = [since EXCEPT ![c] = Len(fanned) + 1]
    BY <1>0, <1>3, GrantKeeps
  <2>2. Len(fanned) + 1 # 0
    BY <1>0
  <2>3. QED
    BY <1>0, <2>1, <2>2
<1>4. QED
  BY <1>1, <1>2, <1>3

(* Only those whose login was granted have their wishes carried out.       *)
LEMMA AskStep == IInv /\ [Next]_vars => OnlyViewersAsk'
<1> SUFFICES ASSUME IInv, [Next]_vars PROVE OnlyViewersAsk'
  OBVIOUS
<1>0. /\ Table /\ Rest /\ OnlyViewersAsk
      /\ \A c \in Conns : since[c] # 0 => since'[c] # 0
  BY GrantsStay DEF IInv
<1>1. \A r \in commands : r.from \in Viewers /\ since[r.from] # 0
  BY <1>0 DEF Rest, OnlyViewersAsk
<1>2. \A i \in DOMAIN rc : rc[i].from \in Viewers /\ since[rc[i].from] # 0
  <2>1. rc \in Seq(Asked)
    BY <1>0 DEF Rest
  <2>2. \A i \in DOMAIN rc : rc[i] \in Asked
    BY <2>1, SeqHolds
  <2>3. QED
    BY <1>0, <2>2 DEF OnlyViewersAsk, Asked
<1>3. ASSUME UNCHANGED effectVars PROVE OnlyViewersAsk'
  BY <1>0, <1>1, <1>2, <1>3 DEF OnlyViewersAsk, effectVars, Conns
<1>4. ASSUME NEW c \in Conns, bev[c] = "user", MayAsk(c) PROVE since'[c] # 0
  BY <1>0, <1>4 DEF MayAsk, Table, ViewersHeld, LoginEarned
<1>5. ASSUME NEW c \in Conns, conn_readcb_key(c) PROVE OnlyViewersAsk'
  <2>1. CASE UNCHANGED rc
    BY <1>3, <1>5, <2>1 DEF conn_readcb_key, effectVars
  <2>2. CASE MayAsk(c) /\ rc' = Append(rc, [from |-> c, chunk |-> inbox[c]])
    <3>1. since'[c] # 0
      BY <1>4, <1>5, <2>2 DEF conn_readcb_key, ReadsHead
    <3>2. UNCHANGED commands
      BY <1>5 DEF conn_readcb_key
    <3>3. rc \in Seq(Asked)
      BY <1>0 DEF Rest
    <3>4. ASSUME NEW i \in DOMAIN rc'
          PROVE  rc'[i].from = c \/ (i \in DOMAIN rc /\ rc'[i] = rc[i])
      <4> DEFINE e == [from |-> c, chunk |-> inbox[c]]
      <4>1. e \in Asked /\ e.from = c
        BY <1>0, <1>5 DEF Asked, conn_readcb_key, ReadsHead, Rest, Table, ViewersHeld
      <4>2. rc' = Append(rc, e)
        BY <2>2
      <4> HIDE DEF e
      <4>3. rc'[i] = e \/ (i \in DOMAIN rc /\ rc'[i] = rc[i])
        BY <3>3, <4>1, <4>2, AppendHolds
      <4>4. QED
        BY <4>1, <4>3
    <3>5. QED
      BY <1>0, <1>1, <1>2, <3>1, <3>2, <3>4 DEF OnlyViewersAsk, Conns
  <2>3. QED
    BY <1>5, <2>1, <2>2 DEF conn_readcb_key
<1>6. ASSUME NEW c \in Conns, conn_readcb_cmd(c) PROVE OnlyViewersAsk'
  <2>1. CASE UNCHANGED commands
    BY <1>3, <1>6, <2>1 DEF conn_readcb_cmd, effectVars
  <2>2. CASE /\ MayAsk(c)
             /\ commands' = commands \cup {[from |-> c, cmd |-> Head(inbox[c]).arg]}
    <3>1. since'[c] # 0
      BY <1>4, <1>6, <2>2 DEF conn_readcb_cmd, ReadsHead
    <3>2. UNCHANGED rc
      BY <1>6 DEF conn_readcb_cmd
    <3>3. QED
      BY <1>0, <1>1, <1>2, <2>2, <3>1, <3>2 DEF OnlyViewersAsk, Conns
  <2>3. QED
    BY <1>6, <2>1, <2>2 DEF conn_readcb_cmd
<1>7. \/ UNCHANGED effectVars
      \/ \E c \in Conns : conn_readcb_key(c) \/ conn_readcb_cmd(c)
  BY DEF Next, vars, Connect, Send, End, listener_cb, Callback, conn_eventcb,
         conn_readcb, conn_readcb_login, conn_readcb_other, conn_localhostcb, FanOut
<1>8. QED
  BY <1>3, <1>5, <1>6, <1>7

(***************************************************************************)
(* The theorems.                                                           *)
(***************************************************************************)

(* The table's invariant holds in every state the daemon reaches.          *)
THEOREM Inductive == Spec => []IInv
<1>1. IInv /\ [Next]_vars => IInv'
  BY TableStep, RestStep, AskStep DEF IInv
<1>2. QED
  BY InitTable, <1>1, PTL DEF Spec

(* Every variable keeps its type, for any number of viewers and slots.     *)
THEOREM TypeCorrect == Spec => []TypeOK
<1>1. IInv => TypeOK
  BY DEF IInv, Table, TableType, SlotType, Rest, Asked, TypeOK
<1>2. QED
  BY Inductive, <1>1, PTL

(* Slots and connections name each other, however connections come, go     *)
(* and reuse slots: no callback acts on somebody else's slot.              *)
THEOREM SlotsAndConnectionsAgree == Spec => []SlotTable
<1>1. IInv => SlotTable
  BY DEF IInv, Table, SlotsHold, ViewersHeld, SlotTable
<1>2. QED
  BY Inductive, <1>1, PTL

(* A login never survives in a slot that is reused.                        *)
THEOREM LoginsAreEarned == Spec => []LoginEarned
<1>1. IInv => LoginEarned
  BY DEF IInv, Table
<1>2. QED
  BY Inductive, <1>1, PTL

(* Keys and commands are carried out only for connections whose login was  *)
(* granted.                                                                *)
THEOREM OnlyViewersAreHeard == Spec => []OnlyViewersAsk
<1>1. IInv => OnlyViewersAsk
  BY DEF IInv
<1>2. QED
  BY Inductive, <1>1, PTL

(* What one step does to the life and the output of a connection: it       *)
(* frees it only in its own callback or at the door, and writes to it only *)
(* while it holds a slot.                                                  *)
LEMMA StepSpares ==
  ASSUME IInv, [Next]_vars, NEW c \in Conns
  PROVE  /\ bev[c] = "freed" => bev'[c] = "freed" /\ out'[c] = out[c]
         /\ bev[c] = "user" /\ bev'[c] = "freed" /\ peer[c] = "up"
            => inbox'[c] # inbox[c]
<1> DEFINE Spared == /\ bev[c] = "freed" => bev'[c] = "freed" /\ out'[c] = out[c]
                     /\ bev[c] = "user" /\ bev'[c] = "freed" /\ peer[c] = "up"
                        => inbox'[c] # inbox[c]
<1>0. /\ Table /\ Rest /\ DOMAIN out = Conns
      /\ bev \in [Conns -> {"none", "syn", "user", "local", "freed"}]
      /\ inbox \in [Conns -> Seq(ViewerMessages \cup LocalMessages)]
  BY DEF IInv, Table, TableType, Rest
<1>1. CASE UNCHANGED <<bev, out>>
  BY <1>1
<1>2. ASSUME NEW d \in Conns, NEW s \in {"syn", "user", "local", "freed"},
             bev[d] \in {"none", "syn"}, bev' = [bev EXCEPT ![d] = s], UNCHANGED out
      PROVE  Spared
  BY <1>0, <1>2
<1>3. ASSUME NEW d \in Conns, listener_cb(d) PROVE Spared
  <2>1. /\ bev[d] = "syn" /\ UNCHANGED out
        /\ \E s \in {"user", "local", "freed"} : bev' = [bev EXCEPT ![d] = s]
    BY <1>3 DEF listener_cb, Accepted, Refuse, streamVars
  <2>2. QED
    BY <2>1, <1>2
<1>4. ASSUME NEW d \in Conns, conn_eventcb(d) PROVE Spared
  <2>1. /\ bev[d] = "user" /\ peer[d] # "up" /\ UNCHANGED out
    BY <1>4 DEF conn_eventcb, Ended, streamVars
  <2>2. bev' = [bev EXCEPT ![d] = "freed"]
    BY <1>0, <1>4, DisconnectKeeps DEF conn_eventcb, streamVars
  <2>3. QED
    BY <1>0, <2>1, <2>2
<1>5. ASSUME NEW d \in Conns, conn_readcb(d) PROVE Spared
  <2>1. /\ bev[d] = "user" /\ inbox[d] # << >> /\ UNCHANGED ptr
        /\ inbox' = [inbox EXCEPT ![d] = << >>]
    BY <1>5 DEF conn_readcb, conn_readcb_login, conn_readcb_key,
       conn_readcb_cmd, conn_readcb_other, ReadsHead, tableVars
  <2>2. CASE UserDisconnect(ptr[d]) /\ UNCHANGED <<since, out>>
    <3>1. bev' = [bev EXCEPT ![d] = "freed"]
      BY <1>0, <2>1, <2>2, DisconnectKeeps
    <3>2. QED
      BY <1>0, <2>1, <2>2, <3>1
  <2>3. CASE Grant(ptr[d]) /\ UNCHANGED bev
    <3>1. out' = [out EXCEPT ![d] = Append(@, tsheader)]
      BY <1>0, <2>1, <2>3, GrantKeeps
    <3>2. QED
      BY <1>0, <2>1, <2>3, <3>1
  <2>4. CASE UNCHANGED <<bev, out>>
    BY <2>4
  <2>5. QED
    BY <1>5, <2>2, <2>3, <2>4
       DEF conn_readcb, conn_readcb_login, conn_readcb_key, conn_readcb_cmd,
           conn_readcb_other, tableVars, streamVars
<1>6. ASSUME NEW packets, FanOut(packets) PROVE Spared
  <2>1. UNCHANGED bev
    BY <1>6 DEF FanOut, tableVars
  <2>2. ASSUME bev[c] = "freed" PROVE out'[c] = out[c]
    <3>1. ~ \E x \in Slots : Watching(x) /\ user_array[x].bev = c
      BY <1>0, <2>2 DEF Watching, Table, SlotsHold
    <3>2. QED
      BY <1>6, <3>1 DEF FanOut
  <2>3. QED
    BY <2>1, <2>2
<1>7. ASSUME NEW d \in Conns, Connect(d) PROVE Spared
  BY <1>2, <1>7 DEF Connect, streamVars
<1>8. \/ UNCHANGED <<bev, out>>
      \/ \E d \in Conns : \/ Connect(d) \/ listener_cb(d)
                          \/ conn_eventcb(d) \/ conn_readcb(d)
      \/ \E packets : FanOut(packets)
  BY DEF Next, vars, tableVars, streamVars, Send, End, Callback, conn_localhostcb
<1>9. QED
  BY <1>1, <1>3, <1>4, <1>5, <1>6, <1>7, <1>8

(* A freed bufferevent is never written to and never comes back.           *)
THEOREM FreedStaysFreed == Spec => NoUseAfterFree
<1>1. IInv /\ [Next]_vars =>
        [\A c \in Conns : bev[c] = "freed" =>
                             /\ bev'[c] = "freed"
                             /\ out'[c] = out[c]]_vars
  BY StepSpares
<1>2. QED
  BY Inductive, <1>1, PTL DEF Spec, NoUseAfterFree

(* Nobody who is there is disconnected by what others send or by how they  *)
(* leave.                                                                  *)
THEOREM NobodyElsesFault == Spec => OwnFault
<1>1. IInv /\ [Next]_vars =>
        [\A c \in Conns : /\ bev[c] = "user" /\ bev'[c] = "freed"
                          /\ peer[c] = "up"
                          => inbox'[c] # inbox[c]]_vars
  BY StepSpares
<1>2. QED
  BY Inductive, <1>1, PTL DEF Spec, OwnFault

=============================================================================
