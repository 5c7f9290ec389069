------------------------------ MODULE Sessions ------------------------------
(***************************************************************************)
(* The TCP side of the daemon in NTVService/jni/NTVService.cpp: the        *)
(* listener, the table of users, the callbacks of their connections and    *)
(* the fan-out of the stream.  All of it runs on one thread, libevent's    *)
(* loop, so that each callback is one action.                              *)
(*                                                                         *)
(* A viewer is a connection from elsewhere; a local connection comes from  *)
(* 127.0.0.1 (the Android application).  A message is what the other end   *)
(* sends with one call; the messages waiting when a callback runs reach    *)
(* it glued together, and the code looks at the head of the text only.     *)
(***************************************************************************)
EXTENDS Naturals, Sequences, FiniteSets, SequencesExt

CONSTANTS Viewers,        \* connections of viewers; each is used once
          Locals,         \* connections from 127.0.0.1; each is used once
          max_user,       \* number of entries of user_array
          FdLimit,        \* connections the process has descriptors for
          Keys,           \* login keys
          NoKey,          \* "NTV_Key:no_key": everybody may log in
          Unset,          \* the empty NTV_Key before the first local message
          Garbled,        \* what sscanf reads from a login glued to a message
          Qualities,      \* the three transport stream headers
          DefaultQuality, \* ts_720_480
          ViewerMessages, \* what viewers send: type and argument
          LocalMessages,  \* what the application sends: quality, key, shutdown
          Nothing,        \* a field a local message leaves out
          Batches,        \* the runs of packets timeout_cb takes from the queue
          MaxMessages,    \* bound: messages each viewer sends
          MaxPackets      \* bound: packets fanned out

Conns == Viewers \cup Locals
Slots == 1 .. max_user

ASSUME SlotsAssumption == max_user \in Nat \ {0}
ASSUME ConnsAssumption == Viewers \cap Locals = {}
ASSUME NothingAssumption == Nothing \notin Conns
ASSUME KeysAssumption == {NoKey, Unset, Garbled} \cap Keys = {} /\ Unset # NoKey
ASSUME QualitiesAssumption == DefaultQuality \in Qualities
ASSUME ViewerMessagesAssumption ==
  \A m \in ViewerMessages : m.type \in {"login", "key", "cmd", "other"}
ASSUME LocalMessagesAssumption ==
  \A m \in LocalMessages : /\ m.quality \in Qualities \cup {Nothing}
                           /\ m.key \in Keys \cup {NoKey, Nothing}
                           /\ m.shutdown \in BOOLEAN
ASSUME BatchesAssumption == \A b \in Batches : b \in Seq(Range(b))
ASSUME BoundsAssumption == MaxMessages \in Nat /\ MaxPackets \in Nat

VARIABLES user_array,     \* the table: [uses, login, bev] for each slot
          bev,            \* what the daemon has of each connection:
                          \*   "none" nothing, "syn" waiting to be accepted,
                          \*   "user" / "local" a bufferevent with callbacks,
                          \*   "freed" closed by the daemon
          ptr,            \* the pUser argument of a connection's callbacks
          peer,           \* the other end: "up", "fin" (closed), "rst" (reset)
          inbox,          \* messages that have arrived and are not read yet
          budget,         \* messages each viewer may still send
          NTV_Key,        \* the key logins are compared with
          tsheader,       \* the header sent at login
          out,            \* what has been written to each connection
          rc,             \* datagrams sent to the remote control's port
          commands,       \* the commands run with system(), with their senders
          fanned,         \* history: packets taken from the queue, in order
          since           \* history: index in fanned of the first packet after
                          \*   a connection's login was granted, or 0

tableVars   == <<user_array, bev, ptr>>
networkVars == <<peer, inbox, budget>>
configVars  == <<NTV_Key, tsheader>>
effectVars  == <<rc, commands>>
streamVars  == <<out, fanned, since>>
vars == <<tableVars, networkVars, configVars, effectVars, streamVars>>

EmptySlot == [uses |-> 0, login |-> 0, bev |-> Nothing]

Init == /\ user_array = [x \in Slots |-> EmptySlot]
        /\ bev = [c \in Conns |-> "none"]
        /\ ptr = [c \in Conns |-> Nothing]
        /\ peer = [c \in Conns |-> "up"]
        /\ inbox = [c \in Conns |-> << >>]
        /\ budget = [c \in Conns |-> IF c \in Viewers THEN MaxMessages ELSE 1]
        /\ NTV_Key = Unset
        /\ tsheader = DefaultQuality
        /\ out = [c \in Conns |-> << >>]
        /\ rc = << >>
        /\ commands = {}
        /\ fanned = << >>
        /\ since = [c \in Conns |-> 0]

(***************************************************************************)
(* The other ends of the connections.                                      *)
(***************************************************************************)

Connect(c) == /\ bev[c] = "none"
              /\ bev' = [bev EXCEPT ![c] = "syn"]
              /\ UNCHANGED <<user_array, ptr, networkVars, configVars,
                             effectVars, streamVars>>

Send(c, m) == /\ bev[c] \in {"syn", "user", "local"}
              /\ peer[c] = "up"
              /\ budget[c] > 0
              /\ inbox' = [inbox EXCEPT ![c] = Append(@, m)]
              /\ budget' = [budget EXCEPT ![c] = @ - 1]
              /\ UNCHANGED <<tableVars, peer, configVars, effectVars, streamVars>>

\* A close is seen after the data sent before it; a reset may overtake it.
End(c, how) == /\ bev[c] \in {"syn", "user", "local"}
               /\ peer[c] = "up"
               /\ peer' = [peer EXCEPT ![c] = how]
               /\ UNCHANGED <<tableVars, inbox, budget, configVars, effectVars,
                              streamVars>>

(***************************************************************************)
(* The listener and the table of users.                                    *)
(***************************************************************************)

InUse(x) == user_array[x].uses = 1
LoggedIn(x) == user_array[x].login = 1

\* accept fails while the process has no descriptor left: libevent retries.
Accepted(c) == /\ bev[c] = "syn"
               /\ Cardinality({d \in Conns : bev[d] \in {"user", "local"}}) < FdLimit

\* UserConnect takes the first slot that is free and resets its login.
FirstNotBefore(x) == \A y \in Slots : y < x => InUse(y)
FirstFree(x) == ~InUse(x) /\ \A y \in Slots : y < x => InUse(y)

FillKeepsLogin(x, c) == [user_array EXCEPT ![x].uses = 1, ![x].bev = c]
Fill(x, c) == [user_array EXCEPT ![x] = [uses |-> 1, login |-> 0, bev |-> c]]

UserConnect(c) ==
  \E x \in Slots : /\ FirstFree(x)
                   /\ user_array' = Fill(x, c)
                   /\ ptr' = [ptr EXCEPT ![c] = x]

\* UserDisconnect empties the slot and frees the bufferevent found in it.
UserDisconnectAll(x) ==
  /\ user_array' = [y \in Slots |-> [user_array[y] EXCEPT !.uses = 0]]
  /\ bev' = [c \in Conns |-> IF bev[c] = "user" THEN "freed" ELSE bev[c]]
UserDisconnect(x) ==
  /\ user_array' = [user_array EXCEPT ![x].uses = 0]
  /\ bev' = [bev EXCEPT ![user_array[x].bev] = "freed"]

\* With every slot in use the new bufferevent is freed at once.
RefuseForgets(c) == /\ \A x \in Slots : InUse(x)
                    /\ UNCHANGED tableVars
Refuse(c) == /\ \A x \in Slots : InUse(x)
             /\ bev' = [bev EXCEPT ![c] = "freed"]
             /\ UNCHANGED <<user_array, ptr>>

listener_cb(c) ==
  /\ Accepted(c)
  /\ \/ /\ c \in Locals
        /\ bev' = [bev EXCEPT ![c] = "local"]
        /\ UNCHANGED <<user_array, ptr>>
     \/ /\ c \in Viewers
        /\ UserConnect(c)
        /\ bev' = [bev EXCEPT ![c] = "user"]
     \/ /\ c \in Viewers
        /\ Refuse(c)
  /\ UNCHANGED <<networkVars, configVars, effectVars, streamVars>>

(***************************************************************************)
(* The callbacks of a viewer's connection.                                 *)
(***************************************************************************)

\* libevent reports the end of a connection once its data has been read; a
\* reset that a write meets is reported whatever is left to read.
EndedCleanly(c) == peer[c] = "fin" /\ inbox[c] = << >>
Ended(c) == peer[c] = "rst" \/ (peer[c] = "fin" /\ inbox[c] = << >>)

conn_eventcb(c) ==
  /\ bev[c] = "user"
  /\ Ended(c)
  /\ UserDisconnect(ptr[c])
  /\ UNCHANGED <<ptr, networkVars, configVars, effectVars, streamVars>>

\* conn_readcb reads all that has arrived and dispatches on its head.
ReadsHead(c, type) == /\ bev[c] = "user"
                      /\ inbox[c] # << >>
                      /\ Head(inbox[c]).type = type
                      /\ inbox' = [inbox EXCEPT ![c] = << >>]

\* The key sscanf finds: a message glued behind the login may spoil it.
KeysRead(chunk) == {Head(chunk).arg} \cup (IF Len(chunk) > 1 THEN {Garbled} ELSE {})

Accepts(key) == NTV_Key = NoKey \/ key = NTV_Key

Grant(x) ==
  /\ user_array' = [user_array EXCEPT ![x].login = 1]
  /\ out' = [out EXCEPT ![user_array[x].bev] = Append(@, tsheader)]
  /\ since' = [since EXCEPT ![user_array[x].bev] = Len(fanned) + 1]

conn_readcb_login(c) ==
  /\ ReadsHead(c, "login")
  /\ \E key \in KeysRead(inbox[c]) :
       \/ /\ ~LoggedIn(ptr[c]) /\ Accepts(key)
          /\ Grant(ptr[c])
          /\ UNCHANGED <<bev, fanned>>
       \/ /\ LoggedIn(ptr[c]) \/ ~Accepts(key)
          /\ UserDisconnect(ptr[c])
          /\ UNCHANGED streamVars
  /\ UNCHANGED <<ptr, peer, budget, configVars, effectVars>>

\* A key goes to the remote control as it came, with all that is glued to it.
AnybodyAsks(c) == TRUE
MayAsk(c) == LoggedIn(ptr[c])

conn_readcb_key(c) ==
  /\ ReadsHead(c, "key")
  /\ \/ /\ MayAsk(c)
        /\ rc' = Append(rc, [from |-> c, chunk |-> inbox[c]])
        /\ UNCHANGED <<user_array, bev>>
     \/ /\ ~MayAsk(c)
        /\ UserDisconnect(ptr[c])
        /\ UNCHANGED rc
  /\ UNCHANGED <<ptr, peer, budget, configVars, commands, streamVars>>

conn_readcb_cmd(c) ==
  /\ ReadsHead(c, "cmd")
  /\ \/ /\ MayAsk(c)
        /\ commands' = commands \cup {[from |-> c, cmd |-> Head(inbox[c]).arg]}
        /\ UNCHANGED <<user_array, bev>>
     \/ /\ ~MayAsk(c)
        /\ UserDisconnect(ptr[c])
        /\ UNCHANGED commands
  /\ UNCHANGED <<ptr, peer, budget, configVars, rc, streamVars>>

\* Any other text is dropped.
conn_readcb_other(c) ==
  /\ ReadsHead(c, "other")
  /\ UNCHANGED <<tableVars, peer, budget, configVars, effectVars, streamVars>>

conn_readcb(c) == \/ conn_readcb_login(c)
                  \/ conn_readcb_key(c)
                  \/ conn_readcb_cmd(c)
                  \/ conn_readcb_other(c)

(***************************************************************************)
(* The callback of a local connection, which has no event callback: its    *)
(* bufferevent stays when the other end closes.                            *)
(***************************************************************************)

HeaderUnchecked(m) == m.quality
HeaderFor(m) == IF m.quality = Nothing THEN tsheader ELSE m.quality
KeyFor(m) == IF m.key = Nothing THEN NTV_Key ELSE m.key

conn_localhostcb(c) ==
  /\ bev[c] = "local"
  /\ inbox[c] # << >>
  /\ tsheader' = HeaderFor(Head(inbox[c]))
  /\ NTV_Key' = KeyFor(Head(inbox[c]))
  /\ inbox' = [inbox EXCEPT ![c] = << >>]
  /\ UNCHANGED <<tableVars, peer, budget, effectVars, streamVars>>

\* The message makes conn_localhostcb shut the stream socket down.
AsksShutdown(c) == Head(inbox[c]).shutdown

(***************************************************************************)
(* timeout_cb, once it has taken a run of packets from the queue: every    *)
(* user that is logged in gets all of them.                                *)
(***************************************************************************)

WatchingStale(x) == LoggedIn(x)
WatchingGuests(x) == InUse(x)
WatchingFirst(x) == /\ InUse(x) /\ LoggedIn(x)
                    /\ \A y \in Slots : y < x => ~(InUse(y) /\ LoggedIn(y))
Watching(x) == InUse(x) /\ LoggedIn(x)

FanOut(packets) ==
  /\ out' = [c \in Conns |->
               IF \E x \in Slots : Watching(x) /\ user_array[x].bev = c
               THEN out[c] \o packets
               ELSE out[c]]
  /\ fanned' = fanned \o packets
  /\ UNCHANGED <<tableVars, networkVars, configVars, effectVars, since>>

(***************************************************************************)
(* The specification.                                                      *)
(***************************************************************************)

Callback(c) == conn_eventcb(c) \/ conn_readcb(c) \/ conn_localhostcb(c)

Next == \/ \E c \in Conns : Connect(c)
        \/ \E c \in Viewers, m \in ViewerMessages : Send(c, m)
        \/ \E c \in Locals, m \in LocalMessages : Send(c, m)
        \/ \E c \in Conns, how \in {"fin", "rst"} : End(c, how)
        \/ \E c \in Conns : listener_cb(c)
        \/ \E c \in Conns : Callback(c)
        \/ \E packets \in Batches : /\ Len(fanned) + Len(packets) <= MaxPackets
                                    /\ FanOut(packets)

Spec == Init /\ [][Next]_vars

\* libevent's loop runs the callbacks of what is ready.
FairSpec == Spec /\ \A c \in Conns : WF_vars(listener_cb(c)) /\ WF_vars(Callback(c))

(***************************************************************************)
(* Properties.                                                             *)
(***************************************************************************)

(* Every variable keeps its type, whatever is sent: the header is one of   *)
(* the three although local messages may leave the quality out, and only   *)
(* messages of viewers are forwarded.                                      *)
TypeOK ==
  /\ user_array \in [Slots -> [uses : {0, 1}, login : {0, 1},
                               bev : Viewers \cup {Nothing}]]
  /\ bev \in [Conns -> {"none", "syn", "user", "local", "freed"}]
  /\ ptr \in [Conns -> Slots \cup {Nothing}]
  /\ peer \in [Conns -> {"up", "fin", "rst"}]
  /\ inbox \in [Conns -> Seq(ViewerMessages \cup LocalMessages)]
  /\ budget \in [Conns -> Nat]
  /\ NTV_Key \in Keys \cup {NoKey, Unset}
  /\ tsheader \in Qualities
  /\ rc \in Seq([from : Viewers, chunk : Seq(ViewerMessages)])
  /\ since \in [Conns -> Nat]

(* The table and the callbacks' arguments name each other: every slot in   *)
(* use holds a live connection whose callbacks carry that slot, and every  *)
(* live viewer connection has its slot.  So no callback ever acts on a     *)
(* slot that was given to somebody else, no bufferevent is freed twice and *)
(* no slot is lost, however connections come, go and reuse slots.          *)
SlotTable ==
  /\ \A x \in Slots : InUse(x) => /\ bev[user_array[x].bev] = "user"
                                  /\ ptr[user_array[x].bev] = x
  /\ \A c \in Conns : bev[c] = "user" => /\ InUse(ptr[c])
                                         /\ user_array[ptr[c]].bev = c

(* A slot is logged in exactly when the connection it holds now had its    *)
(* own login granted: a login does not survive in a slot that is reused.   *)
LoginEarned == \A x \in Slots :
                 InUse(x) => (LoggedIn(x) <=> since[user_array[x].bev] # 0)

(* A connection is sent one header, when its login is granted, and then    *)
(* every packet taken from the queue since, in order, once, without a gap, *)
(* until it is freed; before its login it is sent nothing.                 *)
ViewerStream ==
  \A c \in Conns :
    IF since[c] = 0
    THEN out[c] = << >>
    ELSE /\ out[c] # << >> /\ Head(out[c]) \in Qualities
         /\ IsPrefix(Tail(out[c]), SubSeq(fanned, since[c], Len(fanned)))
         /\ bev[c] = "user" => Tail(out[c]) = SubSeq(fanned, since[c], Len(fanned))

(* The remote control is sent keys, and the system runs commands, for      *)
(* connections whose login was granted only.                               *)
OnlyViewersAsk == /\ \A i \in DOMAIN rc : since[rc[i].from] # 0
                  /\ \A r \in commands : since[r.from] # 0

(* A freed bufferevent is never written to and never comes back.           *)
NoUseAfterFree == [][\A c \in Conns : bev[c] = "freed" =>
                        /\ bev'[c] = "freed"
                        /\ out'[c] = out[c]]_vars

(* A connection whose other end is there is freed by a message of its own  *)
(* or when it asks in vain for a slot; what others send or how they leave  *)
(* does not disconnect it.                                                 *)
OwnFault == [][\A c \in Conns : /\ bev[c] = "user" /\ bev'[c] = "freed"
                                /\ peer[c] = "up"
                                => inbox'[c] # inbox[c]]_vars

(* Seen from the audience, slots, keys and callbacks do not show.          *)
StageOf(c) == IF bev[c] \in {"none", "syn"} THEN "out"
              ELSE IF bev[c] = "freed" THEN "left"
              ELSE IF since[c] = 0 THEN "guest" ELSE "viewer"

People == INSTANCE Audience WITH stage <- [v \in Viewers |-> StageOf(v)],
                                 seen <- [v \in Viewers |-> out[v]]

(* The daemon serves its audience as Audience promises.                    *)
ServesAudience == People!Spec

(* The loop gets to everybody: a viewer that goes away gives its slot      *)
(* back, whatever it leaves unread.                                        *)
Reclaimed == \A c \in Viewers :
               (bev[c] = "user" /\ peer[c] # "up") ~> (bev[c] = "freed")

(* A viewer at the door is let in or turned away, as long as there are     *)
(* descriptors for all the local connections that were ever made.          *)
Answered == \A c \in Viewers : (bev[c] = "syn") ~> (bev[c] \in {"user", "freed"})

(* The comments above conn_eventcb and listener_cb: the daemon hears when  *)
(* a client goes offline, and frees what it holds of it.                   *)
OfflineClientReleased ==
  \A c \in Conns : (bev[c] \in {"user", "local"} /\ peer[c] # "up") ~> (bev[c] = "freed")

=============================================================================
