---------------------------- MODULE ChatPresence ----------------------------
(***************************************************************************)
(* Who is online: the Socket.IO namespaces of agents and of customers      *)
(* (websocket/chat_namespaces), the socket ids kept in Redis, the flags    *)
(* User.is_online and Customer.is_online, and the events that tell agents  *)
(* and customers about them (websocket/subscribers, config/redis).         *)
(*                                                                         *)
(* Every socket has its own connect and disconnect handler.  They await    *)
(* Redis and the database, so the handlers of several sockets interleave   *)
(* between two awaits.  What a handler still has to do is a sequence of    *)
(* step names; each step is an action.  One organization is modelled, and  *)
(* one conversation per customer.                                          *)
(*                                                                         *)
(* A customer's visits are rows of their own (visitor/router.py); the      *)
(* customer's attributes hold the one to end when his socket goes.         *)
(* Background tasks write them there, which nobody awaits or orders        *)
(* (events/customer_event.py).                                             *)
(***************************************************************************)
EXTENDS Integers, Sequences, FiniteSets

CONSTANTS
  Agents, Customers,
  Sids,              \* socket ids; Socket.IO never uses one twice
  Owner,             \* whose socket it is
  Talks,             \* sockets that connect with a conversation_id
  NoSid,             \* no value in Redis, None
  NoVisit,           \* no such row, attributes without a log
  MaxVisits,         \* bound: ids issued to visits
  MaxCuts,           \* bound: people with a connect cut short
  MaxFaults          \* bound: people with a disconnect or an event that fails

People == Agents \union Customers

\* Rows of org_customer_logs, in the order in which they were stored.
Visits == 1 .. MaxVisits
Visit == [of : Customers, left : BOOLEAN, deleted : BOOLEAN]

ASSUME PresenceAssumption ==
  /\ Agents \intersect Customers = {}
  /\ Owner \in [Sids -> People]
  /\ Talks \subseteq {s \in Sids : Owner[s] \in Customers}
  /\ NoSid \notin Sids
  /\ NoVisit \notin Visits \union Visit
  /\ MaxVisits \in Nat /\ MaxCuts \in Nat /\ MaxFaults \in Nat

VARIABLES
  link,              \* "new", "up" or "gone": the connection of a socket
  con, dis,          \* steps its on_connect and its on_disconnect have left
  target,            \* the sid customer_join_conversation found
  online,            \* is_online, in the database
  sidOf, ownerOf,    \* Redis: last sid of a person, person of a sid
  chatOf,            \* Redis: sids with a conversation
  room, talk,        \* notification rooms, rooms of conversations
  visit,             \* the visits
  logOf,             \* Customer.attributes["log"]: the visit it names
  copying,           \* tasks under way that copy a visit there
  ending,            \* the visit that on_disconnect is about to end
  bus,               \* events published and not yet emitted
  view,              \* what each client was last told about each person
  cut,               \* history: people with a connect cut short
  stuck,             \* people whose flag an on_disconnect could not reset
  unsaid,            \* people of whose last change nobody was told
  overlap,           \* history: two sockets of a person were served at once
  crossed,           \* history: customers whose visits crossed, see EndsNewest
  apart              \* history: sockets that left the conversation, or never joined

redis == <<sidOf, ownerOf, chatOf>>
rooms == <<room, talk>>
visits == <<visit, logOf, copying, ending, crossed>>
history == <<cut, stuck, unsaid, overlap, apart>>
vars == <<link, con, dis, target, online, redis, rooms, visits, bus, view,
          history>>

Of(p) == {s \in Sids : Owner[s] = p}
IsAgent(s) == Owner[s] \in Agents
Busy(s) == con[s] # <<>> \/ dis[s] # <<>>
Quiet(p) == \A s \in Of(p) : ~Busy(s)

\* The awaits of the two handlers.
Steps == {"Online", "SidOf", "OwnerOf", "Room", "Tell", "FindSid", "Join", "Chat",
          "Find", "Offline", "Visit"}

\* The awaits of on_connect, in order.
Connecting(s) ==
  IF IsAgent(s) THEN <<"SidOf", "OwnerOf", "Room", "Online", "Tell">>
  ELSE <<"Online", "SidOf", "OwnerOf", "Room", "Tell">> \o
       (IF s \in Talks THEN <<"FindSid", "Join", "Chat">> ELSE <<>>)

\* Mutant: the visit is ended before the customer is set offline.
FaultyLeaving(s) == IF IsAgent(s) THEN <<"Find", "Offline", "Tell">>
                    ELSE <<"Find", "Visit", "Offline", "Tell">>

\* The awaits of on_disconnect.
Leaving(s) == IF IsAgent(s) THEN <<"Find", "Offline", "Tell">>
              ELSE <<"Find", "Offline", "Visit", "Tell">>

Event == [who : People, on : BOOLEAN]

TypeOK ==
  /\ link \in [Sids -> {"new", "up", "gone"}]
  /\ con \in [Sids -> Seq(Steps)] /\ dis \in [Sids -> Seq(Steps)]
  /\ target \in [Sids -> Sids \union {NoSid}]
  /\ online \in [People -> BOOLEAN]
  /\ sidOf \in [People -> Sids \union {NoSid}]
  /\ ownerOf \subseteq Sids /\ chatOf \subseteq Sids
  /\ room \subseteq Sids /\ talk \subseteq Sids
  /\ visit \in [Visits -> Visit \union {NoVisit}]
  /\ logOf \in [Customers -> Visits \union {NoVisit}]
  /\ copying \in [Visits -> Nat]
  /\ ending \in [Sids -> Visits \union {NoVisit}]
  /\ crossed \subseteq Customers
  /\ bus \in Seq(Event)
  /\ view \in [Sids -> [People -> {"unknown", "online", "offline"}]]
  /\ cut \subseteq People /\ stuck \subseteq People /\ unsaid \subseteq People
  /\ overlap \subseteq People /\ apart \subseteq Sids

Init ==
  /\ link = [s \in Sids |-> "new"]
  /\ con = [s \in Sids |-> <<>>] /\ dis = [s \in Sids |-> <<>>]
  /\ target = [s \in Sids |-> NoSid]
  /\ online = [p \in People |-> FALSE]
  /\ sidOf = [p \in People |-> NoSid] /\ ownerOf = {} /\ chatOf = {}
  /\ room = {} /\ talk = {}
  /\ visit = [v \in Visits |-> NoVisit]
  /\ logOf = [c \in Customers |-> NoVisit]
  /\ copying = [v \in Visits |-> 0]
  /\ ending = [s \in Sids |-> NoVisit]
  /\ crossed = {}
  /\ bus = <<>>
  /\ view = [s \in Sids |-> [p \in People |-> "unknown"]]
  /\ cut = {} /\ stuck = {} /\ unsaid = {} /\ overlap = {} /\ apart = {}

-----------------------------------------------------------------------------
(* Clients and the network.                                                *)

\* A client connects and passes the checks on its token or customer id.
Connect(s) ==
  /\ link[s] = "new"
  /\ link' = [link EXCEPT ![s] = "up"]
  /\ con' = [con EXCEPT ![s] = Connecting(s)]
  /\ overlap' = IF \E r \in Of(Owner[s]) \ {s} : link[r] = "up" \/ Busy(r)
                THEN overlap \union {Owner[s]} ELSE overlap
  /\ UNCHANGED <<dis, target, online, redis, rooms, visits, bus, view, cut,
                 stuck, unsaid, apart>>

\* The checks fail: on_connect returns False before it awaited anything else.
Refuse(s) ==
  /\ link[s] = "new"
  /\ link' = [link EXCEPT ![s] = "gone"]
  /\ UNCHANGED <<con, dis, target, online, redis, rooms, visits, bus, view,
                 history>>

\* The connection is over: Socket.IO sends nothing more to the socket, and
\* calls on_disconnect.
Drop(s) ==
  /\ link[s] = "up"
  /\ link' = [link EXCEPT ![s] = "gone"]
  /\ dis' = [dis EXCEPT ![s] = Leaving(s)]
  /\ room' = room \ {s} /\ talk' = talk \ {s}
  /\ view' = [view EXCEPT ![s] = [p \in People |-> "unknown"]]

\* A client that is connected goes away.
Close(s) ==
  /\ con[s] = <<>>
  /\ Drop(s)
  /\ UNCHANGED <<con, target, online, redis, visits, bus, history>>

\* A ping timeout while on_connect still runs: Engine.IO's service task calls
\* on_disconnect, and on_connect goes on.
TimeOut(s) ==
  /\ con[s] # <<>>
  /\ Cardinality(cut) < MaxCuts
  /\ Drop(s)
  /\ cut' = cut \union {Owner[s]}
  /\ UNCHANGED <<con, target, online, redis, visits, bus, stuck, unsaid, overlap,
                 apart>>

\* An await of on_connect raises.  Nobody catches it: the handler ends, and the
\* socket stays connected.
ConnectRaises(s) ==
  /\ con[s] # <<>>
  /\ Cardinality(cut) < MaxCuts
  /\ con' = [con EXCEPT ![s] = <<>>]
  /\ target' = [target EXCEPT ![s] = NoSid]
  /\ cut' = cut \union {Owner[s]}
  /\ apart' = apart \union {s}
  /\ UNCHANGED <<link, dis, online, redis, rooms, visits, bus, view, stuck, unsaid,
                 overlap>>

\* Mutant: every tab of the customer leaves.
FaultyLeaveConversation(s) ==
  /\ link[s] = "up" /\ con[s] = <<>> /\ ~IsAgent(s)
  /\ s \in chatOf
  /\ talk' = talk \ Of(Owner[s])
  /\ apart' = apart \union {s}
  /\ UNCHANGED <<link, con, dis, target, online, redis, room, visits, bus,
                 view, cut, stuck, unsaid, overlap>>

\* leave_conversation, sent by a customer's client.
LeaveConversation(s) ==
  /\ link[s] = "up" /\ con[s] = <<>> /\ ~IsAgent(s)
  /\ s \in chatOf
  /\ talk' = talk \ {s}
  /\ apart' = apart \union {s}
  /\ UNCHANGED <<link, con, dis, target, online, redis, room, visits, bus,
                 view, cut, stuck, unsaid, overlap>>

-----------------------------------------------------------------------------
(* Visits.                                                                 *)

VisitsOf(c) == {v \in Visits : visit[v] # NoVisit /\ visit[v].of = c}

\* A visit of c is on its way to c's attributes.
Copying(c) == \E v \in VisitsOf(c) : copying[v] > 0

\* An on_disconnect has read the visit it will end.
Ending(c) == \E s \in Of(c) : dis[s] # <<>> /\ Head(dis[s]) = "Visit"

Elsewhere == UNCHANGED <<link, con, dis, target, online, redis, rooms, bus, view,
                         history>>

\* save_log, after the customer was created or on a page view: the listener
\* for inserts starts the task.
StoreVisit(c) ==
  \E v \in Visits :
    /\ visit[v] = NoVisit
    /\ \A w \in 1 .. v - 1 : visit[w] # NoVisit
    /\ visit' = [visit EXCEPT ![v] = [of |-> c, left |-> FALSE, deleted |-> FALSE]]
    /\ copying' = [copying EXCEPT ![v] = 1]
    /\ crossed' = IF Copying(c) \/ Ending(c) THEN crossed \union {c} ELSE crossed
    /\ UNCHANGED <<logOf, ending>>
    /\ Elsewhere

\* Mutant: the first visit stays.
FaultyCopyVisit(v) ==
  /\ copying[v] > 0
  /\ copying' = [copying EXCEPT ![v] = @ - 1]
  /\ logOf' = [logOf EXCEPT ![visit[v].of] = IF @ = NoVisit THEN v ELSE @]
  /\ UNCHANGED <<visit, ending, crossed>>
  /\ Elsewhere

\* update_customer_last_log.
CopyVisit(v) ==
  /\ copying[v] > 0
  /\ copying' = [copying EXCEPT ![v] = @ - 1]
  /\ logOf' = [logOf EXCEPT ![visit[v].of] = v]
  /\ UNCHANGED <<visit, ending, crossed>>
  /\ Elsewhere

\* The task raises, and nobody hears of it.
LoseVisit(v) ==
  /\ copying[v] > 0
  /\ copying' = [copying EXCEPT ![v] = @ - 1]
  /\ crossed' = crossed \union {visit[v].of}
  /\ UNCHANGED <<visit, logOf, ending>>
  /\ Elsewhere

\* An update of a visit that has been left starts the task again, and with it
\* an old visit can take the place of a later one.
Touched(v) == IF visit'[v].left THEN [copying EXCEPT ![v] = @ + 1] ELSE copying

\* delete_logs: soft_delete is an update.
DeleteVisit(v) ==
  /\ visit[v] # NoVisit /\ ~visit[v].deleted
  /\ visit' = [visit EXCEPT ![v].deleted = TRUE]
  /\ copying' = Touched(v)
  /\ crossed' = IF visit[v].left THEN crossed \union {visit[v].of} ELSE crossed
  /\ UNCHANGED <<logOf, ending>>
  /\ Elsewhere

-----------------------------------------------------------------------------
(* on_connect.                                                             *)

At(h, s, step) == h[s] # <<>> /\ Head(h[s]) = step

Connected(s, step) ==
  /\ At(con, s, step)
  /\ con' = [con EXCEPT ![s] = Tail(@)]
  /\ UNCHANGED <<link, dis, visits, view, cut, overlap, apart>>

\* An await of on_disconnect, or a publication, fails.
MayFail(p) == Cardinality(stuck \union unsaid \union {p}) <= MaxFaults

\* redis_publish, which swallows the error of a publication that fails.
Publish(p, on) ==
  \/ bus' = Append(bus, [who |-> p, on |-> on]) /\ unsaid' = unsaid \ {p}
  \/ MayFail(p) /\ unsaid' = unsaid \union {p} /\ UNCHANGED bus

SetOnline(s) ==
  /\ Connected(s, "Online")
  /\ online' = [online EXCEPT ![Owner[s]] = TRUE]
  /\ stuck' = stuck \ {Owner[s]}
  /\ UNCHANGED <<target, redis, rooms, bus, unsaid>>

\* Customer.update comes before the check of organization_id: a connection
\* refused here leaves its customer online.
NoOrganization(s) ==
  /\ ~IsAgent(s) /\ At(con, s, "SidOf")
  /\ link[s] = "up"
  /\ Cardinality(cut) < MaxCuts
  /\ con' = [con EXCEPT ![s] = <<>>]
  /\ link' = [link EXCEPT ![s] = "gone"]
  /\ cut' = cut \union {Owner[s]}
  /\ UNCHANGED <<dis, target, online, redis, rooms, visits, bus, view, stuck, unsaid,
                 overlap, apart>>

SetSidOf(s) ==
  /\ Connected(s, "SidOf")
  /\ sidOf' = [sidOf EXCEPT ![Owner[s]] = s]
  /\ UNCHANGED <<target, online, ownerOf, chatOf, rooms, bus, stuck, unsaid>>

SetOwnerOf(s) ==
  /\ Connected(s, "OwnerOf")
  /\ ownerOf' = ownerOf \union {s}
  /\ UNCHANGED <<target, online, sidOf, chatOf, rooms, bus, stuck, unsaid>>

\* enter_room does nothing for a socket that is no longer connected.
Enter(r, s) == IF link[s] = "up" THEN r \union {s} ELSE r

EnterRoom(s) ==
  /\ Connected(s, "Room")
  /\ room' = Enter(room, s)
  /\ UNCHANGED <<target, online, redis, talk, bus, stuck, unsaid>>

\* AGENT_ONLINE_CHANNEL, CUSTOMER_LAND_WEBSITE.
TellOnline(s) ==
  /\ Connected(s, "Tell")
  /\ Publish(Owner[s], TRUE)
  /\ UNCHANGED <<target, online, redis, rooms, stuck>>

\* customer_join_conversation is given the customer, not the socket.
FindSid(s) ==
  /\ At(con, s, "FindSid")
  /\ target' = [target EXCEPT ![s] = sidOf[Owner[s]]]
  /\ con' = [con EXCEPT ![s] = IF sidOf[Owner[s]] = NoSid THEN <<>> ELSE Tail(@)]
  /\ UNCHANGED <<link, dis, online, redis, rooms, visits, bus, view, history>>

JoinConversation(s) ==
  /\ Connected(s, "Join")
  /\ talk' = Enter(talk, target[s])
  /\ UNCHANGED <<target, online, redis, room, bus, stuck, unsaid>>

SetConversation(s) ==
  /\ Connected(s, "Chat")
  /\ chatOf' = chatOf \union {target[s]}
  /\ target' = [target EXCEPT ![s] = NoSid]
  /\ UNCHANGED <<online, sidOf, ownerOf, rooms, bus, stuck, unsaid>>

\* customer_join_conversation finds no conversation, or one of its awaits
\* raises, which it swallows: on_connect ends as if nothing had happened.
GiveUpJoin(s) ==
  /\ \E step \in {"FindSid", "Join", "Chat"} : At(con, s, step)
  /\ con' = [con EXCEPT ![s] = <<>>]
  /\ target' = [target EXCEPT ![s] = NoSid]
  /\ apart' = apart \union {s}
  /\ UNCHANGED <<link, dis, online, redis, rooms, visits, bus, view, cut, stuck, unsaid,
                 overlap>>

-----------------------------------------------------------------------------
(* on_disconnect.                                                          *)

Disconnected(s, step) ==
  /\ At(dis, s, step)
  /\ UNCHANGED <<link, con, target, redis, rooms, view, cut, overlap, apart>>

\* on_disconnect goes on; or one of its awaits raises, it swallows that, and ends.
GoOn(s) == dis' = [dis EXCEPT ![s] = Tail(@)]
End(s) == dis' = [dis EXCEPT ![s] = <<>>]

\* int(None) raises when the sid is not in Redis yet, and Redis may fail.
FindOwner(s) ==
  /\ Disconnected(s, "Find")
  /\ \/ s \in ownerOf /\ GoOn(s) /\ UNCHANGED stuck
     \/ /\ s \notin ownerOf \/ MayFail(Owner[s])
        /\ End(s)
        /\ stuck' = stuck \union {Owner[s]}
  /\ UNCHANGED <<online, visits, bus, unsaid>>

\* Customer.update returns the row as it is now, with the visit to end; it may
\* raise before its commit, or after it.
SetOffline(s) ==
  LET p == Owner[s]
      Reset == online' = [online EXCEPT ![p] = FALSE] /\ stuck' = stuck \ {p}
  IN /\ Disconnected(s, "Offline")
     /\ \/ /\ Reset /\ GoOn(s)
           /\ IF IsAgent(s) THEN UNCHANGED <<ending, crossed>>
              ELSE /\ ending' = [ending EXCEPT ![s] = logOf[p]]
                   /\ crossed' = IF Copying(p) THEN crossed \union {p} ELSE crossed
           /\ UNCHANGED unsaid
        \/ /\ MayFail(p) /\ Reset /\ End(s)
           /\ unsaid' = unsaid \union {p}
           /\ UNCHANGED <<ending, crossed>>
        \/ /\ MayFail(p) /\ End(s)
           /\ stuck' = stuck \union {p}
           /\ UNCHANGED <<online, ending, crossed, unsaid>>
     /\ UNCHANGED <<visit, logOf, copying, bus>>

\* update_log raises for a customer whose attributes are still NULL, and when
\* the database fails, before its commit or after it.
EndVisit(s) ==
  LET v == ending[s]
      Leave == visit' = [visit EXCEPT ![v].left = TRUE] /\ copying' = Touched(v)
  IN /\ Disconnected(s, "Visit")
     /\ \/ v # NoVisit /\ Leave /\ GoOn(s) /\ UNCHANGED unsaid
        \/ /\ v = NoVisit \/ MayFail(Owner[s])
           /\ End(s)
           /\ unsaid' = unsaid \union {Owner[s]}
           /\ (v # NoVisit /\ Leave) \/ UNCHANGED <<visit, copying>>
     /\ ending' = [ending EXCEPT ![s] = NoVisit]
     /\ UNCHANGED <<online, logOf, crossed, bus, stuck>>

\* Mutant: the event carries the socket instead of the person.
FaultyTellOffline(s) ==
  /\ Disconnected(s, "Tell")
  /\ GoOn(s)
  /\ bus' = Append(bus, [who |-> s, on |-> FALSE])
  /\ UNCHANGED <<online, visits, stuck, unsaid>>

\* AGENT_OFFLINE_CHANNEL, CUSTOMER_OFFLINE_CHANNEL.
TellOffline(s) ==
  /\ Disconnected(s, "Tell")
  /\ GoOn(s)
  /\ Publish(Owner[s], FALSE)
  /\ UNCHANGED <<online, visits, stuck>>

-----------------------------------------------------------------------------
(* redis_listener and chat_subscriber.                                     *)

\* Agents hear of agents and customers, customers of agents.
Hears(s, e) == s \in room /\ (IsAgent(s) \/ e.who \in Agents)

Told(e) ==
  [s \in Sids |-> IF Hears(s, e)
                  THEN [view[s] EXCEPT ![e.who] = IF e.on THEN "online"
                                                  ELSE "offline"]
                  ELSE view[s]]

\* Mutant: events that wait overtake each other.
FaultyEmit ==
  /\ bus # <<>>
  /\ bus' = SubSeq(bus, 1, Len(bus) - 1)
  /\ view' = Told(bus[Len(bus)])
  /\ UNCHANGED <<link, con, dis, target, online, redis, rooms, visits, history>>

\* The listener hands one event after the other to chat_subscriber.
Emit ==
  /\ bus # <<>>
  /\ bus' = Tail(bus)
  /\ view' = Told(Head(bus))
  /\ UNCHANGED <<link, con, dis, target, online, redis, rooms, visits, history>>

-----------------------------------------------------------------------------
OnConnect(s) ==
  \/ SetOnline(s) \/ SetSidOf(s) \/ SetOwnerOf(s) \/ EnterRoom(s)
  \/ TellOnline(s) \/ FindSid(s) \/ JoinConversation(s) \/ SetConversation(s)
  \/ GiveUpJoin(s)

OnDisconnect(s) ==
  FindOwner(s) \/ SetOffline(s) \/ EndVisit(s) \/ TellOffline(s)

Client(s) ==
  \/ Connect(s) \/ Refuse(s) \/ Close(s) \/ TimeOut(s) \/ NoOrganization(s)
  \/ ConnectRaises(s) \/ LeaveConversation(s)

Next ==
  \/ \E s \in Sids : Client(s) \/ OnConnect(s) \/ OnDisconnect(s)
  \/ \E c \in Customers : StoreVisit(c)
  \/ \E v \in Visits : CopyVisit(v) \/ LoseVisit(v) \/ DeleteVisit(v)
  \/ Emit

Spec == Init /\ [][Next]_vars

=============================================================================
