---------------------------- MODULE ChatMessages ----------------------------
(***************************************************************************)
(* Conversations between customers and agents: modules/chat, the chat      *)
(* routes of modules/visitor/router.py, events/message_event.py, and the   *)
(* path of an event over Redis to the sockets of agents and customers      *)
(* (config/redis, websocket/subscribers).                                  *)
(*                                                                         *)
(* A request and a socket event run as a task of the event loop; each call *)
(* of a model's classmethod and each publication is one step.  Storing a   *)
(* message starts a background task that copies it to the conversation's   *)
(* attributes.last_message.  A customer has one socket, that is connected, *)
(* and so has an agent; who they are is the subject of ChatPresence.       *)
(***************************************************************************)
EXTENDS Integers, Sequences, FiniteSets

CONSTANTS
  Procs,             \* tasks that serve requests and socket events
  Orgs, Staff, Guests,      \* Staff: agents, Guests: customers
  OrgOf,             \* organization of an agent or a customer
  Convs, Ids,        \* ids of conversations and of messages
  None,              \* Python None, SQL NULL
  Absent,            \* no such row
  Ops,               \* operations of an instance
  MaxRequests,       \* bound: requests received
  MaxFaults          \* bound: failing awaits, publications and tasks

Steps == {"Find", "Insert", "Reopen", "TellReopened", "Publish", "Resolve", "Create",
          "Seat", "FindMessage", "Rewrite", "PublishEdit", "MarkSeen", "SaveLast",
          "PublishSeen", "FindMember", "AddMember"}

Conv == [org : Orgs, guest : Guests, resolved : BOOLEAN]

\* `user` tells whether user_id is set; text stands for the content, prev for
\* edited_content.
Message == [conv : Convs, user : BOOLEAN, text : Nat, prev : Nat \union {None},
            seen : BOOLEAN]

Snapshot == [id : Ids, text : Nat, seen : BOOLEAN]

ASSUME ChatAssumption ==
  /\ OrgOf \in [Staff \union Guests -> Orgs]
  /\ Staff \intersect Guests = {}
  /\ None \notin Orgs \union Convs \union Nat /\ None # "ok"
  /\ Absent \notin Conv \union Message
  /\ Ids \subseteq Nat
  /\ IsFiniteSet(Procs)
  /\ Ops \subseteq {"say", "edit", "see", "resolve", "join", "open"}
  /\ MaxRequests \in Nat /\ MaxFaults \in Nat

VARIABLES
  conv,              \* org_conversations
  msg,               \* org_messages
  last,              \* attributes.last_message of a conversation
  members,           \* rows of org_conversation_members, for one agent
  seats,             \* who is in the room of which conversation
  tasks,             \* background tasks not yet through
  todo,              \* steps a task has left
  local,             \* parameters and local variables of its handler
  answer,            \* how its last request was answered
  bus,               \* events published and not yet emitted
  inbox,             \* events each socket received
  fresh,             \* history: tasks that looked their conversation up
                     \*   after it was resolved last
  seated,            \* history: tasks whose customer had a seat by then
  touched,           \* history: message stored or changed last
  disturbed,         \* history: conversations whose writers overlapped or
                     \*   failed
  lost,              \* history: messages whose publication failed
  crowd,             \* history: most joins of a conversation under way
  requests, faults   \* consumed bounds

tables == <<conv, msg, last, members>>
sockets == <<seats, bus, inbox>>
history == <<fresh, seated, touched, disturbed, lost, crowd>>
bounds == <<requests, faults>>
vars == <<tables, tasks, todo, local, answer, sockets, history, bounds>>

Event == [kind : {"message", "edit", "seen", "unresolved", "joined"},
          conv : Convs, id : Ids \union {None}, customer : BOOLEAN,
          org : Orgs \union {None}]

Blank == [op |-> None, agent |-> FALSE, user |-> FALSE, org |-> None,
          conv |-> None, id |-> None, text |-> 0, old |-> None,
          resolved |-> FALSE]

Local == [op : Ops \union {None}, agent : BOOLEAN, user : BOOLEAN,
          org : Orgs \union {None}, conv : Convs \union {None},
          id : Ids \union {None}, text : Nat, old : Nat \union {None},
          resolved : BOOLEAN]

Stored(t, x) == t[x] # Absent
Running(p) == todo[p] # <<>>

\* Requests that store or change messages of a conversation.
Writes(p, k) == Running(p) /\ local[p].conv = k
                /\ local[p].op \in {"say", "edit", "see", "open"}

Busy(k) == (\E p \in Procs : Writes(p, k)) \/ \E t \in tasks : t.conv = k

Joins(k) == {p \in Procs : Running(p) /\ local[p].op = "join" /\ local[p].conv = k}

TypeOK ==
  /\ conv \in [Convs -> Conv \union {Absent}]
  /\ msg \in [Ids -> Message \union {Absent}]
  /\ last \in [Convs -> Snapshot \union {None}]
  /\ members \in [Convs -> Nat]
  /\ seats \subseteq Guests \X Convs
  /\ tasks \subseteq [conv : Convs, snap : Snapshot]
  /\ todo \in [Procs -> Seq(Steps)]
  /\ local \in [Procs -> Local]
  /\ answer \in [Procs -> {None, "ok", "error"}]
  /\ bus \in Seq(Event)
  /\ inbox \in [Staff \union Guests -> SUBSET Event]
  /\ fresh \subseteq Procs /\ seated \subseteq Procs
  /\ touched \in [Convs -> Ids \union {None}]
  /\ disturbed \subseteq Convs /\ lost \subseteq Ids
  /\ crowd \in [Convs -> Nat]
  /\ requests \in Nat /\ faults \in Nat

\* A database of conversations without messages.  Customers are in their rooms;
\* a socket that connects names the conversation whose room it enters, and
\* nothing says that it is one of its customer.
Init ==
  /\ conv \in [Convs -> Conv \union {Absent}]
  /\ msg = [m \in Ids |-> Absent]
  /\ last = [k \in Convs |-> None]
  /\ members = [k \in Convs |-> 0]
  /\ seats \in SUBSET (Guests \X {k \in Convs : Stored(conv, k)})
  /\ \A k \in Convs : Stored(conv, k) => <<conv[k].guest, k>> \in seats
  /\ tasks = {}
  /\ todo = [p \in Procs |-> <<>>]
  /\ local = [p \in Procs |-> Blank]
  /\ answer = [p \in Procs |-> None]
  /\ bus = <<>>
  /\ inbox = [s \in Staff \union Guests |-> {}]
  /\ fresh = {} /\ seated = {}
  /\ touched = [k \in Convs |-> None]
  /\ disturbed = {} /\ lost = {}
  /\ crowd = [k \in Convs |-> 0]
  /\ requests = 0 /\ faults = 0

-----------------------------------------------------------------------------
(* Steps of a handler.                                                     *)

At(p, step) == Running(p) /\ Head(todo[p]) = step

\* The step is done; the last one answers the request.
Advance(p) ==
  /\ todo' = [todo EXCEPT ![p] = Tail(@)]
  /\ answer' = [answer EXCEPT ![p] = IF Len(todo[p]) = 1 THEN "ok" ELSE None]

Leave(p, result) ==
  /\ todo' = [todo EXCEPT ![p] = <<>>]
  /\ answer' = [answer EXCEPT ![p] = result]

Keep(p, field, value) == local' = [local EXCEPT ![p][field] = value]

Publish(e) == bus' = Append(bus, e)

\* Mutant: the copy is made before the message has its id.
FaultyStore(k, m, message) ==
  /\ msg' = [msg EXCEPT ![m] = message]
  /\ tasks' = tasks \union
       {[conv |-> k, snap |-> [id |-> None, text |-> message.text,
                               seen |-> message.seen]]}
  /\ touched' = [touched EXCEPT ![k] = m]

\* Message.create and Message.update: the listener of the session starts a
\* background task with what was stored.
Store(k, m, message) ==
  /\ msg' = [msg EXCEPT ![m] = message]
  /\ tasks' = tasks \union
       {[conv |-> k, snap |-> [id |-> m, text |-> message.text,
                               seen |-> message.seen]]}
  /\ touched' = [touched EXCEPT ![k] = m]

-----------------------------------------------------------------------------
(* MessageService.create and the requests around it.                       *)

\* Conversation.find_one: of the tenant, or the request is refused.
FindConversation(p) ==
  LET k == local[p].conv
  IN  /\ At(p, "Find")
      /\ Stored(conv, k) /\ conv[k].org = local[p].org
      /\ Keep(p, "resolved", conv[k].resolved)
      /\ fresh' = fresh \union {p}
      /\ seated' = IF <<conv[k].guest, k>> \in seats THEN seated \union {p} ELSE seated
      /\ Advance(p)
      /\ UNCHANGED <<tables, tasks, sockets, touched, disturbed, lost, crowd,
                     bounds>>

NotFound(p) ==
  LET k == local[p].conv
  IN  /\ At(p, "Find")
      /\ Stored(conv, k) => conv[k].org # local[p].org
      /\ Leave(p, "error")
      /\ UNCHANGED <<tables, tasks, local, sockets, history, bounds>>

InsertMessage(p) ==
  /\ At(p, "Insert")
  /\ \E m \in Ids :
       /\ ~Stored(msg, m)
       /\ \A n \in Ids : n < m => Stored(msg, n)
       /\ Store(local[p].conv, m,
                [conv |-> local[p].conv, user |-> local[p].user,
                 text |-> local[p].text, prev |-> None, seen |-> FALSE])
       /\ Keep(p, "id", m)
  /\ Advance(p)
  /\ UNCHANGED <<conv, last, members, sockets, fresh, seated, disturbed, lost,
                 crowd, bounds>>

\* Mutant: the conversation stays as it is, though the event says otherwise.
FaultyReopen(p) ==
  /\ At(p, "Reopen") /\ local[p].resolved
  /\ Advance(p)
  /\ UNCHANGED <<tables, tasks, local, sockets, history, bounds>>

\* A customer's message opens a conversation found resolved again.
Reopen(p) ==
  /\ At(p, "Reopen") /\ local[p].resolved
  /\ conv' = [conv EXCEPT ![local[p].conv].resolved = FALSE]
  /\ Advance(p)
  /\ UNCHANGED <<msg, last, members, tasks, local, sockets, history, bounds>>

TellReopened(p) ==
  LET k == local[p].conv
  IN  /\ At(p, "TellReopened")
      /\ Publish([kind |-> "unresolved", conv |-> k, id |-> None,
                  customer |-> FALSE, org |-> conv[k].org])
      /\ Advance(p)
      /\ UNCHANGED <<tables, tasks, local, seats, inbox, history, bounds>>

NotResolved(p) ==
  /\ At(p, "Reopen") /\ ~local[p].resolved
  /\ todo' = [todo EXCEPT ![p] = Tail(Tail(@))]
  /\ UNCHANGED <<tables, tasks, local, answer, sockets, history, bounds>>

\* Mutant: the payload is published without its organization.
FaultyPublishMessage(p) ==
  /\ At(p, "Publish")
  /\ Publish([kind |-> "message", conv |-> local[p].conv, id |-> local[p].id,
              customer |-> ~local[p].user, org |-> None])
  /\ Advance(p)
  /\ UNCHANGED <<tables, tasks, local, seats, inbox, history, bounds>>

\* MESSAGE_CHANNEL; is_customer says that there is no user_id.
PublishMessage(p) ==
  /\ At(p, "Publish")
  /\ Publish([kind |-> "message", conv |-> local[p].conv, id |-> local[p].id,
              customer |-> ~local[p].user, org |-> local[p].org])
  /\ Advance(p)
  /\ UNCHANGED <<tables, tasks, local, seats, inbox, history, bounds>>

ResolveConversation(p) ==
  LET k == local[p].conv
  IN  /\ At(p, "Resolve")
      /\ conv' = [conv EXCEPT ![k].resolved = TRUE]
      /\ fresh' = {q \in fresh : local[q].conv # k}
      /\ Advance(p)
      /\ UNCHANGED <<msg, last, members, tasks, local, sockets, seated, touched,
                     disturbed, lost, crowd, bounds>>

\* Of the tenant and of the customer the request names, whoever that is.
CreateConversation(p) ==
  LET k == local[p].conv
  IN  /\ At(p, "Create")
      /\ ~Stored(conv, k)
      /\ \E g \in Guests :
           conv' = [conv EXCEPT ![k] = [org |-> local[p].org, guest |-> g,
                                        resolved |-> FALSE]]
      /\ Advance(p)
      /\ UNCHANGED <<msg, last, members, tasks, local, sockets, history, bounds>>

\* customer_join_conversation.
TakeSeat(p) ==
  LET k == local[p].conv
  IN  /\ At(p, "Seat")
      /\ seats' = seats \union {<<conv[k].guest, k>>}
      /\ Publish([kind |-> "joined", conv |-> k, id |-> None,
                  customer |-> FALSE, org |-> conv[k].org])
      /\ Advance(p)
      /\ UNCHANGED <<tables, tasks, local, inbox, history, bounds>>

\* It swallows its exceptions and returns early for a customer without a
\* socket: the handler goes on, with or without the seat.
MissSeat(p) ==
  LET k == local[p].conv
  IN  /\ At(p, "Seat")
      /\ \/ seats' = seats \union {<<conv[k].guest, k>>}
         \/ UNCHANGED seats
      /\ Advance(p)
      /\ UNCHANGED <<tables, tasks, local, bus, inbox, history, bounds>>

-----------------------------------------------------------------------------
(* MessageService.edit, on_message_seen, joined_conversation.              *)

FindMessage(p) ==
  LET m == local[p].id
  IN  /\ At(p, "FindMessage")
      /\ Keep(p, "old", msg[m].text)
      /\ Advance(p)
      /\ UNCHANGED <<tables, tasks, sockets, history, bounds>>

\* Mutant: only new messages are copied to the conversation.
FaultyRewrite(p) ==
  LET m == local[p].id
  IN  /\ At(p, "Rewrite")
      /\ msg' = [msg EXCEPT ![m].text = local[p].text, ![m].prev = local[p].old]
      /\ touched' = [touched EXCEPT ![msg[m].conv] = m]
      /\ Advance(p)
      /\ UNCHANGED <<conv, last, members, tasks, local, sockets, fresh, seated,
                     disturbed, lost, crowd, bounds>>

Rewrite(p) ==
  LET m == local[p].id
  IN  /\ At(p, "Rewrite")
      /\ Store(msg[m].conv, m, [msg[m] EXCEPT !.text = local[p].text,
                                              !.prev = local[p].old])
      /\ Advance(p)
      /\ UNCHANGED <<conv, last, members, local, sockets, fresh, seated,
                     disturbed, lost, crowd, bounds>>

\* The payload of an edit has no organization_id.
PublishEdit(p) ==
  LET m == local[p].id
  IN  /\ At(p, "PublishEdit")
      /\ Publish([kind |-> "edit", conv |-> msg[m].conv, id |-> m,
                  customer |-> ~local[p].user, org |-> None])
      /\ Advance(p)
      /\ UNCHANGED <<tables, tasks, local, seats, inbox, history, bounds>>

\* save_message_seen, first half; text keeps the content it goes on with.
MarkSeen(p) ==
  LET m == local[p].id
  IN  /\ At(p, "MarkSeen")
      /\ Store(msg[m].conv, m, [msg[m] EXCEPT !.seen = TRUE])
      /\ Keep(p, "text", msg[m].text)
      /\ Advance(p)
      /\ UNCHANGED <<conv, last, members, sockets, fresh, seated, disturbed,
                     lost, crowd, bounds>>

\* The second half writes last_message itself, as the background task does.
SaveLastMessage(p) ==
  LET m == local[p].id
  IN  /\ At(p, "SaveLast")
      /\ last' = [last EXCEPT ![msg[m].conv] =
                    [id |-> m, text |-> local[p].text, seen |-> TRUE]]
      /\ Advance(p)
      /\ UNCHANGED <<conv, msg, members, tasks, local, sockets, history, bounds>>

PublishSeen(p) ==
  LET m == local[p].id
  IN  /\ At(p, "PublishSeen")
      /\ Publish([kind |-> "seen", conv |-> msg[m].conv, id |-> m,
                  customer |-> ~local[p].agent, org |-> local[p].org])
      /\ Advance(p)
      /\ UNCHANGED <<tables, tasks, local, seats, inbox, history, bounds>>

\* Mutant: the membership is not looked for.
FaultyFindMember(p) ==
  /\ At(p, "FindMember")
  /\ Advance(p)
  /\ UNCHANGED <<tables, tasks, local, sockets, history, bounds>>

\* A row for the agent that is found ends the request.
FindMember(p) ==
  /\ At(p, "FindMember")
  /\ IF members[local[p].conv] = 0 THEN Advance(p) ELSE Leave(p, "ok")
  /\ UNCHANGED <<tables, tasks, local, sockets, history, bounds>>

AddMember(p) ==
  /\ At(p, "AddMember")
  /\ members' = [members EXCEPT ![local[p].conv] = @ + 1]
  /\ Advance(p)
  /\ UNCHANGED <<conv, msg, last, tasks, local, sockets, history, bounds>>

-----------------------------------------------------------------------------
(* Background tasks and the listener.                                      *)

\* update_conversation_last_message, whichever of the tasks gets there first.
UpdateLastMessage ==
  \E t \in tasks :
    /\ last' = [last EXCEPT ![t.conv] = t.snap]
    /\ tasks' = tasks \ {t}
    /\ UNCHANGED <<conv, msg, members, todo, local, answer, sockets, history,
                   bounds>>

\* chat_subscriber: the rooms an event is emitted to.
ToStaff(e) == {s \in Staff : OrgOf[s] = e.org}

ToGuests(e) ==
  IF e.kind \in {"message", "edit", "seen"} /\ ~e.customer
  THEN {g \in Guests : <<g, e.conv>> \in seats} ELSE {}

Receivers(e) ==
  ToGuests(e) \union (IF e.kind = "seen" /\ ~e.customer THEN {} ELSE ToStaff(e))

Emit ==
  /\ bus # <<>>
  /\ bus' = Tail(bus)
  /\ inbox' = [s \in Staff \union Guests |->
                 IF s \in Receivers(Head(bus)) THEN inbox[s] \union {Head(bus)}
                 ELSE inbox[s]]
  /\ UNCHANGED <<tables, tasks, todo, local, answer, seats, history, bounds>>

-----------------------------------------------------------------------------
(* Requests and faults.                                                    *)

Saying == <<"Find", "Insert", "Reopen", "TellReopened", "Publish">>

\* An agent who opens a conversation does so without user_id: the message
\* passes for one of the customer.
Script(l) ==
  CASE l.op = "say" -> IF l.user THEN <<"Find", "Insert", "Publish">> ELSE Saying
    [] l.op = "open" -> IF l.agent THEN <<"Create", "Seat">> \o Saying
                        ELSE <<"Create">> \o Saying \o <<"Seat">>
    [] l.op = "edit" -> <<"FindMessage", "Rewrite", "PublishEdit">>
    [] l.op = "see" -> <<"MarkSeen", "SaveLast", "PublishSeen">>
    [] l.op = "resolve" -> <<"Find", "Resolve">>
    [] l.op = "join" -> <<"FindMember", "AddMember">>

\* What a client can ask for.  Edits and seen marks name a stored message, of
\* any organization: neither handler checks, and a seen mark carries the
\* organization its client sent.  A conversation is opened under an id of its
\* own.
Asks(l) ==
  /\ l.op \in {"resolve", "join"} => l.agent
  /\ l.op \in {"edit", "see"} => /\ l.id # None /\ Stored(msg, l.id)
                                 /\ l.conv = msg[l.id].conv
  /\ l.op \notin {"edit", "see"} => l.id = None
  /\ l.op = "open" => /\ ~Stored(conv, l.conv)
                      /\ \A q \in Procs : Running(q) => local[q].conv # l.conv
  /\ l.op # "open" => Stored(conv, l.conv)

\* Every edit brings a text of its own.
Request(op, agent, o, k, m) ==
  [op |-> op, agent |-> agent, user |-> agent /\ op # "open", org |-> o, conv |-> k,
   id |-> m, resolved |-> FALSE, old |-> None,
   text |-> IF op = "edit" THEN requests + 1 ELSE 0]

Begin(p, l) ==
  /\ Asks(l)
  /\ local' = [local EXCEPT ![p] = l]
  /\ todo' = [todo EXCEPT ![p] = Script(l)]
  /\ disturbed' = IF l.op \notin {"resolve", "join"} /\ Busy(l.conv)
                  THEN disturbed \union {l.conv} ELSE disturbed
  /\ crowd' = IF l.op = "join" /\ Cardinality(Joins(l.conv)) >= crowd[l.conv]
              THEN [crowd EXCEPT ![l.conv] = Cardinality(Joins(l.conv)) + 1]
              ELSE crowd

Receive(p) ==
  /\ ~Running(p)
  /\ requests < MaxRequests
  /\ requests' = requests + 1
  /\ \E op \in Ops, agent \in BOOLEAN, o \in Orgs, k \in Convs,
        m \in Ids \union {None} : Begin(p, Request(op, agent, o, k, m))
  /\ answer' = [answer EXCEPT ![p] = None]
  /\ fresh' = fresh \ {p} /\ seated' = seated \ {p}
  /\ UNCHANGED <<tables, tasks, sockets, touched, lost, faults>>

\* An await of the handler raises; what it committed stays.
Fail(p) ==
  /\ Running(p) /\ faults < MaxFaults
  /\ faults' = faults + 1
  /\ Leave(p, "error")
  /\ UNCHANGED <<tables, tasks, local, sockets, history, requests>>

\* redis_publish swallows every error: the event is gone, the handler goes on.
LosePublication(p) ==
  /\ \E step \in {"Publish", "PublishEdit", "PublishSeen", "TellReopened"} :
       At(p, step)
  /\ faults < MaxFaults
  /\ faults' = faults + 1
  /\ lost' = IF At(p, "Publish") THEN lost \union {local[p].id} ELSE lost
  /\ Advance(p)
  /\ UNCHANGED <<tables, tasks, local, sockets, fresh, seated, touched,
                 disturbed, crowd, requests>>

\* Nobody awaits a background task: its exception changes nothing else.
LoseTask ==
  /\ faults < MaxFaults
  /\ faults' = faults + 1
  /\ \E t \in tasks :
       tasks' = tasks \ {t} /\ disturbed' = disturbed \union {t.conv}
  /\ UNCHANGED <<tables, todo, local, answer, sockets, fresh, seated, touched,
                 lost, crowd, requests>>

Step(p) ==
  \/ FindConversation(p) \/ NotFound(p) \/ InsertMessage(p) \/ Reopen(p)
  \/ TellReopened(p) \/ NotResolved(p) \/ PublishMessage(p)
  \/ ResolveConversation(p) \/ CreateConversation(p) \/ TakeSeat(p) \/ MissSeat(p)
  \/ FindMessage(p) \/ Rewrite(p) \/ PublishEdit(p)
  \/ MarkSeen(p) \/ SaveLastMessage(p) \/ PublishSeen(p)
  \/ FindMember(p) \/ AddMember(p)

Next ==
  \/ \E p \in Procs : Receive(p) \/ Step(p) \/ Fail(p) \/ LosePublication(p)
  \/ UpdateLastMessage \/ LoseTask
  \/ Emit

Spec == Init /\ [][Next]_vars

=============================================================================
