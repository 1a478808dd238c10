------------------------- MODULE TicketConversation -------------------------
(***************************************************************************)
(* The conversation on a ticket: modules/ticket/services/conversation.py,  *)
(* which agents and, by mail, customers reach through the API, and the     *)
(* dramatiq actors of tasks/ticket_task.py that mail the agents' answers   *)
(* and show the customers' replies.                                        *)
(*                                                                         *)
(* A request stores or changes one message and is the name of the text it  *)
(* brings; a message goes by the name of the request that stored it.  Each *)
(* call of a model's classmethod is one transaction; requests and actors   *)
(* interleave between two calls.  A call that raises may have committed:   *)
(* create and update refresh the row after the commit.                     *)
(***************************************************************************)
EXTENDS Integers, SequencesExt

CONSTANTS
  Requests,        \* requests received in the life of the system
  Tickets,
  Null,
  MailTail,        \* how many messages ticket-message.html shows
  Workers,         \* how many tasks run at once
  MaxFaults        \* bound: calls that raise, worker crashes

ASSUME TicketConversationAssumption ==
  /\ MailTail \in Nat \ {0} /\ Workers \in Nat \ {0}
  /\ MaxFaults \in 0 .. 19         \* dramatiq gives a task up after 20 retries
  /\ Null \notin Tickets \union Requests

VARIABLES
  deleted,         \* tickets whose deleted_at is set
  req,             \* requests: operation, parameters, local variables
  table,           \* ticket_messages in the order of their ids
  stamp, clock,    \* created_at of the messages; the next instant
  texts,           \* contents of each message so far, the stored one last
  versions,        \* rows of ticket_messages_versions: number and content
  rough,           \* messages whose writers overlapped or failed (a history)
  task,            \* the task each request has put on the queue
  again,           \* how often a task was run again
  handed,          \* how often each mail was given to SendGrid
  rows,            \* what org_tickets_logs says of each mail
  refused,         \* mails SendGrid did not take (a history)
  unlogged,        \* mails whose "sent" row raised (a history)
  shown,           \* how often each reply was broadcast
  faults

storeVars == <<table, stamp, clock, texts, versions, rough>>
mailVars  == <<task, again, handed, rows, refused, unlogged, shown>>
vars == <<deleted, req, storeVars, mailVars, faults>>

Messages == ToSet(table)

\* `at` is the call a request makes next; `base` the version check_previous_
\* version found, 0 for None.
Request == [op : {"send", "edit", "reply", "confirm", "none"},
            ticket : Tickets \union {Null}, message : Requests \union {Null},
            at : {"new", "insert", "update", "check", "version", "queue",
                  "ok", "error"},
            base : Nat]

Task == [at : {"none", "queued", "ticket", "history", "hand", "sent", "failed",
               "emit", "ack", "done"},
         body : SUBSET Requests]

TypeOK ==
  /\ deleted \subseteq Tickets
  /\ req \in [Requests -> Request]
  /\ table \in Seq(Requests)
  /\ stamp \in [Requests -> Nat] /\ clock \in Nat
  /\ texts \in [Requests -> Seq(Requests)]
  /\ versions \in [Requests -> SUBSET (Nat \X Requests)]
  /\ rough \subseteq Requests
  /\ task \in [Requests -> Task]
  /\ again \in [Requests -> Nat] /\ handed \in [Requests -> Nat]
  /\ rows \in [Requests -> SUBSET {"sent", "failed"}]
  /\ refused \subseteq Requests /\ unlogged \subseteq Requests
  /\ shown \in [Requests -> Nat]
  /\ faults \in Nat

Init ==
  /\ deleted = {}
  /\ req = [r \in Requests |-> [op |-> "none", ticket |-> Null, message |-> Null,
                                at |-> "new", base |-> 0]]
  /\ table = <<>>
  /\ stamp = [r \in Requests |-> 0] /\ clock = 1
  /\ texts = [r \in Requests |-> <<>>]
  /\ versions = [r \in Requests |-> {}]
  /\ rough = {}
  /\ task = [r \in Requests |-> [at |-> "none", body |-> {}]]
  /\ again = [r \in Requests |-> 0] /\ handed = [r \in Requests |-> 0]
  /\ rows = [r \in Requests |-> {}]
  /\ refused = {} /\ unlogged = {}
  /\ shown = [r \in Requests |-> 0]
  /\ faults = 0

-----------------------------------------------------------------------------
(* Requests: what the handlers look up first.                              *)

Fault == faults < MaxFaults /\ faults' = faults + 1

At(r, where) == req[r].at = where

Goto(r, where) == req' = [req EXCEPT ![r].at = where]

Begin(r, op, t, m, where) ==
  /\ At(r, "new")
  /\ req' = [req EXCEPT ![r] = [op |-> op, ticket |-> t, message |-> m,
                                at |-> where, base |-> 0]]

\* The model object is made, with its created_at, before the await that
\* stores it.
Draft(r) ==
  /\ stamp' = [stamp EXCEPT ![r] = clock]
  /\ clock' = clock + 1

\* send_message: ticket_exists and the lookup of the user.
Send(r) ==
  /\ \E t \in Tickets \ deleted : Begin(r, "send", t, r, "insert")
  /\ Draft(r)
  /\ UNCHANGED <<deleted, table, texts, versions, rough, mailVars, faults>>

\* ticket_exists answers None for a ticket that is gone and for a failed query.
NoTicket(r) ==
  /\ \/ \E t \in deleted : Begin(r, "send", t, Null, "error")
        /\ UNCHANGED faults
     \/ \E t \in Tickets : Begin(r, "send", t, Null, "error")
        /\ Fault
  /\ UNCHANGED <<deleted, storeVars, mailVars>>

\* edit_message finds the message, whatever became of its ticket.
Edit(r) ==
  /\ \E m \in Messages : Begin(r, "edit", req[m].ticket, m, "update")
  /\ UNCHANGED <<deleted, storeVars, mailVars, faults>>

\* Tickets the customer has an address for: encode_ticket made one for each
\* mail, and decode_ticket finds the ticket in it again.
Addressed == {req[x].ticket : x \in {y \in Requests : handed[y] > 0}}

\* save_message_from_email; nothing looks whether the ticket was deleted.
Reply(r) ==
  /\ \E t \in Addressed : Begin(r, "reply", t, r, "insert")
  /\ Draft(r)
  /\ UNCHANGED <<deleted, table, texts, versions, rough, mailVars, faults>>

\* send_confirmation_email, once the ticket has been found.
Confirm(r) ==
  /\ \E t \in Tickets \ deleted : Begin(r, "confirm", t, Null, "queue")
  /\ UNCHANGED <<deleted, storeVars, mailVars, faults>>

DeleteTicket(t) ==
  /\ t \notin deleted
  /\ deleted' = deleted \union {t}
  /\ UNCHANGED <<req, storeVars, mailVars, faults>>

-----------------------------------------------------------------------------
(* Requests: what they store.                                              *)

Store(r) ==
  /\ table' = Append(table, r)
  /\ texts' = [texts EXCEPT ![r] = <<r>>]

\* TicketMessage.create.
Insert(r) ==
  /\ At(r, "insert")
  /\ Store(r)
  /\ Goto(r, IF req[r].op = "send" THEN "version" ELSE "queue")
  /\ UNCHANGED <<deleted, stamp, clock, versions, rough, mailVars, faults>>

\* An agent gets an error; the answer to SendGrid is the same as ever.
InsertRaises(r) ==
  /\ At(r, "insert")
  /\ Fault
  /\ \/ Store(r) /\ rough' = rough \union {r}
     \/ UNCHANGED <<table, texts, rough>>
  /\ Goto(r, IF req[r].op = "send" THEN "error" ELSE "ok")
  /\ UNCHANGED <<deleted, stamp, clock, versions, mailVars>>

\* Requests that have written message m and not yet its version.
Writers(m) == {r \in Requests : req[r].message = m /\ req[r].at \in {"check", "version"}}

Write(r) == texts' = [texts EXCEPT ![req[r].message] = Append(@, r)]

\* message.update, which writes the content only.
Update(r) ==
  /\ At(r, "update")
  /\ Write(r)
  /\ rough' = IF Writers(req[r].message) = {} THEN rough
              ELSE rough \union {req[r].message}
  /\ Goto(r, "check")
  /\ UNCHANGED <<deleted, table, stamp, clock, versions, mailVars, faults>>

UpdateRaises(r) ==
  /\ At(r, "update")
  /\ Fault
  /\ \/ Write(r) /\ rough' = rough \union {req[r].message}
     \/ UNCHANGED <<texts, rough>>
  /\ Goto(r, "error")
  /\ UNCHANGED <<deleted, table, stamp, clock, versions, mailVars>>

\* Faulty: the first version, where max is asked for.
FaultyNewest(m) == IF versions[m] = {} THEN 0 ELSE Min({v[1] : v \in versions[m]})

\* Faulty: counts from -1.
FaultyNone(m) == IF versions[m] = {} THEN -1 ELSE Max({v[1] : v \in versions[m]})

Newest(m) == IF versions[m] = {} THEN 0 ELSE Max({v[1] : v \in versions[m]})

\* check_previous_version.  send_message asks too and makes nothing of the
\* answer: the version of a new message is 1 on both branches.
CheckVersion(r) ==
  /\ At(r, "check")
  /\ req' = [req EXCEPT ![r].base = Newest(req[r].message), ![r].at = "version"]
  /\ UNCHANGED <<deleted, storeVars, mailVars, faults>>

\* A failed query is answered with None, which starts over at version 1.
CheckRaises(r) ==
  /\ At(r, "check")
  /\ Fault
  /\ Goto(r, "version")
  /\ rough' = rough \union {req[r].message}
  /\ UNCHANGED <<deleted, table, stamp, clock, texts, versions, mailVars>>

SaveVersion(r) ==
  versions' = [versions EXCEPT ![req[r].message] = @ \union {<<req[r].base + 1, r>>}]

AfterVersion(r) == Goto(r, IF req[r].op = "send" THEN "queue" ELSE "ok")

\* save_in_versions.
AddVersion(r) ==
  /\ At(r, "version")
  /\ SaveVersion(r)
  /\ AfterVersion(r)
  /\ UNCHANGED <<deleted, table, stamp, clock, texts, rough, mailVars, faults>>

\* save_in_versions logs the exception and returns.
AddVersionRaises(r) ==
  /\ At(r, "version")
  /\ Fault
  /\ SaveVersion(r) \/ UNCHANGED versions
  /\ rough' = rough \union {req[r].message}
  /\ AfterVersion(r)
  /\ UNCHANGED <<deleted, table, stamp, clock, texts, mailVars>>

\* _send_email, send_confirmation_email or broadcast_ticket_message puts a
\* task on the queue.
Enqueue(r) ==
  /\ At(r, "queue")
  /\ task' = [task EXCEPT ![r].at = "queued"]
  /\ Goto(r, "ok")
  /\ UNCHANGED <<deleted, storeVars, again, handed, rows, refused, unlogged, shown,
                 faults>>

\* A broker that does not answer is logged; the request succeeds.
EnqueueRaises(r) ==
  /\ At(r, "queue")
  /\ Fault
  /\ Goto(r, "ok")
  /\ UNCHANGED <<deleted, storeVars, mailVars>>

Handler(r) ==
  \/ Send(r) \/ NoTicket(r) \/ Edit(r) \/ Reply(r) \/ Confirm(r)
  \/ Insert(r) \/ InsertRaises(r) \/ Update(r) \/ UpdateRaises(r)
  \/ CheckVersion(r) \/ CheckRaises(r) \/ AddVersion(r) \/ AddVersionRaises(r)
  \/ Enqueue(r) \/ EnqueueRaises(r)

\* Faulty: sorts the oldest messages first.
FaultyPage(t, limit, before) ==
  LET older == {i \in DOMAIN table : req[table[i]].ticket = t /\ i < before}
  IN {i \in older :
        Cardinality({k \in older : stamp[table[k]] < stamp[table[i]]}) < limit}

\* The ids list_messages answers with: of the messages of the ticket with a
\* smaller id than `before`, the newest `limit` by created_at.
Page(t, limit, before) ==
  LET older == {i \in DOMAIN table : req[table[i]].ticket = t /\ i < before}
  IN {i \in older :
        Cardinality({k \in older : stamp[table[k]] > stamp[table[i]]}) < limit}

-----------------------------------------------------------------------------
(* Workers.  A task goes by the name `x` of the request that made it.      *)

On(x, where) == task[x].at = where

Move(x, where) == task' = [task EXCEPT ![x].at = where]

Still == UNCHANGED <<deleted, req, storeVars>>

Running(x) == task[x].at \notin {"none", "queued", "done"}

\* The first call of the actor the task names.  The message mail waits ten
\* seconds first; the confirmation comes with its text ready.
Take(x) ==
  /\ On(x, "queued")
  /\ Cardinality({y \in Requests : Running(y)}) < Workers
  /\ Move(x, CASE req[x].op = "send"    -> "ticket"
               [] req[x].op = "confirm" -> "hand"
               [] req[x].op = "reply"   -> "emit")
  /\ Still
  /\ UNCHANGED <<again, handed, rows, refused, unlogged, shown, faults>>

\* Faulty: leaves out the mail of a deleted ticket and logs it as sent.
FaultyReadTicket(x) ==
  /\ On(x, "ticket")
  /\ Move(x, IF req[x].ticket \in deleted THEN "sent" ELSE "history")
  /\ Still
  /\ UNCHANGED <<again, handed, rows, refused, unlogged, shown, faults>>

\* find_one_without_tenant hides a deleted ticket; the template then fails
\* on None, one call later.
ReadTicket(x) ==
  /\ On(x, "ticket")
  /\ Move(x, IF req[x].ticket \in deleted THEN "failed" ELSE "history")
  /\ Still
  /\ UNCHANGED <<again, handed, rows, refused, unlogged, shown, faults>>

\* Faulty: messages[-4:-1], all but the newest.
FaultyExcerpts(t) ==
  LET all == {m \in Messages : req[m].ticket = t}
  IN {s \in SUBSET all : Cardinality(s) = Min({MailTail, Cardinality(all) - 1})}

\* The last MailTail messages in the order of a query that asks for none.
Excerpts(t) ==
  LET all == {m \in Messages : req[m].ticket = t}
  IN {s \in SUBSET all : Cardinality(s) = Min({MailTail, Cardinality(all)})}

ReadHistory(x) ==
  /\ On(x, "history")
  /\ \E s \in Excerpts(req[x].ticket) :
       task' = [task EXCEPT ![x] = [at |-> "hand", body |-> s]]
  /\ Still
  /\ UNCHANGED <<again, handed, rows, refused, unlogged, shown, faults>>

ReadRaises(x) ==
  /\ task[x].at \in {"ticket", "history"}
  /\ Fault
  /\ Move(x, "failed")
  /\ Still
  /\ UNCHANGED <<again, handed, rows, refused, unlogged, shown>>

\* send_sendgrid_email.
HandOver(x) ==
  /\ On(x, "hand")
  /\ handed' = [handed EXCEPT ![x] = @ + 1]
  /\ Move(x, "sent")
  /\ Still
  /\ UNCHANGED <<again, rows, refused, unlogged, shown, faults>>

\* It swallows what SendGrid or the network says.
Refuse(x) ==
  /\ On(x, "hand")
  /\ Fault
  /\ refused' = refused \union {x}
  /\ Move(x, "sent")
  /\ Still
  /\ UNCHANGED <<again, handed, rows, unlogged, shown>>

Row(x, what) == rows' = [rows EXCEPT ![x] = @ \union {what}]

LogSent(x) ==
  /\ On(x, "sent")
  /\ Row(x, "sent")
  /\ Move(x, "ack")
  /\ Still
  /\ UNCHANGED <<again, handed, refused, unlogged, shown, faults>>

LogSentRaises(x) ==
  /\ On(x, "sent")
  /\ Fault
  /\ Row(x, "sent") \/ UNCHANGED rows
  /\ unlogged' = unlogged \union {x}
  /\ Move(x, "failed")
  /\ Still
  /\ UNCHANGED <<again, handed, refused, shown>>

\* Faulty: writes no row.
FaultyLogFailed(x) ==
  /\ On(x, "failed")
  /\ Move(x, "ack")
  /\ Still
  /\ UNCHANGED <<again, handed, rows, refused, unlogged, shown, faults>>

LogFailed(x) ==
  /\ On(x, "failed")
  /\ Row(x, "failed")
  /\ Move(x, "ack")
  /\ Still
  /\ UNCHANGED <<again, handed, refused, unlogged, shown, faults>>

\* The exception leaves the actor, and dramatiq retries the task.
LogFailedRaises(x) ==
  /\ On(x, "failed")
  /\ Fault
  /\ Row(x, "failed") \/ UNCHANGED rows
  /\ again' = [again EXCEPT ![x] = @ + 1]
  /\ Move(x, "queued")
  /\ Still
  /\ UNCHANGED <<handed, refused, unlogged, shown>>

\* TicketNameSpace.broadcast_message.
Emit(x) ==
  /\ On(x, "emit")
  /\ shown' = [shown EXCEPT ![x] = @ + 1]
  /\ Move(x, "ack")
  /\ Still
  /\ UNCHANGED <<again, handed, rows, refused, unlogged, faults>>

\* The actor logs the exception; the task counts as done.
EmitRaises(x) ==
  /\ On(x, "emit")
  /\ Fault
  /\ Move(x, "ack")
  /\ Still
  /\ UNCHANGED <<again, handed, rows, refused, unlogged, shown>>

\* The actor has returned and the broker learns of it.
Acknowledge(x) ==
  /\ On(x, "ack")
  /\ Move(x, "done")
  /\ Still
  /\ UNCHANGED <<again, handed, rows, refused, unlogged, shown, faults>>

\* A worker dies, and its unacknowledged task goes back to the queue.
Crash(x) ==
  /\ Running(x)
  /\ Fault
  /\ again' = [again EXCEPT ![x] = @ + 1]
  /\ Move(x, "queued")
  /\ Still
  /\ UNCHANGED <<handed, rows, refused, unlogged, shown>>

Worker(x) ==
  \/ Take(x) \/ ReadTicket(x) \/ ReadHistory(x) \/ HandOver(x)
  \/ LogSent(x) \/ LogFailed(x) \/ Emit(x) \/ Acknowledge(x)

WorkerFault(x) ==
  \/ ReadRaises(x) \/ Refuse(x) \/ LogSentRaises(x) \/ LogFailedRaises(x)
  \/ EmitRaises(x) \/ Crash(x)

Next ==
  \/ \E r \in Requests : Handler(r) \/ Worker(r) \/ WorkerFault(r)
  \/ \E t \in Tickets : DeleteTicket(t)

Spec == Init /\ [][Next]_vars

\* docker-compose.yml keeps a worker running: a task that is queued is taken,
\* and one that was taken goes on until something fails.
Fairness == \A x \in Requests : WF_vars(Worker(x))

FairSpec == Spec /\ Fairness

=============================================================================
