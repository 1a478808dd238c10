----------------------------- MODULE TicketDesk -----------------------------
(***************************************************************************)
(* The ticket desk: {ticket,status,priority,sla}.py of                     *)
(* modules/ticket/services/ and the audit log of its mixins.py.            *)
(*                                                                         *)
(* Requests run concurrently in the event loop of the backend.  A handler  *)
(* awaits the database several times; each call of a model's classmethod   *)
(* opens a session of its own and commits, and other requests run between  *)
(* two calls.  A call is one step, and Model.delete, which selects a row   *)
(* before it deletes it, is two.  What a handler still has to do is a      *)
(* sequence of step names, `todo`; each step is an action below.           *)
(***************************************************************************)
EXTENDS Integers, Sequences, FiniteSets

CONSTANTS
  Procs,             \* request tasks
  Orgs,              \* organizations
  Tickets, Statuses, Priorities, Slas,    \* row ids; none is issued twice
  Names,             \* names of statuses and of priorities
  Null,              \* SQL NULL, Python None
  Absent,            \* no such row
  Ops,               \* the operations of an instance
  MaxRequests,       \* bound: requests received
  MaxFaults          \* bound: awaited calls that raise

Refs == Statuses \union Priorities \union Slas
Entities == Refs \union Tickets

Kinds == {"status", "priority", "sla"}
IdsOf == [status |-> Statuses, priority |-> Priorities, sla |-> Slas]
Categories == {"pending", "open", "closed"}

\* A status, priority or SLA.  `key` is what its table keeps unique in an
\* organization: a name, or the priority an SLA is for.
Row == [org : Orgs, key : Names \union Priorities, category : Categories \union {Null}]

Ticket == [org : Orgs, status : Statuses \union {Null},
           priority : Priorities \union {Null}, sla : Slas \union {Null},
           opened : BOOLEAN, deleted : BOOLEAN, notes : Nat]

\* The calls that handlers make.
Steps == {"default_status", "default_sla", "check_priority", "check_status", "check_sla",
          "find_ticket", "already_opened", "open_status", "same_name", "next_name",
          "find_row", "tickets_using_it", "select_row", "insert_ticket", "note",
          "update_ticket", "merge", "soft_delete", "insert_row", "update_row",
          "delete_row", "log", "mail"}

TicketOps == {"create_ticket", "confirm_ticket", "edit_ticket",
              "delete_ticket", "add_note"}
RowOps == {"create_row", "edit_row", "delete_row"}

ASSUME TicketDeskAssumption ==
  /\ Ops \subseteq TicketOps \union RowOps
  /\ MaxRequests \in Nat /\ MaxFaults \in Nat
  /\ IsFiniteSet(Procs)
  /\ Statuses \intersect Priorities = {}
  /\ Slas \intersect (Statuses \union Priorities) = {}
  /\ Tickets \intersect Refs = {}
  /\ Null \notin Entities \union Names \union Orgs \union Categories
  /\ Absent \notin Row \union Ticket
  /\ Null \notin Row \union Ticket \union Kinds \union {"ok", "error"}

VARIABLES
  row,               \* the tables ticket_status, ticket_priority, ticket_sla
  ticket,            \* the table org_tickets
  home,              \* organization an id was issued to, Null before that
  logs,              \* entries of org_tickets_logs: how many, per entry
  done,              \* committed changes, per entry that would record one
  mailed,            \* confirmation mails queued, per ticket
  todo,              \* steps a request has left
  local,             \* local variables of a request's handler
  wrote,             \* commits of the running or last request
  answer,            \* how a task's last request was answered
  requests, faults   \* consumed bounds

dbVars == <<row, ticket, home>>
vars == <<row, ticket, home, logs, done, mailed, todo, local, wrote, answer,
          requests, faults>>

\* What an entry of the log records: something done to an entity.
Entries == {"created", "updated", "deleted", "confirmed"} \X Entities

\* The parameters of a request and the local variables of its handler.
Blank == [op |-> Null, org |-> Null, kind |-> Null, ticket |-> Null,
          row |-> Null, key |-> Null, category |-> Null, status |-> Null,
          priority |-> Null, sla |-> Null, extra |-> FALSE,
          snap |-> Null, refs |-> {}]

Local == [op : Ops \union {Null}, org : Orgs \union {Null},
          kind : Kinds \union {Null}, ticket : Tickets \union {Null},
          row : Refs \union {Null}, key : Names \union Priorities \union {Null},
          category : Categories \union {Null}, status : Statuses \union {Null},
          priority : Priorities \union {Null}, sla : Slas \union {Null},
          extra : BOOLEAN, snap : Ticket \union {Null},
          refs : SUBSET (Refs \X Row)]

-----------------------------------------------------------------------------
(* The database.                                                           *)

Live(x) == row[x] # Absent

SameKind(x, y) == \E k \in Kinds : {x, y} \subseteq IdsOf[k]

KeysOf(k) == IF k = "sla" THEN Priorities ELSE Names
CategoriesOf(k) == IF k = "status" THEN Categories ELSE {Null}

\* Unique constraints, and the foreign key of an SLA.
Consistent(rows) ==
  /\ \A x, y \in Refs :
       /\ x # y /\ SameKind(x, y) /\ rows[x] # Absent /\ rows[y] # Absent
       => <<rows[x].org, rows[x].key>> # <<rows[y].org, rows[y].key>>
  /\ \A l \in Slas : rows[l] # Absent => rows[rows[l].key] # Absent

Points(t, x) == x \in {t.status, t.priority, t.sla}

\* The foreign keys of a ticket.
Anchored(t, rows) == \A x \in Refs : Points(t, x) => rows[x] # Absent

\* find_one and filter see tickets of one organization, not deleted.
Visible(t, org) ==
  /\ ticket[t] # Absent
  /\ ticket[t].org = org
  /\ ~ticket[t].deleted

Owned(x, org) == Live(x) /\ row[x].org = org

\* What selectinload brings along with a ticket: its status, priority, SLA.
Loaded(t) == {<<x, row[x]>> : x \in {y \in Refs : Points(t, y)}}

TypeOK ==
  /\ row \in [Refs -> Row \union {Absent}]
  /\ ticket \in [Tickets -> Ticket \union {Absent}]
  /\ home \in [Entities -> Orgs \union {Null}]
  /\ logs \in [Entries -> Nat] /\ done \in [Entries -> Nat]
  /\ mailed \in [Tickets -> Nat]
  /\ todo \in [Procs -> Seq(Steps)]
  /\ local \in [Procs -> Local]
  /\ wrote \in [Procs -> Nat]
  /\ answer \in [Procs -> {Null, "ok", "error"}]
  /\ requests \in Nat /\ faults \in Nat

\* Any database earlier requests may have left, and nobody connected.
Init ==
  /\ row \in [Refs -> Row \union {Absent}]
  /\ ticket \in [Tickets -> Ticket \union {Absent}]
  /\ home = [x \in Entities |->
               LET r == IF x \in Tickets THEN ticket[x] ELSE row[x]
               IN  IF r = Absent THEN Null ELSE r.org]
  /\ Consistent(row)
  /\ \A k \in Kinds, x \in Refs : x \in IdsOf[k] /\ Live(x) =>
       /\ row[x].key \in KeysOf(k) /\ row[x].category \in CategoriesOf(k)
       /\ k = "sla" => row[row[x].key].org = row[x].org
  /\ \A t \in Tickets : ticket[t] # Absent =>
       \A x \in Refs : Points(ticket[t], x) => Owned(x, ticket[t].org)
  /\ logs = [e \in Entries |-> 0] /\ done = [e \in Entries |-> 0]
  /\ mailed = [t \in Tickets |-> 0]
  /\ todo = [p \in Procs |-> <<>>]
  /\ local = [p \in Procs |-> Blank]
  /\ wrote = [p \in Procs |-> 0]
  /\ answer = [p \in Procs |-> Null]
  /\ requests = 0 /\ faults = 0

-----------------------------------------------------------------------------
(* Requests and the steps of their handlers.                               *)

Script(c) ==
  LET If(b, step) == IF b THEN <<step>> ELSE <<>>
  IN CASE c.op = "create_ticket" ->
            <<"default_status", "default_sla", "check_priority",
              "check_status", "check_sla", "insert_ticket", "log">>
            \o If(c.extra, "note") \o <<"mail">>
       [] c.op = "confirm_ticket" ->
            <<"find_ticket", "already_opened", "open_status",
              "update_ticket", "log">>
       [] c.op = "edit_ticket" ->
            <<"find_ticket">>
            \o (IF c.priority # Null THEN <<"check_priority", "default_sla">>
                ELSE <<>>)
            \o If(c.status # Null, "check_status")
            \o If(c.extra, "merge") \o <<"update_ticket", "log">>
       [] c.op = "delete_ticket" -> <<"find_ticket", "soft_delete", "log">>
       [] c.op = "add_note" -> <<"note">>
       [] c.op = "create_row" ->
            <<IF c.kind = "sla" THEN "check_priority" ELSE "same_name",
              "insert_row", "log">>
            \o (IF c.extra THEN <<"next_name", "insert_row", "log">> ELSE <<>>)
       [] c.op = "edit_row" ->
            <<"find_row">> \o If(c.priority # Null, "check_priority")
            \o <<"update_row", "log">>
       [] c.op = "delete_row" ->
            <<"find_row", "tickets_using_it", "select_row", "delete_row", "log">>

\* A request on settings; that for an SLA names its priority.
Keyed(op, org, k, key, cat) ==
  [Blank EXCEPT !.op = op, !.org = org, !.kind = k, !.key = key, !.category = cat,
                !.priority = IF k = "sla" THEN key ELSE Null]

\* Faulty: no middleware sets the tenant.
FaultyTenant(p) == Null

\* The TenantContext of a request; /tickets/confirm is exempt from the
\* middleware that sets it.
Tenant(p) == IF local[p].op = "confirm_ticket" THEN Null ELSE local[p].org

At(p, step) == todo[p] # <<>> /\ Head(todo[p]) = step

\* Done with n steps; a handler that runs off its last step succeeded.
Done(p, n) ==
  /\ todo' = [todo EXCEPT ![p] = SubSeq(@, n + 1, Len(@))]
  /\ answer' = [answer EXCEPT ![p] = IF Len(todo[p]) = n THEN "ok" ELSE @]

Advance(p) == Done(p, 1) /\ UNCHANGED <<requests, faults>>

\* Leave early: an exception reached the handler's except clause, or there
\* was nothing to do.
Leave(p, how) ==
  /\ todo' = [todo EXCEPT ![p] = <<>>]
  /\ answer' = [answer EXCEPT ![p] = how]
  /\ UNCHANGED <<dbVars, logs, done, mailed, local, wrote, requests>>

Refuse(p) == Leave(p, "error") /\ UNCHANGED faults

\* A read: the database stays as it is.
Read(p) == Advance(p) /\ UNCHANGED <<dbVars, logs, done, mailed, wrote>>

\* session.refresh raises after the commit: the handler answers an error, and
\* what the call has committed stays.
Unrefreshed(p) ==
  /\ faults < MaxFaults
  /\ faults' = faults + 1
  /\ todo' = [todo EXCEPT ![p] = <<>>]
  /\ answer' = [answer EXCEPT ![p] = "error"]
  /\ UNCHANGED requests

\* A commit, on behalf of `entry`.
Commit(p, entry) ==
  /\ wrote' = [wrote EXCEPT ![p] = @ + 1]
  /\ done' = [done EXCEPT ![entry] = @ + 1]
  /\ UNCHANGED <<logs, mailed>>

\* Model.create, update and soft_delete refresh the row they committed.
Refresh(p) == Advance(p) \/ Unrefreshed(p)
CommitAndRefresh(p, entry) == Commit(p, entry) /\ Refresh(p)

\* A task that waits for a request gets one.
Receive(p, c) ==
  /\ requests' = requests + 1
  /\ todo' = [todo EXCEPT ![p] = Script(c)]
  /\ local' = [local EXCEPT ![p] = c]
  /\ wrote' = [wrote EXCEPT ![p] = 0]
  /\ answer' = [answer EXCEPT ![p] = Null]
  /\ UNCHANGED <<dbVars, logs, done, mailed, faults>>

\* An awaited call raises, and the handler catches it and answers an error;
\* Swallowed has the calls that hide it.  A crash of the backend loses the
\* request in the same way.
Fail(p) ==
  /\ todo[p] # <<>>
  /\ ~At(p, "log")
  /\ faults < MaxFaults
  /\ faults' = faults + 1
  /\ Leave(p, "error")

-----------------------------------------------------------------------------
(* Steps that look something up.                                           *)

\* get_default_ticket_status: any pending status of the organization.
DefaultStatus(p) ==
  LET found == {s \in Statuses : Owned(s, Tenant(p)) /\ row[s].category = "pending"}
  IN /\ At(p, "default_status")
     /\ \/ /\ \E s \in found : local' = [local EXCEPT ![p].status = s]
           /\ Read(p)
        \/ found = {} /\ Refuse(p)

\* get_default_ticket_sla: the SLA of the priority.
DefaultSla(p) ==
  LET found == {l \in Slas : Owned(l, Tenant(p)) /\ row[l].key = local[p].priority}
  IN /\ At(p, "default_sla")
     /\ \/ /\ \E l \in found : local' = [local EXCEPT ![p].sla = l]
           /\ Read(p)
        \/ found = {} /\ Refuse(p)

\* get_status_category_by_name("open", organization_id)
OpenStatus(p) ==
  LET found == {s \in Statuses : Owned(s, local[p].org) /\ row[s].category = "open"}
  IN /\ At(p, "open_status")
     /\ \/ /\ \E s \in found : local' = [local EXCEPT ![p].status = s]
           /\ Read(p)
        \/ found = {} /\ Refuse(p)

\* Faulty: any row will do, whoever owns it.
FaultyCheck(p) ==
  \E step \in {"check_priority", "check_status", "check_sla"} :
    /\ At(p, step)
    /\ Read(p)
    /\ UNCHANGED local

\* TenantEntityValidator.validate
Check(p) ==
  \E step \in {"check_priority", "check_status", "check_sla"} :
    /\ At(p, step)
    /\ LET id == CASE step = "check_priority" -> local[p].priority
                   [] step = "check_status"   -> local[p].status
                   [] step = "check_sla"      -> local[p].sla
       IN \/ Owned(id, Tenant(p)) /\ Read(p) /\ UNCHANGED local
          \/ ~Owned(id, Tenant(p)) /\ Refuse(p)

\* Ticket.find_one; an edit keeps the row with its status, priority, SLA.
FindTicket(p) ==
  LET t == local[p].ticket
  IN /\ At(p, "find_ticket")
     /\ \/ /\ Visible(t, local[p].org)
           /\ local' = IF local[p].op = "edit_ticket"
                       THEN [local EXCEPT ![p].snap = ticket[t],
                                          ![p].refs = Loaded(ticket[t])]
                       ELSE local
           /\ Read(p)
        \/ ~Visible(t, local[p].org) /\ Refuse(p)

\* The second look of confirm_ticket, for opened_at.
AlreadyOpened(p) ==
  LET t == local[p].ticket
      opened == Visible(t, local[p].org) /\ ticket[t].opened
  IN /\ At(p, "already_opened")
     /\ \/ ~opened /\ Read(p) /\ UNCHANGED local
        \/ opened /\ Refuse(p)

\* The duplicate check.  create_ticket_status skips a name it finds, and goes
\* on with the next; create_priorities refuses it, and leaves what it created.
SameName(p) ==
  \E name \in IF At(p, "next_name") THEN Names ELSE {local[p].key} :
    LET k == local[p].kind
        found == \E x \in IdsOf[k] : Owned(x, Tenant(p)) /\ row[x].key = name
    IN /\ At(p, "same_name") \/ At(p, "next_name")
       /\ \/ /\ ~found /\ Read(p)
             /\ local' = [local EXCEPT ![p].key = name]
          \/ /\ found /\ k = "status"
             /\ Done(p, 3)
             /\ UNCHANGED <<dbVars, logs, done, mailed, local, wrote, requests, faults>>
          \/ found /\ k # "status" /\ Refuse(p)

\* Keeps the row, for delete_sla to look at its priority later.
FindRow(p) ==
  LET x == local[p].row
  IN /\ At(p, "find_row")
     /\ \/ /\ Owned(x, Tenant(p))
           /\ local' = [local EXCEPT ![p].refs = {<<x, row[x]>>}]
           /\ Read(p)
        \/ ~Owned(x, Tenant(p)) /\ Refuse(p)

\* Faulty: looks for the tickets, and deletes all the same.
FaultyTicketsUsing(p) ==
  At(p, "tickets_using_it") /\ Read(p) /\ UNCHANGED local

\* find_ticket_by_status and find_ticket_by_priority; find_ticket_by_sla
\* looks for tickets of the SLA's priority.
TicketsUsing(p) ==
  LET c == local[p]
      key == (CHOOSE r \in c.refs : TRUE)[2].key
      used == \E t \in Tickets :
                /\ Visible(t, Tenant(p))
                /\ CASE c.kind = "status"   -> ticket[t].status = c.row
                     [] c.kind = "priority" -> ticket[t].priority = c.row
                     [] c.kind = "sla"      -> ticket[t].priority = key
  IN /\ At(p, "tickets_using_it")
     /\ \/ ~used /\ Read(p) /\ UNCHANGED local
        \/ used /\ Refuse(p)

-----------------------------------------------------------------------------
(* Steps that commit a change.                                             *)

InsertTicket(p) ==
  LET c == local[p]
      new == [org |-> Tenant(p), status |-> c.status, priority |-> c.priority,
              sla |-> c.sla, opened |-> FALSE, deleted |-> FALSE, notes |-> 0]
  IN /\ At(p, "insert_ticket")
     /\ \/ /\ Anchored(new, row)
           /\ \E t \in Tickets :
                /\ home[t] = Null
                /\ ticket' = [ticket EXCEPT ![t] = new]
                /\ home' = [home EXCEPT ![t] = Tenant(p)]
                /\ local' = [local EXCEPT ![p].ticket = t]
                /\ CommitAndRefresh(p, <<"created", t>>)
           /\ UNCHANGED row
        \/ ~Anchored(new, row) /\ Refuse(p)

\* handle_ticket_notes
Note(p) ==
  LET t == local[p].ticket
  IN /\ At(p, "note")
     /\ \/ /\ Visible(t, Tenant(p))
           /\ ticket' = [ticket EXCEPT ![t].notes = @ + 1]
           /\ Refresh(p)
           /\ wrote' = [wrote EXCEPT ![p] = @ + 1]
           /\ UNCHANGED <<row, home, logs, done, mailed, local>>
        \/ ~Visible(t, Tenant(p)) /\ Refuse(p)

\* Ticket.update writes the columns it is given to the row as it is now,
\* deleted or not.
UpdateTicket(p) ==
  LET c == local[p]
      t == c.ticket
      Given(new, old) == IF new = Null THEN old ELSE new
      new == [ticket[t] EXCEPT !.org = c.org,
                !.status = Given(c.status, @), !.priority = Given(c.priority, @),
                !.sla = Given(c.sla, @),
                !.opened = @ \/ c.op = "confirm_ticket"]
  IN /\ At(p, "update_ticket")
     /\ \/ /\ Anchored(new, row)
           /\ ticket' = [ticket EXCEPT ![t] = new]
           /\ CommitAndRefresh(p, <<IF c.op = "confirm_ticket" THEN "confirmed" ELSE "updated", t>>)
           /\ UNCHANGED <<row, home, local>>
        \/ ~Anchored(new, row) /\ Refuse(p)

\* session.merge(ticket) copies the whole snapshot of the ticket, and of the
\* rows loaded with it, over what is stored, and inserts what is missing.
Merge(p) ==
  LET c == local[p]
      rows == [x \in Refs |-> IF \E r \in c.refs : r[1] = x
                              THEN (CHOOSE r \in c.refs : r[1] = x)[2] ELSE row[x]]
  IN /\ At(p, "merge")
     /\ \/ /\ Consistent(rows)
           /\ row' = rows
           /\ ticket' = [ticket EXCEPT ![c.ticket] = c.snap]
           /\ Advance(p)
           /\ wrote' = [wrote EXCEPT ![p] = @ + 1]
           /\ UNCHANGED <<home, logs, done, mailed, local>>
        \/ ~Consistent(rows) /\ Refuse(p)

\* Ticket.soft_delete, which does not mind a ticket deleted already.
SoftDelete(p) ==
  LET t == local[p].ticket
  IN /\ At(p, "soft_delete")
     /\ ticket' = [ticket EXCEPT ![t].deleted = TRUE]
     /\ CommitAndRefresh(p, <<"deleted", t>>)
     /\ UNCHANGED <<row, home, local>>

\* A violated unique constraint or foreign key is an IntegrityError.
InsertRow(p) ==
  LET c == local[p]
      new == [org |-> Tenant(p), key |-> c.key, category |-> c.category]
      With(x) == [row EXCEPT ![x] = new]
      free == {x \in IdsOf[c.kind] : home[x] = Null}
  IN /\ At(p, "insert_row")
     /\ \/ \E x \in free :
             /\ Consistent(With(x))
             /\ row' = With(x)
             /\ home' = [home EXCEPT ![x] = Tenant(p)]
             /\ local' = [local EXCEPT ![p].row = x]
             /\ CommitAndRefresh(p, <<"created", x>>)
             /\ UNCHANGED ticket
        \/ (\E x \in free : ~Consistent(With(x))) /\ Refuse(p)

\* Model.update does nothing, and does not say so, when the row is gone; when
\* it vanishes between the look and the UPDATE, that is a StaleDataError.
UpdateRow(p) ==
  LET c == local[p]
      Given(new, old) == IF new = Null THEN old ELSE new
      rows == [row EXCEPT ![c.row] =
                 [org |-> Tenant(p), key |-> Given(c.key, @.key),
                  category |-> Given(c.category, @.category)]]
  IN /\ At(p, "update_row")
     /\ \/ ~Live(c.row) /\ Read(p) /\ UNCHANGED local
        \/ ~Live(c.row) /\ Refuse(p)
        \/ /\ Live(c.row) /\ Consistent(rows)
           /\ row' = rows
           /\ CommitAndRefresh(p, <<"updated", c.row>>)
           /\ UNCHANGED <<ticket, home, local>>
        \/ Live(c.row) /\ ~Consistent(rows) /\ Refuse(p)

\* The first half of Model.delete: 404 when the row is gone.
SelectRow(p) ==
  /\ At(p, "select_row")
  /\ \/ Owned(local[p].row, Tenant(p)) /\ Read(p) /\ UNCHANGED local
     \/ ~Owned(local[p].row, Tenant(p)) /\ Refuse(p)

\* Faulty: the commit is forgotten.
FaultyDeleteRow(p) == At(p, "delete_row") /\ Read(p) /\ UNCHANGED local

\* The second half: the SLA of a deleted priority goes with it, and tickets
\* lose their references (ON DELETE SET NULL).  A DELETE that matches no row,
\* because another request was faster, passes for success.
DeleteRow(p) ==
  LET x == local[p].row
      gone == {x} \union {l \in Slas : Live(l) /\ row[l].key = x}
      Kept(ref) == IF ref \in gone THEN Null ELSE ref
  IN /\ At(p, "delete_row")
     /\ \/ /\ Live(x)
           /\ row' = [y \in Refs |-> IF y \in gone THEN Absent ELSE row[y]]
           /\ ticket' = [t \in Tickets |->
                IF ticket[t] = Absent THEN Absent
                ELSE [ticket[t] EXCEPT !.status = Kept(@), !.priority = Kept(@),
                                       !.sla = Kept(@)]]
           /\ Commit(p, <<"deleted", x>>)
           /\ Advance(p)
           /\ UNCHANGED <<home, local>>
        \/ ~Live(x) /\ Read(p) /\ UNCHANGED local

-----------------------------------------------------------------------------
(* The log and the confirmation mail.                                      *)

Verb(c) ==
  CASE c.op \in {"create_ticket", "create_row"} -> "created"
    [] c.op \in {"edit_ticket", "edit_row"}     -> "updated"
    [] c.op \in {"delete_ticket", "delete_row"} -> "deleted"
    [] c.op = "confirm_ticket"                  -> "confirmed"

\* save_to_log: of a ticket, nothing is logged unless the ticket is found
\* (again), in the tenant of the request and not deleted.
Log(p) ==
  LET c == local[p]
      entry == <<Verb(c), IF c.row # Null THEN c.row ELSE c.ticket>>
  IN /\ At(p, "log")
     /\ logs' = IF c.row # Null \/ Visible(c.ticket, Tenant(p))
                THEN [logs EXCEPT ![entry] = @ + 1] ELSE logs
     /\ Advance(p)
     /\ UNCHANGED <<dbVars, done, mailed, local, wrote>>

\* Faulty: lets the exception out.
FaultySwallowed(p) ==
  /\ At(p, "log") \/ At(p, "mail") \/ At(p, "tickets_using_it")
  /\ faults < MaxFaults
  /\ faults' = faults + 1
  /\ Leave(p, "error")

\* save_to_log and send_ticket_email swallow their own exceptions, and so do
\* find_ticket_by_status, _priority and _sla: then no tickets were found.
Swallowed(p) ==
  /\ At(p, "log") \/ At(p, "mail") \/ At(p, "tickets_using_it")
  /\ faults < MaxFaults
  /\ faults' = faults + 1
  /\ Done(p, 1)
  /\ UNCHANGED <<dbVars, logs, done, mailed, local, wrote, requests>>

\* send_confirmation_email
Mail(p) ==
  LET t == local[p].ticket
  IN /\ At(p, "mail")
     /\ \/ /\ Visible(t, Tenant(p))
           /\ mailed' = [mailed EXCEPT ![t] = @ + 1]
           /\ Advance(p)
           /\ UNCHANGED <<dbVars, logs, done, local, wrote>>
        \/ ~Visible(t, Tenant(p)) /\ Refuse(p)

Step(p) ==
  \/ DefaultStatus(p) \/ DefaultSla(p) \/ OpenStatus(p) \/ Check(p)
  \/ FindTicket(p) \/ AlreadyOpened(p) \/ SameName(p) \/ FindRow(p)
  \/ TicketsUsing(p)
  \/ InsertTicket(p) \/ Note(p) \/ UpdateTicket(p) \/ Merge(p)
  \/ SoftDelete(p) \/ InsertRow(p) \/ UpdateRow(p) \/ SelectRow(p) \/ DeleteRow(p)
  \/ Log(p) \/ Mail(p)

\* What a client may ask for.  `extra` says that an edit names assignees, that
\* a new ticket comes with a note, or that two statuses or priorities are to
\* be created; the second name is left open until its turn comes.
Client(p) ==
  /\ todo[p] = <<>> /\ requests < MaxRequests
  /\ \/ "create_ticket" \in Ops /\ \E o \in Orgs, n \in Priorities, m \in BOOLEAN :
          Receive(p, [Blank EXCEPT !.op = "create_ticket", !.org = o, !.priority = n,
                                   !.extra = m])
     \/ \E op \in Ops \intersect {"confirm_ticket", "delete_ticket", "add_note"},
           o \in Orgs, t \in Tickets :
          Receive(p, [Blank EXCEPT !.op = op, !.org = o, !.ticket = t])
     \/ "edit_ticket" \in Ops /\ \E o \in Orgs, t \in Tickets, m \in BOOLEAN,
           n \in Priorities \union {Null}, s \in Statuses \union {Null} :
          Receive(p, [Blank EXCEPT !.op = "edit_ticket", !.org = o, !.ticket = t,
                                   !.status = s, !.priority = n, !.extra = m])
     \/ \E o \in Orgs, k \in Kinds :
          \/ "create_row" \in Ops /\ \E key \in KeysOf(k), cat \in CategoriesOf(k),
                m \in IF k = "sla" THEN {FALSE} ELSE BOOLEAN :
               Receive(p, [Keyed("create_row", o, k, key, cat) EXCEPT !.extra = m])
          \/ "edit_row" \in Ops /\ \E x \in IdsOf[k], key \in KeysOf(k) \union {Null},
                cat \in CategoriesOf(k) \union {Null} :
               Receive(p, [Keyed("edit_row", o, k, key, cat) EXCEPT !.row = x])
          \/ "delete_row" \in Ops /\ \E x \in IdsOf[k] :
               Receive(p, [Keyed("delete_row", o, k, Null, Null) EXCEPT !.row = x])

Fault(p) == Fail(p) \/ Swallowed(p)

Next == \E p \in Procs : Client(p) \/ Step(p) \/ Fault(p)

Spec == Init /\ [][Next]_vars

=============================================================================
