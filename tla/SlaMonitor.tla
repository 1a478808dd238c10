----------------------------- MODULE SlaMonitor -----------------------------
(***************************************************************************)
(* The periodic SLA check: tasks/sla_task.py run every ten seconds by      *)
(* config/scheduler.py, and the alerting half of the ticket module's       *)
(* services/sla.py.                                                        *)
(*                                                                         *)
(* One scheduler process runs the job, one run at a time (APScheduler's    *)
(* max_instances is 1).  Every await on the database or on Redis is a step *)
(* of its own, so agents and customers change tickets, statuses and SLAs   *)
(* between any two steps of a run.  A run may end at any await: an         *)
(* exception propagates out of check_sla_breach, and a crash of the        *)
(* process loses the same local state.                                     *)
(***************************************************************************)
EXTENDS SlaTiming, FiniteSets

CONSTANTS
  Tickets, Statuses, Slas,
  Receivers,       \* positions in the list of mail receivers of an alert
  OrgOf,           \* organization of each ticket and status
  Times,           \* lengths a response or resolution time may have
  Null,
  MaxNow,          \* bound: last instant of the clock
  MaxEdits,        \* bound: changes made by agents and customers
  MaxFaults        \* bound: failed awaits, crashes and refused mails

Kinds == {"response", "resolution"}
Categories == {"pending", "open", "closed"}

\* What selectinload keeps of a ticket: its opening instant and SLA row.
Loaded == [ticket : Tickets, opened : Nat,
           times : [Kinds -> Times] \union {Null}]

ASSUME SlaMonitorAssumption ==
  /\ Times \subseteq Nat \ {0}        \* sla_schemas.check_time_negative
  /\ MaxNow \in Nat /\ MaxEdits \in Nat /\ MaxFaults \in Nat
  /\ Null \notin Tickets \union Statuses \union Slas \union Nat
  /\ Null \notin Loaded

\* A row of ticket_alerts: TicketAlert(ticket_id, alert_type, warning_level).
Alerts == Tickets \X Kinds \X AlertLevels

StatusesOf(t) == {s \in Statuses : OrgOf[s] = OrgOf[t]}

VARIABLES
  now,             \* wall clock, seconds
  opened,          \* Ticket.opened_at
  status,          \* Ticket.status_id
  sla,             \* Ticket.sla_id
  deleted,         \* tickets whose deleted_at is set
  category,        \* TicketStatus.status_category
  times,           \* TicketSLA.response_time and resolution_time
  edits, faults,   \* consumed bounds
  pc,              \* where the job is; "idle" between two runs
  picked,          \* closed_ticket_status
  todo,            \* tickets loaded by this run and not yet looked at
  cur,             \* the ticket in the loop body, as it was loaded
  level,           \* the alert level each deadline of it has reached
  kind,            \* which deadline of it is being checked
  unsent,          \* receivers _send_email has not come to
  told, rows, mails \* socket alerts, ticket_alerts rows, queued mails

deskVars  == <<opened, status, sla, deleted, category, times>>
jobVars   == <<pc, picked, todo, cur, level, kind, unsent>>
alertVars == <<told, rows, mails>>
vars == <<now, deskVars, edits, faults, jobVars, alertVars>>

TypeOK ==
  /\ now \in Nat
  /\ opened \in [Tickets -> Nat \union {Null}]
  /\ status \in [Tickets -> Statuses \union {Null}]
  /\ sla \in [Tickets -> Slas \union {Null}]
  /\ deleted \subseteq Tickets
  /\ category \in [Statuses -> Categories]
  /\ times \in [Slas -> [Kinds -> Times]]
  /\ edits \in Nat /\ faults \in Nat
  /\ pc \in {"idle", "closed", "load", "next", "check", "tell", "store", "mail"}
  /\ picked \in Statuses \union {Null}
  /\ todo \subseteq Loaded
  /\ cur \in Loaded \union {Null}
  /\ level \in [Kinds -> AlertLevels \union {NoLevel}]
  /\ kind \in Kinds
  /\ unsent \subseteq Receivers
  /\ told \subseteq Alerts
  /\ rows \in [Alerts -> Nat]
  /\ mails \in [Alerts -> [Receivers -> Nat]]

\* New tickets carry a pending status and the SLA of their priority.
Init ==
  /\ now = 0
  /\ opened = [t \in Tickets |-> Null]
  /\ category \in [Statuses -> Categories]
  /\ status \in [Tickets -> Statuses]
  /\ \A t \in Tickets : /\ status[t] \in StatusesOf(t)
                        /\ category[status[t]] = "pending"
  /\ sla \in [Tickets -> Slas]
  /\ times \in [Slas -> [Kinds -> Times]]
  /\ deleted = {}
  /\ edits = 0 /\ faults = 0
  /\ pc = "idle" /\ picked = Null /\ todo = {} /\ cur = Null
  /\ level = [k \in Kinds |-> NoLevel] /\ kind = "response" /\ unsent = {}
  /\ told = {}
  /\ rows = [a \in Alerts |-> 0]
  /\ mails = [a \in Alerts |-> [r \in Receivers |-> 0]]

-----------------------------------------------------------------------------
(* The clock, and what the other processes commit to the database.         *)

Tick ==
  /\ now < MaxNow
  /\ now' = now + 1
  /\ UNCHANGED <<deskVars, edits, faults, jobVars, alertVars>>

Edit ==
  /\ edits < MaxEdits
  /\ edits' = edits + 1
  /\ UNCHANGED <<now, faults, jobVars, alertVars>>

\* The write of confirm_ticket.  Nothing here asks whether the ticket is
\* unopened or undeleted: a second confirmation, or a deletion, can have
\* slipped in after confirm_ticket looked.
Confirm(t) ==
  /\ Edit
  /\ opened' = [opened EXCEPT ![t] = now]
  /\ \E s \in StatusesOf(t) :
       /\ category[s] = "open"
       /\ status' = [status EXCEPT ![t] = s]
  /\ UNCHANGED <<sla, deleted, category, times>>

\* The writes of edit_ticket, for a change of status, or of priority and with
\* it of the SLA.  When the assignees change too, session.merge first puts back
\* the ticket as it was loaded, which may be from before it was confirmed and
\* before it was deleted.
MoveTicket(t, s, l) ==
  /\ Edit
  /\ status' = [status EXCEPT ![t] = s]
  /\ sla' = [sla EXCEPT ![t] = l]
  /\ \/ UNCHANGED <<opened, deleted>>
     \/ /\ \E n \in {opened[t], Null} : opened' = [opened EXCEPT ![t] = n]
        /\ deleted' = deleted \ {t}
  /\ UNCHANGED <<category, times>>

DeleteTicket(t) ==
  /\ Edit
  /\ deleted' = deleted \union {t}
  /\ UNCHANGED <<opened, status, sla, category, times>>

EditStatus(s, c) ==
  /\ Edit
  /\ category' = [category EXCEPT ![s] = c]
  /\ UNCHANGED <<opened, status, sla, deleted, times>>

EditSla(l, k, n) ==
  /\ Edit
  /\ times' = [times EXCEPT ![l][k] = n]
  /\ UNCHANGED <<opened, status, sla, deleted, category>>

\* delete_sla reaching the foreign key: sla_id becomes NULL.  The handler looks
\* for tickets with the SLA first and refuses when there are some: these are
\* tickets that came to it between that look and the deletion.
DeleteSla(l) ==
  /\ Edit
  /\ sla' = [t \in Tickets |-> IF sla[t] = l THEN Null ELSE sla[t]]
  /\ UNCHANGED <<opened, status, deleted, category, times>>

Desk ==
  \E t \in Tickets :
    \/ Confirm(t)
    \/ DeleteTicket(t)
    \/ \E s \in StatusesOf(t), l \in Slas \union {sla[t]} : MoveTicket(t, s, l)

Settings ==
  \/ \E s \in Statuses, c \in Categories : EditStatus(s, c)
  \/ \E l \in Slas, k \in Kinds, n \in Times : EditSla(l, k, n)
  \/ \E l \in Slas : DeleteSla(l)

-----------------------------------------------------------------------------
(* One run of check_sla_breach.                                            *)

\* Leaving a run forgets everything but what was committed.
Return ==
  /\ pc' = "idle" /\ picked' = Null /\ todo' = {} /\ cur' = Null
  /\ level' = [k \in Kinds |-> NoLevel] /\ kind' = "response" /\ unsent' = {}

Ambient == UNCHANGED <<now, deskVars, edits>>

\* The interval trigger fires and there is at least one ticket.
Start ==
  /\ pc = "idle"
  /\ Tickets \ deleted # {}
  /\ pc' = "closed"
  /\ Ambient
  /\ UNCHANGED <<faults, picked, todo, cur, level, kind, unsent, alertVars>>

\* get_all_status_category_by_name("closed") takes the first closed status
\* of any organization, and raises when there is none.
FindClosedStatus ==
  /\ pc = "closed"
  /\ \E s \in Statuses :
       /\ category[s] = "closed"
       /\ picked' = s
  /\ pc' = "load"
  /\ Ambient
  /\ UNCHANGED <<faults, todo, cur, level, kind, unsent, alertVars>>

NoClosedStatus ==
  /\ pc = "closed"
  /\ \A s \in Statuses : category[s] # "closed"
  /\ Return
  /\ Ambient
  /\ UNCHANGED <<faults, alertVars>>

\* Faulty: loads unconfirmed tickets too.
FaultyWatchedAny(t) == t \notin deleted /\ status[t] \notin {Null, picked}

\* Faulty: takes a ticket with an alert on record for one dealt with.
FaultyWatchedFresh(t) ==
  /\ t \notin deleted /\ opened[t] # Null
  /\ status[t] \notin {Null, picked}
  /\ \A a \in Alerts : a[1] = t => rows[a] = 0

\* status_id != picked and opened_at IS NOT NULL and deleted_at IS NULL; a
\* NULL status_id compares as unknown and drops out too.
Watched(t) ==
  /\ t \notin deleted
  /\ opened[t] # Null
  /\ status[t] \notin {Null, picked}

Load(t) == [ticket |-> t, opened |-> opened[t],
            times |-> IF sla[t] = Null THEN Null ELSE times[sla[t]]]

LoadTickets ==
  /\ pc = "load"
  /\ todo' = {Load(t) : t \in {u \in Tickets : Watched(u)}}
  /\ pc' = "next"
  /\ Ambient
  /\ UNCHANGED <<faults, picked, cur, level, kind, unsent, alertVars>>

\* Faulty: measures the resolution time by the response time.
FaultyPercentage(x, k) ==
  ResponsePercentage(x.times["response"], x.opened, now)

Percentage(x, k) ==
  IF k = "response"
  THEN ResponsePercentage(x.times[k], x.opened, now)
  ELSE ResolutionPercentage(x.times[k], x.opened, now)

\* The next ticket of the loop, in whatever order the database returned
\* them.  Both percentages are taken now, before either is acted on.
NextTicket ==
  /\ pc = "next"
  /\ \E x \in todo :
       /\ x.times # Null
       /\ todo' = todo \ {x}
       /\ cur' = x
       /\ level' = [k \in Kinds |-> AlertLevel(Percentage(x, k))]
  /\ pc' = "check" /\ kind' = "response"
  /\ Ambient
  /\ UNCHANGED <<faults, picked, unsent, alertVars>>

\* ticket.sla is None: AttributeError ends the run for every later ticket.
NoSla ==
  /\ pc = "next"
  /\ \E x \in todo : x.times = Null
  /\ Return
  /\ Ambient
  /\ UNCHANGED <<faults, alertVars>>

RunDone ==
  /\ pc = "next"
  /\ todo = {}
  /\ Return
  /\ Ambient
  /\ UNCHANGED <<faults, alertVars>>

-----------------------------------------------------------------------------
(* _check_breach and handle_warning, for `kind` of ticket `cur`.           *)

Alert == <<cur.ticket, kind, level[kind]>>

\* On to the resolution time, or to the next ticket.
NextKind ==
  IF kind = "response"
  THEN /\ pc' = "check" /\ kind' = "resolution"
       /\ UNCHANGED <<cur, level>>
  ELSE /\ pc' = "next" /\ kind' = "response"
       /\ cur' = Null /\ level' = [k \in Kinds |-> NoLevel]

\* Below 75, between 90 and 100, or already alerted.
NothingNew ==
  /\ pc = "check"
  /\ level[kind] # NoLevel => rows[Alert] > 0
  /\ NextKind
  /\ Ambient
  /\ UNCHANGED <<faults, picked, todo, unsent, alertVars>>

NewBreach ==
  /\ pc = "check"
  /\ level[kind] # NoLevel
  /\ rows[Alert] = 0
  /\ pc' = "tell"
  /\ Ambient
  /\ UNCHANGED <<faults, picked, todo, cur, level, kind, unsent, alertVars>>

\* Faulty: goes on to the record without having told anybody.
FaultyBroadcast ==
  /\ pc = "tell"
  /\ pc' = "store"
  /\ Ambient
  /\ UNCHANGED <<faults, picked, todo, cur, level, kind, unsent, alertVars>>

\* send_alert_broadcast: one emit to every receiver's room.
Broadcast ==
  /\ pc = "tell"
  /\ told' = told \union {Alert}
  /\ pc' = "store"
  /\ Ambient
  /\ UNCHANGED <<faults, picked, todo, cur, level, kind, unsent, rows, mails>>

\* TicketAlert.create; ticket_alerts has no unique constraint.
StoreAlert ==
  /\ pc = "store"
  /\ rows' = [rows EXCEPT ![Alert] = @ + 1]
  /\ unsent' = Receivers
  /\ pc' = "mail"
  /\ Ambient
  /\ UNCHANGED <<faults, picked, todo, cur, level, kind, told, mails>>

\* _send_email hands one mail per receiver to the queue.
SendMail ==
  /\ pc = "mail"
  /\ \E r \in unsent :
       /\ mails' = [mails EXCEPT ![Alert][r] = @ + 1]
       /\ unsent' = unsent \ {r}
  /\ Ambient
  /\ UNCHANGED <<faults, pc, picked, todo, cur, level, kind, told, rows>>

\* send_ticket_email logs a failing broker and carries on.
RefuseMail ==
  /\ pc = "mail"
  /\ faults < MaxFaults
  /\ faults' = faults + 1
  /\ \E r \in unsent : unsent' = unsent \ {r}
  /\ Ambient
  /\ UNCHANGED <<pc, picked, todo, cur, level, kind, alertVars>>

MailsDone ==
  /\ pc = "mail"
  /\ unsent = {}
  /\ NextKind
  /\ Ambient
  /\ UNCHANGED <<faults, picked, todo, unsent, alertVars>>

\* An awaited call raises, or the scheduler process dies and is restarted.
Fail ==
  /\ pc # "idle"
  /\ faults < MaxFaults
  /\ faults' = faults + 1
  /\ Return
  /\ Ambient
  /\ UNCHANGED alertVars

Job ==
  \/ Start \/ FindClosedStatus \/ NoClosedStatus \/ LoadTickets
  \/ NextTicket \/ NoSla \/ RunDone
  \/ NothingNew \/ NewBreach \/ Broadcast \/ StoreAlert
  \/ SendMail \/ MailsDone

Next == Tick \/ Desk \/ Settings \/ Job \/ RefuseMail \/ Fail

Spec == Init /\ [][Next]_vars

\* The interval trigger keeps firing and a run that is not failed goes on.
Fairness == WF_vars(Tick) /\ WF_vars(Job)

FairSpec == Spec /\ Fairness

=============================================================================
