-------------------------- MODULE SlaMonitorProps --------------------------
(***************************************************************************)
(* What the SLA check must guarantee, and what the repository says of it.  *)
(***************************************************************************)
EXTENDS SlaMonitor

\* handle_warning looks for the alert before it acts, but the row it looks
\* for is written two awaits later: however runs are cut short and repeated,
\* no alert gets a second row and no receiver a second mail about it.
AlertedOnce ==
  \A a \in Alerts : /\ rows[a] <= 1
                    /\ \A r \in Receivers : mails[a][r] <= rows[a]

\* Why that holds, between any two awaits: an alert under way has no row
\* until StoreAlert, and from then on the receivers still to come have no
\* mail.  Losing the local state at any point keeps all of it true.
AlertInv ==
  /\ \A a \in Alerts :
       /\ rows[a] \in {0, 1}
       /\ rows[a] = 1 => a \in told
       /\ \A r \in Receivers : mails[a][r] \in {0, 1} /\ mails[a][r] <= rows[a]
  /\ pc \in {"check", "tell", "store", "mail"} => cur # Null
  /\ pc \in {"tell", "store", "mail"} => level[kind] # NoLevel
  /\ pc \in {"tell", "store"} => rows[Alert] = 0
  /\ pc = "store" => Alert \in told
  /\ pc = "mail" => /\ rows[Alert] = 1
                    /\ \A r \in unsent : mails[Alert][r] = 0

\* The whole promise: announced, then recorded once, then mailed at most
\* once to each receiver, with nothing out of this order.
Ledger == INSTANCE AlertLedger
            WITH Alerts <- Alerts, Receivers <- Receivers,
                 told <- told, rows <- rows, mails <- mails

LedgerSpec == Ledger!Spec

\* The share of an SLA that has elapsed, without dividing or rounding.
ExactLevel(elapsed, time) ==
  IF elapsed * 100 >= 100 * time THEN 100
  ELSE IF elapsed * 100 >= 90 * time THEN 90
  ELSE IF elapsed * 100 >= 75 * time THEN 75 ELSE NoLevel

\* Neither truncation nor the two ways the percentages saturate (>= and >)
\* moves a percentage across a threshold: at every instant the level read off
\* either one is the level of the exact ratio.
LevelIsExact ==
  \A t \in Tickets, k \in Kinds :
    opened[t] # Null /\ sla[t] # Null =>
      BreachLevel(Percentage(Load(t), k))
        = ExactLevel(now - opened[t], times[sla[t]][k])

\* An alert records a deadline of a confirmed ticket that really had run to
\* the alert's level for the SLA the run loaded, even when the SLA is edited
\* or the ticket confirmed again while the alert is under way.
AlertJustified ==
  [][\A a \in Alerts : rows'[a] # rows[a] =>
       /\ cur # Null
       /\ a[1] = cur.ticket
       /\ (now - cur.opened) * 100 >= a[3] * cur.times[a[2]]]_vars

-----------------------------------------------------------------------------
Overdue(t) ==
  /\ t \notin deleted
  /\ opened[t] # Null
  /\ status[t] # Null
  /\ category[status[t]] # "closed"
  /\ sla[t] # Null
  /\ \A k \in Kinds : now > opened[t] + times[sla[t]][k]

SomeClosedStatus == \E s \in Statuses : category[s] = "closed"

\* No ticket that the job loads has lost its SLA.
NoOrphans == \A t \in Tickets : sla[t] = Null => opened[t] = Null \/ t \in deleted

Breached(t) == \A k \in Kinds : rows[<<t, k, 100>>] > 0

\* A ticket that stays overdue is eventually alerted for both deadlines,
\* whatever fails on the way, provided that a closed status exists and that
\* every ticket under watch has its SLA.
OverdueAlerted ==
  \A t \in Tickets :
    <>[](Overdue(t) /\ SomeClosedStatus /\ NoOrphans) => <>Breached(t)

\* sla_task.py:20, "Checks the sla breach of every tickets": the same, with
\* no condition on the other tickets.
EveryTicketChecked ==
  \A t \in Tickets :
    <>[](Overdue(t) /\ SomeClosedStatus) => <>Breached(t)

\* sla_task.py:29, "getting the default ticket status with close_status set
\* by organization": a run leaves out the tickets their own organization
\* has closed.
ClosedSkipped ==
  [][pc = "load" /\ pc' = "next" =>
       \A x \in todo' : category[status[x.ticket]] # "closed"]_vars

=============================================================================
