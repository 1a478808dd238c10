-------------------------- MODULE TicketDeskProps --------------------------
(***************************************************************************)
(* What the ticket desk must guarantee, and what the repository says of    *)
(* it.                                                                     *)
(***************************************************************************)
EXTENDS TicketDesk

\* No interleaving of requests of two organizations makes a ticket point at
\* a status, priority or SLA of the other one, or an SLA at its priority,
\* even when rows vanish between a validation and the write that relies on
\* it, or a merge brings them back.
SameTenant ==
  /\ \A t \in Tickets : ticket[t] # Absent =>
       \A x \in Refs : Points(ticket[t], x) => Owned(x, ticket[t].org)
  /\ \A l \in Slas : Live(l) => Owned(row[l].key, row[l].org)

Idle == \A p \in Procs : todo[p] = <<>>

\* A deletion of the row x was committed, or of the priority whose SLA it was.
DeletedOnce(x) ==
  \/ done[<<"deleted", x>>] > 0
  \/ x \in Slas /\ \E n \in Priorities : done[<<"deleted", n>>] > 0

\* The log claims no more than was committed.  Of two deletions of one row
\* that overlap, the second one matches no row and is logged too; but a
\* deletion is only logged of a row that a request did delete, in whatever
\* order deletions, merges of old rows and failures come.  When no call has
\* failed, every created and every deleted row has its entry.  A confirmation
\* mail is about a stored ticket.
AuditBacked ==
  /\ \A e \in Entries : e \in {"updated", "deleted"} \X Refs \/ logs[e] <= done[e]
  /\ \A x \in Refs : logs[<<"deleted", x>>] > 0 => DeletedOnce(x)
  /\ Idle /\ faults = 0 => \A x \in Refs :
       /\ logs[<<"created", x>>] = done[<<"created", x>>]
       /\ logs[<<"deleted", x>>] >= done[<<"deleted", x>>]
  /\ \A t \in Tickets : mailed[t] <= done[<<"created", t>>]

\* What the answer to a request on settings tells.  An error means that not
\* all that was asked for was committed: always of a deletion, of which a
\* failed write of the log makes no error; of rows to create or change unless
\* a call failed (a refresh that fails follows the commit).  Success of new
\* priorities or SLAs means as many commits as were asked for, by this request
\* and no other; success of a deletion, that the row was deleted by this
\* request or by one that overlapped it.
AnswerHonest ==
  \A p \in Procs :
    LET c == local[p]
        asked == IF c.op = "create_row" /\ c.extra THEN 2 ELSE 1
    IN c.op \in RowOps =>
         /\ answer[p] = "error" /\ (c.op = "delete_row" \/ faults = 0)
            => wrote[p] < asked
         /\ answer[p] = "ok" /\ c.op = "create_row" /\ c.kind # "status"
            => wrote[p] = asked
         /\ answer[p] = "ok" /\ c.op = "delete_row" => DeletedOnce(c.row)

\* A ticket that was not deleted and points at x.
Holds(t, x) ==
  /\ ticket[t] # Absent
  /\ ~ticket[t].deleted
  /\ Points(ticket[t], x)

\* A request has written the references of t, or moved the SLA x.
Touched(t, x) ==
  \E p \in Procs : wrote[p] > 0 /\
    \/ local[p].op \in {"create_ticket", "edit_ticket", "confirm_ticket"}
       /\ local[p].ticket = t
    \/ local[p].op = "edit_row" /\ local[p].row = x

\* The guards of delete_ticket_status, delete_priority and delete_sla work,
\* and the deletion of a priority, which takes its SLA along, is no way round
\* that of the SLA: a ticket loses its status, its priority, or the SLA of its
\* priority, only if another request has given it to the ticket, which the
\* deletion may have overlapped, or if a call failed: the guards take a failure
\* for an empty answer.  (A ticket whose SLA edit_sla has moved to another priority does
\* lose it: delete_sla looks for the priority.)
DeletedUnused ==
  [][\A x \in Refs, t \in Tickets :
       faults = 0 /\ Live(x) /\ ~Live(x)' /\ Holds(t, x) =>
         \/ Touched(t, x)
         \/ x \in Slas /\ ticket[t].priority # row[x].key]_vars

-----------------------------------------------------------------------------
(* A claim of the repository that the code does not keep.                  *)

\* ticket.py:241, "Your ticket has been activated.": and it stays so.
StaysActivated ==
  [][\A t \in Tickets :
       ticket[t] # Absent /\ ticket[t].opened => ticket[t].opened']_vars

=============================================================================
