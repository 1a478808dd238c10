----------------------- MODULE TicketConversationProps -----------------------
(***************************************************************************)
(* What the conversation on a ticket must guarantee.                       *)
(***************************************************************************)
EXTENDS TicketConversation

\* A message an agent sent has its first text as version 1; of a customer's
\* reply only the edits are kept.
Audited(m) == IF req[m].op = "reply" THEN Tail(texts[m]) ELSE texts[m]

\* The versions of a message are numbered from 1 without a gap and hold texts
\* the message really had, whatever overlaps or fails; and they are exactly
\* its texts, in order, when no two writers overlapped and none failed.
HistoryKept ==
  \A m \in Messages :
    LET numbers == {v[1] : v \in versions[m]}
    IN /\ numbers = 1 .. Cardinality(numbers)
       /\ \A v \in versions[m] : v[2] \in ToSet(texts[m])
       /\ m \notin rough /\ Writers(m) = {} =>
            versions[m] = {<<i, Audited(m)[i]>> : i \in DOMAIN Audited(m)}

\* All an agent sees who goes back page by page, each time before the oldest
\* message shown.
Walk(t, limit) ==
  LET from[b \in 1 .. Len(table) + 1] ==
        LET page == Page(t, limit, b)
            oldest == CHOOSE i \in page :
                        \A k \in page : stamp[table[i]] <= stamp[table[k]]
        IN IF page = {} THEN {} ELSE page \union from[oldest]
  IN from[Len(table) + 1]

\* Two messages of t were stored in one order and made in the other.
Crossed(t) ==
  \E i, k \in DOMAIN table :
    /\ i < k
    /\ req[table[i]].ticket = t /\ req[table[k]].ticket = t
    /\ stamp[table[k]] < stamp[table[i]]

\* The pages are cut by id and sorted by created_at: going back through them
\* reaches every message, unless two were made and stored in different orders.
PagesComplete ==
  \A t \in Tickets, limit \in 1 .. 2 :
    ~Crossed(t) => Walk(t, limit) = {i \in DOMAIN table : req[table[i]].ticket = t}

\* A reply is broadcast, and a message mailed, only once it is stored: a mail
\* that left shows the message it was sent for, unless the ticket has more
\* messages than the template shows.  Either happens again only because a
\* worker had crashed or the log could not be written.
ShownAsStored ==
  \A x \in Requests :
    /\ handed[x] <= 1 + again[x] /\ shown[x] <= 1 + again[x]
    /\ shown[x] > 0 => x \in Messages
    /\ req[x].op = "send" /\ handed[x] > 0 =>
         \/ x \in task[x].body
         \/ Cardinality({m \in Messages : req[m].ticket = req[x].ticket}) > MailTail

\* The log of the ticket tells what became of a mail, except for SendGrid
\* refusing it, which leaves a row that says "sent", and for a mail that left
\* and is logged as failed: its "sent" row raised, or its worker crashed before
\* it could write one and the ticket was deleted by the time of the next try.
LogTruth ==
  \A x \in Requests :
    /\ "sent" \in rows[x] => handed[x] > 0 \/ x \in refused
    /\ task[x].at = "done" /\ handed[x] > 0 =>
         "sent" \in rows[x] \/ x \in unlogged \/ again[x] > 0
    /\ faults = 0 /\ "failed" \in rows[x] => req[x].ticket \in deleted /\ handed[x] = 0

-----------------------------------------------------------------------------
IsMail(x) == req[x].op \in {"send", "confirm"}

\* The workers, the database, SendGrid and their failures implement a queue
\* that hands mails over and ends each with a row on the ticket's log.
Delivery == INSTANCE MailDelivery
  WITH Mails    <- Requests,
       accepted <- {x \in Requests : IsMail(x) /\ task[x].at # "none"},
       handed   <- handed,
       rows     <- rows,
       settled  <- {x \in Requests : IsMail(x) /\ task[x].at = "done"}

DeliverySpec == Delivery!Spec

\* The part of it that needs no fairness: nothing happens to a mail out of turn.
DeliveryInTurn == Delivery!InTurn

=============================================================================
