---------------------------- MODULE MCTicketDesk ----------------------------
(***************************************************************************)
(* Small instances of the ticket desk.  A database of its own for each     *)
(* question: the ids given are in use, the others free.                    *)
(***************************************************************************)
EXTENDS TicketDeskProps, TLC

CONSTANTS o1, o2, t1, t2, s1, s2, s3, n1, n2, n3, n4, l1, l2, l3,
          x1, x2           \* names

\* s1 is the pending and s2 the open status of o1, n1 and n2 its priorities,
\* l1 the SLA of n1, and t1 a ticket of priority n1; o2 owns n3 only.
Stored ==
  (s1 :> [org |-> o1, key |-> x1, category |-> "pending"]) @@
  (s2 :> [org |-> o1, key |-> x2, category |-> "open"]) @@
  (n1 :> [org |-> o1, key |-> x1, category |-> Null]) @@
  (n2 :> [org |-> o1, key |-> x2, category |-> Null]) @@
  (n3 :> [org |-> o2, key |-> x1, category |-> Null]) @@
  (l1 :> [org |-> o1, key |-> n1, category |-> Null])

MCInit ==
  /\ row = [x \in Refs |-> IF x \in DOMAIN Stored /\ Stored[x].org \in Orgs
                           THEN Stored[x] ELSE Absent]
  /\ ticket = [t \in Tickets |-> IF t # t1 THEN Absent
                 ELSE [org |-> o1, status |-> s1, priority |-> n1, sla |-> l1,
                       opened |-> FALSE, deleted |-> FALSE, notes |-> 0]]
  /\ home = [x \in Entities |->
               IF x = t1 THEN o1
               ELSE IF x \in Refs /\ row[x] # Absent THEN row[x].org ELSE Null]
  /\ logs = [e \in Entries |-> 0] /\ done = [e \in Entries |-> 0]
  /\ mailed = [t \in Tickets |-> 0]
  /\ todo = [p \in Procs |-> <<>>]
  /\ local = [p \in Procs |-> Blank]
  /\ wrote = [p \in Procs |-> 0]
  /\ answer = [p \in Procs |-> Null]
  /\ requests = 0 /\ faults = 0
  /\ Consistent(row)

MCSpec == MCInit /\ [][Next]_vars

MCSymmetry == Permutations(Procs)

\* Requests that make a difference: edits of the ticket there is, and of one
\* column of a status at a time.
MCBound ==
  \A p \in Procs :
    /\ local[p].op \in {"edit_ticket", "add_note"} => local[p].ticket = t1
    /\ local[p].op = "edit_row" => Null \in {local[p].key, local[p].category}

=============================================================================
