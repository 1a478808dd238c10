---------------------------- MODULE AlertLedger ----------------------------
(***************************************************************************)
(* What SLA monitoring promises to the people behind a ticket, whatever    *)
(* runs, failures and restarts it takes: an alert (a ticket, a kind of     *)
(* deadline and a level) is announced on the socket before it is recorded, *)
(* recorded at most once, and each receiver is mailed about it at most     *)
(* once, only after it is on record.                                       *)
(***************************************************************************)
EXTENDS Naturals

CONSTANTS Alerts, Receivers

VARIABLES told,     \* alerts announced on the socket, perhaps repeatedly
          rows,     \* rows on record for each alert
          mails     \* mails handed to the queue, per alert and receiver

ledgerVars == <<told, rows, mails>>

Init ==
  /\ told = {}
  /\ rows = [a \in Alerts |-> 0]
  /\ mails = [a \in Alerts |-> [r \in Receivers |-> 0]]

Tell(a) ==
  /\ rows[a] = 0
  /\ told' = told \union {a}
  /\ UNCHANGED <<rows, mails>>

Record(a) ==
  /\ a \in told
  /\ rows[a] = 0
  /\ rows' = [rows EXCEPT ![a] = 1]
  /\ UNCHANGED <<told, mails>>

Mail(a, r) ==
  /\ rows[a] = 1
  /\ mails[a][r] = 0
  /\ mails' = [mails EXCEPT ![a][r] = 1]
  /\ UNCHANGED <<told, rows>>

Next ==
  \E a \in Alerts :
    \/ Tell(a)
    \/ Record(a)
    \/ \E r \in Receivers : Mail(a, r)

Spec == Init /\ [][Next]_ledgerVars

=============================================================================
