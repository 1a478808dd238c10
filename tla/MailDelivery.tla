---------------------------- MODULE MailDelivery ----------------------------
(***************************************************************************)
(* What the queue of ticket mails promises to the handlers that fill it: a *)
(* mail that was accepted is handed over only while it is unsettled, every *)
(* mail is settled in the end, and a settled one is on the log of its      *)
(* ticket.  A mail may be handed over more than once.                      *)
(***************************************************************************)
EXTENDS Naturals

CONSTANT Mails

VARIABLES accepted,    \* mails the queue has taken
          handed,      \* how often each was handed to the mail service
          rows,        \* what the ticket's log says of each
          settled      \* mails the queue has done with

mailVars == <<accepted, handed, rows, settled>>

Init ==
  /\ accepted = {}
  /\ handed = [x \in Mails |-> 0]
  /\ rows = [x \in Mails |-> {}]
  /\ settled = {}

Accept(x) ==
  /\ accepted' = accepted \union {x}
  /\ UNCHANGED <<handed, rows, settled>>

HandOver(x) ==
  /\ x \in accepted \ settled
  /\ handed' = [handed EXCEPT ![x] = @ + 1]
  /\ UNCHANGED <<accepted, rows, settled>>

Record(x) ==
  /\ x \in accepted \ settled
  /\ \E row \in {"sent", "failed"} : rows' = [rows EXCEPT ![x] = @ \union {row}]
  /\ UNCHANGED <<accepted, handed, settled>>

Settle(x) ==
  /\ x \in accepted
  /\ rows[x] # {}
  /\ settled' = settled \union {x}
  /\ UNCHANGED <<accepted, handed, rows>>

Next == \E x \in Mails : Accept(x) \/ HandOver(x) \/ Record(x) \/ Settle(x)

\* Nothing is handed over, logged or settled out of turn.
InTurn == Init /\ [][Next]_mailVars

\* No mail waits for ever.
Settled == \A x \in Mails : (x \in accepted) ~> (x \in settled)

Spec == InTurn /\ Settled

=============================================================================
