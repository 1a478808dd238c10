------------------------ MODULE MCTicketConversation ------------------------
(***************************************************************************)
(* Small instances of the conversation on a ticket.  An agent has stored   *)
(* the first message and is about to have it mailed; the other requests    *)
(* may be anything.                                                        *)
(***************************************************************************)
EXTENDS TicketConversationProps, TLC

CONSTANTS r1, t1

MCInit ==
  /\ deleted = {}
  /\ req = [r \in Requests |->
              IF r = r1
              THEN [op |-> "send", ticket |-> t1, message |-> r1, at |-> "queue", base |-> 0]
              ELSE [op |-> "none", ticket |-> Null, message |-> Null, at |-> "new", base |-> 0]]
  /\ table = <<r1>>
  /\ stamp = [r \in Requests |-> IF r = r1 THEN 1 ELSE 0] /\ clock = 2
  /\ texts = [r \in Requests |-> IF r = r1 THEN <<r1>> ELSE <<>>]
  /\ versions = [r \in Requests |-> IF r = r1 THEN {<<1, r1>>} ELSE {}]
  /\ rough = {}
  /\ task = [r \in Requests |-> [at |-> "none", body |-> {}]]
  /\ again = [r \in Requests |-> 0] /\ handed = [r \in Requests |-> 0]
  /\ rows = [r \in Requests |-> {}]
  /\ refused = {} /\ unlogged = {}
  /\ shown = [r \in Requests |-> 0]
  /\ faults = 0

MCSpec == MCInit /\ [][Next]_vars /\ Fairness

=============================================================================
