------------------------- MODULE ChatMessagesProps -------------------------
(***************************************************************************)
(* What customers and agents may rely on in a conversation.                *)
(***************************************************************************)
EXTENDS ChatMessages

Answered(p, ops) == ~Running(p) /\ answer[p] = "ok" /\ local[p].op \in ops

\* No resolution hides a customer's message whose handler looked the
\* conversation up after it: the handler opens the conversation again,
\* however resolutions and messages interleave.
ReopenedByCustomer ==
  \A p \in fresh :
    Answered(p, {"say", "open"}) /\ ~local[p].user
      => ~conv[local[p].conv].resolved

\* As long as requests on a conversation did not overlap, last_message is the
\* current state of the message stored or changed last once the background
\* tasks are through, although nobody awaits them and a seen mark writes it
\* twice.
LastMessageCurrent ==
  \A k \in Convs \ disturbed :
    ~Busy(k) /\ touched[k] # None =>
      LET m == touched[k]
      IN  last[k] = [id |-> m, text |-> msg[m].text, seen |-> msg[m].seen]

\* Where a conversation is heard, in two parts.  A message that was answered
\* with success has reached the agents of the organization once the listener is
\* through, and the customer if an agent sent it to one who was in the room when
\* the handler began, unless Redis did not take it.  And whoever hears of a
\* conversation is in its room or an agent of its organization, although the
\* conversation, the tenant and the message come from different awaits, and no
\* customer is sent what a customer did.  Seen marks are excepted for agents:
\* their organization is what the client sent.
HeardByItsAudience ==
  /\ bus = <<>> =>
       \A p \in Procs :
         Answered(p, {"say", "open"}) /\ local[p].id \notin lost =>
           LET k == local[p].conv
               due == {s \in Staff : OrgOf[s] = conv[k].org} \union
                      (IF local[p].user /\ p \in seated
                       THEN {conv[k].guest} ELSE {})
           IN  \A s \in due :
                 \E e \in inbox[s] : e.kind = "message" /\ e.id = local[p].id
  /\ \A s \in Staff \union Guests : \A e \in inbox[s] :
       /\ s \in Guests => <<s, e.conv>> \in seats /\ ~e.customer
       /\ s \in Staff /\ e.kind # "seen" => OrgOf[s] = conv[e.conv].org

\* joined_conversation looks for a membership and creates one in two awaits:
\* an agent has no more memberships than joins were ever under way at once.
MembersBounded == \A k \in Convs : members[k] <= crowd[k]

=============================================================================
