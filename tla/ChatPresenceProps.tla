------------------------- MODULE ChatPresenceProps -------------------------
(***************************************************************************)
(* How far is_online, the rooms and what clients were told can be trusted. *)
(* The code keeps no count of the sockets of a person; these properties    *)
(* say under which interleavings it is right all the same, and that those  *)
(* are the only ones to worry about.                                       *)
(***************************************************************************)
EXTENDS ChatPresence

Up(p) == {s \in Of(p) : link[s] = "up"}

\* Once the handlers of a person are through, the flag is what their sockets
\* say, however many tabs were opened and closed in whatever order.  Somebody
\* without a socket is shown online only if a connect was cut short, or if the
\* on_disconnect that should have reset the flag could not, and the flag was not
\* written since; somebody with a socket is shown offline only if a connect was
\* cut short, or if two of their sockets were served at the same time: the
\* on_disconnect of the one ran after the on_connect of the other, as on a page
\* reload.
FlagExplained ==
  \A p \in People :
    Quiet(p) =>
      /\ Up(p) = {} /\ online[p] => p \in cut \union stuck
      /\ Up(p) # {} /\ ~online[p] => p \in cut \union overlap

\* What an agent's or a customer's client was last told is what the database
\* says, once the events are through: the flag is written and the event
\* published in two awaits, and both handlers of a person do so.  When the event
\* of a change is lost, or the handler ends before it, the next one that is
\* published puts the views right again.
ViewAgrees ==
  bus = <<>> =>
    \A p \in People \ (overlap \union cut \union unsaid) :
      Quiet(p) =>
        \A s \in room :
          view[s][p] \in {"unknown", IF online[p] THEN "online" ELSE "offline"}

\* The socket a customer registered last gets the agents' messages: although
\* customer_join_conversation looks the sid up again, and may find the one of
\* another tab, the tab that came last ends up in the room of the conversation,
\* unless it left, or its own connect or join failed, which nobody repeats.
LatestTabJoined ==
  \A c \in Customers : \A s \in Talks \ apart :
    sidOf[c] = s /\ link[s] = "up" /\ con[s] = <<>> => s \in talk

\* A customer who goes ends the visit stored last, although the tasks that
\* bring it to on_disconnect run in any order and old visits are written there
\* again when they end: unless visits crossed, that is a visit was stored, or
\* the customer went, while another was on its way or about to end, or an agent
\* deleted the log of a visit that had ended, or a task failed.
EndsNewest ==
  \A s \in Sids :
    At(dis, s, "Visit") /\ Owner[s] \notin crossed =>
      \/ VisitsOf(Owner[s]) = {} /\ ending[s] = NoVisit
      \/ /\ ending[s] \in VisitsOf(Owner[s])
         /\ \A v \in VisitsOf(Owner[s]) : v <= ending[s]

=============================================================================
