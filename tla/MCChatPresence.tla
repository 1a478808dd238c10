--------------------------- MODULE MCChatPresence ---------------------------
(***************************************************************************)
(* Small instances of the presence of agents and customers.                *)
(***************************************************************************)
EXTENDS ChatPresenceProps, TLC

CONSTANTS ag, cu, a1, a2, c1, c2

MCOwner == [s \in Sids |-> IF s \in {a1, a2} THEN ag ELSE cu]

\* Agents and connects cut short neither read nor write visits, except that a
\* customer without one makes on_disconnect raise.  So all of it meets
\* customers without visits, agents meet those with one that is copied before
\* they come, and customers who are alone visit twice.
MCBound ==
  \/ \A v \in Visits : visit[v] = NoVisit
  \/ /\ cut = {} /\ apart = {}
     /\ \/ \A s \in Sids : IsAgent(s) => link[s] = "new"
        \/ \A v \in Visits : visit[v] # NoVisit =>
             v = 1 /\ ~visit[v].deleted /\ (copying[v] > 0 => visit[v].left)

MCSymmetry == Permutations({c1, c2})

=============================================================================
