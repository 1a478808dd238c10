-------------------------- MODULE MembershipProps --------------------------
(***************************************************************************)
(* What organizations, invitations and memberships must guarantee.         *)
(***************************************************************************)
EXTENDS Membership

\* The checks of invite_user and create_organization hold back twins: two
\* pending invitations of one address to one organization, and two
\* organizations of one domain, are there only if an insert overtook the
\* request that made the second one, or an edit changed the domain, which
\* nothing checks.
NoTwins ==
  /\ \A i, j \in Invitations \ twins :
       /\ i # j /\ Live(invitation, i) /\ Live(invitation, j)
       /\ invitation[i].email = invitation[j].email
       /\ invitation[i].org = invitation[j].org
       => ~(invitation[i].status = "pending" /\ invitation[j].status = "pending")
  /\ \A o, q \in Orgs \ twins :
       o # q /\ Live(org, o) /\ Live(org, q) => org[o].domain # org[q].domain

\* A user came to an organization in one of two ways: he founded it, or an
\* invitation of this organization to his address was accepted; whatever
\* requests, rejections and deletions came in between.
MembersInvited ==
  \A m \in Members : member[m] # Absent =>
    \/ org[member[m].org].founder = member[m].user
    \/ \E i \in Invitations :
         /\ invitation[i] # Absent
         /\ invitation[i].email = member[m].user
         /\ invitation[i].org = member[m].org
         /\ \/ invitation[i].status = "accepted"
            \/ i \in disturbed
            \/ \E p \in Procs : local[p].op = "accept" /\ i \in Held(p)

\* Someone who accepted is a member: the row of the membership is there
\* before the invitation says so, even when the acceptance is cut short or
\* meets a rejection.
AcceptedJoined ==
  \A i \in Invitations :
    invitation[i] # Absent /\ invitation[i].status = "accepted" =>
      \E m \in Members : /\ member[m] # Absent
                         /\ member[m].user = invitation[i].email
                         /\ member[m].org = invitation[i].org

\* "Invitation is already processed." (common/invitations.py:22): a processed
\* invitation does not become pending again, and an accepted one becomes
\* rejected only by a request that had looked at it while it was pending and
\* overlapped with the acceptance.
ProcessedStays ==
  [][\A i \in Invitations :
       invitation[i] # Absent /\ invitation[i].status # "pending" =>
         /\ invitation'[i].status # "pending"
         /\ invitation[i].status = "accepted" /\ invitation'[i].status = "rejected"
            => i \in disturbed]_vars

\* The owner of a workspace is, or was, one of its members, through creation,
\* change of owner and deletions of members; but for a creation that was cut
\* short before it made the owner a member.
OwnerBelongs ==
  \A o \in Orgs : org[o] # Absent =>
    \/ \E m \in Members : /\ member[m] # Absent
                          /\ member[m].org = o /\ member[m].user = org[o].owner
    \/ o \in disturbed
    \/ \E p \in Procs : At(p, "create_owner") /\ local[p].row = o

=============================================================================
