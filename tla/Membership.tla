----------------------------- MODULE Membership -----------------------------
(***************************************************************************)
(* Organizations, their members and their invitations: the handlers of     *)
(* modules/organizations/router.py that write these three tables.          *)
(*                                                                         *)
(* As everywhere in the backend, one call of a model's classmethod is one  *)
(* transaction and requests interleave between two calls.  `todo` holds    *)
(* the calls a request has left.  A user acts for the organization chosen  *)
(* last, the tenant of the request, which need not be one of his own.      *)
(***************************************************************************)
EXTENDS Integers, Sequences, FiniteSets

CONSTANTS
  Procs,                         \* request tasks
  Orgs, Members, Invitations,    \* row ids; none is issued twice
  Users,                         \* users, each with an address of his own
  Names,                         \* names of organizations
  Domains,                       \* domains of organizations
  Null,                          \* None
  Absent,                        \* no such row
  Ops,                           \* the operations of an instance
  MaxRequests,                   \* bound: requests received
  MaxFaults                      \* bound: awaited calls that raise

OrgOps == {"create_organization", "update_organization", "update_workspace",
           "delete_workspace"}
InvitationOps == {"invite", "accept", "accept_by_token", "reject",
                  "delete_invitation"}

Steps == {"find_name", "find_domain", "create_organization", "create_owner",
          "get_organization", "find_new_owner", "update_organization",
          "delete_organization", "find_pending", "find_role", "create_invitation",
          "send_mail", "find_invitation", "create_member", "set_status",
          "delete_invitation", "find_member", "delete_member"}

\* InvitationStatus; accept_invitation writes "Accepted" for "accepted".
Statuses == {"pending", "accepted", "rejected"}

Org == [name : Names, domain : Domains, owner : Users, founder : Users,
        deleted : BOOLEAN]
Member == [user : Users, org : Orgs, deleted : BOOLEAN]
Invitation == [email : Users, org : Orgs, status : Statuses, deleted : BOOLEAN]

ASSUME MembershipAssumption ==
  /\ Ops \subseteq OrgOps \union InvitationOps \union {"delete_member"}
  /\ MaxRequests \in Nat /\ MaxFaults \in Nat
  /\ Orgs \intersect Invitations = {}
  /\ Absent \notin Org \union Member \union Invitation
  /\ Null \notin Orgs \union Members \union Invitations \union Users
                 \union Names \union Domains

VARIABLES
  org, member, invitation,       \* sys_organizations, org_members, org_invitations
  todo,                          \* calls a request has left
  local,                         \* parameters and local variables of a request
  twins,                         \* rows an overtaken task inserted, or an edit moved
  disturbed,                     \* rows that two tasks held at once, or that
                                 \* a failed request left half done
  requests, faults               \* consumed bounds

dbVars == <<org, member, invitation>>
histories == <<twins, disturbed>>
vars == <<org, member, invitation, todo, local, twins, disturbed, requests, faults>>

\* `row` is the organization or invitation a request is about, once found or
\* stored; `right` says that the token of a link is the invitation's; `raced`,
\* that another task inserted a row since the request began (a history).
Blank == [op |-> Null, user |-> Null, tenant |-> Null, email |-> Null,
          name |-> Null, domain |-> Null, member |-> Null, row |-> Null,
          right |-> FALSE, raced |-> FALSE]

Local == [op : Ops \union {Null}, user : Users \union {Null},
          tenant : Orgs \union {Null}, email : Users \union {Null},
          name : Names \union {Null}, domain : Domains \union {Null},
          member : Members \union {Null},
          row : Orgs \union Invitations \union {Null}, right : BOOLEAN,
          raced : BOOLEAN]

Live(table, id) == table[id] # Absent /\ ~table[id].deleted

\* The constraints on sys_organizations cover deleted rows.
NamesUnique(orgs) ==
  \A o, q \in Orgs : o # q /\ orgs[o] # Absent /\ orgs[q] # Absent
                     => orgs[o].name # orgs[q].name

TypeOK ==
  /\ org \in [Orgs -> Org \union {Absent}]
  /\ member \in [Members -> Member \union {Absent}]
  /\ invitation \in [Invitations -> Invitation \union {Absent}]
  /\ todo \in [Procs -> Seq(Steps)]
  /\ local \in [Procs -> Local]
  /\ twins \subseteq Orgs \union Invitations
  /\ disturbed \subseteq Orgs \union Invitations
  /\ requests \in Nat /\ faults \in Nat

\* No organization yet.
Init ==
  /\ org = [o \in Orgs |-> Absent]
  /\ member = [m \in Members |-> Absent]
  /\ invitation = [i \in Invitations |-> Absent]
  /\ todo = [p \in Procs |-> <<>>]
  /\ local = [p \in Procs |-> Blank]
  /\ twins = {} /\ disturbed = {}
  /\ requests = 0 /\ faults = 0

-----------------------------------------------------------------------------
(* Requests.                                                               *)

\* Faulty: an acceptance is recorded before the membership is made.
FaultyAccepting == <<"find_invitation", "set_status", "create_member">>

Accepting == <<"find_invitation", "create_member", "set_status">>

Script(c) ==
  CASE c.op = "create_organization" ->
         <<"find_name", "find_domain", "create_organization", "create_owner">>
    [] c.op = "update_organization" ->
         <<"get_organization", "find_name", "update_organization">>
    [] c.op = "update_workspace" ->
         (IF c.email # Null THEN <<"find_new_owner">> ELSE <<>>)
         \o <<"update_organization">>
    [] c.op = "delete_workspace" -> <<"delete_organization">>
    [] c.op = "invite" -> <<"find_pending", "find_role", "create_invitation", "send_mail">>
    [] c.op = "accept" -> Accepting
    [] c.op \in {"accept_by_token", "reject"} -> <<"find_invitation", "set_status">>
    [] c.op = "delete_invitation" -> <<"delete_invitation">>
    [] c.op = "delete_member" -> <<"find_member", "delete_member">>

Running(p) == todo[p] # <<>>
At(p, step) == Running(p) /\ Head(todo[p]) = step

\* What p's variables become with the next step; nothing is left of them
\* after the last one.
NextLocal(p, l) == IF Len(todo[p]) = 1 THEN Blank ELSE l

Advance(p) ==
  /\ todo' = [todo EXCEPT ![p] = Tail(@)]
  /\ UNCHANGED <<requests, faults>>

Keep(p) == local' = [local EXCEPT ![p] = NextLocal(p, @)]

\* A read: nothing is stored.
Read(p) == Advance(p) /\ Keep(p) /\ UNCHANGED <<dbVars, twins>>

Stop(p) ==
  /\ todo' = [todo EXCEPT ![p] = <<>>]
  /\ local' = [local EXCEPT ![p] = Blank]

\* An error answer, or a 404, 403, 409 or 500.
Refuse(p) == Stop(p) /\ UNCHANGED <<dbVars, histories, requests, faults>>

\* The insert of row `id` overtakes every other request under way.
Inserted(p, id) ==
  /\ twins' = IF local[p].raced THEN twins \union {id} ELSE twins
  /\ local' = [q \in Procs |->
                 IF q = p THEN NextLocal(p, [local[p] EXCEPT !.row = id])
                 ELSE [local[q] EXCEPT !.raced = Running(q)]]

\* A request is about rows that exist.
Receive(p, c) ==
  /\ ~Running(p)
  /\ c.op \in Ops
  /\ c.tenant # Null => org[c.tenant] # Absent
  /\ c.row # Null => invitation[c.row] # Absent
  /\ c.member # Null => member[c.member] # Absent
  /\ requests < MaxRequests
  /\ requests' = requests + 1
  /\ todo' = [todo EXCEPT ![p] = Script(c)]
  /\ local' = [local EXCEPT ![p] = c]
  /\ UNCHANGED <<dbVars, histories, faults>>

\* The row a request has in hand: one it has found or stored.
Held(p) == IF Running(p) /\ ~At(p, "find_invitation") THEN {local[p].row} \ {Null} ELSE {}

\* An awaited call raises, or the backend crashes with the request under way.
Fail(p) ==
  /\ Running(p)
  /\ faults < MaxFaults
  /\ faults' = faults + 1
  /\ Stop(p)
  /\ disturbed' = disturbed \union Held(p)
  /\ UNCHANGED <<dbVars, twins, requests>>

-----------------------------------------------------------------------------
(* Organizations.                                                          *)

\* create_organization looks among the organizations of the user,
\* update_organization among all of them, and only for a new name.
FindName(p) ==
  LET c == local[p]
      found == \E o \in Orgs :
                 /\ Live(org, o)
                 /\ org[o].name = c.name
                 /\ c.op = "create_organization" => org[o].owner = c.user
  IN /\ At(p, "find_name")
     /\ \/ ~found /\ Read(p) /\ UNCHANGED disturbed
        \/ found /\ Refuse(p)

\* Faulty: looks among the organizations of the user only.
FaultyFindDomain(p) ==
  LET c == local[p]
      found == \E o \in Orgs : /\ Live(org, o) /\ org[o].domain = c.domain
                               /\ org[o].owner = c.user
  IN /\ At(p, "find_domain")
     /\ \/ ~found /\ Read(p) /\ UNCHANGED disturbed
        \/ found /\ Refuse(p)

\* create_organization only: the look of update_organization refuses a
\* domain that differs from the one it found, so never the same one.
FindDomain(p) ==
  LET found == \E o \in Orgs : Live(org, o) /\ org[o].domain = local[p].domain
  IN /\ At(p, "find_domain")
     /\ \/ ~found /\ Read(p) /\ UNCHANGED disturbed
        \/ found /\ Refuse(p)

\* A violated unique constraint is an IntegrityError, which nobody catches.
CreateOrganization(p) ==
  LET c == local[p]
      new == [name |-> c.name, domain |-> c.domain, owner |-> c.user,
              founder |-> c.user, deleted |-> FALSE]
      free == {o \in Orgs : org[o] = Absent}
  IN /\ At(p, "create_organization")
     /\ \/ \E o \in free :
             /\ org' = [org EXCEPT ![o] = new]
             /\ NamesUnique(org')
             /\ Advance(p)
             /\ Inserted(p, o)
             /\ UNCHANGED <<member, invitation, disturbed>>
        \/ (\E o \in free : ~NamesUnique([org EXCEPT ![o] = new])) /\ Refuse(p)

\* A new row of org_members.
NewMember(p, user, o) ==
  /\ \E m \in Members :
       /\ member[m] = Absent
       /\ member' = [member EXCEPT ![m] = [user |-> user, org |-> o, deleted |-> FALSE]]
  /\ Advance(p) /\ Keep(p)
  /\ UNCHANGED <<org, invitation, histories>>

\* Faulty: makes the new owner of a workspace, who is nobody here, a member.
FaultyCreateOwner(p) == At(p, "create_owner") /\ NewMember(p, local[p].email, local[p].row)

CreateOwner(p) == At(p, "create_owner") /\ NewMember(p, local[p].user, local[p].row)

IsMember(user, o) ==
  \E m \in Members : Live(member, m) /\ member[m].user = user /\ member[m].org = o

\* update_organization: the organization, deleted or not, and the membership
\* of the user in it.  An unchanged name is not looked for.
GetOrganization(p) ==
  LET c == local[p]
  IN /\ At(p, "get_organization")
     /\ \/ /\ IsMember(c.user, c.tenant)
           /\ todo' = [todo EXCEPT ![p] =
                         IF org[c.tenant].name = c.name THEN Tail(Tail(@)) ELSE Tail(@)]
           /\ UNCHANGED <<dbVars, local, histories, requests, faults>>
        \/ ~IsMember(c.user, c.tenant) /\ Refuse(p)

\* Faulty: any user can become the owner.
FaultyFindNewOwner(p) ==
  At(p, "find_new_owner") /\ Read(p) /\ UNCHANGED disturbed

\* validate_and_fetch_new_owner
FindNewOwner(p) ==
  /\ At(p, "find_new_owner")
  /\ \/ IsMember(local[p].email, local[p].tenant) /\ Read(p) /\ UNCHANGED disturbed
     \/ ~IsMember(local[p].email, local[p].tenant) /\ Refuse(p)

\* Organization.update writes the columns it is given; update_workspace
\* checks neither name nor domain.
UpdateOrganization(p) ==
  LET c == local[p]
      o == c.tenant
      Given(new, old) == IF new = Null THEN old ELSE new
      row == [org[o] EXCEPT !.name = Given(c.name, org[o].name),
                            !.domain = Given(c.domain, org[o].domain),
                            !.owner = Given(c.email, org[o].owner)]
      orgs == [org EXCEPT ![o] = row]
  IN /\ At(p, "update_organization")
     /\ \/ /\ NamesUnique(orgs)
           /\ org' = orgs
           /\ twins' = IF c.domain # Null THEN twins \union {o} ELSE twins
           /\ Advance(p) /\ Keep(p)
           /\ UNCHANGED <<member, invitation, disturbed>>
        \/ ~NamesUnique(orgs) /\ Refuse(p)

DeleteOrganization(p) ==
  /\ At(p, "delete_organization")
  /\ org' = [org EXCEPT ![local[p].tenant].deleted = TRUE]
  /\ Advance(p) /\ Keep(p)
  /\ UNCHANGED <<member, invitation, histories>>

-----------------------------------------------------------------------------
(* Invitations.                                                            *)

\* Faulty: does not see the tenant's pending invitations.
FaultyFindPending(p) ==
  /\ At(p, "find_pending")
  /\ \/ local[p].user # local[p].email /\ Read(p) /\ UNCHANGED disturbed
     \/ local[p].user = local[p].email /\ Refuse(p)

\* invite_user: a pending invitation of the address, or one's own address.
FindPending(p) ==
  LET c == local[p]
      found == \E i \in Invitations :
                 /\ Live(invitation, i)
                 /\ invitation[i].email = c.email
                 /\ invitation[i].org = c.tenant
                 /\ invitation[i].status = "pending"
      refused == found \/ c.user = c.email
  IN /\ At(p, "find_pending")
     /\ \/ ~refused /\ Read(p) /\ UNCHANGED disturbed
        \/ refused /\ Refuse(p)

\* The roles an invitation offers are not modelled: one of them may be gone.
FindRole(p) ==
  /\ At(p, "find_role")
  /\ \/ Read(p) /\ UNCHANGED disturbed
     \/ Refuse(p)

CreateInvitation(p) ==
  LET c == local[p]
      new == [email |-> c.email, org |-> c.tenant, status |-> "pending", deleted |-> FALSE]
  IN /\ At(p, "create_invitation")
     /\ \E i \in Invitations :
          /\ invitation[i] = Absent
          /\ invitation' = [invitation EXCEPT ![i] = new]
          /\ Inserted(p, i)
     /\ Advance(p)
     /\ UNCHANGED <<org, member, disturbed>>

\* The rows of the roles offered, and the mail.
SendMail(p) == At(p, "send_mail") /\ Read(p) /\ UNCHANGED disturbed

\* Faulty: a processed invitation can be rejected through its link.
FaultyAllowed(c) ==
  LET i == c.row
  IN /\ Live(invitation, i)
     /\ c.op = "accept" => invitation[i].org = c.tenant /\ invitation[i].email = c.user

\* Which invitations a request may act on: accept_invitation of a signed-in
\* user looks in the tenant and at the address, whatever the status;
\* get_pending_invitation, for the links, at the status only.
Allowed(c) ==
  LET i == c.row
  IN /\ Live(invitation, i)
     /\ IF c.op = "accept"
        THEN invitation[i].org = c.tenant /\ invitation[i].email = c.user
        ELSE invitation[i].status = "pending"

\* A link to reject takes the right token.  A link to accept rejects on a
\* wrong one; on the right one its handler ends in an UnboundLocalError.
Effective(c) ==
  \/ c.op = "accept"
  \/ c.op = "reject" /\ c.right
  \/ c.op = "accept_by_token" /\ ~c.right

FindInvitation(p) ==
  LET c == local[p]
      i == c.row
  IN /\ At(p, "find_invitation")
     /\ \/ /\ Allowed(c) /\ Effective(c)
           /\ disturbed' = IF \E q \in Procs \ {p} : i \in Held(q)
                           THEN disturbed \union {i} ELSE disturbed
           /\ Read(p)
        \/ ~(Allowed(c) /\ Effective(c)) /\ Refuse(p)

\* accept_invitation does not look for a membership that is there already.
CreateMember(p) ==
  /\ At(p, "create_member")
  /\ NewMember(p, invitation[local[p].row].email, invitation[local[p].row].org)

\* Faulty: the status is not written.
FaultySetStatus(p) == At(p, "set_status") /\ Read(p) /\ UNCHANGED disturbed

\* OrganizationInvitation.update, which finds deleted rows too.
SetStatus(p) ==
  LET c == local[p]
  IN /\ At(p, "set_status")
     /\ invitation' = [invitation EXCEPT ![c.row].status =
                         IF c.op = "accept" THEN "accepted" ELSE "rejected"]
     /\ Advance(p) /\ Keep(p)
     /\ UNCHANGED <<org, member, histories>>

\* soft_delete answers success whether or not it finds the row.
DeleteInvitation(p) ==
  LET c == local[p]
      found == invitation[c.row] # Absent /\ invitation[c.row].org = c.tenant
  IN /\ At(p, "delete_invitation")
     /\ invitation' = IF found THEN [invitation EXCEPT ![c.row].deleted = TRUE]
                      ELSE invitation
     /\ Advance(p) /\ Keep(p)
     /\ UNCHANGED <<org, member, histories>>

-----------------------------------------------------------------------------
(* Members.                                                                *)

FindMember(p) ==
  LET m == local[p].member
      found == Live(member, m) /\ member[m].org = local[p].tenant
  IN /\ At(p, "find_member")
     /\ \/ found /\ Read(p) /\ UNCHANGED disturbed
        \/ ~found /\ Refuse(p)

DeleteMember(p) ==
  /\ At(p, "delete_member")
  /\ member' = [member EXCEPT ![local[p].member].deleted = TRUE]
  /\ Advance(p) /\ Keep(p)
  /\ UNCHANGED <<org, invitation, histories>>

Step(p) ==
  \/ FindName(p) \/ FindDomain(p) \/ CreateOrganization(p) \/ CreateOwner(p)
  \/ GetOrganization(p) \/ FindNewOwner(p) \/ UpdateOrganization(p)
  \/ DeleteOrganization(p)
  \/ FindPending(p) \/ FindRole(p) \/ CreateInvitation(p) \/ SendMail(p)
  \/ FindInvitation(p) \/ CreateMember(p) \/ SetStatus(p) \/ DeleteInvitation(p)
  \/ FindMember(p) \/ DeleteMember(p)

\* What clients may ask for.  `email` is the address an invitation goes to,
\* or the new owner of a workspace.
Call(op, u, o) == [Blank EXCEPT !.op = op, !.user = u, !.tenant = o]

OrgClient(p) ==
  \/ \E u \in Users, n \in Names, d \in Domains :
       Receive(p, [Call("create_organization", u, Null) EXCEPT !.name = n, !.domain = d])
  \/ \E u \in Users, o \in Orgs, n \in Names, d \in Domains :
       Receive(p, [Call("update_organization", u, o) EXCEPT !.name = n, !.domain = d])
  \/ \E u \in Users \union {Null}, o \in Orgs, d \in Domains \union {Null} :
       Receive(p, [Call("update_workspace", Null, o) EXCEPT !.email = u, !.domain = d])
  \/ \E o \in Orgs : Receive(p, Call("delete_workspace", Null, o))

InvitationClient(p) ==
  \/ \E u, e \in Users, o \in Orgs :
       Receive(p, [Call("invite", u, o) EXCEPT !.email = e])
  \/ \E u \in Users, o \in Orgs, i \in Invitations :
       Receive(p, [Call("accept", u, o) EXCEPT !.row = i])
  \/ \E op \in {"accept_by_token", "reject"}, i \in Invitations, r \in BOOLEAN :
       Receive(p, [Call(op, Null, Null) EXCEPT !.row = i, !.right = r])
  \/ \E o \in Orgs, i \in Invitations :
       Receive(p, [Call("delete_invitation", Null, o) EXCEPT !.row = i])

MemberClient(p) ==
  \E o \in Orgs, m \in Members :
    Receive(p, [Call("delete_member", Null, o) EXCEPT !.member = m])

Client(p) == OrgClient(p) \/ InvitationClient(p) \/ MemberClient(p)

Next == \E p \in Procs : Client(p) \/ Step(p) \/ Fail(p)

Spec == Init /\ [][Next]_vars

=============================================================================
