-------------------------- MODULE MembershipProofs --------------------------
(***************************************************************************)
(* Proofs about organizations, members and invitations, for any number of  *)
(* tasks, rows and users: the type invariant, and that an acceptance       *)
(* leaves a membership.  What a request has left is a rest of its script,  *)
(* its parameters fit its operation, and rows never vanish.                *)
(***************************************************************************)
EXTENDS MembershipProps, SequenceTheorems, TLAPS

-----------------------------------------------------------------------------
(* What a request may have left.                                           *)

Is1(t, a) == Len(t) = 1 /\ t[1] = a
Is2(t, a, b) == Len(t) = 2 /\ t[1] = a /\ t[2] = b
Is3(t, a, b, c) == Len(t) = 3 /\ t[1] = a /\ t[2] = b /\ t[3] = c
Is4(t, a, b, c, d) == Len(t) = 4 /\ t[1] = a /\ t[2] = b /\ t[3] = c /\ t[4] = d

Left(op, t) ==
  \/ /\ op = "create_organization"
     /\ \/ Is4(t, "find_name", "find_domain", "create_organization", "create_owner")
        \/ Is3(t, "find_domain", "create_organization", "create_owner")
        \/ Is2(t, "create_organization", "create_owner")
        \/ Is1(t, "create_owner")
  \/ /\ op = "update_organization"
     /\ \/ Is3(t, "get_organization", "find_name", "update_organization")
        \/ Is2(t, "find_name", "update_organization")
        \/ Is1(t, "update_organization")
  \/ /\ op = "update_workspace"
     /\ Is2(t, "find_new_owner", "update_organization") \/ Is1(t, "update_organization")
  \/ op = "delete_workspace" /\ Is1(t, "delete_organization")
  \/ /\ op = "invite"
     /\ \/ Is4(t, "find_pending", "find_role", "create_invitation", "send_mail")
        \/ Is3(t, "find_role", "create_invitation", "send_mail")
        \/ Is2(t, "create_invitation", "send_mail")
        \/ Is1(t, "send_mail")
  \/ /\ op = "accept"
     /\ \/ Is3(t, "find_invitation", "create_member", "set_status")
        \/ Is2(t, "create_member", "set_status")
        \/ Is1(t, "set_status")
  \/ /\ op \in {"accept_by_token", "reject"}
     /\ Is2(t, "find_invitation", "set_status") \/ Is1(t, "set_status")
  \/ op = "delete_invitation" /\ Is1(t, "delete_invitation")
  \/ /\ op = "delete_member"
     /\ Is2(t, "find_member", "delete_member") \/ Is1(t, "delete_member")

\* Parameters fit the operation.
Params(c) ==
  /\ c.op = "create_organization" =>
       c.user \in Users /\ c.name \in Names /\ c.domain \in Domains
  /\ c.op \in {"update_organization", "update_workspace"} => c.tenant \in Orgs
  /\ c.op = "update_organization" => c.email = Null
  /\ c.op = "invite" => c.email \in Users /\ c.tenant \in Orgs
  /\ c.op \in {"accept", "accept_by_token", "reject"} => c.row \in Invitations

\* Something is left, and after a step a rest of the script.
LEMMA TailLeft ==
  ASSUME NEW op, NEW t \in Seq(Steps), Left(op, t)
  PROVE  /\ t # <<>>
         /\ Tail(t) \in Seq(Steps)
         /\ Len(t) = 1 <=> Tail(t) = <<>>
         /\ Tail(t) = <<>> \/ Left(op, Tail(t))
<1>1. Len(t) # 0
  BY DEF Left, Is1, Is2, Is3, Is4
<1>2. t # <<>>
  BY <1>1, EmptySeq
<1>3. /\ Tail(t) \in Seq(Steps)
      /\ Len(Tail(t)) = Len(t) - 1
      /\ \A i \in 1 .. Len(Tail(t)) : Tail(t)[i] = t[i + 1]
  BY <1>2, HeadTailProperties
<1>4. Len(Tail(t)) = 0 <=> Tail(t) = <<>>
  BY <1>3, EmptySeq
<1>5. Len(t) = 1 <=> Len(Tail(t)) = 0
  BY <1>3, LenProperties
<1>6. Len(Tail(t)) = 0 \/ Left(op, Tail(t))
  BY <1>3 DEF Left, Is1, Is2, Is3, Is4
<1> QED BY <1>2, <1>3, <1>4, <1>5, <1>6

\* Which operations take a step.
LEMMA StepOf ==
  ASSUME NEW op, NEW t \in Seq(Steps), Left(op, t)
  PROVE  /\ Head(t) \in {"create_organization", "create_owner"} =>
              op = "create_organization"
         /\ Head(t) = "get_organization" =>
              /\ op = "update_organization"
              /\ Is3(t, "get_organization", "find_name", "update_organization")
         /\ Head(t) = "update_organization" =>
              op \in {"update_organization", "update_workspace"}
         /\ Head(t) = "create_invitation" => op = "invite"
         /\ Head(t) \in {"find_invitation", "set_status"} =>
              op \in {"accept", "accept_by_token", "reject"}
         /\ Head(t) = "create_member" => op = "accept"
<1>1. Head(t) = t[1]
  BY TailLeft
<1> QED BY <1>1 DEF Left, Is1, Is2, Is3, Is4

\* Which step comes before another.
LEMMA StepBefore ==
  ASSUME NEW op, NEW t \in Seq(Steps), Left(op, t), Tail(t) # <<>>
  PROVE  /\ Head(Tail(t)) = "create_owner" => Head(t) = "create_organization"
         /\ Head(Tail(t)) = "create_organization" => Head(t) = "find_domain"
         /\ Head(Tail(t)) = "find_role" => Head(t) = "find_pending"
         /\ Head(Tail(t)) = "create_invitation" => Head(t) = "find_role"
         /\ Head(Tail(t)) = "create_member" => Head(t) = "find_invitation"
         /\ Head(Tail(t)) = "set_status" =>
              IF op = "accept" THEN Head(t) = "create_member" ELSE Head(t) = "find_invitation"
         /\ Head(Tail(t)) = "update_organization" =>
              op = "update_organization" \/ Head(t) = "find_new_owner"
<1>1. t # <<>> /\ Head(t) = t[1]
  BY TailLeft
<1>2. /\ Tail(t) \in Seq(Steps)
      /\ Len(Tail(t)) = Len(t) - 1
      /\ \A i \in 1 .. Len(Tail(t)) : Tail(t)[i] = t[i + 1]
  BY <1>1, HeadTailProperties
<1>3. Len(Tail(t)) \in Nat \ {0} /\ Head(Tail(t)) = Tail(t)[1]
  BY <1>2, EmptySeq
<1>4. Head(Tail(t)) = t[2]
  BY <1>2, <1>3
<1> QED BY <1>1, <1>2, <1>3, <1>4 DEF Left, Is1, Is2, Is3, Is4

\* Every request starts with a script for its operation.
LEMMA ScriptLeft ==
  ASSUME NEW c, c.op \in OrgOps \union InvitationOps \union {"delete_member"}
  PROVE  Script(c) \in Seq(Steps) /\ Left(c.op, Script(c))
<1> USE EmptySeq DEF Script, Accepting, Left, Is1, Is2, Is3, Is4, Steps
<1>1. CASE c.op = "create_organization"
  BY <1>1
<1>2. CASE c.op = "update_organization"
  BY <1>2
<1>3. CASE c.op = "update_workspace"
  BY <1>3
<1>4. CASE c.op = "delete_workspace"
  BY <1>4
<1>5. CASE c.op = "invite"
  BY <1>5
<1>6. CASE c.op = "accept"
  BY <1>6
<1>7. CASE c.op = "accept_by_token"
  BY <1>7
<1>10. CASE c.op = "reject"
  BY <1>10
<1>8. CASE c.op = "delete_invitation"
  BY <1>8
<1>9. CASE c.op = "delete_member"
  BY <1>9
<1> QED BY <1>1, <1>2, <1>3, <1>4, <1>5, <1>6, <1>7, <1>8, <1>9, <1>10
           DEF OrgOps, InvitationOps


\* Clients send well-formed requests.
LEMMA ClientType ==
  ASSUME NEW p \in Procs, Client(p)
  PROVE  \E c \in Local : Params(c) /\ Receive(p, c)
<1>1. CASE OrgClient(p)
  <2>1. ASSUME NEW u \in Users, NEW n \in Names, NEW d \in Domains
        PROVE  LET c == [Call("create_organization", u, Null) EXCEPT !.name = n, !.domain = d]
               IN  Receive(p, c) => c \in Local /\ Params(c)
    BY <2>1 DEF Call, Blank, Local, Params, Receive
  <2>2. ASSUME NEW u \in Users, NEW o \in Orgs, NEW n \in Names, NEW d \in Domains
        PROVE  LET c == [Call("update_organization", u, o) EXCEPT !.name = n, !.domain = d]
               IN  Receive(p, c) => c \in Local /\ Params(c)
    BY <2>2 DEF Call, Blank, Local, Params, Receive
  <2>3. ASSUME NEW u \in Users \union {Null}, NEW o \in Orgs,
               NEW d \in Domains \union {Null}
        PROVE  LET c == [Call("update_workspace", Null, o) EXCEPT !.email = u, !.domain = d]
               IN  Receive(p, c) => c \in Local /\ Params(c)
    BY <2>3 DEF Call, Blank, Local, Params, Receive
  <2>4. ASSUME NEW o \in Orgs
        PROVE  LET c == Call("delete_workspace", Null, o)
               IN  Receive(p, c) => c \in Local /\ Params(c)
    BY <2>4 DEF Call, Blank, Local, Params, Receive
  <2> QED BY <1>1, <2>1, <2>2, <2>3, <2>4 DEF OrgClient
<1>2. CASE InvitationClient(p)
  <2>1. ASSUME NEW u \in Users, NEW e \in Users, NEW o \in Orgs
        PROVE  LET c == [Call("invite", u, o) EXCEPT !.email = e]
               IN  Receive(p, c) => c \in Local /\ Params(c)
    BY <2>1 DEF Call, Blank, Local, Params, Receive
  <2>2. ASSUME NEW u \in Users, NEW o \in Orgs, NEW i \in Invitations
        PROVE  LET c == [Call("accept", u, o) EXCEPT !.row = i]
               IN  Receive(p, c) => c \in Local /\ Params(c)
    BY <2>2 DEF Call, Blank, Local, Params, Receive
  <2>3. ASSUME NEW op \in {"accept_by_token", "reject"}, NEW i \in Invitations,
               NEW r \in BOOLEAN
        PROVE  LET c == [Call(op, Null, Null) EXCEPT !.row = i, !.right = r]
               IN  Receive(p, c) => c \in Local /\ Params(c)
    BY <2>3 DEF Call, Blank, Local, Params, Receive
  <2>4. ASSUME NEW o \in Orgs, NEW i \in Invitations
        PROVE  LET c == [Call("delete_invitation", Null, o) EXCEPT !.row = i]
               IN  Receive(p, c) => c \in Local /\ Params(c)
    BY <2>4 DEF Call, Blank, Local, Params, Receive
  <2> QED BY <1>2, <2>1, <2>2, <2>3, <2>4 DEF InvitationClient
<1>3. CASE MemberClient(p)
  <2>1. ASSUME NEW o \in Orgs, NEW m \in Members
        PROVE  LET c == [Call("delete_member", Null, o) EXCEPT !.member = m]
               IN  Receive(p, c) => c \in Local /\ Params(c)
    BY <2>1 DEF Call, Blank, Local, Params, Receive
  <2> QED BY <1>3, <2>1 DEF MemberClient
<1> QED BY <1>1, <1>2, <1>3 DEF Client

-----------------------------------------------------------------------------
(* The invariant.                                                          *)

Joined(i) ==
  \E m \in Members : /\ member[m] # Absent
                     /\ member[m].user = invitation[i].email
                     /\ member[m].org = invitation[i].org

\* What a request has in hand exists, and an acceptance has made a member
\* before it writes the status.
Control(p) ==
  /\ todo[p] # <<>> => Left(local[p].op, todo[p]) /\ Params(local[p])
  /\ local[p].tenant # Null => org[local[p].tenant] # Absent
  /\ local[p].row \in Invitations => invitation[local[p].row] # Absent
  /\ local[p].member # Null => member[local[p].member] # Absent
  /\ At(p, "create_owner") => local[p].row \in Orgs
  /\ At(p, "set_status") /\ local[p].op = "accept" => Joined(local[p].row)

MemberInv == AcceptedJoined /\ \A p \in Procs : Control(p)

-----------------------------------------------------------------------------
(* The tables.                                                             *)

TablesOK ==
  /\ org \in [Orgs -> Org \union {Absent}]
  /\ member \in [Members -> Member \union {Absent}]
  /\ invitation \in [Invitations -> Invitation \union {Absent}]
  /\ twins \subseteq Orgs \union Invitations
  /\ disturbed \subseteq Orgs \union Invitations
  /\ requests \in Nat /\ faults \in Nat

ControlOK ==
  /\ todo \in [Procs -> Seq(Steps)]
  /\ local \in [Procs -> Local]

\* Rows stay, and stay those of whom they were.
Grow ==
  /\ \A o \in Orgs : org[o] # Absent => org'[o] # Absent
  /\ \A m \in Members : member[m] # Absent =>
       /\ member'[m] # Absent
       /\ member'[m].user = member[m].user /\ member'[m].org = member[m].org
  /\ \A i \in Invitations : invitation[i] # Absent =>
       /\ invitation'[i] # Absent
       /\ invitation'[i].email = invitation[i].email
       /\ invitation'[i].org = invitation[i].org

\* Who accepts an invitation: nobody but a request about to write the status.
OnlyAccepts(p) ==
  \A i \in Invitations :
    invitation'[i] # Absent /\ invitation'[i].status = "accepted" =>
      \/ invitation[i] # Absent /\ invitation[i].status = "accepted"
      \/ At(p, "set_status") /\ local[p].op = "accept" /\ i = local[p].row

LEMMA TypeParts == TypeOK <=> TablesOK /\ ControlOK
BY DEF TypeOK, TablesOK, ControlOK

\* What a request under way is known to be.
LEMMA Known ==
  ASSUME TypeOK, MemberInv, NEW p \in Procs, Running(p)
  PROVE  /\ todo[p] \in Seq(Steps) /\ Left(local[p].op, todo[p])
         /\ Params(local[p]) /\ local[p] \in Local
         /\ Control(p)
BY DEF TypeOK, MemberInv, Control, Running

\* A step that leaves the tables alone.
LEMMA Quiet ==
  ASSUME TypeOK, NEW p \in Procs, UNCHANGED <<dbVars, twins>>,
         disturbed' \subseteq Orgs \union Invitations,
         requests' \in Nat, faults' \in Nat
  PROVE  TablesOK' /\ Grow /\ OnlyAccepts(p)
BY DEF TypeOK, TablesOK, Grow, OnlyAccepts, dbVars

LEMMA QuietStep ==
  ASSUME TypeOK, NEW p \in Procs,
         Refuse(p) \/ (Read(p) /\ disturbed' \subseteq Orgs \union Invitations)
  PROVE  TablesOK' /\ Grow /\ OnlyAccepts(p)
<1>1. UNCHANGED <<dbVars, twins>> /\ disturbed' \subseteq Orgs \union Invitations
      /\ requests' \in Nat /\ faults' \in Nat
  BY DEF Refuse, Read, Advance, histories, TypeOK
<1> QED BY <1>1, Quiet

LEMMA RecordTypes ==
  /\ \A r \in Org : r # Absent
  /\ \A r \in Member : r # Absent
  /\ \A r \in Invitation : r # Absent
BY MembershipAssumption

\* A new membership.
LEMMA NewMemberType ==
  ASSUME TypeOK, NEW p \in Procs, NEW u \in Users, NEW o \in Orgs, NewMember(p, u, o)
  PROVE  TablesOK' /\ Grow /\ OnlyAccepts(p)
<1>1. PICK m \in Members :
        /\ member[m] = Absent
        /\ member' = [member EXCEPT ![m] = [user |-> u, org |-> o, deleted |-> FALSE]]
  BY DEF NewMember
<1>2. [user |-> u, org |-> o, deleted |-> FALSE] \in Member
  BY DEF Member
<1>3. UNCHANGED <<org, invitation, histories, requests, faults>>
  BY DEF NewMember, Advance
<1> QED BY <1>1, <1>2, <1>3, RecordTypes
        DEF TypeOK, TablesOK, Grow, OnlyAccepts, histories

\* What every step does to the tables.
LEMMA Tables ==
  ASSUME TypeOK, MemberInv, NEW p \in Procs, Step(p)
  PROVE  TablesOK' /\ Grow /\ OnlyAccepts(p)
<1> DEFINE Good == TablesOK' /\ Grow /\ OnlyAccepts(p)
<1>0. SUFFICES ASSUME Running(p) PROVE Good
  BY DEF Step, At, FindName, FindDomain, CreateOrganization, CreateOwner,
         GetOrganization, FindNewOwner, UpdateOrganization, DeleteOrganization,
         FindPending, FindRole, CreateInvitation, SendMail, FindInvitation,
         CreateMember, SetStatus, DeleteInvitation, FindMember, DeleteMember
<1>1. /\ todo[p] \in Seq(Steps) /\ Left(local[p].op, todo[p])
      /\ Params(local[p]) /\ local[p] \in Local
      /\ Control(p)
  BY <1>0, Known
<1>2. disturbed \subseteq Orgs \union Invitations
  BY DEF TypeOK
<1>3. CASE FindName(p) \/ FindDomain(p) \/ FindNewOwner(p) \/ FindPending(p)
             \/ FindRole(p) \/ SendMail(p) \/ FindMember(p)
  BY <1>2, <1>3, QuietStep
     DEF FindName, FindDomain, FindNewOwner, FindPending, FindRole, SendMail, FindMember
<1>4. CASE FindInvitation(p)
  <2>1. local[p].row \in Invitations
    BY <1>1, <1>4, StepOf DEF FindInvitation, At, Params
  <2>2. CASE Refuse(p)
    BY <2>2, QuietStep
  <2>3. CASE Read(p) /\ disturbed' \in {disturbed, disturbed \union {local[p].row}}
    BY <1>2, <2>1, <2>3, QuietStep
  <2> QED BY <1>4, <2>2, <2>3 DEF FindInvitation
<1>5. CASE GetOrganization(p)
  <2>1. CASE Refuse(p)
    BY <2>1, QuietStep
  <2>2. CASE UNCHANGED <<dbVars, local, histories, requests, faults>>
    BY <2>2, <1>2, Quiet DEF histories, TypeOK
  <2> QED BY <1>5, <2>1, <2>2 DEF GetOrganization
<1>6. CASE CreateOrganization(p)
  <2>1. CASE Refuse(p)
    BY <2>1, QuietStep
  <2>2. ASSUME NEW o \in Orgs, org[o] = Absent,
               org' = [org EXCEPT ![o] =
                 [name |-> local[p].name, domain |-> local[p].domain,
                  owner |-> local[p].user, founder |-> local[p].user,
                  deleted |-> FALSE]],
               Advance(p), Inserted(p, o),
               UNCHANGED <<member, invitation, disturbed>>
        PROVE  Good
    <3>1. local[p].op = "create_organization"
      BY <1>1, <1>6, StepOf DEF CreateOrganization, At
    <3>2. [name |-> local[p].name, domain |-> local[p].domain,
           owner |-> local[p].user, founder |-> local[p].user,
           deleted |-> FALSE] \in Org
      BY <1>1, <3>1 DEF Params, Org
    <3>3. twins' \subseteq Orgs \union Invitations
      BY <2>2 DEF Inserted, TypeOK
    <3> QED BY <2>2, <3>2, <3>3, RecordTypes
            DEF TypeOK, TablesOK, Grow, OnlyAccepts, Advance
  <2> QED BY <1>6, <2>1, <2>2 DEF CreateOrganization
<1>7. CASE CreateOwner(p)
  <2>1. local[p].op = "create_organization"
    BY <1>1, <1>7, StepOf DEF CreateOwner, At
  <2>2. local[p].user \in Users /\ local[p].row \in Orgs
    BY <1>1, <1>7, <2>1 DEF Params, Control, CreateOwner
  <2> QED BY <1>7, <2>2, NewMemberType DEF CreateOwner
<1>8. CASE UpdateOrganization(p)
  <2>1. local[p].tenant \in Orgs /\ org[local[p].tenant] \in Org
    <3>1. local[p].tenant \in Orgs
      BY <1>1, <1>8, StepOf DEF UpdateOrganization, At, Params
    <3> QED BY <1>1, <3>1, MembershipAssumption DEF Control, TypeOK
  <2>2. CASE Refuse(p)
    BY <2>2, QuietStep
  <2>3. CASE ~Refuse(p)
    <3> DEFINE Given(new, old) == IF new = Null THEN old ELSE new
               o == local[p].tenant
               r == [org[o] EXCEPT !.name = Given(local[p].name, org[o].name),
                                   !.domain = Given(local[p].domain, org[o].domain),
                                   !.owner = Given(local[p].email, org[o].owner)]
    <3>1. r \in Org
      BY <1>1, <2>1 DEF Org, Local
    <3>2. /\ org' = [org EXCEPT ![o] = r]
          /\ twins' \subseteq Orgs \union Invitations
          /\ UNCHANGED <<member, invitation, disturbed, requests, faults>>
      BY <1>8, <2>1, <2>3 DEF UpdateOrganization, Advance, TypeOK
    <3> HIDE DEF r
    <3> QED BY <2>1, <3>1, <3>2, RecordTypes DEF TypeOK, TablesOK, Grow, OnlyAccepts
  <2> QED BY <2>2, <2>3
<1>9. CASE DeleteOrganization(p)
  <2>1. /\ org' = [org EXCEPT ![local[p].tenant].deleted = TRUE]
        /\ UNCHANGED <<member, invitation, histories, requests, faults>>
    BY <1>9 DEF DeleteOrganization, Advance
  <2>2. local[p].tenant \in Orgs => org[local[p].tenant] \in Org
    BY <1>1, MembershipAssumption DEF Control, TypeOK
  <2> QED BY <2>1, <2>2, RecordTypes
          DEF Org, TypeOK, TablesOK, Grow, OnlyAccepts, histories
<1>10. CASE CreateInvitation(p)
  <2>1. local[p].email \in Users /\ local[p].tenant \in Orgs
    BY <1>1, <1>10, StepOf DEF CreateInvitation, At, Params
  <2> DEFINE r == [email |-> local[p].email, org |-> local[p].tenant,
                   status |-> "pending", deleted |-> FALSE]
  <2>2. r \in Invitation /\ r.status = "pending"
    BY <2>1 DEF Invitation, Statuses
  <2>3. PICK i \in Invitations :
          /\ invitation[i] = Absent
          /\ invitation' = [invitation EXCEPT ![i] = r]
          /\ Inserted(p, i)
    BY <1>10 DEF CreateInvitation
  <2>4. twins' \subseteq Orgs \union Invitations
    BY <2>3 DEF Inserted, TypeOK
  <2>5. UNCHANGED <<org, member, disturbed, requests, faults>>
    BY <1>10 DEF CreateInvitation, Advance
  <2> HIDE DEF r
  <2> QED BY <2>2, <2>3, <2>4, <2>5, RecordTypes
          DEF TypeOK, TablesOK, Grow, OnlyAccepts
<1>11. CASE CreateMember(p)
  <2>1. local[p].row \in Invitations
    BY <1>1, <1>11, StepOf DEF CreateMember, At, Params
  <2>2. invitation[local[p].row] \in Invitation
    BY <1>1, <2>1 DEF Control, TypeOK
  <2>3. invitation[local[p].row].email \in Users /\ invitation[local[p].row].org \in Orgs
    BY <2>2 DEF Invitation
  <2> QED BY <1>11, <2>3, NewMemberType DEF CreateMember
<1>12. CASE SetStatus(p)
  <2>1. local[p].row \in Invitations
    BY <1>1, <1>12, StepOf DEF SetStatus, At, Params
  <2>2. invitation[local[p].row] \in Invitation
    BY <1>1, <2>1 DEF Control, TypeOK
  <2>3. /\ invitation' = [invitation EXCEPT ![local[p].row].status =
                            IF local[p].op = "accept" THEN "accepted" ELSE "rejected"]
        /\ UNCHANGED <<org, member, histories, requests, faults>>
        /\ At(p, "set_status")
    BY <1>12 DEF SetStatus, Advance
  <2>4. [invitation[local[p].row] EXCEPT !.status =
           IF local[p].op = "accept" THEN "accepted" ELSE "rejected"] \in Invitation
    BY <2>2 DEF Invitation, Statuses
  <2>5. TablesOK' /\ Grow
    BY <2>1, <2>2, <2>3, <2>4, RecordTypes DEF TypeOK, TablesOK, Grow, histories, Invitation
  <2>6. OnlyAccepts(p)
    BY <2>1, <2>2, <2>3 DEF OnlyAccepts, TypeOK, Invitation
  <2> QED BY <2>5, <2>6
<1>13. CASE DeleteInvitation(p)
  <2>1. CASE invitation' = invitation
    BY <1>2, <1>13, <2>1, Quiet DEF DeleteInvitation, Advance, histories, dbVars, TypeOK
  <2>2. CASE /\ invitation[local[p].row] # Absent
             /\ invitation' = [invitation EXCEPT ![local[p].row].deleted = TRUE]
    <3>1. local[p].row \in Invitations => invitation[local[p].row] \in Invitation
      BY <2>2 DEF TypeOK
    <3>2. UNCHANGED <<org, member, histories, requests, faults>>
      BY <1>13 DEF DeleteInvitation, Advance
    <3> QED BY <2>2, <3>1, <3>2, RecordTypes
            DEF Invitation, TypeOK, TablesOK, Grow, OnlyAccepts, histories
  <2> QED BY <1>13, <2>1, <2>2 DEF DeleteInvitation
<1>14. CASE DeleteMember(p)
  <2>1. /\ member' = [member EXCEPT ![local[p].member].deleted = TRUE]
        /\ UNCHANGED <<org, invitation, histories, requests, faults>>
    BY <1>14 DEF DeleteMember, Advance
  <2>2. local[p].member \in Members => member[local[p].member] \in Member
    BY <1>1, MembershipAssumption DEF Control, TypeOK
  <2> QED BY <2>1, <2>2, RecordTypes
          DEF Member, TypeOK, TablesOK, Grow, OnlyAccepts, histories
<1> HIDE DEF Good
<1> QED BY <1>3, <1>4, <1>5, <1>6, <1>7, <1>8, <1>9, <1>10, <1>11, <1>12, <1>13,
           <1>14 DEF Step

-----------------------------------------------------------------------------
(* The requests.                                                           *)

\* Tasks other than p keep what they have, but may be overtaken by an insert.
OthersKeep(p) ==
  /\ todo' = [q \in Procs |-> todo'[q]] /\ local' = [q \in Procs |-> local'[q]]
  /\ \A q \in Procs \ {p} :
    /\ todo'[q] = todo[q]
    /\ local'[q] \in {local[q], [local[q] EXCEPT !.raced = TRUE],
                      [local[q] EXCEPT !.raced = FALSE]}

\* A row an acceptance has made stays.
LEMMA JoinedStays ==
  ASSUME Grow, NEW i \in Invitations, invitation[i] # Absent, Joined(i)
  PROVE  Joined(i)'
BY DEF Grow, Joined

\* Other requests are not disturbed.
LEMMA Others ==
  ASSUME TypeOK, MemberInv, Grow, NEW p \in Procs, OthersKeep(p),
         NEW q \in Procs \ {p}
  PROVE  todo'[q] \in Seq(Steps) /\ local'[q] \in Local /\ Control(q)'
<1>1. /\ todo[q] \in Seq(Steps) /\ local[q] \in Local /\ Control(q)
      /\ todo'[q] = todo[q]
  BY DEF TypeOK, MemberInv, OthersKeep
<1>2. /\ local'[q] \in Local
      /\ local'[q].op = local[q].op /\ local'[q].user = local[q].user
      /\ local'[q].tenant = local[q].tenant /\ local'[q].email = local[q].email
      /\ local'[q].name = local[q].name /\ local'[q].domain = local[q].domain
      /\ local'[q].member = local[q].member /\ local'[q].row = local[q].row
  <2>1. CASE local'[q] = local[q]
    BY <1>1, <2>1
  <2>2. CASE local'[q] = [local[q] EXCEPT !.raced = TRUE]
    BY <1>1, <2>2 DEF Local
  <2>3. CASE local'[q] = [local[q] EXCEPT !.raced = FALSE]
    BY <1>1, <2>3 DEF Local
  <2> QED BY <2>1, <2>2, <2>3 DEF OthersKeep
<1>3. Params(local[q]) => Params(local'[q])
  BY <1>2 DEF Params
<1>4. At(q, "set_status") /\ local[q].op = "accept" => Joined(local[q].row)'
  <2>1. SUFFICES ASSUME At(q, "set_status"), local[q].op = "accept"
                 PROVE  Joined(local[q].row)'
    OBVIOUS
  <2>2. PICK i : i = local[q].row
    OBVIOUS
  <2>3. i \in Invitations /\ invitation[i] # Absent
    BY <1>1, <2>1, <2>2 DEF Control, Params, At, Running
  <2>4. Joined(i)
    BY <1>1, <2>1, <2>2 DEF Control
  <2>5. Joined(i)'
    BY <2>3, <2>4, JoinedStays
  <2> QED BY <1>2, <2>2, <2>5
<1>5. /\ local[q].tenant \in Orgs \union {Null}
      /\ local[q].member \in Members \union {Null}
  BY <1>1 DEF Local
<1> QED BY <1>1, <1>2, <1>3, <1>4, <1>5 DEF Control, Grow, At, Running

LEMMA BlankType == Blank \in Local
BY DEF Blank, Local

\* A request that ends leaves nothing.
LEMMA Ended ==
  ASSUME NEW p \in Procs, todo'[p] = <<>>, local'[p] = Blank
  PROVE  todo'[p] \in Seq(Steps) /\ local'[p] \in Local /\ Control(p)'
BY BlankType, EmptySeq, MembershipAssumption DEF Control, Blank, At, Running

\* A request that goes on with the variables l.
LEMMA GoesOn ==
  ASSUME TypeOK, MemberInv, Grow, NEW p \in Procs, Running(p), NEW l \in Local,
         Params(l), todo'[p] = Tail(todo[p]), local'[p] = NextLocal(p, l),
         l.op = local[p].op, l.tenant = local[p].tenant, l.member = local[p].member,
         l.row \in Invitations => invitation'[l.row] # Absent,
         At(p, "create_organization") => l.row \in Orgs,
         At(p, "create_member") => Joined(l.row)'
  PROVE  todo'[p] \in Seq(Steps) /\ local'[p] \in Local /\ Control(p)'
<1>1. /\ todo[p] \in Seq(Steps) /\ Left(local[p].op, todo[p])
      /\ Control(p) /\ local[p] \in Local
  BY Known
<1>2. /\ todo[p] # <<>> /\ Tail(todo[p]) \in Seq(Steps)
      /\ Len(todo[p]) = 1 <=> Tail(todo[p]) = <<>>
      /\ Tail(todo[p]) = <<>> \/ Left(local[p].op, Tail(todo[p]))
  BY <1>1, TailLeft
<1>3. CASE Len(todo[p]) = 1
  BY <1>2, <1>3, Ended DEF NextLocal
<1>4. CASE Len(todo[p]) # 1
  <2>1. local'[p] = l /\ todo'[p] # <<>> /\ Left(l.op, todo'[p])
    BY <1>2, <1>4 DEF NextLocal
  <2>2. /\ Head(todo'[p]) = "create_owner" => At(p, "create_organization")
        /\ Head(todo'[p]) = "set_status" /\ l.op = "accept" => At(p, "create_member")
    BY <1>1, <1>2, <2>1, StepBefore DEF At, Running
  <2>3. /\ l.tenant \in Orgs \union {Null} /\ l.member \in Members \union {Null}
    BY DEF Local
  <2>4. Joined(l.row)' <=> Joined(local[p].row)'
    BY <2>1
  <2>5. /\ l.tenant # Null => org'[l.tenant] # Absent
        /\ l.member # Null => member'[l.member] # Absent
    BY <1>1, <2>3 DEF Control, Grow
  <2> QED BY <1>2, <2>1, <2>2, <2>4, <2>5 DEF Control, At, Running
<1> QED BY <1>3, <1>4

\* The request that takes a step.
LEMMA Own ==
  ASSUME TypeOK, MemberInv, Grow, NEW p \in Procs, Step(p)
  PROVE  /\ OthersKeep(p)
         /\ todo'[p] \in Seq(Steps) /\ local'[p] \in Local /\ Control(p)'
<1> DEFINE Good == /\ OthersKeep(p)
                   /\ todo'[p] \in Seq(Steps) /\ local'[p] \in Local /\ Control(p)'
<1>0. SUFFICES ASSUME Running(p) PROVE Good
  BY DEF Step, At, FindName, FindDomain, CreateOrganization, CreateOwner,
         GetOrganization, FindNewOwner, UpdateOrganization, DeleteOrganization,
         FindPending, FindRole, CreateInvitation, SendMail, FindInvitation,
         CreateMember, SetStatus, DeleteInvitation, FindMember, DeleteMember
<1>1. /\ todo[p] \in Seq(Steps) /\ Left(local[p].op, todo[p])
      /\ Params(local[p]) /\ local[p] \in Local
      /\ Control(p)
  BY <1>0, Known
<1>2. todo \in [Procs -> Seq(Steps)] /\ local \in [Procs -> Local]
  BY DEF TypeOK
<1>r. PICK r : r = local[p].row
  OBVIOUS
<1>3. CASE Refuse(p)
  <2>1. todo'[p] = <<>> /\ local'[p] = Blank /\ OthersKeep(p)
    BY <1>2, <1>3 DEF Refuse, Stop, OthersKeep
  <2> QED BY <2>1, Ended
<1>4. ASSUME Advance(p), Keep(p), ~At(p, "create_organization"),
             At(p, "create_member") => Joined(r)'
      PROVE  Good
  <2>1. /\ todo'[p] = Tail(todo[p]) /\ local'[p] = NextLocal(p, local[p])
        /\ OthersKeep(p)
    BY <1>2, <1>4 DEF Advance, Keep, OthersKeep
  <2>2. local[p].row \in Invitations => invitation'[local[p].row] # Absent
    BY <1>1 DEF Control, Grow
  <2>3. PICK l : l = local[p]
    OBVIOUS
  <2> QED BY <1>0, <1>1, <1>r, <1>4, <2>1, <2>2, <2>3, GoesOn
<1>5. ASSUME NEW id \in Orgs \union Invitations, Advance(p), Inserted(p, id),
             At(p, "create_organization") => id \in Orgs,
             id \in Invitations => invitation'[id] # Absent,
             local[p].op \in {"create_organization", "invite"}, ~At(p, "create_member")
      PROVE  Good
  <2> DEFINE l == [local[p] EXCEPT !.row = id]
  <2>1. /\ l \in Local /\ l.row = id /\ l.op = local[p].op
        /\ l.tenant = local[p].tenant /\ l.member = local[p].member
        /\ l.user = local[p].user /\ l.name = local[p].name
        /\ l.domain = local[p].domain /\ l.email = local[p].email
    BY <1>1 DEF Local
  <2>2. todo'[p] = Tail(todo[p]) /\ local'[p] = NextLocal(p, l)
    BY <1>2, <1>5 DEF Advance, Inserted
  <2>3. OthersKeep(p)
    BY <1>2, <1>5 DEF Advance, Inserted, OthersKeep, Running
  <2> HIDE DEF l
  <2>4. Params(l)
    BY <1>1, <1>5, <2>1 DEF Params
  <2> QED BY <1>0, <1>5, <2>1, <2>2, <2>3, <2>4, GoesOn
<1>6. CASE Read(p) /\ ~At(p, "create_organization") /\ ~At(p, "create_member")
  BY <1>4, <1>6 DEF Read
<1>7. CASE FindName(p) \/ FindDomain(p) \/ FindNewOwner(p) \/ FindPending(p)
             \/ FindRole(p) \/ SendMail(p) \/ FindMember(p) \/ FindInvitation(p)
  BY <1>3, <1>6, <1>7
     DEF FindName, FindDomain, FindNewOwner, FindPending, FindRole, SendMail,
         FindMember, FindInvitation, At
<1>8. CASE GetOrganization(p)
  <2>1. CASE ~Refuse(p)
    <3>1. /\ local' = local
          /\ todo' = [todo EXCEPT ![p] = Tail(@)]
             \/ todo' = [todo EXCEPT ![p] = Tail(Tail(@))]
          /\ At(p, "get_organization")
      BY <1>8, <2>1 DEF GetOrganization
    <3>2. /\ local[p].op = "update_organization"
          /\ Is3(todo[p], "get_organization", "find_name", "update_organization")
      BY <1>1, <3>1, StepOf DEF At
    <3>3. /\ Tail(todo[p]) \in Seq(Steps) /\ Tail(todo[p]) # <<>>
          /\ Left(local[p].op, Tail(todo[p]))
      BY <1>1, <3>2, TailLeft DEF Is3
    <3>4. /\ Tail(Tail(todo[p])) \in Seq(Steps)
          /\ Tail(Tail(todo[p])) = <<>> \/ Left(local[p].op, Tail(Tail(todo[p])))
      BY <3>3, TailLeft
    <3>5. /\ todo'[p] \in Seq(Steps)
          /\ todo'[p] = <<>> \/ Left(local[p].op, todo'[p])
      BY <1>2, <3>1, <3>3, <3>4
    <3>6. OthersKeep(p)
      BY <1>2, <3>1 DEF OthersKeep
    <3>7. ~(At(p, "create_owner")')
      BY <3>1, <3>2, <3>5, StepOf DEF At, Running
    <3>8. /\ local[p].tenant \in Orgs \union {Null}
          /\ local[p].member \in Members \union {Null}
      BY <1>1 DEF Local
    <3>9. Control(p)'
      BY <1>1, <3>1, <3>2, <3>5, <3>7, <3>8 DEF Control, Grow
    <3> QED BY <1>1, <3>1, <3>5, <3>6, <3>9
  <2> QED BY <1>3, <2>1
<1>9. CASE CreateOrganization(p)
  <2>1. ASSUME ~Refuse(p) PROVE \E o \in Orgs : Advance(p) /\ Inserted(p, o)
    BY <1>9, <2>1 DEF CreateOrganization
  <2>2. local[p].op = "create_organization" /\ ~At(p, "create_member")
    BY <1>1, <1>9, StepOf DEF CreateOrganization, At
  <2> HIDE DEF Good
  <2> QED BY <1>3, <1>5, <2>1, <2>2, MembershipAssumption
<1>10. CASE CreateInvitation(p)
  <2>1. PICK i \in Invitations :
          /\ invitation' = [invitation EXCEPT ![i] =
               [email |-> local[p].email, org |-> local[p].tenant,
                status |-> "pending", deleted |-> FALSE]]
          /\ Inserted(p, i)
    BY <1>10 DEF CreateInvitation
  <2>2. local[p].op = "invite" /\ ~At(p, "create_member") /\ ~At(p, "create_organization")
        /\ Advance(p)
    BY <1>1, <1>10, StepOf DEF CreateInvitation, At
  <2>3. [email |-> local[p].email, org |-> local[p].tenant,
         status |-> "pending", deleted |-> FALSE] \in Invitation
    BY <1>1, <2>2 DEF Params, Invitation, Statuses
  <2>4. invitation'[i] # Absent
    BY <2>1, <2>3, RecordTypes DEF TypeOK
  <2> HIDE DEF Good
  <2> QED BY <1>5, <2>1, <2>2, <2>4
<1>11. CASE CreateMember(p)
  <2>1. local[p].row \in Invitations /\ At(p, "create_member")
    BY <1>1, <1>11, StepOf DEF CreateMember, At, Params
  <2>2. invitation[local[p].row] \in Invitation
    BY <1>1, <2>1 DEF Control, TypeOK
  <2>3. PICK m \in Members :
          member' = [member EXCEPT ![m] =
                       [user |-> invitation[local[p].row].email,
                        org |-> invitation[local[p].row].org, deleted |-> FALSE]]
    BY <1>11 DEF CreateMember, NewMember
  <2>4. [user |-> invitation[local[p].row].email,
         org |-> invitation[local[p].row].org, deleted |-> FALSE] \in Member
    BY <2>2 DEF Invitation, Member
  <2>5. Joined(r)'
    BY <1>r, <1>11, <2>3, <2>4, RecordTypes
       DEF Joined, CreateMember, NewMember, TypeOK
  <2> QED BY <1>4, <1>11, <2>5 DEF CreateMember, NewMember, At
<1>12. CASE CreateOwner(p) \/ UpdateOrganization(p) \/ DeleteOrganization(p)
              \/ SetStatus(p) \/ DeleteInvitation(p) \/ DeleteMember(p)
  <2> HIDE DEF Good
  <2> QED BY <1>3, <1>4, <1>12
          DEF CreateOwner, NewMember, UpdateOrganization, DeleteOrganization,
              SetStatus, DeleteInvitation, DeleteMember, At
<1> HIDE DEF Good
<1> QED BY <1>7, <1>8, <1>9, <1>10, <1>11, <1>12 DEF Step

LEMMA StepKeeps ==
  ASSUME TypeOK, MemberInv, NEW p \in Procs, Step(p)
  PROVE  ControlOK' /\ \A q \in Procs : Control(q)'
<1>1. Grow
  BY Tables
<1>2. \A q \in Procs : todo'[q] \in Seq(Steps) /\ local'[q] \in Local /\ Control(q)'
  BY <1>1, Own, Others
<1>3. OthersKeep(p)
  BY <1>1, Own
<1> QED BY <1>2, <1>3 DEF ControlOK, OthersKeep

\* A new request.
LEMMA ReceiveKeeps ==
  ASSUME TypeOK, MemberInv, NEW p \in Procs, NEW c \in Local, Params(c), Receive(p, c)
  PROVE  /\ TablesOK' /\ Grow /\ OnlyAccepts(p)
         /\ ControlOK' /\ \A q \in Procs : Control(q)'
<1>1. todo \in [Procs -> Seq(Steps)] /\ local \in [Procs -> Local]
  BY DEF TypeOK
<1>2. /\ todo' = [todo EXCEPT ![p] = Script(c)]
      /\ local' = [local EXCEPT ![p] = c]
      /\ UNCHANGED <<dbVars, histories, faults>> /\ requests' = requests + 1
      /\ c.tenant # Null => org[c.tenant] # Absent
      /\ c.row # Null => invitation[c.row] # Absent
      /\ c.member # Null => member[c.member] # Absent
  BY DEF Receive
<1>3. TablesOK' /\ Grow /\ OnlyAccepts(p)
  <2>1. /\ UNCHANGED <<dbVars, twins>> /\ disturbed' \subseteq Orgs \union Invitations
        /\ requests' \in Nat /\ faults' \in Nat
    BY <1>2 DEF TypeOK, histories
  <2> QED BY <2>1, Quiet
<1>4. OthersKeep(p)
  BY <1>1, <1>2 DEF OthersKeep
<1>5. Script(c) \in Seq(Steps) /\ Left(c.op, Script(c))
  BY ScriptLeft, MembershipAssumption DEF Receive
<1>6. todo'[p] = Script(c) /\ local'[p] = c
  BY <1>1, <1>2
<1>7. ~At(p, "create_owner")' /\ ~(At(p, "set_status")' /\ c.op = "accept")
  <2>1. Head(Script(c)) \notin {"create_owner", "set_status"}
    BY <1>5, EmptySeq DEF Script, Accepting, Left
  <2> QED BY <1>6, <2>1 DEF At
<1>8. Control(p)'
  <2>1. c.row \in Invitations => c.row # Null
    BY MembershipAssumption
  <2> QED BY <1>2, <1>5, <1>6, <1>7, <2>1 DEF Control, dbVars
<1>9. \A q \in Procs : todo'[q] \in Seq(Steps) /\ local'[q] \in Local /\ Control(q)'
  BY <1>3, <1>4, <1>5, <1>6, <1>8, Others
<1> QED BY <1>3, <1>4, <1>9 DEF ControlOK, OthersKeep

\* A request that is cut short.
LEMMA FailKeeps ==
  ASSUME TypeOK, MemberInv, NEW p \in Procs, Fail(p)
  PROVE  /\ TablesOK' /\ Grow /\ OnlyAccepts(p)
         /\ ControlOK' /\ \A q \in Procs : Control(q)'
<1>1. todo \in [Procs -> Seq(Steps)] /\ local \in [Procs -> Local]
  BY DEF TypeOK
<1>2. /\ todo' = [todo EXCEPT ![p] = <<>>] /\ local' = [local EXCEPT ![p] = Blank]
      /\ disturbed' = disturbed \union Held(p)
      /\ UNCHANGED <<dbVars, twins, requests>> /\ faults' = faults + 1
  BY DEF Fail, Stop
<1>3. Held(p) \subseteq Orgs \union Invitations
  BY <1>1 DEF Held, Local
<1>4. TablesOK' /\ Grow /\ OnlyAccepts(p)
  BY <1>2, <1>3, Quiet DEF TypeOK
<1>5. OthersKeep(p) /\ todo'[p] = <<>> /\ local'[p] = Blank
  BY <1>1, <1>2 DEF OthersKeep
<1>6. \A q \in Procs : todo'[q] \in Seq(Steps) /\ local'[q] \in Local /\ Control(q)'
  BY <1>4, <1>5, Ended, Others
<1> QED BY <1>4, <1>5, <1>6 DEF ControlOK, OthersKeep

-----------------------------------------------------------------------------
(* The induction.                                                          *)

\* Only a request that has made the member accepts.
LEMMA AcceptedKeeps ==
  ASSUME TypeOK, MemberInv, Grow, NEW p \in Procs, OnlyAccepts(p)
  PROVE  AcceptedJoined'
<1>1. \A i \in Invitations : invitation[i] # Absent /\ Joined(i) => Joined(i)'
  BY JoinedStays
<1>2. ASSUME NEW i \in Invitations, invitation'[i] # Absent,
             invitation'[i].status = "accepted"
      PROVE  invitation[i] # Absent /\ Joined(i)
  <2>1. CASE invitation[i] # Absent /\ invitation[i].status = "accepted"
    BY <2>1 DEF MemberInv, AcceptedJoined, Joined
  <2>2. CASE At(p, "set_status") /\ local[p].op = "accept" /\ i = local[p].row
    BY <2>2 DEF MemberInv, Control
  <2> QED BY <1>2, <2>1, <2>2 DEF OnlyAccepts
<1> QED BY <1>1, <1>2 DEF AcceptedJoined, Joined

LEMMA Initial == Init => TypeOK /\ MemberInv
<1> SUFFICES ASSUME Init PROVE TypeOK /\ MemberInv
  OBVIOUS
<1>1. TypeOK
  BY BlankType, EmptySeq DEF Init, TypeOK
<1>2. AcceptedJoined
  BY DEF Init, AcceptedJoined
<1>3. \A p \in Procs : Control(p)
  BY MembershipAssumption DEF Init, Control, Blank, At, Running
<1> QED BY <1>1, <1>2, <1>3 DEF MemberInv

LEMMA Inductive == TypeOK /\ MemberInv /\ [Next]_vars => (TypeOK /\ MemberInv)'
<1> SUFFICES ASSUME TypeOK, MemberInv, [Next]_vars PROVE (TypeOK /\ MemberInv)'
  OBVIOUS
<1>1. CASE UNCHANGED vars
  <2>1. TypeOK'
    BY <1>1 DEF vars, TypeOK
  <2>2. AcceptedJoined'
    BY <1>1 DEF vars, MemberInv, AcceptedJoined
  <2>3. ASSUME NEW p \in Procs PROVE Control(p)'
    BY <1>1 DEF vars, MemberInv, Control, Joined, At, Running
  <2> QED BY <2>1, <2>2, <2>3 DEF MemberInv
<1>2. ASSUME NEW p \in Procs, Client(p) \/ Step(p) \/ Fail(p)
      PROVE  (TypeOK /\ MemberInv)'
  <2>1. /\ TablesOK' /\ Grow /\ OnlyAccepts(p)
        /\ ControlOK' /\ \A q \in Procs : Control(q)'
    <3>1. CASE Client(p)
      BY <3>1, ClientType, ReceiveKeeps
    <3>2. CASE Step(p)
      BY <3>2, Tables, StepKeeps
    <3>3. CASE Fail(p)
      BY <3>3, FailKeeps
    <3> QED BY <1>2, <3>1, <3>2, <3>3
  <2>2. AcceptedJoined'
    BY <2>1, AcceptedKeeps
  <2>3. TypeOK'
    BY <2>1 DEF TypeOK, TablesOK, ControlOK
  <2> QED BY <2>1, <2>2, <2>3 DEF MemberInv
<1> QED BY <1>1, <1>2 DEF Next

\* The tables, and the requests under way, are always well formed: handlers
\* write only rows of users and organizations that exist.
THEOREM TypeCorrect == Spec => []TypeOK
BY Initial, Inductive, PTL DEF Spec

\* Someone who accepted an invitation has a membership, for any number of
\* requests interleaved or cut short in any way: accept_invitation makes the
\* membership before it writes the status, and memberships are never removed,
\* only marked deleted.
THEOREM AcceptanceJoins == Spec => []AcceptedJoined
<1>1. MemberInv => AcceptedJoined
  BY DEF MemberInv
<1> QED BY <1>1, Initial, Inductive, PTL DEF Spec

\* The second of the calls left.
LEMMA SecondStep ==
  ASSUME NEW t \in Seq(Steps), Len(t) > 1
  PROVE  /\ Tail(t) # <<>> /\ Head(Tail(t)) = t[2]
<1>1. t # <<>>
  BY EmptySeq
<1>2. /\ Tail(t) \in Seq(Steps)
      /\ Len(Tail(t)) = Len(t) - 1
      /\ \A i \in 1 .. Len(Tail(t)) : Tail(t)[i] = t[i + 1]
  BY <1>1, HeadTailProperties
<1>3. Len(t) \in Nat /\ Len(Tail(t)) > 0 /\ 1 \in 1 .. Len(Tail(t))
  <2>1. Len(t) \in Nat
    BY LenProperties
  <2> QED BY <1>2, <2>1
<1>4. Tail(t) # <<>> /\ Head(Tail(t)) = Tail(t)[1]
  <2>1. Len(Tail(t)) # 0
    BY <1>2, <1>3
  <2>2. Tail(t) # <<>>
    BY <1>2, <2>1, EmptySeq
  <2> QED BY <1>2, <2>2, HeadTailProperties
<1>5. Tail(t)[1] = t[2]
  BY <1>2, <1>3
<1> QED BY <1>4, <1>5

-----------------------------------------------------------------------------
(* What a step writes, and how a request comes to a call.                  *)

\* An insert marks its row if its own request was overtaken, and overtakes
\* every other one.
Overtakes(p, id) ==
  /\ local[p].raced => id \in twins'
  /\ \A q \in Procs \ {p} : Running(q) => local'[q].raced

\* Rows of organizations: who may change what of them, and who adds one.
OrgWrites(p) ==
  \A o \in Orgs :
    /\ org[o] # Absent =>
         /\ org'[o].founder = org[o].founder
         /\ \/ org'[o].owner = org[o].owner
            \/ /\ At(p, "update_organization") /\ local[p].tenant = o
               /\ local[p].email # Null /\ org'[o].owner = local[p].email
         /\ Live(org', o) => Live(org, o)
         /\ org'[o].domain = org[o].domain \/ o \in twins'
    /\ org[o] = Absent /\ org'[o] # Absent =>
         /\ At(p, "create_organization") /\ Overtakes(p, o)
         /\ org'[o].owner = local[p].user /\ org'[o].founder = local[p].user
         /\ org'[o].domain = local[p].domain
         /\ At(p, "create_owner")' /\ local'[p].row = o /\ local'[p].user = local[p].user
         /\ \A q \in Orgs \ {o} : org'[q] = org[q]

InvitationWrites(p) ==
  \A i \in Invitations :
    /\ invitation[i] # Absent =>
         /\ Live(invitation', i) => Live(invitation, i)
         /\ \/ invitation'[i].status = invitation[i].status
            \/ /\ At(p, "set_status") /\ local[p].row = i
               /\ invitation'[i].status =
                    IF local[p].op = "accept" THEN "accepted" ELSE "rejected"
    /\ invitation[i] = Absent /\ invitation'[i] # Absent =>
         /\ At(p, "create_invitation") /\ Overtakes(p, i)
         /\ invitation'[i].email = local[p].email
         /\ invitation'[i].org = local[p].tenant
         /\ \A j \in Invitations \ {i} : invitation'[j] = invitation[j]

MemberWrites(p) ==
  \A m \in Members :
    member[m] = Absent /\ member'[m] # Absent =>
      \/ /\ At(p, "create_owner")
         /\ member'[m].user = local[p].user /\ member'[m].org = local[p].row
      \/ /\ At(p, "create_member")
         /\ member'[m].user = invitation[local[p].row].email
         /\ member'[m].org = invitation[local[p].row].org

\* Histories only grow.
Remembers(p) ==
  /\ twins \subseteq twins' /\ disturbed \subseteq disturbed'
  /\ \A q \in Procs \ {p} : Running(q) /\ local[q].raced => local'[q].raced

Writes(p) ==
  OrgWrites(p) /\ InvitationWrites(p) /\ MemberWrites(p) /\ Remembers(p)

LEMMA WritesNothing ==
  ASSUME NEW p \in Procs, UNCHANGED <<org, member, invitation>>, Remembers(p)
  PROVE  Writes(p)
BY DEF Writes, OrgWrites, InvitationWrites, MemberWrites

\* A step that inserts nothing overtakes nobody.
LEMMA RemembersOwn ==
  ASSUME TypeOK, NEW p \in Procs, NEW l, local' = [local EXCEPT ![p] = l],
         twins \subseteq twins', disturbed \subseteq disturbed'
  PROVE  Remembers(p)
BY DEF Remembers, TypeOK

LEMMA WritesQuiet ==
  ASSUME TypeOK, NEW p \in Procs,
         Refuse(p) \/ (Read(p) /\ disturbed \subseteq disturbed')
  PROVE  Writes(p)
<1>1. /\ UNCHANGED <<org, member, invitation, twins>> /\ disturbed \subseteq disturbed'
      /\ local' = [local EXCEPT ![p] = Blank] \/ local' = [local EXCEPT ![p] = NextLocal(p, @)]
  BY DEF Refuse, Read, Stop, Keep, dbVars, histories
<1>2. PICK l : local' = [local EXCEPT ![p] = l]
  BY <1>1
<1>3. Remembers(p)
  BY <1>1, <1>2, RemembersOwn
<1> QED BY <1>1, <1>3, WritesNothing

\* What an insert does to the requests.
LEMMA InsertMarks ==
  ASSUME TypeOK, NEW p \in Procs, NEW id, Inserted(p, id), disturbed' = disturbed
  PROVE  Overtakes(p, id) /\ Remembers(p)
<1>1. /\ local[p].raced => id \in twins'
      /\ twins \subseteq twins' /\ disturbed \subseteq disturbed'
  BY DEF Inserted
<1>2. ASSUME NEW q \in Procs \ {p}, Running(q) PROVE local'[q].raced
  <2>1. local[q] \in Local
    BY DEF TypeOK
  <2>2. local'[q] = [local[q] EXCEPT !.raced = Running(q)]
    BY DEF Inserted
  <2>3. PICK b \in BOOLEAN : b = Running(q)
    BY DEF Running
  <2>4. local'[q].raced = b
    BY <2>1, <2>2, <2>3 DEF Local
  <2> QED BY <1>2, <2>3, <2>4
<1> QED BY <1>1, <1>2 DEF Overtakes, Remembers

\* A new membership.
LEMMA WritesMember ==
  ASSUME TypeOK, NEW p \in Procs, NEW u \in Users, NEW o \in Orgs, NewMember(p, u, o),
         \/ At(p, "create_owner") /\ u = local[p].user /\ o = local[p].row
         \/ /\ At(p, "create_member") /\ u = invitation[local[p].row].email
            /\ o = invitation[local[p].row].org
  PROVE  Writes(p)
<1>1. PICK m \in Members :
        /\ member[m] = Absent
        /\ member' = [member EXCEPT ![m] = [user |-> u, org |-> o, deleted |-> FALSE]]
  BY DEF NewMember
<1>2. /\ UNCHANGED <<org, invitation, twins, disturbed>>
      /\ local' = [local EXCEPT ![p] = NextLocal(p, @)]
  BY DEF NewMember, Keep, histories
<1>3. PICK l : local' = [local EXCEPT ![p] = l]
  BY <1>2
<1>4. Remembers(p)
  BY <1>2, <1>3, RemembersOwn
<1>5. MemberWrites(p)
  BY <1>1 DEF MemberWrites, TypeOK
<1>6. OrgWrites(p) /\ InvitationWrites(p)
  BY <1>2 DEF OrgWrites, InvitationWrites
<1> QED BY <1>4, <1>5, <1>6 DEF Writes

LEMMA StepWrites ==
  ASSUME TypeOK, MemberInv, NEW p \in Procs, Step(p)
  PROVE  Writes(p)
<1>0. SUFFICES ASSUME Running(p) PROVE Writes(p)
  BY DEF Step, At, FindName, FindDomain, CreateOrganization, CreateOwner,
         GetOrganization, FindNewOwner, UpdateOrganization, DeleteOrganization,
         FindPending, FindRole, CreateInvitation, SendMail, FindInvitation,
         CreateMember, SetStatus, DeleteInvitation, FindMember, DeleteMember
<1>1. /\ todo[p] \in Seq(Steps) /\ Left(local[p].op, todo[p])
      /\ Params(local[p]) /\ local[p] \in Local
      /\ Control(p)
  BY <1>0, Known
<1>2. /\ todo \in [Procs -> Seq(Steps)] /\ local \in [Procs -> Local]
      /\ org \in [Orgs -> Org \union {Absent}]
      /\ invitation \in [Invitations -> Invitation \union {Absent}]
      /\ member \in [Members -> Member \union {Absent}]
  BY DEF TypeOK
<1>k. ASSUME Keep(p), twins \subseteq twins', disturbed \subseteq disturbed'
      PROVE  Remembers(p)
  <2>1. PICK l : local' = [local EXCEPT ![p] = l]
    BY <1>k DEF Keep
  <2> QED BY <1>k, <2>1, RemembersOwn
<1>3. CASE FindName(p) \/ FindDomain(p) \/ FindNewOwner(p) \/ FindPending(p)
             \/ FindRole(p) \/ SendMail(p) \/ FindMember(p) \/ FindInvitation(p)
  BY <1>3, WritesQuiet
     DEF FindName, FindDomain, FindNewOwner, FindPending, FindRole, SendMail, FindMember,
         FindInvitation
<1>5. CASE GetOrganization(p)
  <2>1. CASE Refuse(p)
    BY <2>1, WritesQuiet
  <2>2. CASE UNCHANGED <<dbVars, local, histories, requests, faults>>
    <3>1. Remembers(p)
      BY <2>2 DEF Remembers, histories
    <3> QED BY <2>2, <3>1, WritesNothing DEF dbVars
  <2> QED BY <1>5, <2>1, <2>2 DEF GetOrganization
<1>6. CASE CreateOrganization(p)
  <2>1. CASE Refuse(p)
    BY <2>1, WritesQuiet
  <2>2. ASSUME NEW o \in Orgs, org[o] = Absent,
               org' = [org EXCEPT ![o] =
                 [name |-> local[p].name, domain |-> local[p].domain,
                  owner |-> local[p].user, founder |-> local[p].user,
                  deleted |-> FALSE]],
               Advance(p), Inserted(p, o),
               UNCHANGED <<member, invitation, disturbed>>
        PROVE  Writes(p)
    <3>1. Overtakes(p, o) /\ Remembers(p)
      BY <2>2, InsertMarks
    <3>2. At(p, "create_organization")
      BY <1>6 DEF CreateOrganization
    <3>3. Is2(todo[p], "create_organization", "create_owner")
      BY <1>1, <3>2, TailLeft DEF Left, Is1, Is2, Is3, Is4, At, Running
    <3>4. todo'[p] = Tail(todo[p])
      BY <1>2, <2>2 DEF Advance
    <3>5. At(p, "create_owner")'
      <4>1. Tail(todo[p]) # <<>> /\ Head(Tail(todo[p])) = "create_owner"
        BY <1>1, <3>3, SecondStep DEF Is2
      <4> QED BY <3>4, <4>1 DEF At, Running
    <3>6. local'[p] = [local[p] EXCEPT !.row = o]
      BY <1>2, <2>2, <3>3 DEF Inserted, NextLocal, Is2
    <3>7. local'[p].row = o /\ local'[p].user = local[p].user
      BY <1>1, <3>6 DEF Local
    <3>8. OrgWrites(p)
      BY <1>2, <2>2, <3>1, <3>2, <3>5, <3>7 DEF OrgWrites, Live
    <3>9. InvitationWrites(p) /\ MemberWrites(p)
      BY <2>2 DEF InvitationWrites, MemberWrites
    <3> QED BY <3>1, <3>8, <3>9 DEF Writes
  <2> QED BY <1>6, <2>1, <2>2 DEF CreateOrganization
<1>7. CASE CreateOwner(p)
  <2>1. local[p].op = "create_organization" /\ At(p, "create_owner")
    BY <1>1, <1>7, StepOf DEF CreateOwner, At
  <2>2. local[p].user \in Users /\ local[p].row \in Orgs
    BY <1>1, <2>1 DEF Params, Control
  <2> QED BY <1>7, <2>1, <2>2, WritesMember DEF CreateOwner
<1>8. CASE UpdateOrganization(p)
  <2>1. local[p].tenant \in Orgs /\ org[local[p].tenant] \in Org
    <3>1. local[p].tenant \in Orgs
      BY <1>1, <1>8, StepOf DEF UpdateOrganization, At, Params
    <3> QED BY <1>1, <1>2, <3>1, MembershipAssumption DEF Control
  <2>2. CASE Refuse(p)
    BY <2>2, WritesQuiet
  <2>3. CASE ~Refuse(p)
    <3> DEFINE Given(new, old) == IF new = Null THEN old ELSE new
               o == local[p].tenant
               r == [org[o] EXCEPT !.name = Given(local[p].name, org[o].name),
                                   !.domain = Given(local[p].domain, org[o].domain),
                                   !.owner = Given(local[p].email, org[o].owner)]
    <3>1. /\ r.founder = org[o].founder /\ r.deleted = org[o].deleted
          /\ r.owner = org[o].owner \/ (local[p].email # Null /\ r.owner = local[p].email)
          /\ r.domain = org[o].domain \/ local[p].domain # Null
      BY <2>1 DEF Org
    <3>2. /\ org' = [org EXCEPT ![o] = r]
          /\ twins' = IF local[p].domain # Null THEN twins \union {o} ELSE twins
          /\ UNCHANGED <<member, invitation, disturbed>>
          /\ Keep(p) /\ At(p, "update_organization")
      BY <1>8, <2>3 DEF UpdateOrganization
    <3> HIDE DEF r
    <3>3. Remembers(p)
      BY <1>k, <3>2
    <3>4. OrgWrites(p)
      BY <1>2, <2>1, <3>1, <3>2, RecordTypes DEF OrgWrites, Live
    <3>5. InvitationWrites(p) /\ MemberWrites(p)
      BY <3>2 DEF InvitationWrites, MemberWrites
    <3> QED BY <3>3, <3>4, <3>5 DEF Writes
  <2> QED BY <2>2, <2>3
<1>9. CASE DeleteOrganization(p)
  <2>1. /\ org' = [org EXCEPT ![local[p].tenant].deleted = TRUE]
        /\ UNCHANGED <<member, invitation, twins, disturbed>> /\ Keep(p)
    BY <1>9 DEF DeleteOrganization, histories
  <2>2. local[p].tenant \in Orgs => org[local[p].tenant] \in Org
    BY <1>1, <1>2, MembershipAssumption DEF Control
  <2>3. OrgWrites(p)
    BY <1>2, <2>1, <2>2, RecordTypes DEF OrgWrites, Live, Org
  <2>4. InvitationWrites(p) /\ MemberWrites(p)
    BY <2>1 DEF InvitationWrites, MemberWrites
  <2> QED BY <1>k, <2>1, <2>3, <2>4 DEF Writes
<1>10. CASE CreateInvitation(p)
  <2> DEFINE r == [email |-> local[p].email, org |-> local[p].tenant,
                   status |-> "pending", deleted |-> FALSE]
  <2>1. PICK i \in Invitations :
          /\ invitation[i] = Absent
          /\ invitation' = [invitation EXCEPT ![i] = r]
          /\ Inserted(p, i)
    BY <1>10 DEF CreateInvitation
  <2>2. UNCHANGED <<org, member, disturbed>> /\ At(p, "create_invitation")
    BY <1>10 DEF CreateInvitation
  <2>3. r.email = local[p].email /\ r.org = local[p].tenant
    OBVIOUS
  <2> HIDE DEF r
  <2>4. Overtakes(p, i) /\ Remembers(p)
    BY <2>1, <2>2, InsertMarks
  <2>5. InvitationWrites(p)
    BY <1>2, <2>1, <2>2, <2>3, <2>4 DEF InvitationWrites, Live
  <2>6. OrgWrites(p) /\ MemberWrites(p)
    BY <2>2 DEF OrgWrites, MemberWrites
  <2> QED BY <2>4, <2>5, <2>6 DEF Writes
<1>11. CASE CreateMember(p)
  <2>1. local[p].row \in Invitations /\ At(p, "create_member")
    BY <1>1, <1>11, StepOf DEF CreateMember, At, Params
  <2>2. invitation[local[p].row] \in Invitation
    BY <1>1, <1>2, <2>1 DEF Control
  <2>3. invitation[local[p].row].email \in Users /\ invitation[local[p].row].org \in Orgs
    BY <2>2 DEF Invitation
  <2> QED BY <1>11, <2>1, <2>3, WritesMember DEF CreateMember
<1>12. CASE SetStatus(p)
  <2>1. local[p].row \in Invitations
    BY <1>1, <1>12, StepOf DEF SetStatus, At, Params
  <2>2. invitation[local[p].row] \in Invitation
    BY <1>1, <1>2, <2>1 DEF Control
  <2>3. PICK s : s = IF local[p].op = "accept" THEN "accepted" ELSE "rejected"
    OBVIOUS
  <2>4. /\ invitation' = [invitation EXCEPT ![local[p].row].status = s]
        /\ UNCHANGED <<org, member, twins, disturbed>> /\ Keep(p)
        /\ At(p, "set_status")
    BY <1>12, <2>3 DEF SetStatus, histories
  <2>5. InvitationWrites(p)
    BY <1>2, <2>1, <2>2, <2>3, <2>4, RecordTypes DEF InvitationWrites, Live, Invitation
  <2>6. OrgWrites(p) /\ MemberWrites(p)
    BY <2>4 DEF OrgWrites, MemberWrites
  <2> QED BY <1>k, <2>4, <2>5, <2>6 DEF Writes
<1>13. CASE DeleteInvitation(p)
  <2>0. UNCHANGED <<org, member, twins, disturbed>> /\ Keep(p)
    BY <1>13 DEF DeleteInvitation, histories
  <2>1. Remembers(p)
    BY <1>k, <2>0
  <2>2. CASE invitation' = invitation
    BY <2>0, <2>1, <2>2, WritesNothing
  <2>3. CASE /\ invitation[local[p].row] # Absent
             /\ invitation' = [invitation EXCEPT ![local[p].row].deleted = TRUE]
    <3>1. local[p].row \in Invitations => invitation[local[p].row] \in Invitation
      BY <1>2, <2>3
    <3>2. InvitationWrites(p)
      BY <1>2, <2>3, <3>1, RecordTypes DEF InvitationWrites, Live, Invitation
    <3>3. OrgWrites(p) /\ MemberWrites(p)
      BY <2>0 DEF OrgWrites, MemberWrites
    <3> QED BY <2>1, <3>2, <3>3 DEF Writes
  <2> QED BY <1>13, <2>2, <2>3 DEF DeleteInvitation
<1>14. CASE DeleteMember(p)
  <2>1. /\ member' = [member EXCEPT ![local[p].member].deleted = TRUE]
        /\ UNCHANGED <<org, invitation, twins, disturbed>> /\ Keep(p)
    BY <1>14 DEF DeleteMember, histories
  <2>2. local[p].member \in Members => member[local[p].member] \in Member
    BY <1>1, <1>2, MembershipAssumption DEF Control
  <2>3. MemberWrites(p)
    BY <1>2, <2>1, <2>2, RecordTypes DEF MemberWrites
  <2>4. OrgWrites(p) /\ InvitationWrites(p)
    BY <2>1 DEF OrgWrites, InvitationWrites
  <2> QED BY <1>k, <2>1, <2>3, <2>4 DEF Writes
<1> QED BY <1>3, <1>5, <1>6, <1>7, <1>8, <1>9, <1>10, <1>11, <1>12, <1>13,
           <1>14 DEF Step

-----------------------------------------------------------------------------
(* Who moves, and from where.                                              *)

Acts(p) == Client(p) \/ Step(p) \/ Fail(p)

Same(p) ==
  /\ local'[p].op = local[p].op /\ local'[p].user = local[p].user
  /\ local'[p].tenant = local[p].tenant /\ local'[p].email = local[p].email
  /\ local'[p].domain = local[p].domain

OthersSame(p) ==
  \A q \in Procs \ {p} :
    todo'[q] = todo[q] /\ Same(q) /\ local'[q].row = local[q].row

\* The step before some steps.
Comes(p) ==
  /\ At(p, "create_owner")' => CreateOrganization(p)
  /\ At(p, "create_organization")' => FindDomain(p)
  /\ At(p, "find_role")' => FindPending(p)
  /\ At(p, "create_invitation")' => FindRole(p)
  /\ At(p, "create_member")' => FindInvitation(p)
  /\ At(p, "set_status")' =>
       IF local[p].op = "accept" THEN CreateMember(p) ELSE FindInvitation(p)
  /\ At(p, "update_organization")' /\ local'[p].email # Null => FindNewOwner(p)

\* A request that goes on has not been refused, and keeps its parameters.
GoesFurther(p) ==
  Running(p) /\ Running(p)' =>
    /\ ~Refuse(p) /\ Same(p)
    /\ local'[p].raced = local[p].raced
    /\ local'[p].row = local[p].row
         \/ At(p, "create_organization") \/ At(p, "create_invitation")

LEMMA SameOthers ==
  ASSUME TypeOK, NEW p \in Procs, OthersKeep(p)
  PROVE  OthersSame(p)
<1> SUFFICES ASSUME NEW q \in Procs \ {p}
             PROVE  todo'[q] = todo[q] /\ Same(q) /\ local'[q].row = local[q].row
  BY DEF OthersSame
<1>1. todo'[q] = todo[q] /\ local[q] \in Local
  BY DEF TypeOK, OthersKeep
<1>2. CASE local'[q] = local[q]
  BY <1>1, <1>2 DEF Same
<1>3. CASE local'[q] = [local[q] EXCEPT !.raced = TRUE]
  BY <1>1, <1>3 DEF Same, Local
<1>4. CASE local'[q] = [local[q] EXCEPT !.raced = FALSE]
  BY <1>1, <1>4 DEF Same, Local
<1> QED BY <1>2, <1>3, <1>4 DEF OthersKeep

\* What stays of a request that goes on.
LEMMA StepGoesFurther ==
  ASSUME TypeOK, MemberInv, NEW p \in Procs, Step(p), Running(p)'
  PROVE  /\ ~Refuse(p) /\ Same(p)
         /\ local'[p].raced = local[p].raced
         /\ local'[p].row = local[p].row
              \/ At(p, "create_organization") \/ At(p, "create_invitation")
         /\ \/ todo'[p] = Tail(todo[p])
            \/ At(p, "get_organization") /\ todo'[p] = Tail(Tail(todo[p]))
<1> DEFINE Good ==
         /\ ~Refuse(p) /\ Same(p)
         /\ local'[p].raced = local[p].raced
         /\ local'[p].row = local[p].row
              \/ At(p, "create_organization") \/ At(p, "create_invitation")
         /\ \/ todo'[p] = Tail(todo[p])
            \/ At(p, "get_organization") /\ todo'[p] = Tail(Tail(todo[p]))
<1>0. SUFFICES ASSUME Running(p) PROVE Good
  BY DEF Step, At, FindName, FindDomain, CreateOrganization, CreateOwner,
         GetOrganization, FindNewOwner, UpdateOrganization, DeleteOrganization,
         FindPending, FindRole, CreateInvitation, SendMail, FindInvitation,
         CreateMember, SetStatus, DeleteInvitation, FindMember, DeleteMember
<1>1. /\ todo[p] \in Seq(Steps) /\ Left(local[p].op, todo[p]) /\ local[p] \in Local
      /\ todo[p] # <<>> /\ Len(todo[p]) = 1 <=> Tail(todo[p]) = <<>>
  BY <1>0, Known, TailLeft
<1>2. todo \in [Procs -> Seq(Steps)] /\ local \in [Procs -> Local]
  BY DEF TypeOK
<1>3. ~Refuse(p)
  BY <1>2 DEF Refuse, Stop, Running
<1>4. ASSUME Advance(p) PROVE todo'[p] = Tail(todo[p]) /\ Len(todo[p]) # 1
  BY <1>1, <1>2, <1>4 DEF Advance, Running
<1>5. ASSUME Advance(p), Keep(p) PROVE Good
  BY <1>2, <1>3, <1>4, <1>5 DEF Keep, NextLocal, Same
<1>6. ASSUME NEW id, Advance(p), Inserted(p, id),
             At(p, "create_organization") \/ At(p, "create_invitation")
      PROVE  Good
  <2>1. local'[p] = [local[p] EXCEPT !.row = id]
    BY <1>2, <1>4, <1>6 DEF Inserted, NextLocal
  <2>2. Same(p) /\ local'[p].raced = local[p].raced
    BY <1>1, <2>1 DEF Local, Same
  <2> QED BY <1>3, <1>4, <1>6, <2>2
<1>7. CASE GetOrganization(p)
  <2>1. /\ local' = local /\ At(p, "get_organization")
        /\ todo'[p] = Tail(todo[p]) \/ todo'[p] = Tail(Tail(todo[p]))
    BY <1>2, <1>3, <1>7 DEF GetOrganization
  <2> QED BY <1>3, <2>1 DEF Same
<1>8. CASE CreateOrganization(p)
  <2>1. At(p, "create_organization") /\ \E o \in Orgs : Advance(p) /\ Inserted(p, o)
    BY <1>3, <1>8 DEF CreateOrganization
  <2> HIDE DEF Good
  <2> QED BY <1>6, <2>1
<1>9. CASE CreateInvitation(p)
  <2>1. At(p, "create_invitation") /\ \E i \in Invitations : Advance(p) /\ Inserted(p, i)
    BY <1>9 DEF CreateInvitation
  <2> HIDE DEF Good
  <2> QED BY <1>6, <2>1
<1>10. CASE ~(GetOrganization(p) \/ CreateOrganization(p) \/ CreateInvitation(p))
  <2>1. Advance(p) /\ Keep(p)
    BY <1>3, <1>10
       DEF Step, Read, NewMember, FindName, FindDomain, CreateOwner, FindNewOwner,
           UpdateOrganization, DeleteOrganization, FindPending, FindRole, SendMail,
           FindInvitation, CreateMember, SetStatus, DeleteInvitation, FindMember,
           DeleteMember
  <2> HIDE DEF Good
  <2> QED BY <1>5, <2>1
<1> QED BY <1>7, <1>8, <1>9, <1>10

\* A step is the one its call names.
LEMMA StepNamed ==
  ASSUME NEW p \in Procs, Step(p)
  PROVE  /\ At(p, "create_organization") => CreateOrganization(p)
         /\ At(p, "create_owner") => CreateOwner(p)
         /\ At(p, "find_domain") => FindDomain(p)
         /\ At(p, "find_pending") => FindPending(p)
         /\ At(p, "find_role") => FindRole(p)
         /\ At(p, "find_invitation") => FindInvitation(p)
         /\ At(p, "create_member") => CreateMember(p)
         /\ At(p, "set_status") => SetStatus(p)
         /\ At(p, "find_new_owner") => FindNewOwner(p)
<1>1. \A s, t : At(p, s) /\ At(p, t) => s = t
  BY DEF At
<1> QED BY <1>1 DEF Step, FindName, FindDomain, CreateOrganization, CreateOwner,
         GetOrganization, FindNewOwner, UpdateOrganization, DeleteOrganization,
         FindPending, FindRole, CreateInvitation, SendMail, FindInvitation,
         CreateMember, SetStatus, DeleteInvitation, FindMember, DeleteMember

LEMMA StepComes ==
  ASSUME TypeOK, MemberInv, NEW p \in Procs, Step(p)
  PROVE  Comes(p) /\ GoesFurther(p)
<1>1. CASE ~Running(p)'
  BY <1>1 DEF Comes, GoesFurther, At
<1>2. CASE Running(p)'
  <2>1. /\ ~Refuse(p) /\ Same(p)
        /\ local'[p].raced = local[p].raced
        /\ local'[p].row = local[p].row
             \/ At(p, "create_organization") \/ At(p, "create_invitation")
        /\ \/ todo'[p] = Tail(todo[p])
           \/ At(p, "get_organization") /\ todo'[p] = Tail(Tail(todo[p]))
    BY <1>2, StepGoesFurther
  <2>2. Running(p)
    BY DEF Step, At, FindName, FindDomain, CreateOrganization, CreateOwner,
         GetOrganization, FindNewOwner, UpdateOrganization, DeleteOrganization,
         FindPending, FindRole, CreateInvitation, SendMail, FindInvitation,
         CreateMember, SetStatus, DeleteInvitation, FindMember, DeleteMember
  <2>3. /\ todo[p] \in Seq(Steps) /\ Left(local[p].op, todo[p]) /\ Params(local[p])
    BY <2>2, Known
  <2>4. CASE todo'[p] = Tail(todo[p])
    <3>1. /\ At(p, "create_owner")' => At(p, "create_organization")
          /\ At(p, "create_organization")' => At(p, "find_domain")
          /\ At(p, "find_role")' => At(p, "find_pending")
          /\ At(p, "create_invitation")' => At(p, "find_role")
          /\ At(p, "create_member")' => At(p, "find_invitation")
          /\ At(p, "set_status")' =>
               IF local[p].op = "accept" THEN At(p, "create_member")
               ELSE At(p, "find_invitation")
          /\ At(p, "update_organization")' =>
               local[p].op = "update_organization" \/ At(p, "find_new_owner")
      BY <1>2, <2>2, <2>3, <2>4, StepBefore DEF At, Running
    <3>2. local[p].op = "update_organization" => local'[p].email = Null
      BY <2>1, <2>3 DEF Params, Same
    <3>3. Comes(p)
      BY <3>1, <3>2, StepNamed DEF Comes
    <3> QED BY <2>1, <3>3 DEF GoesFurther
  <2>5. CASE At(p, "get_organization") /\ todo'[p] = Tail(Tail(todo[p]))
    <3>1. /\ local[p].op = "update_organization"
          /\ Is3(todo[p], "get_organization", "find_name", "update_organization")
      BY <2>3, <2>5, StepOf DEF At
    <3>2. /\ Tail(todo[p]) \in Seq(Steps) /\ Tail(todo[p]) # <<>>
          /\ Len(Tail(todo[p])) = 2 /\ Tail(todo[p])[2] = "update_organization"
      <4>1. todo[p] # <<>> /\ Len(todo[p]) = 3 /\ todo[p][3] = "update_organization"
        BY <2>3, <3>1, TailLeft DEF Is3
      <4>2. /\ Tail(todo[p]) \in Seq(Steps) /\ Len(Tail(todo[p])) = 2
            /\ \A i \in 1 .. 2 : Tail(todo[p])[i] = todo[p][i + 1]
        BY <2>3, <4>1, HeadTailProperties
      <4>3. Tail(todo[p]) # <<>>
        BY <2>3, <4>1, SecondStep
      <4> QED BY <4>1, <4>2, <4>3
    <3>3. Head(todo'[p]) = "update_organization"
      <4>0. PICK n : n = Len(Tail(todo[p]))
        OBVIOUS
      <4>3. n = 2
        BY <3>2, <4>0
      <4>4. n > 1
        BY <4>3
      <4>1. Len(Tail(todo[p])) > 1
        BY <4>0, <4>4, Zenon
      <4>2. Head(Tail(Tail(todo[p]))) = Tail(todo[p])[2]
        BY <3>2, <4>1, SecondStep
      <4> QED BY <2>5, <3>2, <4>2
    <3>4. local'[p].email = Null
      BY <2>1, <2>3, <3>1 DEF Params, Same
    <3> QED BY <2>1, <3>3, <3>4 DEF Comes, GoesFurther, At
  <2> QED BY <2>1, <2>4, <2>5
<1> QED BY <1>1, <1>2

LEMMA ReceiveComes ==
  ASSUME TypeOK, NEW p \in Procs, NEW c \in Local, Params(c), Receive(p, c)
  PROVE  /\ Comes(p) /\ GoesFurther(p) /\ Writes(p) /\ OthersKeep(p)
<1>1. todo \in [Procs -> Seq(Steps)] /\ local \in [Procs -> Local]
  BY DEF TypeOK
<1>2. /\ todo' = [todo EXCEPT ![p] = Script(c)]
      /\ local' = [local EXCEPT ![p] = c]
      /\ UNCHANGED <<dbVars, histories, faults>> /\ ~Running(p)
  BY DEF Receive
<1>3. todo'[p] = Script(c) /\ local'[p] = c
  BY <1>1, <1>2
<1>4. Script(c) \in Seq(Steps) /\ Left(c.op, Script(c))
  BY ScriptLeft, MembershipAssumption DEF Receive
<1>5. /\ Head(Script(c)) \notin {"create_owner", "create_organization", "find_role",
            "create_invitation", "create_member", "set_status"}
      /\ Head(Script(c)) = "update_organization" => c.email = Null
  BY <1>4, EmptySeq DEF Script, Accepting, Left
<1>6. Comes(p) /\ GoesFurther(p)
  BY <1>2, <1>3, <1>5 DEF Comes, GoesFurther, At
<1>7. Remembers(p)
  BY <1>2, RemembersOwn DEF histories
<1> QED BY <1>1, <1>2, <1>6, <1>7, WritesNothing DEF dbVars, OthersKeep

LEMMA FailComes ==
  ASSUME TypeOK, NEW p \in Procs, Fail(p)
  PROVE  /\ Comes(p) /\ GoesFurther(p) /\ Writes(p) /\ OthersKeep(p)
<1>1. todo \in [Procs -> Seq(Steps)] /\ local \in [Procs -> Local]
  BY DEF TypeOK
<1>2. /\ todo' = [todo EXCEPT ![p] = <<>>] /\ local' = [local EXCEPT ![p] = Blank]
      /\ disturbed' = disturbed \union Held(p)
      /\ UNCHANGED <<dbVars, twins, requests>>
  BY DEF Fail, Stop
<1>3. todo'[p] = <<>>
  BY <1>1, <1>2
<1>4. Comes(p) /\ GoesFurther(p)
  BY <1>3 DEF Comes, GoesFurther, At, Running
<1>5. Remembers(p)
  BY <1>2, RemembersOwn
<1> QED BY <1>1, <1>2, <1>4, <1>5, WritesNothing DEF dbVars, OthersKeep

\* All there is to know of a step.
LEMMA Acting ==
  ASSUME TypeOK, MemberInv, NEW p \in Procs, Acts(p)
  PROVE  Grow /\ OthersSame(p) /\ Writes(p) /\ Comes(p) /\ GoesFurther(p)
<1>1. CASE Client(p)
  BY <1>1, ClientType, ReceiveKeeps, ReceiveComes, SameOthers
<1>2. CASE Step(p)
  BY <1>2, Tables, Own, StepWrites, StepComes, SameOthers
<1>3. CASE Fail(p)
  BY <1>3, FailKeeps, FailComes, SameOthers
<1> QED BY <1>1, <1>2, <1>3 DEF Acts

-----------------------------------------------------------------------------
(* Owners are members.                                                     *)

Belongs(o) ==
  \E m \in Members : /\ member[m] # Absent
                     /\ member[m].org = o /\ member[m].user = org[o].owner

\* A request that has stored o is about to make its owner a member.
Owning(p, o) ==
  At(p, "create_owner") /\ local[p].row = o /\ local[p].user = org[o].owner

\* Whoever is about to be made the owner is a member.
Chosen(p) ==
  At(p, "update_organization") /\ local[p].email # Null =>
    \E m \in Members : /\ member[m] # Absent
                       /\ member[m].org = local[p].tenant
                       /\ member[m].user = local[p].email

OwnerInv ==
  /\ \A o \in Orgs : org[o] # Absent =>
       Belongs(o) \/ o \in disturbed \/ \E p \in Procs : Owning(p, o)
  /\ \A p \in Procs : Chosen(p)

LEMMA OwnerKeeps ==
  ASSUME TypeOK, MemberInv, OwnerInv, NEW p \in Procs, Acts(p)
  PROVE  OwnerInv'
<1>0. Grow /\ OthersSame(p) /\ Writes(p) /\ Comes(p) /\ GoesFurther(p)
  BY Acting
<1>1. OrgWrites(p) /\ disturbed \subseteq disturbed'
  BY <1>0 DEF Writes, Remembers
<1>2. ASSUME NEW o \in Orgs, org'[o] # Absent
      PROVE  Belongs(o)' \/ o \in disturbed' \/ \E q \in Procs : Owning(q, o)'
  <2>1. CASE org[o] = Absent
    BY <1>1, <1>2, <2>1 DEF OrgWrites, Owning
  <2>2. CASE org[o] # Absent /\ org'[o].owner # org[o].owner
    <3>1. /\ At(p, "update_organization") /\ local[p].tenant = o
          /\ local[p].email # Null /\ org'[o].owner = local[p].email
      BY <1>1, <2>2 DEF OrgWrites
    <3>2. PICK m \in Members : /\ member[m] # Absent /\ member[m].org = o
                               /\ member[m].user = local[p].email
      BY <3>1 DEF OwnerInv, Chosen
    <3>3. member'[m] # Absent /\ member'[m].org = o /\ member'[m].user = org'[o].owner
      BY <1>0, <3>1, <3>2 DEF Grow
    <3> QED BY <3>3 DEF Belongs
  <2>3. CASE org[o] # Absent /\ org'[o].owner = org[o].owner
    <3>1. CASE Belongs(o)
      BY <1>0, <2>3, <3>1 DEF Grow, Belongs
    <3>2. CASE o \in disturbed
      BY <1>1, <3>2
    <3>3. ASSUME NEW q \in Procs \ {p}, Owning(q, o)
          PROVE  Owning(q, o)'
      BY <1>0, <2>3, <3>3 DEF OthersSame, Same, Owning, At, Running
    <3>4. CASE Owning(p, o)
      <4>1. CASE Client(p)
        BY <3>4, <4>1, ClientType DEF Owning, At, Receive
      <4>2. CASE Fail(p)
        <5>1. o # Null
          BY MembershipAssumption
        <5>2. o \in Held(p)
          BY <3>4, <5>1 DEF Owning, Held, At
        <5> QED BY <4>2, <5>2 DEF Fail
      <4>3. CASE Step(p)
        <5>1. NewMember(p, local[p].user, local[p].row)
          BY <3>4, <4>3, StepNamed DEF Owning, CreateOwner
        <5>2. PICK m \in Members :
                member' = [member EXCEPT ![m] = [user |-> local[p].user,
                             org |-> local[p].row, deleted |-> FALSE]]
          BY <5>1 DEF NewMember
        <5>3. local[p].user \in Users /\ local[p].row = o /\ local[p].user = org'[o].owner
          <6>1. local[p].op = "create_organization" /\ Params(local[p])
            BY <3>4, Known, StepOf DEF Owning, At
          <6> QED BY <2>3, <3>4, <6>1 DEF Owning, Params
        <5>4. [user |-> local[p].user, org |-> local[p].row, deleted |-> FALSE] \in Member
          BY <5>3 DEF Member
        <5>5. member'[m] # Absent /\ member'[m].org = o /\ member'[m].user = org'[o].owner
          BY <5>2, <5>3, <5>4, RecordTypes DEF TypeOK
        <5> QED BY <5>5 DEF Belongs
      <4> QED BY <4>1, <4>2, <4>3 DEF Acts
    <3> QED BY <2>3, <3>1, <3>2, <3>3, <3>4 DEF OwnerInv
  <2> QED BY <2>1, <2>2, <2>3
<1>3. ASSUME NEW q \in Procs PROVE Chosen(q)'
  <2>1. CASE q # p
    <3>1. Chosen(q)
      BY DEF OwnerInv
    <3>2. /\ todo'[q] = todo[q] /\ local'[q].email = local[q].email
          /\ local'[q].tenant = local[q].tenant
      BY <1>0, <2>1 DEF OthersSame, Same
    <3> QED BY <1>0, <3>1, <3>2 DEF Chosen, Grow, At, Running
  <2>2. CASE q = p
    <3>1. SUFFICES ASSUME At(p, "update_organization")', local'[p].email # Null
                   PROVE  \E m \in Members :
                            /\ member'[m] # Absent
                            /\ member'[m].org = local'[p].tenant
                            /\ member'[m].user = local'[p].email
      BY <2>2 DEF Chosen
    <3>2. FindNewOwner(p) /\ Running(p)'
      BY <1>0, <3>1 DEF Comes, At
    <3>3. Running(p)
      BY <3>2 DEF FindNewOwner, At
    <3>4. ~Refuse(p) /\ Same(p)
      BY <1>0, <3>2, <3>3 DEF GoesFurther
    <3>5. IsMember(local[p].email, local[p].tenant)
      BY <3>2, <3>4 DEF FindNewOwner
    <3>6. PICK m \in Members : /\ member[m] # Absent /\ member[m].org = local[p].tenant
                               /\ member[m].user = local[p].email
      BY <3>5 DEF IsMember, Live
    <3> QED BY <1>0, <3>4, <3>6 DEF Grow, Same
  <2> QED BY <2>1, <2>2
<1> QED BY <1>2, <1>3 DEF OwnerInv, Belongs, Owning

-----------------------------------------------------------------------------
(* Members were invited, and what is processed stays so.                   *)

\* A request that has looked at an invitation and is about to act on it.
Past(p, i) == (At(p, "create_member") \/ At(p, "set_status")) /\ local[p].row = i

\* What an invitation and a membership name exists.
Placed ==
  /\ \A m \in Members : member[m] # Absent => org[member[m].org] # Absent
  /\ \A i \in Invitations : invitation[i] # Absent => org[invitation[i].org] # Absent

\* Who is about to be made a member by creation is the founder.
Founding(p) ==
  At(p, "create_owner") =>
    org[local[p].row] # Absent /\ org[local[p].row].founder = local[p].user

\* Of those who act on an undisturbed invitation there is only one, and a
\* link acts on it while it is pending.
Sole(i) ==
  \A p \in Procs : Past(p, i) =>
    /\ local[p].op # "accept" => invitation[i].status = "pending"
    /\ \A q \in Procs \ {p} : ~Past(q, i)

InvitedInv ==
  /\ MembersInvited
  /\ Placed
  /\ \A p \in Procs : Founding(p)
  /\ \A i \in Invitations \ disturbed : Sole(i)

\* Only a request that acts on an invitation changes its status, and not on
\* an undisturbed one that is processed but to accept it again.
LEMMA StatusChange ==
  ASSUME TypeOK, MemberInv, InvitedInv, NEW p \in Procs, Acts(p),
         NEW i \in Invitations, invitation[i] # Absent,
         invitation'[i].status # invitation[i].status
  PROVE  /\ Past(p, i) /\ At(p, "set_status")
         /\ invitation'[i].status =
              IF local[p].op = "accept" THEN "accepted" ELSE "rejected"
         /\ i \in disturbed \/ local[p].op = "accept" \/ invitation[i].status = "pending"
<1>1. InvitationWrites(p)
  BY Acting DEF Writes
<1>2. /\ At(p, "set_status") /\ local[p].row = i
      /\ invitation'[i].status = IF local[p].op = "accept" THEN "accepted" ELSE "rejected"
  BY <1>1 DEF InvitationWrites
<1> QED BY <1>2 DEF Past, InvitedInv, Sole

LEMMA PlacedKeeps ==
  ASSUME TypeOK, MemberInv, InvitedInv, NEW p \in Procs, Acts(p)
  PROVE  Placed' /\ \A q \in Procs : Founding(q)'
<1>0. Grow /\ OthersSame(p) /\ Writes(p) /\ Comes(p) /\ GoesFurther(p)
  BY Acting
<1>1. OrgWrites(p) /\ InvitationWrites(p) /\ MemberWrites(p)
  BY <1>0 DEF Writes
<1>2. \A o \in Orgs : org[o] # Absent => org'[o] # Absent
  BY <1>0 DEF Grow
<1>3. /\ \A m \in Members : member[m] # Absent => member[m].org \in Orgs
      /\ \A i \in Invitations : invitation[i] # Absent => invitation[i].org \in Orgs
  BY DEF TypeOK, Member, Invitation
<1>4. ASSUME NEW i \in Invitations, invitation'[i] # Absent
      PROVE  org'[invitation'[i].org] # Absent
  <2>1. CASE invitation[i] # Absent
    BY <1>0, <1>2, <1>3, <2>1 DEF InvitedInv, Placed, Grow
  <2>2. CASE invitation[i] = Absent
    <3>1. At(p, "create_invitation") /\ invitation'[i].org = local[p].tenant
      BY <1>1, <1>4, <2>2 DEF InvitationWrites
    <3>2. local[p].tenant \in Orgs /\ org[local[p].tenant] # Absent
      <4>1. local[p].op = "invite" /\ Params(local[p]) /\ Control(p)
        BY <3>1, Known, StepOf DEF At
      <4> QED BY <4>1, MembershipAssumption DEF Params, Control
    <3> QED BY <1>2, <3>1, <3>2
  <2> QED BY <2>1, <2>2
<1>5. ASSUME NEW m \in Members, member'[m] # Absent
      PROVE  org'[member'[m].org] # Absent
  <2>1. CASE member[m] # Absent
    BY <1>0, <1>2, <1>3, <2>1 DEF InvitedInv, Placed, Grow
  <2>2. CASE /\ member[m] = Absent
             /\ At(p, "create_owner") /\ member'[m].org = local[p].row
    <3>1. local[p].row \in Orgs
      BY <2>2 DEF MemberInv, Control
    <3>2. org[local[p].row] # Absent
      BY <2>2 DEF InvitedInv, Founding
    <3> QED BY <1>2, <2>2, <3>1, <3>2
  <2>3. CASE /\ member[m] = Absent
             /\ At(p, "create_member") /\ member'[m].org = invitation[local[p].row].org
    <3>1. local[p].row \in Invitations /\ invitation[local[p].row] # Absent
      <4>1. local[p].op = "accept" /\ Params(local[p]) /\ Control(p)
        BY <2>3, Known, StepOf DEF At
      <4> QED BY <4>1 DEF Params, Control
    <3>2. org[invitation[local[p].row].org] # Absent
      BY <3>1 DEF InvitedInv, Placed
    <3> QED BY <1>2, <1>3, <2>3, <3>1, <3>2
  <2> QED BY <1>1, <1>5, <2>1, <2>2, <2>3 DEF MemberWrites
<1>6. ASSUME NEW q \in Procs, At(q, "create_owner")'
      PROVE  org'[local'[q].row] # Absent /\ org'[local'[q].row].founder = local'[q].user
  <2>1. CASE q # p
    <3>1. /\ At(q, "create_owner") /\ local'[q].row = local[q].row
          /\ local'[q].user = local[q].user
      BY <1>0, <1>6, <2>1 DEF OthersSame, Same, At, Running
    <3>2. local[q].row \in Orgs
      BY <3>1 DEF MemberInv, Control
    <3>3. org[local[q].row] # Absent /\ org[local[q].row].founder = local[q].user
      BY <3>1 DEF InvitedInv, Founding
    <3> QED BY <1>1, <1>2, <3>1, <3>2, <3>3 DEF OrgWrites
  <2>2. CASE q = p
    <3>1. CreateOrganization(p) /\ Running(p)' /\ Running(p)
      BY <1>0, <1>6, <2>2 DEF Comes, At, CreateOrganization
    <3>2. ~Refuse(p)
      BY <1>0, <3>1 DEF GoesFurther
    <3>3. PICK o \in Orgs :
            /\ org[o] = Absent
            /\ org' = [org EXCEPT ![o] =
                 [name |-> local[p].name, domain |-> local[p].domain,
                  owner |-> local[p].user, founder |-> local[p].user,
                  deleted |-> FALSE]]
      BY <3>1, <3>2 DEF CreateOrganization
    <3>4. [name |-> local[p].name, domain |-> local[p].domain,
           owner |-> local[p].user, founder |-> local[p].user,
           deleted |-> FALSE] \in Org
      <4>1. local[p].op = "create_organization" /\ Params(local[p])
        BY <3>1, Known, StepOf DEF CreateOrganization, At
      <4> QED BY <4>1 DEF Params, Org
    <3>5. org'[o] # Absent
      BY <3>3, <3>4, RecordTypes DEF TypeOK
    <3> QED BY <1>1, <2>2, <3>3, <3>5 DEF OrgWrites
  <2> QED BY <2>1, <2>2
<1> QED BY <1>4, <1>5, <1>6 DEF Placed, Founding

LEMMA SoleKeeps ==
  ASSUME TypeOK, MemberInv, InvitedInv, NEW p \in Procs, Acts(p),
         NEW i \in Invitations \ disturbed'
  PROVE  Sole(i)'
<1>0. Grow /\ OthersSame(p) /\ Writes(p) /\ Comes(p) /\ GoesFurther(p)
  BY Acting
<1>1. i \in Invitations \ disturbed /\ Sole(i)
  BY <1>0 DEF Writes, Remembers, InvitedInv
<1>2. ASSUME NEW q \in Procs \ {p}
      PROVE  /\ Past(q, i)' <=> Past(q, i)
             /\ local'[q].op = local[q].op
  BY <1>0, <1>2 DEF OthersSame, Same, Past, At, Running
\* The request that moves has found the invitation just now, or had before.
<1>3. ASSUME Past(p, i)'
      PROVE  /\ local'[p].op = local[p].op
             /\ \/ Past(p, i) /\ local[p].op = "accept"
                \/ /\ FindInvitation(p) /\ ~Refuse(p) /\ local[p].row = i
                   /\ UNCHANGED invitation
                   /\ \A q \in Procs \ {p} : i \notin Held(q)
  <2>1. /\ Running(p)' /\ local'[p].row = i
        /\ \/ FindInvitation(p)
           \/ CreateMember(p) /\ local[p].op = "accept"
    BY <1>0, <1>3 DEF Past, Comes, At
  <2>2. Running(p) /\ (At(p, "find_invitation") \/ At(p, "create_member"))
    BY <2>1 DEF FindInvitation, CreateMember, At
  <2>3. ~Refuse(p) /\ Same(p) /\ local[p].row = i
    BY <1>0, <2>1, <2>2 DEF GoesFurther, At
  <2>4. CASE CreateMember(p) /\ local[p].op = "accept"
    BY <2>3, <2>4 DEF Same, Past, CreateMember
  <2>5. CASE FindInvitation(p)
    <3>1. UNCHANGED invitation
      BY <2>3, <2>5 DEF FindInvitation, Read, dbVars
    <3>2. \A q \in Procs \ {p} : i \notin Held(q)
      BY <2>3, <2>5 DEF FindInvitation
    <3> QED BY <2>3, <2>5, <3>1, <3>2 DEF Same
  <2> QED BY <2>1, <2>4, <2>5
<1>4. ASSUME NEW q \in Procs, Past(q, i) PROVE i \in Held(q)
  <2>1. i # Null
    BY MembershipAssumption
  <2> QED BY <1>4, <2>1 DEF Past, Held, At
\* Nobody else acts on it.
<1>5. ASSUME NEW q \in Procs \ {p}, Past(q, i)' PROVE ~Past(p, i)'
  <2>1. Past(q, i) /\ i \in Held(q) /\ ~Past(p, i)
    BY <1>1, <1>2, <1>4, <1>5 DEF Sole
  <2> QED BY <1>3, <2>1
<1>6. ASSUME NEW q \in Procs, NEW r \in Procs \ {q}, Past(q, i)', Past(r, i)'
      PROVE  FALSE
  <2>1. CASE q # p /\ r # p
    BY <1>1, <1>2, <1>6, <2>1 DEF Sole
  <2>2. CASE q = p \/ r = p
    BY <1>5, <1>6, <2>2
  <2> QED BY <2>1, <2>2
\* A link acts on it while it is pending.
<1>7. ASSUME NEW q \in Procs, Past(q, i)', local'[q].op # "accept"
      PROVE  invitation'[i].status = "pending"
  <2>1. CASE q = p
    <3>1. /\ local[p].op # "accept" /\ FindInvitation(p) /\ ~Refuse(p)
          /\ local[p].row = i /\ UNCHANGED invitation
      BY <1>3, <1>7, <2>1
    <3>2. Allowed(local[p])
      BY <3>1 DEF FindInvitation
    <3> QED BY <3>1, <3>2 DEF Allowed
  <2>2. CASE q # p
    <3>1. Past(q, i) /\ local[q].op # "accept"
      BY <1>2, <1>7, <2>2
    <3>2. invitation[i].status = "pending" /\ ~Past(p, i)
      BY <1>1, <2>2, <3>1 DEF Sole
    <3>3. invitation[i] # Absent
      <4>1. /\ Control(q) /\ local[q].row = i
        BY <3>1 DEF MemberInv, Past
      <4> QED BY <4>1 DEF Control
    <3> QED BY <3>2, <3>3, StatusChange
  <2> QED BY <2>1, <2>2
<1> QED BY <1>6, <1>7 DEF Sole, Past

\* An acceptance that has the invitation in hand goes on, or has accepted it,
\* or is cut short.
LEMMA Acceptance ==
  ASSUME TypeOK, MemberInv, NEW p \in Procs, Acts(p), NEW i \in Invitations,
         local[p].op = "accept", i \in Held(p)
  PROVE  \/ invitation'[i].status = "accepted"
         \/ i \in disturbed'
         \/ \E q \in Procs : local'[q].op = "accept" /\ i \in Held(q)'
<1>1. /\ Running(p) /\ ~At(p, "find_invitation") /\ local[p].row = i
      /\ todo[p] \in Seq(Steps) /\ Left("accept", todo[p]) /\ Control(p)
  BY Known DEF Held
<1>2. invitation[i] # Absent
  BY <1>1 DEF Control
<1>3. /\ At(p, "create_member")
         /\ Is2(todo[p], "create_member", "set_status")
      \/ At(p, "set_status")
  BY <1>1, TailLeft DEF Left, Is1, Is2, Is3, Is4, At
<1>4. CASE Client(p)
  BY <1>1, <1>4, ClientType DEF Receive
<1>5. CASE Fail(p)
  BY <1>5 DEF Fail
<1>6. CASE Step(p) /\ At(p, "set_status")
  <2>1. invitation' = [invitation EXCEPT ![i].status = "accepted"]
    BY <1>1, <1>6, StepNamed DEF SetStatus
  <2>2. invitation[i] \in Invitation /\ invitation \in [Invitations -> Invitation \union {Absent}]
    BY <1>2 DEF TypeOK
  <2> QED BY <2>1, <2>2 DEF Invitation
<1>7. CASE /\ Step(p) /\ At(p, "create_member")
           /\ Is2(todo[p], "create_member", "set_status")
  <2>1. Advance(p) /\ Keep(p)
    BY <1>7, StepNamed DEF CreateMember, NewMember
  <2>2. /\ todo'[p] = Tail(todo[p]) /\ local'[p] = local[p]
    BY <1>7, <2>1 DEF Advance, Keep, NextLocal, Is2, TypeOK
  <2>3. Tail(todo[p]) # <<>> /\ Head(Tail(todo[p])) = "set_status"
    BY <1>1, <1>7, SecondStep DEF Is2
  <2>4. i # Null
    BY MembershipAssumption
  <2>5. local'[p].op = "accept" /\ i \in Held(p)'
    BY <1>1, <2>2, <2>3, <2>4 DEF Held, At, Running
  <2> QED BY <2>5
<1> QED BY <1>3, <1>4, <1>5, <1>6, <1>7 DEF Acts

LEMMA InvitedKeeps ==
  ASSUME TypeOK, MemberInv, InvitedInv, NEW p \in Procs, Acts(p)
  PROVE  InvitedInv'
<1>0. Grow /\ OthersSame(p) /\ Writes(p) /\ Comes(p) /\ GoesFurther(p)
  BY Acting
<1>1. OrgWrites(p) /\ InvitationWrites(p) /\ MemberWrites(p) /\ disturbed \subseteq disturbed'
  BY <1>0 DEF Writes, Remembers
<1>2. ASSUME NEW m \in Members, member'[m] # Absent
      PROVE  \/ org'[member'[m].org].founder = member'[m].user
             \/ \E i \in Invitations :
                  /\ invitation'[i] # Absent
                  /\ invitation'[i].email = member'[m].user
                  /\ invitation'[i].org = member'[m].org
                  /\ \/ invitation'[i].status = "accepted"
                     \/ i \in disturbed'
                     \/ \E q \in Procs : local'[q].op = "accept" /\ i \in Held(q)'
  <2> DEFINE Answered(i) ==
               \/ invitation'[i].status = "accepted"
               \/ i \in disturbed'
               \/ \E q \in Procs : local'[q].op = "accept" /\ i \in Held(q)'
  <2>1. CASE member[m] # Absent
    <3>1. /\ member'[m].org = member[m].org /\ member'[m].user = member[m].user
          /\ member[m].org \in Orgs /\ org[member[m].org] # Absent
      BY <1>0, <2>1 DEF Grow, InvitedInv, Placed, TypeOK, Member
    <3>2. CASE org[member[m].org].founder = member[m].user
      BY <1>1, <3>1, <3>2 DEF OrgWrites
    <3>3. CASE org[member[m].org].founder # member[m].user
      <4>1. PICK i \in Invitations :
              /\ invitation[i] # Absent
              /\ invitation[i].email = member[m].user
              /\ invitation[i].org = member[m].org
              /\ \/ invitation[i].status = "accepted"
                 \/ i \in disturbed
                 \/ \E q \in Procs : local[q].op = "accept" /\ i \in Held(q)
        BY <2>1, <3>3 DEF InvitedInv, MembersInvited
      <4>2. /\ invitation'[i] # Absent /\ invitation'[i].email = member'[m].user
            /\ invitation'[i].org = member'[m].org
        BY <1>0, <3>1, <4>1 DEF Grow
      <4>3. Answered(i)
        <5>1. CASE i \in disturbed
          BY <1>1, <5>1
        <5>2. CASE i \notin disturbed /\ invitation[i].status = "accepted"
          BY <4>1, <5>2, StatusChange
        <5>3. ASSUME NEW q \in Procs \ {p}, local[q].op = "accept", i \in Held(q)
              PROVE  local'[q].op = "accept" /\ i \in Held(q)'
          BY <1>0, <5>3 DEF OthersSame, Same, Held, At, Running
        <5>4. CASE local[p].op = "accept" /\ i \in Held(p)
          BY <5>4, Acceptance
        <5> HIDE DEF Answered
        <5>5. ASSUME NEW q \in Procs \ {p}, local[q].op = "accept", i \in Held(q)
              PROVE  Answered(i)
          BY <5>3, <5>5 DEF Answered
        <5> QED BY <4>1, <5>1, <5>2, <5>4, <5>5
      <4> QED BY <4>2, <4>3
    <3> QED BY <3>2, <3>3
  <2>2. CASE /\ member[m] = Absent /\ At(p, "create_owner")
             /\ member'[m].user = local[p].user /\ member'[m].org = local[p].row
    <3>1. local[p].row \in Orgs
      BY <2>2 DEF MemberInv, Control
    <3>2. org[local[p].row] # Absent /\ org[local[p].row].founder = local[p].user
      BY <2>2 DEF InvitedInv, Founding
    <3> QED BY <1>1, <2>2, <3>1, <3>2 DEF OrgWrites
  <2>3. CASE /\ member[m] = Absent /\ At(p, "create_member")
             /\ member'[m].user = invitation[local[p].row].email
             /\ member'[m].org = invitation[local[p].row].org
    <3>1. PICK i : i = local[p].row
      OBVIOUS
    <3>2. i \in Invitations /\ invitation[i] # Absent /\ local[p].op = "accept"
      <4>1. local[p].op = "accept" /\ Params(local[p]) /\ Control(p)
        BY <2>3, Known, StepOf DEF At
      <4> QED BY <3>1, <4>1 DEF Params, Control
    <3>3. i \in Held(p)
      <4>1. i # Null
        BY <3>2, MembershipAssumption
      <4> QED BY <2>3, <3>1, <4>1 DEF Held, At
    <3>4. Answered(i)
      BY <3>2, <3>3, Acceptance
    <3>5. /\ invitation'[i] # Absent /\ invitation'[i].email = member'[m].user
          /\ invitation'[i].org = member'[m].org
      BY <1>0, <2>3, <3>1, <3>2 DEF Grow
    <3> QED BY <3>2, <3>4, <3>5
  <2> QED BY <1>1, <1>2, <2>1, <2>2, <2>3 DEF MemberWrites
<1>3. MembersInvited'
  BY <1>2 DEF MembersInvited
<1>4. Placed' /\ \A q \in Procs : Founding(q)'
  BY PlacedKeeps
<1>5. \A i \in Invitations \ disturbed' : Sole(i)'
  BY SoleKeeps
<1> QED BY <1>3, <1>4, <1>5 DEF InvitedInv

-----------------------------------------------------------------------------
(* Twins.                                                                  *)

\* What a request has made sure of, unless it was overtaken since.
Unseen(p) ==
  /\ At(p, "create_organization") /\ ~local[p].raced =>
       \A o \in Orgs \ twins : Live(org, o) => org[o].domain # local[p].domain
  /\ (At(p, "find_role") \/ At(p, "create_invitation")) /\ ~local[p].raced =>
       \A i \in Invitations \ twins :
         /\ Live(invitation, i)
         /\ invitation[i].email = local[p].email /\ invitation[i].org = local[p].tenant
         => invitation[i].status # "pending"

TwinInv == NoTwins /\ \A p \in Procs : Unseen(p)

LEMMA UnseenKeeps ==
  ASSUME TypeOK, MemberInv, TwinInv, NEW p \in Procs, Acts(p), NEW q \in Procs
  PROVE  Unseen(q)'
<1>0. Grow /\ OthersSame(p) /\ Writes(p) /\ Comes(p) /\ GoesFurther(p)
  BY Acting
<1>1. OrgWrites(p) /\ InvitationWrites(p) /\ Remembers(p)
  BY <1>0 DEF Writes
<1>2. CASE q # p
  <2>1. todo'[q] = todo[q] /\ Same(q)
    BY <1>0, <1>2 DEF OthersSame
  <2>2. ASSUME At(q, "create_organization"), ~local'[q].raced,
               NEW o \in Orgs \ twins', Live(org', o)
        PROVE  org'[o].domain # local[q].domain
    <3>1. Running(q) /\ ~local[q].raced
      BY <1>1, <1>2, <2>2 DEF Remembers, At
    <3>2. org[o] # Absent
      BY <1>1, <1>2, <2>2, <3>1 DEF OrgWrites, Overtakes, Live
    <3>3. Live(org, o) /\ org'[o].domain = org[o].domain /\ o \notin twins
      BY <1>1, <2>2, <3>2 DEF OrgWrites, Remembers
    <3> QED BY <2>2, <3>1, <3>3 DEF TwinInv, Unseen
  <2>3. ASSUME At(q, "find_role") \/ At(q, "create_invitation"), ~local'[q].raced,
               NEW i \in Invitations \ twins', Live(invitation', i),
               invitation'[i].email = local[q].email,
               invitation'[i].org = local[q].tenant
        PROVE  invitation'[i].status # "pending"
    <3>1. Running(q) /\ ~local[q].raced
      BY <1>1, <1>2, <2>3 DEF Remembers, At
    <3>2. invitation[i] # Absent
      BY <1>1, <1>2, <2>3, <3>1 DEF InvitationWrites, Overtakes, Live
    <3>3. /\ Live(invitation, i) /\ i \notin twins
          /\ invitation'[i].email = invitation[i].email
          /\ invitation'[i].org = invitation[i].org
      BY <1>0, <1>1, <2>3, <3>2 DEF InvitationWrites, Remembers, Grow
    <3>4. invitation[i].status # "pending"
      BY <2>3, <3>1, <3>3 DEF TwinInv, Unseen
    <3> QED BY <1>1, <3>2, <3>4 DEF InvitationWrites
  <2>4. /\ At(q, "create_organization")' <=> At(q, "create_organization")
        /\ At(q, "find_role")' <=> At(q, "find_role")
        /\ At(q, "create_invitation")' <=> At(q, "create_invitation")
    BY <2>1 DEF At, Running
  <2> QED BY <2>1, <2>2, <2>3, <2>4 DEF Unseen, Same
<1>3. CASE q = p
  <2>1. ASSUME FindDomain(p) \/ FindPending(p) \/ FindRole(p), Running(p)'
        PROVE  /\ Read(p) /\ Same(p) /\ local'[p].raced = local[p].raced
               /\ ~Refuse(p)
    <3>1. Running(p)
      BY <2>1 DEF FindDomain, FindPending, FindRole, At
    <3> QED BY <1>0, <2>1, <3>1 DEF GoesFurther, FindDomain, FindPending, FindRole
  <2>2. ASSUME At(p, "create_organization")',
               NEW o \in Orgs \ twins', Live(org', o)
        PROVE  org'[o].domain # local'[p].domain
    <3>1. FindDomain(p) /\ Running(p)'
      BY <1>0, <2>2 DEF Comes, At
    <3>2. Read(p) /\ Same(p) /\ ~Refuse(p)
      BY <2>1, <3>1
    <3>3. ~\E x \in Orgs : Live(org, x) /\ org[x].domain = local[p].domain
      BY <3>1, <3>2 DEF FindDomain
    <3> QED BY <2>2, <3>2, <3>3 DEF Read, dbVars, Same, Live
  <2>3. ASSUME At(p, "find_role")',
               NEW i \in Invitations \ twins', Live(invitation', i),
               invitation'[i].email = local'[p].email,
               invitation'[i].org = local'[p].tenant
        PROVE  invitation'[i].status # "pending"
    <3>1. FindPending(p) /\ Running(p)'
      BY <1>0, <2>3 DEF Comes, At
    <3>2. Read(p) /\ Same(p) /\ ~Refuse(p)
      BY <2>1, <3>1
    <3>3. ~\E x \in Invitations :
             /\ Live(invitation, x) /\ invitation[x].email = local[p].email
             /\ invitation[x].org = local[p].tenant /\ invitation[x].status = "pending"
      BY <3>1, <3>2 DEF FindPending
    <3> QED BY <2>3, <3>2, <3>3 DEF Read, dbVars, Same, Live
  <2>4. ASSUME At(p, "create_invitation")', ~local'[p].raced,
               NEW i \in Invitations \ twins', Live(invitation', i),
               invitation'[i].email = local'[p].email,
               invitation'[i].org = local'[p].tenant
        PROVE  invitation'[i].status # "pending"
    <3>1. FindRole(p) /\ Running(p)'
      BY <1>0, <2>4 DEF Comes, At
    <3>2. Read(p) /\ Same(p) /\ local'[p].raced = local[p].raced
      BY <2>1, <3>1
    <3>3. At(p, "find_role")
      BY <3>1 DEF FindRole
    <3> QED BY <2>4, <3>2, <3>3 DEF Read, dbVars, Same, Live, TwinInv, Unseen
  <2> QED BY <1>3, <2>2, <2>3, <2>4 DEF Unseen
<1> QED BY <1>2, <1>3

LEMMA TwinKeeps ==
  ASSUME TypeOK, MemberInv, TwinInv, NEW p \in Procs, Acts(p)
  PROVE  TwinInv'
<1>0. Grow /\ OthersSame(p) /\ Writes(p) /\ Comes(p) /\ GoesFurther(p)
  BY Acting
<1>1. OrgWrites(p) /\ InvitationWrites(p) /\ Remembers(p)
  BY <1>0 DEF Writes
\* A new row that is no twin differs from every old one that is none.
<1>2. ASSUME NEW i \in Invitations \ twins', invitation[i] = Absent, invitation'[i] # Absent,
             NEW j \in Invitations \ twins', i # j, Live(invitation', j),
             invitation'[i].email = invitation'[j].email,
             invitation'[i].org = invitation'[j].org
      PROVE  invitation'[j].status # "pending"
  <2>1. /\ At(p, "create_invitation") /\ ~local[p].raced
        /\ invitation'[i].email = local[p].email /\ invitation'[i].org = local[p].tenant
        /\ invitation'[j] = invitation[j] /\ j \notin twins
    BY <1>1, <1>2 DEF InvitationWrites, Overtakes, Remembers
  <2> QED BY <1>2, <2>1 DEF TwinInv, Unseen, Live
<1>3. ASSUME NEW i \in Invitations \ twins', NEW j \in Invitations \ twins', i # j,
             Live(invitation', i), Live(invitation', j),
             invitation'[i].email = invitation'[j].email,
             invitation'[i].org = invitation'[j].org,
             invitation'[i].status = "pending", invitation'[j].status = "pending"
      PROVE  FALSE
  <2>1. CASE invitation[i] = Absent
    BY <1>2, <1>3, <2>1 DEF Live
  <2>2. CASE invitation[j] = Absent
    BY <1>2, <1>3, <2>2 DEF Live
  <2>3. CASE invitation[i] # Absent /\ invitation[j] # Absent
    <3>1. /\ Live(invitation, i) /\ Live(invitation, j)
          /\ i \notin twins /\ j \notin twins
          /\ invitation[i].email = invitation[j].email
          /\ invitation[i].org = invitation[j].org
      BY <1>0, <1>1, <1>3, <2>3 DEF InvitationWrites, Grow, Remembers
    <3>2. invitation[i].status = "pending" /\ invitation[j].status = "pending"
      BY <1>1, <1>3, <2>3 DEF InvitationWrites
    <3> QED BY <1>3, <3>1, <3>2 DEF TwinInv, NoTwins
  <2> QED BY <2>1, <2>2, <2>3
<1>4. ASSUME NEW o \in Orgs \ twins', org[o] = Absent, org'[o] # Absent,
             NEW x \in Orgs \ twins', o # x, Live(org', x)
      PROVE  org'[o].domain # org'[x].domain
  <2>1. /\ At(p, "create_organization") /\ ~local[p].raced
        /\ org'[o].domain = local[p].domain
        /\ org'[x] = org[x] /\ x \notin twins
    BY <1>1, <1>4 DEF OrgWrites, Overtakes, Remembers
  <2> QED BY <1>4, <2>1 DEF TwinInv, Unseen, Live
<1>5. ASSUME NEW o \in Orgs \ twins', NEW x \in Orgs \ twins', o # x,
             Live(org', o), Live(org', x)
      PROVE  org'[o].domain # org'[x].domain
  <2>1. CASE org[o] = Absent
    BY <1>4, <1>5, <2>1 DEF Live
  <2>2. CASE org[x] = Absent
    BY <1>4, <1>5, <2>2 DEF Live
  <2>3. CASE org[o] # Absent /\ org[x] # Absent
    <3>1. /\ Live(org, o) /\ Live(org, x) /\ o \notin twins /\ x \notin twins
          /\ org'[o].domain = org[o].domain /\ org'[x].domain = org[x].domain
      BY <1>1, <1>5, <2>3 DEF OrgWrites, Remembers
    <3> QED BY <1>5, <3>1 DEF TwinInv, NoTwins
  <2> QED BY <2>1, <2>2, <2>3
<1>6. NoTwins'
  BY <1>3, <1>5 DEF NoTwins, Live
<1> QED BY <1>6, UnseenKeeps DEF TwinInv

-----------------------------------------------------------------------------
(* The theorems.                                                           *)

AllInv == OwnerInv /\ InvitedInv /\ TwinInv

LEMMA AllInitial == Init => AllInv
<1> SUFFICES ASSUME Init PROVE AllInv
  OBVIOUS
<1>1. \A p \in Procs : \A s : ~At(p, s)
  BY DEF Init, At, Running
<1>2. OwnerInv
  BY <1>1 DEF Init, OwnerInv, Chosen
<1>3. InvitedInv
  BY <1>1 DEF Init, InvitedInv, MembersInvited, Placed, Founding, Sole, Past
<1>4. TwinInv
  BY <1>1 DEF Init, TwinInv, NoTwins, Unseen, Live
<1> QED BY <1>2, <1>3, <1>4 DEF AllInv

LEMMA AllInductive ==
  TypeOK /\ MemberInv /\ AllInv /\ [Next]_vars => AllInv'
<1> SUFFICES ASSUME TypeOK, MemberInv, AllInv, [Next]_vars PROVE AllInv'
  OBVIOUS
<1>1. CASE UNCHANGED vars
  <2>1. OwnerInv'
    BY <1>1 DEF vars, AllInv, OwnerInv, Belongs, Owning, Chosen, At, Running
  <2>2. InvitedInv'
    <3>1. MembersInvited'
      BY <1>1 DEF vars, AllInv, InvitedInv, MembersInvited, Held, At, Running
    <3>2. Placed' /\ \A p \in Procs : Founding(p)'
      BY <1>1 DEF vars, AllInv, InvitedInv, Placed, Founding, At, Running
    <3>3. \A i \in Invitations \ disturbed' : Sole(i)'
      BY <1>1 DEF vars, AllInv, InvitedInv, Sole, Past, At, Running
    <3> QED BY <3>1, <3>2, <3>3 DEF InvitedInv
  <2>3. TwinInv'
    BY <1>1 DEF vars, AllInv, TwinInv, NoTwins, Unseen, Live, At, Running
  <2> QED BY <2>1, <2>2, <2>3 DEF AllInv
<1>2. CASE Next
  <2>1. PICK p \in Procs : Acts(p)
    BY <1>2 DEF Next, Acts
  <2> QED BY <2>1, OwnerKeeps, InvitedKeeps, TwinKeeps DEF AllInv
<1> QED BY <1>1, <1>2

LEMMA AllHolds == Spec => [](TypeOK /\ MemberInv /\ AllInv)
BY Initial, Inductive, AllInitial, AllInductive, PTL DEF Spec

\* The owner of an organization has been made its member, for any number of
\* requests interleaved or cut short in any way, unless the very request that
\* stored the organization did not come to it: a new owner is looked for
\* among the members, who are never removed, only marked deleted.
THEOREM OwnersBelong == Spec => []OwnerBelongs
<1>1. AllInv => OwnerBelongs
  BY DEF AllInv, OwnerInv, Belongs, Owning, OwnerBelongs
<1> QED BY <1>1, AllHolds, PTL

\* Every member founded his organization or accepted an invitation to it, or
\* is about to have accepted; a rejection through a link takes back only what
\* overlapped with it.
THEOREM InvitationsJoin == Spec => []MembersInvited
<1>1. AllInv => MembersInvited
  BY DEF AllInv, InvitedInv
<1> QED BY <1>1, AllHolds, PTL

\* A processed invitation never becomes pending again, and an accepted one
\* becomes rejected only by a request that overlapped with the acceptance:
\* the links look at the status, and of two who look one finds the other.
THEOREM ProcessedStay == Spec => ProcessedStays
<1> DEFINE Stays == \A i \in Invitations :
             invitation[i] # Absent /\ invitation[i].status # "pending" =>
               /\ invitation'[i].status # "pending"
               /\ invitation[i].status = "accepted" /\ invitation'[i].status = "rejected"
                  => i \in disturbed
<1>1. TypeOK /\ MemberInv /\ AllInv /\ [Next]_vars => [Stays]_vars
  <2> SUFFICES ASSUME TypeOK, MemberInv, AllInv, [Next]_vars PROVE [Stays]_vars
    OBVIOUS
  <2>1. CASE UNCHANGED vars
    BY <2>1
  <2>2. ASSUME NEW p \in Procs, Acts(p), NEW i \in Invitations,
               invitation[i] # Absent, invitation[i].status # "pending"
        PROVE  /\ invitation'[i].status # "pending"
               /\ invitation[i].status = "accepted" /\ invitation'[i].status = "rejected"
                  => i \in disturbed
    <3>1. CASE invitation'[i].status = invitation[i].status
      BY <2>2, <3>1
    <3>2. CASE invitation'[i].status # invitation[i].status
      BY <2>2, <3>2, StatusChange DEF AllInv
    <3> QED BY <3>1, <3>2
  <2>3. CASE Next
    BY <2>2, <2>3 DEF Next, Acts
  <2> QED BY <2>1, <2>3
<1> QED BY <1>1, AllHolds, PTL DEF Spec, ProcessedStays

\* Two pending invitations of one address to one organization, and two
\* organizations of one domain, are there only when an insert overtook the
\* request that made the second one after its look, or an edit changed the
\* domain.
THEOREM TwinsOnlyByRace == Spec => []NoTwins
<1>1. AllInv => NoTwins
  BY DEF AllInv, TwinInv
<1> QED BY <1>1, AllHolds, PTL

=============================================================================
