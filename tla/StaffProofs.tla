---------------------------- MODULE StaffProofs ----------------------------
(***************************************************************************)
(* Proofs about members, teams and roles at work, for any finite number    *)
(* of roles and days and any request tasks, organizations, members, teams, *)
(* requests and faults.                                                    *)
(*                                                                         *)
(* SInv says what a request that runs has left and what it has looked up,  *)
(* and that no other step takes away; it gives TypeOK and SameTenant.      *)
(* Fresh says what a request has looked up and others may take away: it    *)
(* holds of the requests that are not loose, that nobody overtook and that *)
(* name no entry twice.  With NoTwins both are inductive.  Due says what   *)
(* such a request has done and what its steps will do; with PartIds it     *)
(* makes XInv, which gives UpdateExact.                                    *)
(***************************************************************************)
EXTENDS StaffProps, SequenceTheorems, FiniteSetTheorems, WellFoundedInduction, TLAPS
-----------------------------------------------------------------------------
(* The inductive invariant.                                                *)

\* Requests about a member.
OfMember == {"update_member", "assign_role", "remove_role", "remove_level", "delete_member"}

\* A request c names rows of the tables it is about, in an organization.
AsksFor(c) ==
  /\ c.op \in Ops /\ c.tenant \in Orgs
  /\ c.op \in OfMember => c.member \in Members
  /\ c.op \in {"update_member", "set_levels", "remove_level", "delete_team"}
       => c.team \in Teams
  /\ c.op \in {"assign_role", "remove_role"} => RoleOf(c) \in Roles
  /\ c.op \in {"create_team", "create_role", "update_role"} => c.name \in Names
  /\ c.op \in {"update_role", "delete_role"} => c.role \in Roles
  /\ c.op = "create_role" => c.found = Null

\* And it is loose if it names one twice.
Asks(c) == AsksFor(c) /\ (c.loose # TRUE => ~Repeats(c))

\* Steps about a member.
OnMember == {"find_member", "find_lead", "find_level", "write_level"}

\* A step s is one of a request c.
Fit(c, s) ==
  /\ s.do \in {"load_member", "update_member", "delete_part", "create_part"}
       => c.op = "update_member"
  /\ s.do = "find_member"
       => c.op \in {"assign_role", "remove_role", "set_levels", "remove_level",
                    "delete_member"}
  /\ s.do = "find_role" => c.op \in {"assign_role", "remove_role"}
  /\ s.do \in {"assign_role", "delete_member", "delete_team", "create_team", "create_role",
               "delete_role"}
       => c.op = s.do
  /\ s.do = "find_team" => c.op = "create_team"
  /\ s.do = "delete_level" => c.op = "remove_level"
  /\ s.do = "find_lead" => c.op = "set_levels"
  /\ s.do \in {"find_level", "write_level"} => c.op \in {"update_member", "set_levels"}
  /\ s.do \in {"load_role", "rename_role", "find_grant"} => c.op = "update_role"
  /\ s.do \in {"find_name", "write_grant", "list_grants"}
       => c.op \in {"create_role", "update_role"}
  /\ s.do \in OnMember => s.on \in Members
  /\ s.do = "find_member" /\ c.op = "set_levels" => s.access \in Access
  /\ s.do = "find_member" /\ c.op \in OfMember => s.on = c.member
  /\ s.do = "write_level" => s.access \in Access
  /\ s.do \in {"find_level", "write_level"} /\ c.op = "update_member"
       => s.on = c.member
  /\ s.do = "write_level" /\ c.op = "update_member" => s.access = "MEMBER"
  /\ s.do = "delete_part" => s.on \in Parts
  /\ s.do = "create_part" => s.on \in Roles \union Days
  /\ s.do \in {"find_grant", "write_grant"} => s.on \in Perms /\ s.access \in Flags

\* A step b comes right after a step a of the same request.
Then(a, b) ==
  /\ a.do = "find_member"
       => b.do \in {"find_role", "delete_level", "delete_member", "find_member"}
  /\ a.do = "update_member" \/ a.do = "delete_part" \/ a.do = "create_part"
       => b.do \in {"delete_part", "create_part", "find_level"}
  /\ a.do = "find_role" => b.do = "assign_role"
  /\ a.do = "find_lead" => b.do = "find_level" /\ b.on = a.on
  /\ a.do = "find_level" => b.do = "write_level" /\ b.on = a.on
  /\ a.do = "write_level" => b.do = "find_member"
  /\ a.do = "find_team" => b.do = "create_team"
  /\ a.do = "load_role" => b.do = "find_name"
  /\ a.do = "find_name" => b.do \in {"create_role", "rename_role"}
  /\ a.do \in {"create_role", "write_grant", "rename_role", "find_grant"}
       => b.do \in {"write_grant", "find_grant", "list_grants"}
  /\ a.do \notin {"load_member", "assign_role", "delete_member", "delete_level",
                  "create_team", "delete_team", "list_grants", "delete_role"}

\* No two of the steps t make the same row.
Unlike(t) ==
  \A j, k \in 1 .. Len(t) :
    j # k /\ t[j].do = t[k].do /\ t[j].do \in {"create_part", "write_grant"}
    => t[j].on # t[k].on

\* The steps t are what is left of a script of c.
Shape(c, t) ==
  /\ \A k \in 1 .. Len(t) : Fit(c, t[k])
  /\ \A k \in 1 .. Len(t) - 1 : Then(t[k], t[k + 1])
  /\ \A k \in 2 .. Len(t) : t[k].do = "write_grant" => c.op = "create_role"
  /\ c.loose # TRUE => Unlike(t)

\* A request that runs has the rest of a script of its own.
Planned(p) == Running(p) => Asks(local[p]) /\ Shape(local[p], todo[p])

\* A member is one of an organization.
Belongs(m, o) == member[m] # Absent /\ member[m].org = o

\* The member that a step s is about was looked up in the organization.
Looked(c, s) ==
  /\ s.do = "update_member" => Belongs(c.member, c.tenant)
  /\ s.do \in {"find_lead", "find_level", "write_level"} => Belongs(s.on, c.tenant)

\* So was the row that a step s comes to write now.
Found(c, s) ==
  /\ s.do = "delete_member" => Belongs(c.member, c.tenant)
  /\ s.do = "write_level" /\ c.found # Null =>
       /\ c.found \in Levels /\ level[c.found] # Absent
       /\ level[c.found].member = s.on /\ level[c.found].team = c.team
       /\ level[c.found].org = c.tenant
  /\ \/ c.op = "update_role" /\ s.do # "load_role"
     \/ c.op = "create_role" /\ s.do \in {"write_grant", "list_grants"}
     => c.role \in Roles /\ role[c.role] # Absent /\ role[c.role].org = c.tenant
  /\ s.do = "write_grant" /\ c.found # Null =>
       /\ c.found \in Grants /\ grant[c.found] # Absent
       /\ grant[c.found].role = c.role /\ grant[c.found].perm = s.on

\* What a request that runs has looked up, it may count on.
Holds(p) ==
  Running(p) =>
    /\ \A k \in 1 .. Len(todo[p]) : Looked(local[p], todo[p][k])
    /\ Found(local[p], Head(todo[p]))

\* Grants are those of a role that is there.
Granted == \A g \in Grants : grant[g] # Absent => role[grant[g].role] # Absent

\* What the tables say of each other.
DbOK == SameTenant /\ Granted

\* The part of the invariant that no overtaking breaks.
SInv == TypeOK /\ DbOK /\ \A p \in Procs : Planned(p) /\ Holds(p)

\* Nobody but m leads team t, but for levels of loose requests.
NoRival(m, t, o) == Contended(t, o) \/ \A a \in LeadsOf(t, o) : level[a].member = m

\* A member m gets nothing in the steps t that it has, unless it goes first.
Cover(m, t) ==
  \A k \in 1 .. Len(t) : t[k].do = "create_part" =>
    \A x \in Parts :
      part[x] # Absent /\ part[x].member = m /\ part[x].of = t[k].on =>
        \E j \in 1 .. k - 1 : t[j].do = "delete_part" /\ t[j].on = x

\* A new role, and a role and a permission without a grant, are granted now.
Ungranted(c, t) ==
  c.found = Null =>
    \A k \in 1 .. Len(t) : t[k].do = "write_grant" =>
      \A g \in Grants : grant[g] # Absent /\ grant[g].role = c.role => grant[g].perm # t[k].on

\* What a request c looked up for its first step, of t.
Fits(c, t) ==
  LET s == Head(t)
  IN /\ s.do = "assign_role" =>
          \A x \in Parts : part[x] # Absent /\ part[x].member = c.member =>
            part[x].of # RoleOf(c)
     /\ s.do = "create_team" =>
          \A u \in Teams : Live(team, u) /\ team[u].org = c.tenant => team[u].name # c.name
     /\ s.do \in {"create_role", "rename_role"} =>
          \/ \A r \in Roles : Live(role, r) /\ role[r].org = c.tenant => role[r].name # c.name
          \/ s.do = "rename_role" /\ Live(role, c.role) /\ role[c.role].name = c.name
     /\ c.op = "create_role" /\ s.do \in {"find_name", "create_role"} => c.role = Null
     /\ s.do = "find_level" /\ Len(t) >= 2 /\ t[2].access = "LEAD" =>
          NoRival(s.on, c.team, c.tenant)
     /\ s.do = "write_level" =>
          /\ s.access = "LEAD" => NoRival(s.on, c.team, c.tenant)
          /\ c.found = Null => LevelsOf(s.on, c.team, c.tenant) = {}

\* It is still so, unless the request is loose.
Fresh(p) ==
  Running(p) /\ ~local[p].loose =>
    /\ Fits(local[p], todo[p])
    /\ Cover(local[p].member, todo[p])
    /\ Ungranted(local[p], todo[p])

\* The inductive invariant.
IInv == SInv /\ NoTwins /\ \A p \in Procs : Fresh(p)

-----------------------------------------------------------------------------
(* Sequences of steps.                                                     *)

\* What follows the first step of a script.
LEMMA Rest ==
  ASSUME NEW S, NEW t \in Seq(S), t # <<>>
  PROVE  /\ Head(t) = t[1] /\ t[1] \in S /\ Len(t) \in Nat /\ Len(t) >= 1
         /\ Tail(t) \in Seq(S) /\ Len(Tail(t)) = Len(t) - 1
         /\ \A k \in 1 .. Len(t) - 1 : Tail(t)[k] = t[k + 1]
         /\ (Len(t) = 1 <=> Tail(t) = <<>>)
<1>1. Head(t) = t[1] /\ Len(t) \in Nat /\ Len(t) >= 1
  OBVIOUS
<1>2. t[1] \in S
  BY <1>1, LenProperties
<1>3. /\ Tail(t) \in Seq(S) /\ Len(Tail(t)) = Len(t) - 1
      /\ \A k \in 1 .. Len(Tail(t)) : Tail(t)[k] = t[k + 1]
  BY HeadTailProperties
<1>4. Len(t) = 1 <=> Tail(t) = <<>>
  <2> DEFINE u == Tail(t)
  <2>1. u \in Seq(S) /\ Len(u) = Len(t) - 1
    BY <1>3
  <2> HIDE DEF u
  <2>2. u # <<>> => Len(u) \in Nat \ {0}
    BY <2>1, EmptySeq
  <2>3. u = <<>> => Len(u) = 0
    BY EmptySeq
  <2>4. Len(t) = 1 <=> u = <<>>
    BY <1>1, <2>1, <2>2, <2>3
  <2> QED
    BY <2>4 DEF u
<1> QED
  BY <1>1, <1>2, <1>3, <1>4

\* What becomes of a script when steps are put in front of it.
LEMMA Joined ==
  ASSUME NEW S, NEW u \in Seq(S), NEW v \in Seq(S)
  PROVE  /\ u \o v \in Seq(S) /\ Len(u \o v) = Len(u) + Len(v)
         /\ \A k \in 1 .. Len(u) : (u \o v)[k] = u[k]
         /\ \A k \in 1 .. Len(v) : (u \o v)[Len(u) + k] = v[k]
<1>1. /\ u \o v \in Seq(S) /\ Len(u \o v) = Len(u) + Len(v)
      /\ \A k \in 1 .. Len(u) + Len(v) :
           (u \o v)[k] = IF k <= Len(u) THEN u[k] ELSE v[k - Len(u)]
  BY ConcatProperties
<1>2. Len(u) \in Nat /\ Len(v) \in Nat
  OBVIOUS
<1> DEFINE w == u \o v
<1>3. \A k \in 1 .. Len(v) : w[Len(u) + k] = v[k]
  <2> TAKE k \in 1 .. Len(v)
  <2> HIDE DEF w
  <2> Len(u) + k \in 1 .. Len(u) + Len(v) /\ ~(Len(u) + k <= Len(u)) /\ Len(u) + k - Len(u) = k
    BY <1>2
  <2> QED
    BY <1>1 DEF w
<1>4. \A k \in 1 .. Len(u) : w[k] = u[k]
  BY <1>1, <1>2
<1> QED
  BY <1>1, <1>3, <1>4

\* The part of a request that never changes, and what few steps change.
Carried(c, d) ==
  /\ d.op = c.op /\ d.tenant = c.tenant /\ d.member = c.member /\ d.team = c.team
  /\ d.roles = c.roles /\ d.days = c.days /\ d.grants = c.grants /\ d.name = c.name
  /\ c.op # "create_role" => d.role = c.role
  /\ c.op = "create_role" => d.found = c.found
  /\ d.loose # TRUE => c.loose # TRUE

\* A request that is carried along asks for the same.
LEMMA AsksCarried ==
  ASSUME NEW c, NEW d, Asks(c), Carried(c, d)
  PROVE  Asks(d)
  BY DEF Asks, AsksFor, RoleOf, Repeats, Carried

\* And its steps are the same.
LEMMA FitCarried ==
  ASSUME NEW c, NEW d, NEW s, Fit(c, s), Carried(c, d)
  PROVE  Fit(d, s)
  BY DEF Fit, Carried

\* And so is its script.
LEMMA ShapeCarried ==
  ASSUME NEW c, NEW d, NEW t, Shape(c, t), Carried(c, d)
  PROVE  Shape(d, t)
  BY FitCarried DEF Shape, Carried

\* The rest of a script is a rest of it.
LEMMA ShapeRest ==
  ASSUME NEW S, NEW c, NEW t \in Seq(S), t # <<>>, Shape(c, t)
  PROVE  Shape(c, Tail(t))
<1> DEFINE u == Tail(t)
<1>1. /\ Len(t) \in Nat /\ Len(u) = Len(t) - 1
      /\ \A k \in 1 .. Len(t) - 1 : u[k] = t[k + 1]
  BY Rest
<1>2. \A k \in 1 .. Len(t) : Fit(c, t[k])
  BY DEF Shape
<1>3. \A k \in 1 .. Len(t) - 1 : Then(t[k], t[k + 1])
  BY DEF Shape
<1>4. \A k \in 2 .. Len(t) : t[k].do = "write_grant" => c.op = "create_role"
  BY DEF Shape
<1>5. c.loose # TRUE => Unlike(t)
  BY DEF Shape
<1> HIDE DEF u
<1>6. \A k \in 1 .. Len(u) : Fit(c, u[k])
  BY <1>1, <1>2
<1>7. \A k \in 1 .. Len(u) - 1 : Then(u[k], u[k + 1])
  BY <1>1, <1>3
<1>8. \A k \in 2 .. Len(u) : u[k].do = "write_grant" => c.op = "create_role"
  BY <1>1, <1>4
<1>9. c.loose # TRUE => Unlike(u)
  BY <1>1, <1>5 DEF Unlike
<1>10. Shape(c, u)
  BY <1>6, <1>7, <1>8, <1>9 DEF Shape
<1> QED
  BY <1>10 DEF u

-----------------------------------------------------------------------------
(* Scripts.                                                                *)

\* A step is a record of three fields.
LEMMA OnStep ==
  ASSUME NEW what, NEW id
  PROVE  On(what, id) = [do |-> what, on |-> id, access |-> Null]
<1>1. Do(what) = [do |-> what, on |-> Null, access |-> Null]
  BY DEF Do
<1> QED
  BY <1>1 DEF On

\* The last of them is the access or the flags to set.
LEMMA AccessStep ==
  ASSUME NEW what, NEW id, NEW access
  PROVE  [On(what, id) EXCEPT !.access = access]
           = [do |-> what, on |-> id, access |-> access]
<1>1. On(what, id) = [do |-> what, on |-> id, access |-> Null]
  BY OnStep
<1> QED
  BY <1>1

\* One step for each row of a finite set, none twice.
LEMMA EachStep ==
  ASSUME NEW what, NEW ids, IsFiniteSet(ids), NEW S,
         \A id \in ids : On(what, id) \in S
  PROVE  LET e == Each(what, ids)
         IN /\ e \in Seq(S) /\ Len(e) = Cardinality(ids) /\ Len(e) \in Nat
            /\ \A k \in 1 .. Len(e) : e[k].on \in ids /\ e[k] = On(what, e[k].on)
            /\ \A id \in ids : \E k \in 1 .. Len(e) : e[k].on = id
            /\ \A j, k \in 1 .. Len(e) : j # k => e[j].on # e[k].on
<1> DEFINE n == Cardinality(ids)
           B == Bijection(1 .. n, ids)
           order == CHOOSE f \in B : TRUE
           e == [k \in 1 .. n |-> On(what, order[k])]
<1>1. n \in Nat /\ B # {}
  BY FS_CardinalityType DEF ExistsBijection
<1>2. order \in B
  BY <1>1
<1>3. /\ order \in [1 .. n -> ids]
      /\ \A j, k \in 1 .. n : order[j] = order[k] => j = k
      /\ \A id \in ids : \E k \in 1 .. n : order[k] = id
  BY <1>2 DEF Bijection, Injection, Surjection, IsInjective
<1>4. Each(what, ids) = e
  BY DEF Each
<1> HIDE DEF order, B, n
<1>5. \A k \in 1 .. n : e[k] = On(what, order[k]) /\ e[k].on = order[k]
  <2> TAKE k \in 1 .. n
  <2>1. e[k] = On(what, order[k])
    OBVIOUS
  <2>2. On(what, order[k]).on = order[k]
    BY OnStep
  <2> QED
    BY <2>1, <2>2
<1>6. e \in [1 .. n -> S]
  BY <1>3
<1>7. e \in Seq(S) /\ Len(e) = n
  BY <1>1, <1>6
<1> HIDE DEF e
<1>8. \A k \in 1 .. n : e[k].on \in ids /\ e[k] = On(what, e[k].on)
  BY <1>3, <1>5
<1>9. \A id \in ids : \E k \in 1 .. n : e[k].on = id
  BY <1>3, <1>5
<1>10. \A j, k \in 1 .. n : j # k => e[j].on # e[k].on
  BY <1>3, <1>5
<1> QED
  BY <1>1, <1>4, <1>7, <1>8, <1>9, <1>10 DEF n

\* One step for each id of a list.
LEMMA TurnStep ==
  ASSUME NEW what, NEW I, NEW ids \in Seq(I), NEW S, \A id \in I : On(what, id) \in S
  PROVE  LET e == InTurn(what, ids)
         IN /\ e \in Seq(S) /\ Len(e) = Len(ids)
            /\ \A k \in 1 .. Len(e) : e[k] = On(what, ids[k]) /\ e[k].on = ids[k]
<1> DEFINE n == Len(ids)
           e == [k \in 1 .. n |-> On(what, ids[k])]
<1>1. n \in Nat /\ DOMAIN ids = 1 .. n /\ \A k \in 1 .. n : ids[k] \in I
  BY LenProperties, ElementOfSeq
<1>2. InTurn(what, ids) = e
  BY <1>1 DEF InTurn
<1> HIDE DEF n
<1>3. \A k \in 1 .. n : e[k] = On(what, ids[k]) /\ e[k].on = ids[k] /\ e[k] \in S
  <2> TAKE k \in 1 .. n
  <2>1. e[k] = On(what, ids[k]) /\ ids[k] \in I
    BY <1>1
  <2>2. On(what, ids[k]).on = ids[k]
    BY OnStep
  <2> QED
    BY <2>1, <2>2
<1>4. e \in [1 .. n -> S] /\ DOMAIN e = 1 .. n
  BY <1>3
<1>5. e \in Seq(S) /\ Len(e) = n
  BY <1>1, <1>4
<1> QED
  BY <1>2, <1>3, <1>5 DEF n

\* One step for each entry of a request.
LEMMA EntryStep ==
  ASSUME NEW what, NEW S, NEW entries \in Seq(S)
  PROVE  LET e == EachEntry(what, entries)
         IN /\ Len(e) = Len(entries) /\ Len(e) \in Nat
            /\ DOMAIN e = 1 .. Len(e)
            /\ \A k \in 1 .. Len(e) :
                 e[k] = [do |-> what, on |-> entries[k][1], access |-> entries[k][2]]
<1> DEFINE n == Len(entries)
           e == [k \in DOMAIN entries |-> [On(what, entries[k][1]) EXCEPT !.access = entries[k][2]]]
<1>1. n \in Nat /\ DOMAIN entries = 1 .. n
  BY LenProperties
<1>2. EachEntry(what, entries) = e
  BY DEF EachEntry
<1> HIDE DEF n
<1>3. \A k \in 1 .. n : e[k] = [do |-> what, on |-> entries[k][1], access |-> entries[k][2]]
  BY <1>1, AccessStep
<1>4. Len(e) = n /\ DOMAIN e = 1 .. n
  BY <1>1
<1> QED
  BY <1>1, <1>2, <1>3, <1>4 DEF n

\* An index of two joined scripts is one of the first or one of the second.
LEMMA JoinedIndex ==
  ASSUME NEW S, NEW u \in Seq(S), NEW v \in Seq(S), NEW k \in 1 .. Len(u \o v)
  PROVE  \/ k \in 1 .. Len(u) /\ (u \o v)[k] = u[k]
         \/ /\ k - Len(u) \in 1 .. Len(v) /\ (u \o v)[k] = v[k - Len(u)]
            /\ k > Len(u)
<1> DEFINE w == u \o v
<1>1. /\ Len(w) = Len(u) + Len(v)
      /\ \A j \in 1 .. Len(u) : w[j] = u[j]
      /\ \A j \in 1 .. Len(v) : w[Len(u) + j] = v[j]
  BY Joined
<1>2. Len(u) \in Nat /\ Len(v) \in Nat /\ k \in 1 .. Len(w)
  BY LenProperties
<1> HIDE DEF w
<1>3. CASE k <= Len(u)
  BY <1>1, <1>2, <1>3 DEF w
<1>4. CASE k > Len(u)
  <2> DEFINE j == k - Len(u)
  <2>1. j \in 1 .. Len(v) /\ Len(u) + j = k
    BY <1>1, <1>2, <1>4
  <2> QED
    BY <1>1, <1>4, <2>1 DEF w
<1> QED
  BY <1>2, <1>3, <1>4

\* Two scripts of a request make one, if the second may follow the first.
LEMMA ShapeJoin ==
  ASSUME NEW S, NEW c, NEW u \in Seq(S), NEW v \in Seq(S), Shape(c, u), Shape(c, v),
         \A j \in 1 .. Len(u), k \in 1 .. Len(v) :
           /\ j = Len(u) /\ k = 1 => Then(u[j], v[k])
           /\ k = 1 /\ v[k].do = "write_grant" => c.op = "create_role"
           /\ /\ u[j].do = v[k].do /\ u[j].do \in {"create_part", "write_grant"}
              /\ c.loose # TRUE
              => u[j].on # v[k].on
  PROVE  Shape(c, u \o v)
<1> DEFINE w == u \o v
<1>1. Len(u) \in Nat /\ Len(v) \in Nat /\ Len(w) = Len(u) + Len(v)
  BY Joined, LenProperties
<1>2. \A k \in 1 .. Len(w) :
        \/ k \in 1 .. Len(u) /\ w[k] = u[k]
        \/ k - Len(u) \in 1 .. Len(v) /\ w[k] = v[k - Len(u)] /\ k > Len(u)
  BY JoinedIndex
<1> HIDE DEF w
<1>3. \A k \in 1 .. Len(w) : Fit(c, w[k])
  BY <1>2 DEF Shape
<1>4. ASSUME NEW k \in 1 .. Len(w) - 1
      PROVE  Then(w[k], w[k + 1])
  <2>1. k \in 1 .. Len(w) /\ k + 1 \in 1 .. Len(w)
    BY <1>1
  <2>2. CASE k + 1 <= Len(u)
    <3>1. w[k] = u[k] /\ w[k + 1] = u[k + 1] /\ k \in 1 .. Len(u) - 1
      BY <1>1, <1>2, <2>1, <2>2
    <3> QED
      BY <3>1 DEF Shape
  <2>3. CASE k = Len(u)
    <3>1. w[k] = u[k] /\ w[k + 1] = v[1] /\ k \in 1 .. Len(u) /\ 1 \in 1 .. Len(v)
      BY <1>1, <1>2, <2>1, <2>3
    <3> QED
      BY <2>3, <3>1
  <2>4. CASE k > Len(u)
    <3> DEFINE j == k - Len(u)
    <3>1. w[k] = v[j] /\ w[k + 1] = v[j + 1] /\ j \in 1 .. Len(v) - 1
      <4>1. k + 1 - Len(u) = j + 1 /\ j \in 1 .. Len(v) - 1
        BY <1>1, <2>4
      <4>2. w[k] = v[j]
        BY <1>1, <1>2, <2>1, <2>4
      <4>3. w[k + 1] = v[k + 1 - Len(u)]
        BY <1>1, <1>2, <2>1, <2>4
      <4> QED
        BY <4>1, <4>2, <4>3
    <3> QED
      BY <3>1 DEF Shape
  <2> QED
    BY <1>1, <2>2, <2>3, <2>4
<1>5. ASSUME NEW k \in 2 .. Len(w), w[k].do = "write_grant"
      PROVE  c.op = "create_role"
  <2>1. CASE k \in 1 .. Len(u) /\ w[k] = u[k]
    BY <1>5, <2>1 DEF Shape
  <2>2. CASE k - Len(u) \in 1 .. Len(v) /\ w[k] = v[k - Len(u)] /\ k > Len(u)
    <3> DEFINE j == k - Len(u)
    <3>1. CASE j = 1
      <4>1. Len(u) \in 1 .. Len(u)
        BY <1>1, <3>1
      <4> QED
        BY <1>5, <2>2, <3>1, <4>1
    <3>2. CASE j # 1
      <4>1. j \in 2 .. Len(v) /\ v[j].do = "write_grant"
        BY <1>1, <1>5, <2>2, <3>2
      <4> QED
        BY <4>1 DEF Shape
    <3> QED
      BY <3>1, <3>2
  <2> QED
    BY <1>1, <1>2, <2>1, <2>2
<1>6. ASSUME c.loose # TRUE, NEW j \in 1 .. Len(w), NEW k \in 1 .. Len(w),
             j # k, w[j].do = w[k].do, w[j].do \in {"create_part", "write_grant"}
      PROVE  w[j].on # w[k].on
  <2>1. CASE j \in 1 .. Len(u) /\ w[j] = u[j] /\ k \in 1 .. Len(u) /\ w[k] = u[k]
    BY <1>6, <2>1 DEF Shape, Unlike
  <2>2. CASE /\ j \in 1 .. Len(u) /\ w[j] = u[j]
             /\ k - Len(u) \in 1 .. Len(v) /\ w[k] = v[k - Len(u)]
    BY <1>6, <2>2
  <2>3. CASE /\ k \in 1 .. Len(u) /\ w[k] = u[k]
             /\ j - Len(u) \in 1 .. Len(v) /\ w[j] = v[j - Len(u)]
    BY <1>6, <2>3
  <2>4. CASE /\ j - Len(u) \in 1 .. Len(v) /\ w[j] = v[j - Len(u)]
             /\ k - Len(u) \in 1 .. Len(v) /\ w[k] = v[k - Len(u)]
    <3>1. j - Len(u) # k - Len(u)
      BY <1>1, <1>6
    <3> QED
      BY <1>6, <2>4, <3>1 DEF Shape, Unlike
  <2> QED
    BY <1>2, <2>1, <2>2, <2>3, <2>4
<1>7. Shape(c, w)
  BY <1>3, <1>4, <1>5, <1>6 DEF Shape, Unlike
<1> QED
  BY <1>7 DEF w

\* A script of one step.
LEMMA OneStep ==
  ASSUME NEW c, NEW x \in Todo, Fit(c, x)
  PROVE  /\ <<x>> \in Seq(Todo) /\ Len(<<x>>) = 1 /\ <<x>>[1] = x
         /\ Shape(c, <<x>>)
<1>1. Unlike(<<x>>)
  BY DEF Unlike
<1> QED
  BY <1>1 DEF Shape

\* A script of two steps.
LEMMA TwoSteps ==
  ASSUME NEW c, NEW x \in Todo, NEW y \in Todo, Fit(c, x), Fit(c, y), Then(x, y),
         y.do # "write_grant", x.do # y.do
  PROVE  /\ <<x, y>> \in Seq(Todo) /\ Len(<<x, y>>) = 2
         /\ <<x, y>>[1] = x /\ <<x, y>>[2] = y
         /\ Shape(c, <<x, y>>)
<1>1. Unlike(<<x, y>>)
  BY DEF Unlike
<1> QED
  BY <1>1 DEF Shape

\* The opening steps of a request know nothing yet.
Opening(c, t) ==
  /\ t \in Seq(Todo) /\ Len(t) >= 1 /\ Shape(c, t)
  /\ \A k \in 1 .. Len(t) :
       t[k].do \notin {"update_member", "find_lead", "find_level", "write_level",
                       "create_part"}
  /\ t[1].do \notin {"write_grant", "list_grants", "assign_role", "create_team",
                     "create_role", "rename_role", "delete_member"}
  /\ c.op = "update_role" => t[1].do = "load_role"

\* No permission is named twice.
Entries(c) ==
  \A j, k \in 1 .. Len(c.grants) : j # k => c.grants[j][1] # c.grants[k][1]

\* Unless the request is loose.
LEMMA OnceEach ==
  ASSUME NEW c, Asks(c), c.grants \in Seq(Perms \X Flags), c.loose # TRUE
  PROVE  Entries(c)
<1>1. DOMAIN c.grants = 1 .. Len(c.grants)
  BY LenProperties
<1> QED
  BY <1>1 DEF Asks, Repeats, Entries

\* The scripts that name their steps one by one.
LEMMA OpeningShort ==
  ASSUME NEW c \in Local, Asks(c),
         c.op \notin {"set_levels", "create_role", "update_role"}
  PROVE  Opening(c, Script(c))
<1> USE OnStep DEF Asks
<1>0. c.op \in {"update_member", "assign_role", "remove_role", "remove_level",
                "delete_member", "create_team", "delete_team", "delete_role"}
  BY StaffAssumption DEF AsksFor
<1> DEFINE D(what) == [do |-> what, on |-> Null, access |-> Null]
           N(what) == [do |-> what, on |-> c.member, access |-> Null]
<1>1. \A what \in Steps : D(what) \in Todo
  BY DEF Todo
<1>2. ASSUME c.op \in OfMember
      PROVE  \A what \in Steps : N(what) \in Todo
  BY <1>2 DEF Todo, AsksFor
<1>3. ASSUME NEW what PROVE Do(what) = D(what)
  BY DEF Do
<1>4. CASE c.op = "update_member"
  <2>1. Script(c) = <<N("load_member")>>
    BY <1>4 DEF Script
  <2>2. Fit(c, N("load_member")) /\ N("load_member") \in Todo
    BY <1>2, <1>4 DEF Fit, OfMember, Steps, OnMember
  <2> QED
    BY <1>4, <2>1, <2>2, OneStep DEF Opening
<1>5. CASE c.op = "delete_team"
  <2>1. Script(c) = <<D("delete_team")>>
    BY <1>3, <1>5 DEF Script
  <2>2. Fit(c, D("delete_team")) /\ D("delete_team") \in Todo
    BY <1>1, <1>5 DEF Fit, OfMember, Steps, OnMember
  <2> QED
    BY <1>5, <2>1, <2>2, OneStep DEF Opening
<1>6. CASE c.op = "delete_role"
  <2>1. Script(c) = <<D("delete_role")>>
    BY <1>3, <1>6 DEF Script
  <2>2. Fit(c, D("delete_role")) /\ D("delete_role") \in Todo
    BY <1>1, <1>6 DEF Fit, OfMember, Steps, OnMember
  <2> QED
    BY <1>6, <2>1, <2>2, OneStep DEF Opening
<1>7. CASE c.op = "remove_role"
  <2> DEFINE x == N("find_member")
             y == D("find_role")
  <2>1. Script(c) = <<x, y>>
    BY <1>3, <1>7 DEF Script
  <2>2. Fit(c, x) /\ x \in Todo /\ Fit(c, y) /\ y \in Todo /\ Then(x, y)
    BY <1>1, <1>2, <1>7 DEF Fit, OfMember, Steps, OnMember, Then, AsksFor
  <2>3. x.do = "find_member" /\ y.do = "find_role"
    OBVIOUS
  <2> HIDE DEF x, y
  <2> QED
    BY <1>7, <2>1, <2>2, <2>3, TwoSteps DEF Opening
<1>8. CASE c.op = "remove_level"
  <2> DEFINE x == N("find_member")
             y == D("delete_level")
  <2>1. Script(c) = <<x, y>>
    BY <1>3, <1>8 DEF Script
  <2>2. Fit(c, x) /\ x \in Todo /\ Fit(c, y) /\ y \in Todo /\ Then(x, y)
    BY <1>1, <1>2, <1>8 DEF Fit, OfMember, Steps, OnMember, Then, AsksFor
  <2>3. x.do = "find_member" /\ y.do = "delete_level"
    OBVIOUS
  <2> HIDE DEF x, y
  <2> QED
    BY <1>8, <2>1, <2>2, <2>3, TwoSteps DEF Opening
<1>9. CASE c.op = "delete_member"
  <2> DEFINE x == N("find_member")
             y == D("delete_member")
  <2>1. Script(c) = <<x, y>>
    BY <1>3, <1>9 DEF Script
  <2>2. Fit(c, x) /\ x \in Todo /\ Fit(c, y) /\ y \in Todo /\ Then(x, y)
    BY <1>1, <1>2, <1>9 DEF Fit, OfMember, Steps, OnMember, Then, AsksFor
  <2>3. x.do = "find_member" /\ y.do = "delete_member"
    OBVIOUS
  <2> HIDE DEF x, y
  <2> QED
    BY <1>9, <2>1, <2>2, <2>3, TwoSteps DEF Opening
<1>10. CASE c.op = "create_team"
  <2> DEFINE x == D("find_team")
             y == D("create_team")
  <2>1. Script(c) = <<x, y>>
    BY <1>3, <1>10 DEF Script
  <2>2. Fit(c, x) /\ x \in Todo /\ Fit(c, y) /\ y \in Todo /\ Then(x, y)
    BY <1>1, <1>10 DEF Fit, OfMember, Steps, OnMember, Then
  <2>3. x.do = "find_team" /\ y.do = "create_team"
    OBVIOUS
  <2> HIDE DEF x, y
  <2> QED
    BY <1>10, <2>1, <2>2, <2>3, TwoSteps DEF Opening
<1>11. CASE c.op = "assign_role"
  <2> DEFINE x == N("find_member")
             y == D("find_role")
             z == D("assign_role")
  <2>1. Script(c) = <<x, y, z>>
    BY <1>3, <1>11 DEF Script
  <2>2. /\ Fit(c, x) /\ x \in Todo /\ Fit(c, y) /\ y \in Todo /\ Then(x, y)
        /\ Fit(c, z) /\ z \in Todo /\ Then(y, z)
    BY <1>1, <1>2, <1>11 DEF Fit, OfMember, Steps, OnMember, Then, AsksFor
  <2>3. x.do = "find_member" /\ y.do = "find_role" /\ z.do = "assign_role"
    OBVIOUS
  <2> HIDE DEF x, y, z
  <2>4. <<x, y, z>> \in Seq(Todo) /\ Len(<<x, y, z>>) = 3
    BY <2>2
  <2>5. Shape(c, <<x, y, z>>)
    <3>1. Unlike(<<x, y, z>>)
      BY <2>3 DEF Unlike
    <3> QED
      BY <2>2, <2>3, <3>1 DEF Shape
  <2> QED
    BY <1>11, <2>1, <2>3, <2>4, <2>5 DEF Opening
<1> QED
  BY <1>0, <1>4, <1>5, <1>6, <1>7, <1>8, <1>9, <1>10, <1>11

\* The script of a request to set levels: one look-up for each member.
LEMMA OpeningLevels ==
  ASSUME NEW c \in Local, Asks(c), c.op = "set_levels", c.levels # <<>>
  PROVE  Opening(c, Script(c))
<1> DEFINE e == EachEntry("find_member", c.levels)
<1>1. Script(c) = e
  BY DEF Script
<1>2. c.levels \in Seq(Members \X Access) /\ Len(c.levels) >= 1
  <2>1. c.levels \in Seq(Members \X Access)
    BY DEF Local
  <2> QED
    BY <2>1
<1>3. /\ Len(e) = Len(c.levels) /\ Len(e) \in Nat /\ DOMAIN e = 1 .. Len(e)
      /\ \A k \in 1 .. Len(e) :
           e[k] = [do |-> "find_member", on |-> c.levels[k][1],
                   access |-> c.levels[k][2]]
  BY <1>2, EntryStep
<1>4. ASSUME NEW k \in 1 .. Len(e)
      PROVE  /\ e[k] \in Todo /\ Fit(c, e[k]) /\ e[k].do = "find_member"
  <2>1. c.levels[k] \in Members \X Access
    BY <1>2, <1>3, ElementOfSeq
  <2>2. c.levels[k][1] \in Members /\ c.levels[k][2] \in Access
    BY <2>1
  <2>3. e[k] = [do |-> "find_member", on |-> c.levels[k][1],
                access |-> c.levels[k][2]]
    BY <1>3
  <2> DEFINE m == c.levels[k][1]
             a == c.levels[k][2]
             x == e[k]
  <2> HIDE DEF m, a, x
  <2>4. x = [do |-> "find_member", on |-> m, access |-> a] /\ m \in Members /\ a \in Access
    BY <2>2, <2>3 DEF m, a, x
  <2>5. x \in Todo
    BY <2>4 DEF Todo, Steps
  <2>6. Fit(c, x)
    BY <2>4 DEF Fit, OnMember, OfMember
  <2> QED
    BY <2>4, <2>5, <2>6 DEF x
<1>5. e \in [1 .. Len(e) -> Todo]
  BY <1>3, <1>4 DEF EachEntry
<1> HIDE DEF e
<1>6. e \in Seq(Todo)
  BY <1>3, <1>5
<1>7. Shape(c, e)
  <2>1. \A k \in 1 .. Len(e) - 1 : Then(e[k], e[k + 1])
    <3> TAKE k \in 1 .. Len(e) - 1
    <3>1. k \in 1 .. Len(e) /\ k + 1 \in 1 .. Len(e)
      BY <1>3
    <3>2. e[k].do = "find_member" /\ e[k + 1].do = "find_member"
      BY <1>4, <3>1
    <3> QED
      BY <3>2 DEF Then
  <2>2. \A k \in 2 .. Len(e) : e[k].do # "write_grant"
    BY <1>3, <1>4
  <2>3. \A k \in 1 .. Len(e) : e[k].do \notin {"create_part", "write_grant"}
    BY <1>4
  <2> QED
    BY <1>4, <2>1, <2>2, <2>3 DEF Shape, Unlike
<1>8. 1 \in 1 .. Len(e)
  BY <1>2, <1>3
<1> QED
  BY <1>1, <1>2, <1>3, <1>4, <1>6, <1>7, <1>8 DEF Opening

\* The script of a new role, and of an edited one.
LEMMA OpeningRole ==
  ASSUME NEW c \in Local, Asks(c), c.op \in {"create_role", "update_role"}
  PROVE  Opening(c, Script(c))
<1> DEFINE D(what) == [do |-> what, on |-> Null, access |-> Null]
           what == IF c.op = "create_role" THEN "write_grant" ELSE "find_grant"
           u == IF c.op = "create_role" THEN <<D("find_name"), D("create_role")>>
                ELSE <<D("load_role"), D("find_name"), D("rename_role")>>
           e == EachEntry(what, c.grants)
           z == <<D("list_grants")>>
<1>1. Script(c) = (u \o e) \o z
  BY DEF Script, Do
<1>2. \A s \in Steps : D(s) \in Todo
  BY DEF Todo
<1>3. /\ u \in Seq(Todo) /\ Len(u) >= 1 /\ Shape(c, u)
      /\ \A k \in 1 .. Len(u) :
           u[k].do \notin {"update_member", "find_lead", "find_level", "write_level",
                           "create_part", "write_grant"}
      /\ u[1].do \notin {"write_grant", "list_grants", "assign_role", "create_team",
                         "create_role", "rename_role", "delete_member"}
      /\ c.op = "update_role" => u[1].do = "load_role"
      /\ u[Len(u)].do \in {"create_role", "rename_role"}
  <2>1. CASE c.op = "create_role"
    <3> DEFINE x == D("find_name")
               y == D("create_role")
    <3>1. u = <<x, y>>
      BY <2>1
    <3>2. Fit(c, x) /\ x \in Todo /\ Fit(c, y) /\ y \in Todo /\ Then(x, y)
      BY <1>2, <2>1 DEF Fit, Steps, OnMember, Then
    <3>3. x.do = "find_name" /\ y.do = "create_role"
      OBVIOUS
    <3> HIDE DEF x, y, u
    <3> QED
      BY <2>1, <3>1, <3>2, <3>3, TwoSteps
  <2>2. CASE c.op = "update_role"
    <3> DEFINE w == D("load_role")
               x == D("find_name")
               y == D("rename_role")
    <3>1. u = <<w, x, y>>
      BY <2>2
    <3>2. /\ Fit(c, x) /\ x \in Todo /\ Fit(c, y) /\ y \in Todo /\ Then(x, y)
          /\ Fit(c, w) /\ w \in Todo /\ Then(w, x)
      BY <1>2, <2>2 DEF Fit, Steps, OnMember, Then
    <3>3. w.do = "load_role" /\ x.do = "find_name" /\ y.do = "rename_role"
      OBVIOUS
    <3> HIDE DEF w, x, y, u
    <3>4. <<w, x, y>> \in Seq(Todo) /\ Len(<<w, x, y>>) = 3
      BY <3>2
    <3>5. Shape(c, <<w, x, y>>)
      <4>1. Unlike(<<w, x, y>>)
        BY <3>3 DEF Unlike
      <4> QED
        BY <3>2, <3>3, <4>1 DEF Shape
    <3> QED
      BY <2>2, <3>1, <3>3, <3>4, <3>5
  <2> QED
    BY <2>1, <2>2
<1>4. c.grants \in Seq(Perms \X Flags)
  BY DEF Local
<1>5. what \in {"write_grant", "find_grant"} /\ (what = "write_grant" => c.op = "create_role")
  OBVIOUS
<1> HIDE DEF u, what
<1>6. /\ Len(e) = Len(c.grants) /\ Len(e) \in Nat /\ DOMAIN e = 1 .. Len(e)
      /\ \A k \in 1 .. Len(e) :
           e[k] = [do |-> what, on |-> c.grants[k][1], access |-> c.grants[k][2]]
  BY <1>4, EntryStep
<1>7. ASSUME NEW k \in 1 .. Len(e)
      PROVE  /\ e[k] \in Todo /\ Fit(c, e[k]) /\ e[k].do = what
             /\ e[k].on = c.grants[k][1]
  <2>1. c.grants[k] \in Perms \X Flags
    BY <1>4, <1>6, ElementOfSeq
  <2>2. c.grants[k][1] \in Perms /\ c.grants[k][2] \in Flags
    BY <2>1
  <2>3. e[k] = [do |-> what, on |-> c.grants[k][1], access |-> c.grants[k][2]]
    BY <1>6
  <2> DEFINE m == c.grants[k][1]
             a == c.grants[k][2]
             x == e[k]
  <2> HIDE DEF m, a, x
  <2>4. x = [do |-> what, on |-> m, access |-> a] /\ m \in Perms /\ a \in Flags
    BY <2>2, <2>3 DEF m, a, x
  <2>5. x \in Todo
    BY <1>5, <2>4 DEF Todo, Steps
  <2>6. Fit(c, x)
    <3>1. CASE what = "write_grant"
      BY <1>5, <2>4, <3>1 DEF Fit, OnMember
    <3>2. CASE what = "find_grant"
      <4>1. c.op = "update_role"
        BY <3>2 DEF what
      <4> QED
        BY <2>4, <3>2, <4>1 DEF Fit, OnMember
    <3> QED
      BY <1>5, <3>1, <3>2
  <2> QED
    BY <2>4, <2>5, <2>6 DEF x, m
<1>8. e \in [1 .. Len(e) -> Todo]
  BY <1>6, <1>7 DEF EachEntry
<1>9. z \in Seq(Todo) /\ Len(z) = 1 /\ z[1].do = "list_grants" /\ Shape(c, z)
  <2>1. D("list_grants") \in Todo /\ Fit(c, D("list_grants"))
    BY <1>2 DEF Steps, Fit, OnMember
  <2> QED
    BY <2>1, OneStep
<1> HIDE DEF e, z
<1>10. e \in Seq(Todo)
  BY <1>6, <1>8
<1>11. Shape(c, e)
  <2>1. \A k \in 1 .. Len(e) - 1 : Then(e[k], e[k + 1])
    <3> TAKE k \in 1 .. Len(e) - 1
    <3>1. k \in 1 .. Len(e) /\ k + 1 \in 1 .. Len(e)
      BY <1>6
    <3>2. e[k].do = what /\ e[k + 1].do = what
      BY <1>7, <3>1
    <3> QED
      BY <1>5, <3>2 DEF Then
  <2>2. \A k \in 2 .. Len(e) : e[k].do = "write_grant" => c.op = "create_role"
    BY <1>5, <1>6, <1>7
  <2>3. c.loose # TRUE => \A j, k \in 1 .. Len(e) : j # k => e[j].on # e[k].on
    <3>1. c.loose # TRUE => Entries(c)
      BY <1>4, OnceEach
    <3> QED
      BY <1>6, <1>7, <3>1 DEF Entries
  <2> QED
    BY <1>7, <2>1, <2>2, <2>3 DEF Shape, Unlike
<1>12. Shape(c, u \o e)
  <2> SUFFICES ASSUME NEW j \in 1 .. Len(u), NEW k \in 1 .. Len(e)
               PROVE  /\ j = Len(u) /\ k = 1 => Then(u[j], e[k])
                      /\ k = 1 /\ e[k].do = "write_grant" => c.op = "create_role"
                      /\ u[j].do = e[k].do /\ u[j].do \in {"create_part", "write_grant"}
                         => u[j].on # e[k].on
    BY <1>3, <1>10, <1>11, ShapeJoin
  <2>1. e[k].do = what
    BY <1>7
  <2> QED
    BY <1>3, <1>5, <2>1 DEF Then
<1> DEFINE v == u \o e
<1>13. /\ v \in Seq(Todo) /\ Len(v) = Len(u) + Len(e) /\ v[1] = u[1]
       /\ Len(u) \in Nat
  <2>1. 1 \in 1 .. Len(u) /\ Len(u) \in Nat
    BY <1>3
  <2> QED
    BY <1>3, <1>10, <2>1, Joined
<1>14. \A k \in 1 .. Len(v) :
         /\ v[k].do \notin {"update_member", "find_lead", "find_level", "write_level",
                            "create_part"}
         /\ k = Len(v) => v[k].do \in {"create_role", "rename_role", "write_grant",
                                       "find_grant"}
  <2> TAKE k \in 1 .. Len(v)
  <2>1. CASE k \in 1 .. Len(u) /\ v[k] = u[k]
    <3>1. k = Len(v) => k = Len(u)
      BY <1>6, <1>13, <2>1
    <3> QED
      BY <1>3, <2>1, <3>1
  <2>2. CASE k - Len(u) \in 1 .. Len(e) /\ v[k] = e[k - Len(u)]
    BY <1>5, <1>7, <2>2
  <2> QED
    BY <1>3, <1>10, <2>1, <2>2, JoinedIndex
<1> HIDE DEF v
<1>15. Shape(c, v \o z)
  <2> SUFFICES ASSUME NEW j \in 1 .. Len(v), NEW k \in 1 .. Len(z)
               PROVE  /\ j = Len(v) /\ k = 1 => Then(v[j], z[k])
                      /\ k = 1 /\ z[k].do = "write_grant" => c.op = "create_role"
                      /\ v[j].do = z[k].do /\ v[j].do \in {"create_part", "write_grant"}
                         => v[j].on # z[k].on
    BY <1>9, <1>12, <1>13, ShapeJoin DEF v
  <2>1. z[k].do = "list_grants"
    BY <1>9
  <2> QED
    BY <1>14, <2>1 DEF Then
<1> DEFINE t == v \o z
<1>16. /\ t \in Seq(Todo) /\ Len(t) = Len(v) + 1 /\ t[1] = v[1]
  <2>1. 1 \in 1 .. Len(v)
    BY <1>3, <1>6, <1>13
  <2>2. /\ t \in Seq(Todo) /\ Len(t) = Len(v) + Len(z)
        /\ \A k \in 1 .. Len(v) : t[k] = v[k]
    BY ZenonT(60), <1>9, <1>13, Joined
  <2> QED
    BY <1>9, <2>1, <2>2
<1>17. \A k \in 1 .. Len(t) :
         t[k].do \notin {"update_member", "find_lead", "find_level", "write_level",
                         "create_part"}
  <2> TAKE k \in 1 .. Len(t)
  <2>1. CASE k \in 1 .. Len(v) /\ t[k] = v[k]
    BY <1>14, <2>1
  <2>2. CASE k - Len(v) \in 1 .. Len(z) /\ t[k] = z[k - Len(v)]
    BY <1>9, <2>2
  <2> QED
    BY <1>9, <1>13, <2>1, <2>2, JoinedIndex
<1> HIDE DEF t
<1>18. Opening(c, t)
  BY <1>3, <1>6, <1>13, <1>15, <1>16, <1>17 DEF Opening, t
<1> QED
  BY <1>1, <1>18 DEF t, v

\* The rest of an entry that sets a level, once its member is found.
LEMMA SetLevelScript ==
  ASSUME NEW c, c.op = "set_levels", NEW m \in Members, NEW access \in Access
  PROVE  LET u == SetLevel(m, access)
         IN /\ u \in Seq(Todo) /\ Len(u) \in 2 .. 3 /\ Shape(c, u)
            /\ \A k \in 1 .. Len(u) :
                 /\ u[k].do \in {"find_lead", "find_level", "write_level"} /\ u[k].on = m
            /\ u[Len(u)].do = "write_level"
            /\ u[1].do = "find_level" => Len(u) = 2 /\ u[2].access = "MEMBER"
            /\ u[1].do \in {"find_lead", "find_level"}
<1> DEFINE w == [do |-> "find_lead", on |-> m, access |-> Null]
           x == [do |-> "find_level", on |-> m, access |-> Null]
           y == [do |-> "write_level", on |-> m, access |-> access]
<1>1. /\ w \in Todo /\ x \in Todo /\ y \in Todo
      /\ Fit(c, w) /\ Fit(c, x) /\ Fit(c, y) /\ Then(w, x) /\ Then(x, y)
  BY DEF Todo, Steps, Fit, OnMember, Then
<1>2. /\ w.do = "find_lead" /\ x.do = "find_level" /\ y.do = "write_level"
      /\ w.on = m /\ x.on = m /\ y.on = m /\ y.access = access
  OBVIOUS
<1>3. SetLevel(m, access) = (IF access = "LEAD" THEN <<w>> ELSE <<>>) \o <<x, y>>
  BY OnStep, AccessStep DEF SetLevel
<1> HIDE DEF w, x, y
<1>4. <<x, y>> \in Seq(Todo) /\ Shape(c, <<x, y>>) /\ Len(<<x, y>>) = 2
  BY <1>1, <1>2, TwoSteps
<1>5. CASE access = "LEAD"
  <2> DEFINE u == <<w>> \o <<x, y>>
             v == <<w>>
             z == <<x, y>>
  <2>1. /\ v \in Seq(Todo) /\ Len(v) = 1 /\ v[1] = w
        /\ z \in Seq(Todo) /\ Len(z) = 2 /\ z[1] = x /\ z[2] = y
    BY <1>1
  <2>2. u \in Seq(Todo) /\ Len(u) = 3 /\ u[1] = w /\ u[2] = x /\ u[3] = y
    <3> HIDE DEF v, z
    <3>1. /\ v \o z \in Seq(Todo) /\ Len(v \o z) = Len(v) + Len(z)
          /\ \A k \in 1 .. Len(v) : (v \o z)[k] = v[k]
          /\ \A k \in 1 .. Len(z) : (v \o z)[Len(v) + k] = z[k]
      BY <2>1, Joined
    <3>2. (v \o z)[1] = w /\ (v \o z)[1 + 1] = x /\ (v \o z)[1 + 2] = y
      BY <2>1, <3>1
    <3> QED
      BY <2>1, <3>1, <3>2 DEF v, z
  <2> HIDE DEF u
  <2>3. Shape(c, u)
    <3>1. Unlike(u)
      BY <1>2, <2>2 DEF Unlike
    <3> QED
      BY <1>1, <1>2, <2>2, <3>1 DEF Shape
  <2>4. \A k \in 1 .. Len(u) :
          u[k].do \in {"find_lead", "find_level", "write_level"} /\ u[k].on = m
    BY <1>2, <2>2
  <2>5. SetLevel(m, access) = u
    BY <1>3, <1>5 DEF u
  <2>6. u[Len(u)].do = "write_level" /\ u[1].do = "find_lead" /\ Len(u) \in 2 .. 3
    BY <1>2, <2>2
  <2> QED
    BY <2>2, <2>3, <2>4, <2>5, <2>6
<1>6. CASE access = "MEMBER"
  <2> DEFINE u == <<x, y>>
  <2>1. SetLevel(m, access) = u
    BY <1>1, <1>3, <1>6
  <2>2. u[1] = x /\ u[2] = y
    OBVIOUS
  <2> HIDE DEF u
  <2>3. u \in Seq(Todo) /\ Shape(c, u) /\ Len(u) = 2
    BY <1>4 DEF u
  <2> QED
    BY <1>2, <1>6, <2>1, <2>2, <2>3
<1> QED
  BY <1>5, <1>6 DEF Access

\* Two scripts make one that only gives what the first has not left.
LEMMA CoverJoin ==
  ASSUME NEW m, NEW S, NEW u \in Seq(S), NEW v \in Seq(S), Cover(m, u),
         \A k \in 1 .. Len(v) : v[k].do = "create_part" =>
           \A x \in Parts :
             part[x] # Absent /\ part[x].member = m /\ part[x].of = v[k].on =>
               \E j \in 1 .. Len(u) : u[j].do = "delete_part" /\ u[j].on = x
  PROVE  Cover(m, u \o v)
<1> DEFINE w == u \o v
<1>1. /\ Len(u) \in Nat /\ Len(v) \in Nat /\ Len(w) = Len(u) + Len(v)
      /\ \A j \in 1 .. Len(u) : w[j] = u[j]
  BY Joined, LenProperties
<1> SUFFICES ASSUME NEW k \in 1 .. Len(w), w[k].do = "create_part",
                    NEW x \in Parts, part[x] # Absent, part[x].member = m,
                    part[x].of = w[k].on
             PROVE  \E j \in 1 .. k - 1 : w[j].do = "delete_part" /\ w[j].on = x
  BY DEF Cover
<1>2. CASE k \in 1 .. Len(u) /\ w[k] = u[k]
  <2> HIDE DEF w
  <2>1. PICK j \in 1 .. k - 1 : u[j].do = "delete_part" /\ u[j].on = x
    BY <1>2 DEF Cover
  <2>2. j \in 1 .. Len(u) /\ w[j] = u[j]
    BY <1>1, <1>2
  <2> QED
    BY <2>1, <2>2
<1>3. CASE k - Len(u) \in 1 .. Len(v) /\ w[k] = v[k - Len(u)] /\ k > Len(u)
  <2> HIDE DEF w
  <2>1. PICK j \in 1 .. Len(u) : u[j].do = "delete_part" /\ u[j].on = x
    BY <1>3
  <2>2. j \in 1 .. k - 1 /\ w[j] = u[j]
    BY <1>1, <1>3
  <2> QED
    BY <2>1, <2>2
<1> QED
  BY <1>2, <1>3, JoinedIndex

\* A script that gives nothing needs nothing to go.
LEMMA CoverNone ==
  ASSUME NEW m, NEW t, \A k \in 1 .. Len(t) : t[k].do # "create_part"
  PROVE  Cover(m, t)
  BY DEF Cover

\* The roles and days that steps give, and the rows that they delete.
Gives(t) == {t[k].on : k \in {j \in 1 .. Len(t) : t[j].do = "create_part"}}
\* The parts that the steps t delete.
Takes(t) == {t[k].on : k \in {j \in 1 .. Len(t) : t[j].do = "delete_part"}}

\* Joined scripts give and take what both do.
LEMMA GivesJoin ==
  ASSUME NEW S, NEW u \in Seq(S), NEW v \in Seq(S)
  PROVE  Gives(u \o v) = Gives(u) \union Gives(v) /\ Takes(u \o v) = Takes(u) \union Takes(v)
<1> DEFINE w == u \o v
<1>1. /\ Len(u) \in Nat /\ Len(v) \in Nat /\ Len(w) = Len(u) + Len(v)
      /\ \A j \in 1 .. Len(u) : w[j] = u[j]
      /\ \A j \in 1 .. Len(v) : w[Len(u) + j] = v[j]
  BY Joined, LenProperties
<1>2. \A k \in 1 .. Len(w) :
        \/ k \in 1 .. Len(u) /\ w[k] = u[k]
        \/ k - Len(u) \in 1 .. Len(v) /\ w[k] = v[k - Len(u)]
  BY JoinedIndex
<1>3. /\ \A j \in 1 .. Len(u) : j \in 1 .. Len(w)
      /\ \A j \in 1 .. Len(v) : Len(u) + j \in 1 .. Len(w)
  BY <1>1
<1> HIDE DEF w
<1>4. Gives(w) \subseteq Gives(u) \union Gives(v)
  BY <1>2 DEF Gives
<1>5. Gives(u) \subseteq Gives(w) /\ Gives(v) \subseteq Gives(w)
  <2>1. ASSUME NEW j \in 1 .. Len(u), u[j].do = "create_part" PROVE u[j].on \in Gives(w)
    BY <1>1, <1>3, <2>1 DEF Gives
  <2>2. ASSUME NEW j \in 1 .. Len(v), v[j].do = "create_part" PROVE v[j].on \in Gives(w)
    <3>1. Len(u) + j \in 1 .. Len(w) /\ w[Len(u) + j] = v[j]
      BY <1>1, <1>3
    <3> QED
      BY ONLY <2>2, <3>1 DEF Gives
  <2> QED
    BY ONLY <2>1, <2>2 DEF Gives
<1>6. Takes(w) \subseteq Takes(u) \union Takes(v)
  BY <1>2 DEF Takes
<1>7. Takes(u) \subseteq Takes(w) /\ Takes(v) \subseteq Takes(w)
  <2>1. ASSUME NEW j \in 1 .. Len(u), u[j].do = "delete_part" PROVE u[j].on \in Takes(w)
    BY <1>1, <1>3, <2>1 DEF Takes
  <2>2. ASSUME NEW j \in 1 .. Len(v), v[j].do = "delete_part" PROVE v[j].on \in Takes(w)
    <3>1. Len(u) + j \in 1 .. Len(w) /\ w[Len(u) + j] = v[j]
      BY <1>1, <1>3
    <3> QED
      BY ONLY <2>2, <3>1 DEF Takes
  <2> QED
    BY ONLY <2>1, <2>2 DEF Takes
<1> QED
  BY <1>4, <1>5, <1>6, <1>7 DEF w

\* Steps about the parts of a member.
OfParts == {"update_member", "delete_part", "create_part"}

\* A script u of a request c to update a member that deals with parts.
Dealing(c, u) ==
  /\ u \in Seq(Todo) /\ Len(u) >= 1 /\ Shape(c, u) /\ Cover(c.member, u)
  /\ u[1].do = "update_member"
  /\ \A k \in 1 .. Len(u) : u[k].do \in OfParts

\* No two of the steps t are about the same.
Diverse(t) == \A j, k \in 1 .. Len(t) : j # k => t[j].on # t[k].on

\* The steps e of a request do the same, unless it is loose to different things.
OfKind(c, what, e) ==
  /\ \A k \in 1 .. Len(e) : e[k].do = what /\ Fit(c, e[k])
  /\ c.loose # TRUE => Diverse(e)

\* The steps u take from member m what the steps e give.
Vacates(m, u, e) ==
  \A x \in Parts :
    part[x] # Absent /\ part[x].member = m /\ part[x].of \in Gives(e) => x \in Takes(u)

\* Steps that all delete parts, or all create them, may be added.
LEMMA DealingJoin ==
  ASSUME NEW c, c.op = "update_member", NEW u, Dealing(c, u),
         NEW what \in {"delete_part", "create_part"}, NEW e \in Seq(Todo),
         OfKind(c, what, e), what = "create_part" => Gives(e) \intersect Gives(u) = {},
         Vacates(c.member, u, e)
  PROVE  /\ Dealing(c, u \o e)
         /\ Gives(u \o e) = Gives(u) \union Gives(e)
         /\ Takes(u \o e) = Takes(u) \union Takes(e)
<1> DEFINE w == u \o e
<1>1. u \in Seq(Todo) /\ Len(u) \in Nat /\ Len(e) \in Nat
  BY LenProperties DEF Dealing
<1>2. Shape(c, e)
  <2>1. \A k \in 1 .. Len(e) - 1 : Then(e[k], e[k + 1])
    <3> TAKE k \in 1 .. Len(e) - 1
    <3>1. k \in 1 .. Len(e) /\ k + 1 \in 1 .. Len(e)
      BY <1>1
    <3>2. e[k].do = what /\ e[k + 1].do = what
      BY <3>1 DEF OfKind
    <3> QED
      BY <3>2 DEF Then
  <2>2. \A k \in 2 .. Len(e) : e[k].do # "write_grant"
    BY <1>1 DEF OfKind
  <2> QED
    BY <2>1, <2>2 DEF Shape, Unlike, Diverse, OfKind
<1>3. Shape(c, w)
  <2> SUFFICES ASSUME NEW j \in 1 .. Len(u), NEW k \in 1 .. Len(e)
               PROVE  /\ j = Len(u) /\ k = 1 => Then(u[j], e[k])
                      /\ k = 1 /\ e[k].do = "write_grant" => c.op = "create_role"
                      /\ u[j].do = e[k].do /\ u[j].do \in {"create_part", "write_grant"}
                         => u[j].on # e[k].on
    BY <1>1, <1>2, ShapeJoin DEF Dealing
  <2>1. e[k].do = what /\ u[j].do \in OfParts
    BY DEF Dealing, OfKind
  <2>2. Then(u[j], e[k])
    BY <2>1 DEF Then, OfParts
  <2>3. ASSUME u[j].do = "create_part", e[k].do = "create_part"
        PROVE  u[j].on # e[k].on
    <3>1. u[j].on \in Gives(u) /\ e[k].on \in Gives(e)
      BY <2>3 DEF Gives
    <3> QED
      BY <2>1, <2>3, <3>1
  <2> QED
    BY <2>1, <2>2, <2>3
<1>4. Cover(c.member, w)
  <2> SUFFICES ASSUME NEW k \in 1 .. Len(e), e[k].do = "create_part",
                      NEW x \in Parts, part[x] # Absent, part[x].member = c.member,
                      part[x].of = e[k].on
               PROVE  \E j \in 1 .. Len(u) : u[j].do = "delete_part" /\ u[j].on = x
    BY <1>1, CoverJoin DEF Dealing
  <2>1. e[k].on \in Gives(e)
    BY DEF Gives
  <2>2. x \in Takes(u)
    BY <2>1 DEF Vacates
  <2> QED
    BY <2>2 DEF Takes
<1>5. w \in Seq(Todo) /\ Len(w) >= 1 /\ w[1] = u[1]
  <2>1. /\ w \in Seq(Todo) /\ Len(w) = Len(u) + Len(e)
        /\ \A j \in 1 .. Len(u) : w[j] = u[j]
    BY <1>1, Joined
  <2>2. 1 \in 1 .. Len(u)
    BY <1>1 DEF Dealing
  <2> QED
    BY <1>1, <2>1, <2>2
<1>6. \A k \in 1 .. Len(w) : w[k].do \in OfParts
  <2> TAKE k \in 1 .. Len(w)
  <2>1. \/ k \in 1 .. Len(u) /\ w[k] = u[k]
        \/ k - Len(u) \in 1 .. Len(e) /\ w[k] = e[k - Len(u)]
    BY <1>1, JoinedIndex
  <2> QED
    BY <2>1 DEF Dealing, OfParts, OfKind
<1>7. Gives(w) = Gives(u) \union Gives(e) /\ Takes(w) = Takes(u) \union Takes(e)
  BY <1>1, GivesJoin
<1> QED
  BY <1>3, <1>4, <1>5, <1>6, <1>7 DEF Dealing

\* The parts of a member are finitely many, and so are those asked for.
LEMMA PartsFinite ==
  ASSUME TypeOK, NEW c \in Local
  PROVE  /\ \A kind : PartsOf(c.member, kind) \subseteq Parts
         /\ \A kind : IsFiniteSet(PartsOf(c.member, kind))
         /\ IsFiniteSet(Wanted(c))
         /\ Range(c.roles) \subseteq Roles /\ Range(c.days) \subseteq Days
<1>1. MaxParts \in Int /\ 1 \in Int
  BY StaffAssumption
<1>2. IsFiniteSet(Parts)
  BY <1>1, FS_Interval DEF Parts
<1>3. \A kind : PartsOf(c.member, kind) \in SUBSET Parts
  BY DEF PartsOf
<1>4. IsFiniteSet(Roles \union Days)
  BY StaffAssumption
<1>5. c.roles \in Seq(Roles) /\ c.days \in Seq(Days)
  BY DEF Local
<1>6. Range(c.roles) \subseteq Roles /\ Range(c.days) \subseteq Days
  BY <1>5, LenProperties, ElementOfSeq DEF Range
<1>7. Wanted(c) \in SUBSET (Roles \union Days)
  BY <1>6 DEF Wanted
<1> QED
  BY <1>2, <1>3, <1>4, <1>6, <1>7, FS_Subset

\* The steps for one kind of parts: those that there are go, those asked for come.
LEMMA OneKind ==
  ASSUME TypeOK, NEW c \in Local, Asks(c), c.op = "update_member", NEW u, Dealing(c, u),
         NEW kind \in {Roles, Days}, NEW ids \in Seq(kind), Gives(u) \intersect Range(ids) = {},
         c.loose # TRUE => \A j, k \in DOMAIN ids : j # k => ids[j] # ids[k]
  PROVE  LET d == Each("delete_part", PartsOf(c.member, kind))
             a == InTurn("create_part", ids)
         IN /\ Dealing(c, u \o d \o a)
            /\ Gives(u \o d \o a) = Gives(u) \union Range(ids)
            /\ Takes(u \o d \o a) = Takes(u) \union PartsOf(c.member, kind)
<1>1. PICK X : X = PartsOf(c.member, kind) /\ IsFiniteSet(X) /\ X \subseteq Parts
  BY PartsFinite
<1> DEFINE d == Each("delete_part", X)
           a == InTurn("create_part", ids)
<1>2. ASSUME NEW x \in X
      PROVE  On("delete_part", x) \in Todo /\ Fit(c, On("delete_part", x))
  <2>1. On("delete_part", x) = [do |-> "delete_part", on |-> x, access |-> Null]
    BY OnStep
  <2> QED
    BY <1>1, <2>1 DEF Todo, Steps, Fit, OnMember
<1>3. ASSUME NEW x \in kind
      PROVE  On("create_part", x) \in Todo /\ Fit(c, On("create_part", x))
  <2>1. On("create_part", x) = [do |-> "create_part", on |-> x, access |-> Null]
    BY OnStep
  <2> QED
    BY <2>1 DEF Todo, Steps, Fit, OnMember
<1>4. /\ d \in Seq(Todo)
      /\ \A k \in 1 .. Len(d) : d[k].on \in X /\ d[k] = On("delete_part", d[k].on)
      /\ \A x \in X : \E k \in 1 .. Len(d) : d[k].on = x
      /\ \A j, k \in 1 .. Len(d) : j # k => d[j].on # d[k].on
  <2>1. \A x \in X : On("delete_part", x) \in Todo
    BY <1>2
  <2> QED
    BY <1>1, <2>1, EachStep
<1>5. /\ a \in Seq(Todo)
      /\ \A k \in 1 .. Len(a) :
           /\ a[k].on \in Range(ids) /\ a[k].on \in kind
           /\ a[k] = On("create_part", a[k].on)
      /\ \A x \in Range(ids) : \E k \in 1 .. Len(a) : a[k].on = x
      /\ c.loose # TRUE => \A j, k \in 1 .. Len(a) : j # k => a[j].on # a[k].on
  <2>1. \A x \in kind : On("create_part", x) \in Todo
    BY <1>3
  <2>2. /\ a \in Seq(Todo) /\ Len(a) = Len(ids)
        /\ \A k \in 1 .. Len(a) : a[k] = On("create_part", ids[k]) /\ a[k].on = ids[k]
    BY <2>1, TurnStep
  <2>3. DOMAIN ids = 1 .. Len(ids) /\ \A k \in 1 .. Len(ids) : ids[k] \in kind
    BY LenProperties, ElementOfSeq
  <2> HIDE DEF a
  <2>4. \A k \in 1 .. Len(a) :
          /\ a[k].on \in Range(ids) /\ a[k].on \in kind
          /\ a[k] = On("create_part", a[k].on)
    BY <2>2, <2>3 DEF Range
  <2>5. \A x \in Range(ids) : \E k \in 1 .. Len(a) : a[k].on = x
    BY <2>2, <2>3 DEF Range
  <2>6. ASSUME c.loose # TRUE, NEW j \in 1 .. Len(a), NEW k \in 1 .. Len(a), j # k
        PROVE  a[j].on # a[k].on
    BY <2>2, <2>3, <2>6
  <2> QED
    BY ONLY <2>2, <2>4, <2>5, <2>6
<1> HIDE DEF d, a
<1>6. \A k \in 1 .. Len(d) : d[k].do = "delete_part" /\ Fit(c, d[k])
  <2> TAKE k \in 1 .. Len(d)
  <2> DEFINE x == d[k].on
  <2>1. x \in X /\ d[k] = On("delete_part", x)
    BY <1>4
  <2> HIDE DEF x
  <2>2. On("delete_part", x) = [do |-> "delete_part", on |-> x, access |-> Null]
    BY OnStep
  <2> QED
    BY <1>2, <2>1, <2>2
<1>7. \A k \in 1 .. Len(a) : a[k].do = "create_part" /\ Fit(c, a[k])
  <2> TAKE k \in 1 .. Len(a)
  <2> DEFINE x == a[k].on
  <2>1. x \in kind /\ a[k] = On("create_part", x)
    BY <1>5
  <2> HIDE DEF x
  <2>2. On("create_part", x) = [do |-> "create_part", on |-> x, access |-> Null]
    BY OnStep
  <2> QED
    BY <1>3, <2>1, <2>2
<1>8. Gives(d) = {} /\ Takes(d) = X
  BY <1>4, <1>6 DEF Gives, Takes
<1>9. Gives(a) = Range(ids) /\ Takes(a) = {}
  BY <1>5, <1>7 DEF Gives, Takes
<1>10. /\ Dealing(c, u \o d)
       /\ Gives(u \o d) = Gives(u) /\ Takes(u \o d) = Takes(u) \union X
  <2>1. Vacates(c.member, u, d)
    BY <1>8 DEF Vacates
  <2>2. /\ Dealing(c, u \o d)
        /\ Gives(u \o d) = Gives(u) \union Gives(d)
        /\ Takes(u \o d) = Takes(u) \union Takes(d)
    <3>1. d \in Seq(Todo) /\ OfKind(c, "delete_part", d)
      BY <1>4, <1>6 DEF Diverse, OfKind
    <3>2. c.op = "update_member" /\ Dealing(c, u) /\ "delete_part" # "create_part"
      OBVIOUS
    <3> QED
      BY ONLY <2>1, <3>1, <3>2, DealingJoin
  <2> QED
    BY <1>8, <2>2
<1> DEFINE v == u \o d
<1> HIDE DEF v
<1>11. Vacates(c.member, v, a)
  <2>1. Range(ids) \subseteq kind
    BY LenProperties, ElementOfSeq DEF Range
  <2> QED
    BY <1>1, <1>9, <1>10, <2>1 DEF v, PartsOf, Vacates
<1>12. /\ Dealing(c, v) /\ Gives(a) \intersect Gives(v) = {}
       /\ Gives(v) = Gives(u) /\ Takes(v) = Takes(u) \union X
  BY <1>9, <1>10 DEF v
<1>13. /\ Dealing(c, v \o a)
       /\ Gives(v \o a) = Gives(v) \union Gives(a) /\ Takes(v \o a) = Takes(v) \union Takes(a)
  <2>1. a \in Seq(Todo) /\ OfKind(c, "create_part", a)
    BY <1>5, <1>7 DEF Diverse, OfKind
  <2>2. c.op = "update_member"
    OBVIOUS
  <2> QED
    BY ONLY <1>11, <1>12, <2>1, <2>2, DealingJoin
<1>14. /\ Dealing(c, v \o a)
       /\ Gives(v \o a) = Gives(u) \union Range(ids) /\ Takes(v \o a) = Takes(u) \union X
  BY <1>9, <1>12, <1>13
<1> QED
  BY <1>1, <1>14 DEF v, d, a

\* What update_member does once it has found the member.
LEMMA RewriteScript ==
  ASSUME TypeOK, NEW c \in Local, Asks(c), c.op = "update_member"
  PROVE  LET u == Rewrite(c)
         IN /\ u \in Seq(Todo) /\ Len(u) >= 3 /\ Shape(c, u) /\ Cover(c.member, u)
            /\ u[1].do = "update_member"
            /\ \A k \in 1 .. Len(u) : u[k].do \in OfParts \union {"find_level", "write_level"}
            /\ Gives(u) = Wanted(c)
            /\ Takes(u) = PartsOf(c.member, Roles \union Days)
<1> DEFINE m == c.member
           s == [do |-> "update_member", on |-> m, access |-> Null]
           x == [do |-> "find_level", on |-> m, access |-> Null]
           y == [do |-> "write_level", on |-> m, access |-> "MEMBER"]
           z == <<x, y>>
           d1 == Each("delete_part", PartsOf(m, Roles))
           a1 == InTurn("create_part", c.roles)
           d2 == Each("delete_part", PartsOf(m, Days))
           a2 == InTurn("create_part", c.days)
           u0 == <<s>>
           u1 == u0 \o d1 \o a1
           u2 == u1 \o d2 \o a2
<1>1. Rewrite(c) = u2 \o z
  BY OnStep, AccessStep DEF Rewrite
<1>2. m \in Members
  BY DEF Asks, AsksFor, OfMember
<1>3. /\ s \in Todo /\ x \in Todo /\ y \in Todo
      /\ Fit(c, s) /\ Fit(c, x) /\ Fit(c, y) /\ Then(x, y)
  BY <1>2 DEF Todo, Steps, Fit, OnMember, Then, Access
<1>4. s.do = "update_member" /\ x.do = "find_level" /\ y.do = "write_level"
  OBVIOUS
<1>5. /\ z \in Seq(Todo) /\ Len(z) = 2 /\ z[1] = x /\ z[2] = y /\ Shape(c, z)
  <2> HIDE DEF x, y
  <2> QED
    BY <1>3, <1>4, TwoSteps
<1>6. /\ u0 \in Seq(Todo) /\ Len(u0) = 1 /\ u0[1] = s /\ Shape(c, u0)
  <2> HIDE DEF s
  <2> QED
    BY <1>3, OneStep
<1> HIDE DEF s, x, y, z, u0
<1>7. Dealing(c, u0) /\ Gives(u0) = {} /\ Takes(u0) = {}
  <2>1. \A k \in 1 .. Len(u0) : u0[k].do = "update_member"
    BY <1>4, <1>6
  <2>2. Cover(m, u0)
    BY <2>1, CoverNone
  <2> QED
    BY <1>6, <2>1, <2>2 DEF Dealing, Gives, Takes, OfParts
<1>8. /\ Dealing(c, u1) /\ Gives(u1) = Range(c.roles) /\ Takes(u1) = PartsOf(m, Roles)
  <2>1. c.roles \in Seq(Roles)
    BY DEF Local
  <2>2. Dealing(c, u0) /\ Gives(u0) \intersect Range(c.roles) = {}
    BY <1>7
  <2>4. c.loose # TRUE => \A j, k \in DOMAIN c.roles : j # k => c.roles[j] # c.roles[k]
    BY DEF Asks, Repeats
  <2>3. /\ Dealing(c, u1)
        /\ Gives(u1) = Gives(u0) \union Range(c.roles)
        /\ Takes(u1) = Takes(u0) \union PartsOf(m, Roles)
    BY <2>1, <2>2, <2>4, OneKind
  <2> QED
    BY <1>7, <2>3
<1> HIDE DEF u1
<1>9. /\ Dealing(c, u2) /\ Gives(u2) = Wanted(c)
      /\ Takes(u2) = PartsOf(m, Roles) \union PartsOf(m, Days)
  <2>1. /\ c.days \in Seq(Days)
        /\ Range(c.roles) \subseteq Roles /\ Range(c.days) \subseteq Days
    BY PartsFinite DEF Local
  <2>2. Gives(u1) \intersect Range(c.days) = {}
    BY <1>8, <2>1, StaffAssumption
  <2>4. c.loose # TRUE => \A j, k \in DOMAIN c.days : j # k => c.days[j] # c.days[k]
    BY DEF Asks, Repeats
  <2>3. /\ Dealing(c, u2)
        /\ Gives(u2) = Gives(u1) \union Range(c.days)
        /\ Takes(u2) = Takes(u1) \union PartsOf(m, Days)
    BY <1>8, <2>1, <2>2, <2>4, OneKind
  <2> QED
    BY <1>8, <2>3 DEF Wanted
<1> HIDE DEF u2
<1>10. /\ u2 \in Seq(Todo) /\ Len(u2) \in Nat /\ Len(u2) >= 1 /\ Shape(c, u2)
       /\ Cover(m, u2) /\ u2[1].do = "update_member"
       /\ \A k \in 1 .. Len(u2) : u2[k].do \in OfParts
  BY <1>9, LenProperties DEF Dealing
<1> DEFINE u == u2 \o z
<1>11. /\ u \in Seq(Todo) /\ Len(u) = Len(u2) + 2 /\ u[1] = u2[1]
  <2>1. /\ u \in Seq(Todo) /\ Len(u) = Len(u2) + Len(z)
        /\ \A k \in 1 .. Len(u2) : u[k] = u2[k]
    <3>1. z \in Seq(Todo) /\ u2 \in Seq(Todo)
      BY <1>5, <1>10
    <3> QED
      BY ONLY <3>1, Joined
  <2>2. 1 \in 1 .. Len(u2)
    BY <1>10
  <2> QED
    BY <1>5, <2>1, <2>2
<1>12. \A k \in 1 .. Len(z) : z[k].do \in {"find_level", "write_level"}
  BY <1>4, <1>5
<1>13. Shape(c, u)
  <2> SUFFICES ASSUME NEW j \in 1 .. Len(u2), NEW k \in 1 .. Len(z)
               PROVE  /\ j = Len(u2) /\ k = 1 => Then(u2[j], z[k])
                      /\ k = 1 /\ z[k].do = "write_grant" => c.op = "create_role"
                      /\ u2[j].do = z[k].do /\ u2[j].do \in {"create_part", "write_grant"}
                         => u2[j].on # z[k].on
    BY <1>5, <1>10, ShapeJoin
  <2>1. u2[j].do \in OfParts
    BY <1>10
  <2>2. k = 1 => z[k].do = "find_level"
    BY <1>4, <1>5
  <2>3. z[k].do \in {"find_level", "write_level"}
    BY <1>12
  <2>4. k = 1 => Then(u2[j], z[k])
    BY <2>1, <2>2 DEF OfParts, Then
  <2> QED
    BY <2>1, <2>3, <2>4 DEF OfParts
<1>14. Cover(m, u)
  <2>1. \A k \in 1 .. Len(z) : z[k].do # "create_part"
    BY <1>12
  <2> QED
    BY <1>5, <1>10, <2>1, CoverJoin
<1>15. \A k \in 1 .. Len(u) : u[k].do \in OfParts \union {"find_level", "write_level"}
  <2> TAKE k \in 1 .. Len(u)
  <2>1. \/ k \in 1 .. Len(u2) /\ u[k] = u2[k]
        \/ k - Len(u2) \in 1 .. Len(z) /\ u[k] = z[k - Len(u2)]
    BY <1>5, <1>10, JoinedIndex
  <2> QED
    BY <1>10, <1>12, <2>1
<1>16. Gives(z) = {} /\ Takes(z) = {}
  BY <1>12 DEF Gives, Takes
<1>17. /\ Gives(u) = Wanted(c)
       /\ Takes(u) = PartsOf(m, Roles) \union PartsOf(m, Days)
  <2>1. /\ Gives(u) = Gives(u2) \union Gives(z)
        /\ Takes(u) = Takes(u2) \union Takes(z)
    BY <1>5, <1>10, GivesJoin
  <2> QED
    BY <1>9, <1>16, <2>1
<1>18. PartsOf(m, Roles \union Days) = PartsOf(m, Roles) \union PartsOf(m, Days)
  BY DEF PartsOf
<1> HIDE DEF u
<1>19. /\ u \in Seq(Todo) /\ Len(u) >= 3 /\ Shape(c, u) /\ Cover(m, u)
       /\ u[1].do = "update_member"
       /\ Gives(u) = Wanted(c)
       /\ Takes(u) = PartsOf(m, Roles \union Days)
  <2>1. Len(u) >= 3 /\ u[1].do = "update_member"
    BY <1>10, <1>11
  <2> QED
    BY <1>11, <1>13, <1>14, <1>17, <1>18, <2>1
<1> QED
  BY <1>1, <1>15, <1>19 DEF u

-----------------------------------------------------------------------------
(* What a step does to the requests.                                       *)

\* The types of the tables.
DbType ==
  /\ member \in [Members -> Member \union {Absent}]
  /\ part \in [Parts -> Part \union {Absent}]
  /\ level \in [Levels -> Level \union {Absent}]
  /\ team \in [Teams -> Team \union {Absent}]
  /\ role \in [Roles -> Role \union {Absent}]
  /\ grant \in [Grants -> Grant \union {Absent}]
  /\ issued \in 0 .. MaxParts

\* What twins may name.
Rows == ({"part"} \X Parts) \union ({"level"} \X Levels) \union ({"team"} \X Teams)
        \union ({"role"} \X Roles) \union ({"grant"} \X Grants)

\* The types of what requests have left and know.
RunType ==
  /\ todo \in [Procs -> Seq(Todo)]
  /\ local \in [Procs -> Local]
  /\ twins \subseteq Rows
  /\ requests \in Nat /\ faults \in Nat

\* Rows are typed, and so are requests.
LEMMA TypeParts ==
  TypeOK <=> DbType /\ RunType
  BY DEF TypeOK, DbType, RunType, Rows

\* A request is the same but for whether it is loose.
Along(c, d) ==
  /\ d.op = c.op /\ d.tenant = c.tenant /\ d.member = c.member /\ d.team = c.team
  /\ d.roles = c.roles /\ d.days = c.days /\ d.name = c.name /\ d.levels = c.levels
  /\ d.role = c.role /\ d.grants = c.grants /\ d.listed = c.listed /\ d.found = c.found

\* A request that is overtaken goes on with what it carries.
LEMMA AlongCarried ==
  ASSUME NEW c, NEW d, Along(c, d), d.loose # TRUE => c.loose # TRUE
  PROVE  Carried(c, d)
  BY DEF Along, Carried

\* A task without a request has the variables of none.
LEMMA BlankLocal ==
  Blank \in Local
<1>1. /\ <<>> \in Seq(Members \X Access) /\ <<>> \in Seq(Perms \X Flags)
      /\ <<>> \in Seq(Roles) /\ <<>> \in Seq(Days)
  OBVIOUS
<1> QED
  BY <1>1 DEF Blank, Local

\* The others go on as they were.
Others(p) ==
  \A q \in Procs \ {p} : todo'[q] = todo[q] /\ local'[q] = local[q]

\* The others go on, overtaken if they run.
Overtaken(p) ==
  \A q \in Procs \ {p} :
    /\ todo'[q] = todo[q] /\ Along(local[q], local'[q])
    /\ local'[q].loose = Running(q)

\* A request ends alone.
LEMMA StopRuns ==
  ASSUME RunType, NEW p \in Procs, Stop(p), faults' \in Nat
  PROVE  RunType' /\ Others(p) /\ todo'[p] = <<>> /\ UNCHANGED <<dbVars, twins>>
<1>1. todo' = [todo EXCEPT ![p] = <<>>] /\ local' = [local EXCEPT ![p] = Blank]
  BY DEF Stop
<1>2. <<>> \in Seq(Todo)
  OBVIOUS
<1>3. todo' \in [Procs -> Seq(Todo)] /\ local' \in [Procs -> Local]
  BY <1>1, <1>2, BlankLocal DEF RunType
<1>4. UNCHANGED <<dbVars, twins, requests>>
  BY DEF Stop
<1> QED
  BY <1>1, <1>3, <1>4 DEF RunType, Others

\* A read takes one step of one request.
LEMMA ReadRuns ==
  ASSUME RunType, NEW p \in Procs, Running(p), NEW l \in Local, Read(p, l)
  PROVE  /\ RunType' /\ Others(p) /\ todo'[p] = Tail(todo[p])
         /\ todo'[p] # <<>> => local'[p] = l
         /\ UNCHANGED <<dbVars, twins>>
<1>1. /\ todo' = [todo EXCEPT ![p] = Tail(@)]
      /\ local' = [local EXCEPT ![p] = IF AtEnd(p) THEN Blank ELSE l]
      /\ UNCHANGED <<dbVars, twins, requests, faults>>
  BY DEF Read, Advance
<1>2. /\ todo[p] \in Seq(Todo) /\ todo[p] # <<>>
      /\ Tail(todo[p]) \in Seq(Todo)
      /\ Len(todo[p]) = 1 <=> Tail(todo[p]) = <<>>
  BY Rest DEF RunType, Running
<1>3. todo' \in [Procs -> Seq(Todo)] /\ local' \in [Procs -> Local]
  BY <1>1, <1>2, BlankLocal DEF RunType
<1>4. todo'[p] # <<>> => local'[p] = l
  BY <1>1, <1>2 DEF RunType, AtEnd
<1> QED
  BY <1>1, <1>3, <1>4 DEF RunType, Others

\* So does a read that knows what comes next, and puts its steps first.
LEMMA ExpandRuns ==
  ASSUME RunType, NEW p \in Procs, Running(p), NEW l \in Local, NEW u \in Seq(Todo),
         Expand(p, u, l)
  PROVE  /\ RunType' /\ Others(p) /\ todo'[p] = u \o Tail(todo[p]) /\ local'[p] = l
         /\ UNCHANGED <<dbVars, twins>>
<1>1. /\ todo' = [todo EXCEPT ![p] = u \o Tail(@)]
      /\ local' = [local EXCEPT ![p] = l]
      /\ UNCHANGED <<dbVars, twins, requests, faults>>
  BY DEF Expand
<1>2. Tail(todo[p]) \in Seq(Todo)
  BY Rest DEF RunType, Running
<1>3. u \o Tail(todo[p]) \in Seq(Todo)
  BY <1>2, Joined
<1>4. todo' \in [Procs -> Seq(Todo)] /\ local' \in [Procs -> Local]
  BY <1>1, <1>3 DEF RunType
<1> QED
  BY <1>1, <1>4 DEF RunType, Others

\* A commit takes one step, and overtakes the others that run.
LEMMA CommitRuns ==
  ASSUME RunType, NEW p \in Procs, Running(p), NEW l \in Local, NEW rows \in SUBSET Rows,
         Commit(p, l, rows)
  PROVE  /\ RunType' /\ Overtaken(p) /\ todo'[p] = Tail(todo[p])
         /\ todo'[p] # <<>> => local'[p] = l
         /\ twins \subseteq twins'
         /\ local[p].loose = TRUE => rows \subseteq twins'
<1>1. /\ todo' = [todo EXCEPT ![p] = Tail(@)]
      /\ local' = [q \in Procs |-> IF q = p THEN IF AtEnd(p) THEN Blank ELSE l
                                   ELSE [local[q] EXCEPT !.loose = Running(q)]]
      /\ twins' = (IF local[p].loose THEN twins \union rows ELSE twins)
      /\ UNCHANGED <<requests, faults>>
  BY DEF Commit, Advance
<1>2. /\ todo[p] \in Seq(Todo) /\ todo[p] # <<>>
      /\ Tail(todo[p]) \in Seq(Todo)
      /\ Len(todo[p]) = 1 <=> Tail(todo[p]) = <<>>
  BY Rest DEF RunType, Running
<1>3. todo' \in [Procs -> Seq(Todo)]
  BY <1>1, <1>2 DEF RunType
<1>4. ASSUME NEW q \in Procs \ {p}
      PROVE  local'[q] \in Local /\ Along(local[q], local'[q]) /\ local'[q].loose = Running(q)
  <2>1. local'[q] = [local[q] EXCEPT !.loose = Running(q)]
    BY <1>1
  <2>2. local[q] \in Local /\ Running(q) \in BOOLEAN
    BY DEF RunType, Running
  <2>3. local'[q] \in Local
    BY <2>1, <2>2 DEF Local
  <2>4. Along(local[q], local'[q])
    BY <2>1, <2>2 DEF Along, Local
  <2> QED
    BY <2>1, <2>2, <2>3, <2>4 DEF Local
<1>5. local'[p] \in Local /\ (todo'[p] # <<>> => local'[p] = l)
  BY <1>1, <1>2, BlankLocal DEF RunType, AtEnd
<1>6. local' \in [Procs -> Local]
  BY <1>1, <1>4, <1>5
<1>7. /\ twins' \subseteq Rows /\ twins \subseteq twins'
      /\ local[p].loose = TRUE => rows \subseteq twins'
  BY <1>1 DEF RunType
<1>8. \A q \in Procs \ {p} : todo'[q] = todo[q]
  BY <1>1 DEF RunType
<1>9. todo'[p] = Tail(todo[p])
  BY <1>1 DEF RunType
<1>10. requests' \in Nat /\ faults' \in Nat
  BY <1>1 DEF RunType
<1> QED
  BY <1>3, <1>4, <1>5, <1>6, <1>7, <1>8, <1>9, <1>10 DEF RunType, Overtaken

-----------------------------------------------------------------------------
(* What any step leaves in place.                                          *)

\* Rows that requests hold on to stay, and stay about what they are about.
Kept ==
  /\ \A m \in Members :
       member[m] # Absent => member'[m] # Absent /\ member'[m].org = member[m].org
  /\ \A a \in Levels :
       level[a] # Absent => /\ level'[a] # Absent /\ level'[a].member = level[a].member
                            /\ level'[a].team = level[a].team
                            /\ level'[a].org = level[a].org
  /\ \A r \in Roles :
       role[r] # Absent => role'[r] # Absent /\ role'[r].org = role[r].org
  /\ \A g \in Grants :
       grant[g] # Absent => /\ grant'[g] # Absent /\ grant'[g].role = grant[g].role
                            /\ grant'[g].perm = grant[g].perm

\* A step that writes nothing leaves everything in place.
LEMMA KeptSame ==
  ASSUME UNCHANGED dbVars
  PROVE  Kept
  BY DEF dbVars, staffVars, catalogue, Kept

\* What was looked up for a step stays so.
LEMMA LookedKept ==
  ASSUME Kept, RunType, NEW p \in Procs, NEW q \in Procs, Planned(p), Running(p),
         Carried(local[p], local'[q]),
         NEW k \in 1 .. Len(todo[p]), Looked(local[p], todo[p][k]),
         NEW j, todo'[q][j] = todo[p][k]
  PROVE  Looked(local[q], todo[q][j])'
<1> DEFINE c == local[p]
           d == local'[q]
           s == todo[p][k]
<1>1. Fit(c, s) /\ Asks(c)
  BY DEF Planned, Shape
<1>2. d.member = c.member /\ d.tenant = c.tenant
  BY DEF Carried
<1>3. s.do = "update_member" => c.member \in Members
  BY <1>1 DEF Fit, Asks, AsksFor, OfMember
<1>4. s.do \in {"find_lead", "find_level", "write_level"} => s.on \in Members
  BY <1>1 DEF Fit, OnMember
<1> HIDE DEF c, d, s
<1>5. Looked(c, s)
  BY DEF c, s
<1>6. /\ s.do = "update_member" =>
           member'[d.member] # Absent /\ member'[d.member].org = d.tenant
      /\ s.do \in {"find_lead", "find_level", "write_level"} =>
           member'[s.on] # Absent /\ member'[s.on].org = d.tenant
  BY <1>2, <1>3, <1>4, <1>5 DEF Looked, Belongs, Kept
<1> QED
  BY <1>6 DEF Looked, Belongs, d, s

\* So does what was found for it.
LEMMA FoundKept ==
  ASSUME Kept, NEW p \in Procs, NEW q \in Procs, Along(local[p], local'[q]),
         Asks(local[p]), Fit(local[p], Head(todo[p])),
         Found(local[p], Head(todo[p])), Head(todo'[q]) = Head(todo[p])
  PROVE  Found(local[q], Head(todo[q]))'
<1> DEFINE c == local[p]
           d == local'[q]
           s == Head(todo[p])
<1>1. /\ d.op = c.op /\ d.tenant = c.tenant /\ d.team = c.team /\ d.role = c.role
      /\ d.found = c.found /\ d.member = c.member
  BY DEF Along
<1> HIDE DEF c, d, s
<1>2. Found(c, s) /\ Asks(c) /\ Fit(c, s)
  BY DEF c, s
<1>3. s.do = "write_level" /\ d.found # Null =>
        /\ d.found \in Levels /\ level'[d.found] # Absent
        /\ level'[d.found].member = s.on /\ level'[d.found].team = d.team
        /\ level'[d.found].org = d.tenant
  BY <1>1, <1>2 DEF Found, Kept
<1>4. \/ d.op = "update_role" /\ s.do # "load_role"
      \/ d.op = "create_role" /\ s.do \in {"write_grant", "list_grants"}
      => d.role \in Roles /\ role'[d.role] # Absent /\ role'[d.role].org = d.tenant
  BY <1>1, <1>2 DEF Found, Kept
<1>5. s.do = "write_grant" /\ d.found # Null =>
        /\ d.found \in Grants /\ grant'[d.found] # Absent
        /\ grant'[d.found].role = d.role /\ grant'[d.found].perm = s.on
  BY <1>1, <1>2 DEF Found, Kept
<1>6. s.do = "delete_member" =>
        member'[d.member] # Absent /\ member'[d.member].org = d.tenant
  BY <1>1, <1>2 DEF Found, Kept, Belongs, Asks, AsksFor, Fit, OfMember
<1> QED
  BY <1>3, <1>4, <1>5, <1>6 DEF Found, Belongs, d, s

\* A request that another one's step leaves alone keeps what it knows.
LEMMA OtherKeeps ==
  ASSUME SInv, Kept, NEW q \in Procs, todo'[q] = todo[q], Along(local[q], local'[q]),
         Running(q) /\ local'[q].loose # TRUE => local[q].loose # TRUE
  PROVE  Planned(q)' /\ Holds(q)'
<1>1. Planned(q) /\ Holds(q) /\ RunType
  BY TypeParts DEF SInv
<1>2. Running(q) => Carried(local[q], local'[q])
  BY AlongCarried
<1>3. ASSUME Running(q)'
      PROVE  Asks(local[q])' /\ Shape(local[q], todo[q])'
  <2>1. Running(q) /\ Asks(local[q]) /\ Shape(local[q], todo[q])
    BY <1>1, <1>3 DEF Running, Planned
  <2>2. Asks(local'[q])
    BY <1>2, <2>1, AsksCarried
  <2>3. Shape(local'[q], todo[q])
    BY <1>2, <2>1, ShapeCarried
  <2> QED
    BY <2>2, <2>3
<1>4. ASSUME Running(q)'
      PROVE  /\ \A k \in 1 .. Len(todo'[q]) : Looked(local[q], todo[q][k])'
             /\ Found(local[q], Head(todo[q]))'
  <2>1. Running(q)
    BY <1>4 DEF Running
  <2>2. ASSUME NEW k \in 1 .. Len(todo'[q]) PROVE Looked(local[q], todo[q][k])'
    <3>1. k \in 1 .. Len(todo[q]) /\ Looked(local[q], todo[q][k]) /\ todo'[q][k] = todo[q][k]
      BY <1>1, <2>1 DEF Holds
    <3> QED
      BY <1>1, <1>2, <2>1, <3>1, LookedKept
  <2>3. Found(local[q], Head(todo[q]))'
    <3>1. Found(local[q], Head(todo[q])) /\ Head(todo'[q]) = Head(todo[q])
      BY <1>1, <2>1 DEF Holds
    <3>2. Asks(local[q]) /\ Shape(local[q], todo[q])
      BY <1>1, <2>1 DEF Planned
    <3>3. Head(todo[q]) = todo[q][1] /\ 1 \in 1 .. Len(todo[q])
      BY <1>1, <2>1, Rest DEF RunType, Running
    <3>4. Fit(local[q], Head(todo[q]))
      BY <3>2, <3>3 DEF Shape
    <3> QED
      BY <3>1, <3>2, <3>4, FoundKept
  <2> QED
    BY <2>2, <2>3
<1> QED
  BY <1>3, <1>4 DEF Planned, Holds

\* The first step of a request and the one after it.
LEMMA FirstStep ==
  ASSUME SInv, NEW p \in Procs, Running(p)
  PROVE  /\ RunType /\ DbType /\ DbOK
         /\ todo[p] \in Seq(Todo) /\ todo[p] # <<>> /\ local[p] \in Local
         /\ Head(todo[p]) = todo[p][1] /\ Head(todo[p]) \in Todo /\ Len(todo[p]) \in Nat
         /\ 1 \in 1 .. Len(todo[p])
         /\ Asks(local[p]) /\ Shape(local[p], todo[p]) /\ Fit(local[p], Head(todo[p]))
         /\ Looked(local[p], Head(todo[p])) /\ Found(local[p], Head(todo[p]))
<1>1. RunType /\ DbType /\ DbOK /\ Planned(p) /\ Holds(p)
  BY TypeParts DEF SInv
<1>2. todo[p] \in Seq(Todo) /\ todo[p] # <<>> /\ local[p] \in Local
  BY <1>1 DEF RunType, Running
<1>3. /\ Head(todo[p]) = todo[p][1] /\ todo[p][1] \in Todo
      /\ Len(todo[p]) \in Nat /\ Len(todo[p]) >= 1
  BY <1>2, Rest
<1>4. 1 \in 1 .. Len(todo[p])
  BY <1>3
<1>5. Asks(local[p]) /\ Shape(local[p], todo[p]) /\ Fit(local[p], Head(todo[p]))
  BY <1>1, <1>3, <1>4 DEF Planned, Shape
<1>6. Looked(local[p], Head(todo[p])) /\ Found(local[p], Head(todo[p]))
  BY <1>1, <1>3, <1>4 DEF Holds
<1> QED
  BY <1>1, <1>2, <1>3, <1>4, <1>5, <1>6

\* What is left after the first step.
LEMMA NextStep ==
  ASSUME SInv, NEW p \in Procs, Running(p), todo'[p] = Tail(todo[p]), todo'[p] # <<>>
  PROVE  /\ Len(todo[p]) >= 2 /\ Len(todo'[p]) = Len(todo[p]) - 1
         /\ \A k \in 1 .. Len(todo[p]) - 1 : todo'[p][k] = todo[p][k + 1]
         /\ Head(todo'[p]) = todo[p][2]
         /\ Then(Head(todo[p]), todo[p][2]) /\ Fit(local[p], todo[p][2])
         /\ todo[p][2].do = "write_grant" => local[p].op = "create_role"
<1>1. /\ todo[p] \in Seq(Todo) /\ todo[p] # <<>> /\ Head(todo[p]) = todo[p][1]
      /\ Len(todo[p]) \in Nat /\ Shape(local[p], todo[p])
  BY FirstStep
<1>2. /\ Tail(todo[p]) \in Seq(Todo) /\ Len(Tail(todo[p])) = Len(todo[p]) - 1
      /\ \A k \in 1 .. Len(todo[p]) - 1 : Tail(todo[p])[k] = todo[p][k + 1]
  BY <1>1, Rest
<1>3. Head(todo'[p]) = todo'[p][1] /\ Len(todo'[p]) >= 1
  BY <1>2, Rest
<1>4. Len(todo[p]) >= 2 /\ todo'[p][1] = todo[p][2]
  <2>1. Len(todo[p]) >= 2
    BY <1>1, <1>2, <1>3
  <2>2. 1 \in 1 .. Len(todo[p]) - 1
    BY <1>1, <2>1
  <2>3. todo'[p][1] = todo[p][1 + 1]
    BY <1>2, <2>2
  <2> QED
    BY <2>1, <2>3
<1>5. 1 \in 1 .. Len(todo[p]) - 1 /\ 2 \in 1 .. Len(todo[p]) /\ 2 \in 2 .. Len(todo[p])
  BY <1>1, <1>4
<1>6. Then(todo[p][1], todo[p][1 + 1])
  BY <1>1, <1>5 DEF Shape
<1>7. /\ Fit(local[p], todo[p][2])
      /\ todo[p][2].do = "write_grant" => local[p].op = "create_role"
  BY <1>1, <1>5 DEF Shape
<1> QED
  BY <1>1, <1>2, <1>3, <1>4, <1>6, <1>7

\* The rest of a script is planned.
LEMMA PlannedRest ==
  ASSUME SInv, NEW p \in Procs, Running(p), todo'[p] = Tail(todo[p]),
         todo'[p] # <<>> => Carried(local[p], local'[p])
  PROVE  Planned(p)'
<1>1. /\ todo[p] \in Seq(Todo) /\ todo[p] # <<>> /\ Asks(local[p])
      /\ Shape(local[p], todo[p])
  BY FirstStep
<1>2. Shape(local[p], Tail(todo[p]))
  BY <1>1, ShapeRest
<1>3. ASSUME todo'[p] # <<>>
      PROVE  Asks(local'[p]) /\ Shape(local'[p], todo'[p])
  BY <1>1, <1>2, <1>3, AsksCarried, ShapeCarried
<1> QED
  BY <1>3 DEF Planned, Running

\* What was looked up for it stays.
LEMMA LookedRest ==
  ASSUME SInv, Kept, NEW p \in Procs, Running(p), todo'[p] = Tail(todo[p]), todo'[p] # <<>>,
         Carried(local[p], local'[p]), NEW k \in 1 .. Len(todo'[p])
  PROVE  Looked(local[p], todo[p][k])'
<1>1. RunType /\ Planned(p) /\ Holds(p)
  BY TypeParts DEF SInv
<1>2. /\ Len(todo[p]) >= 2 /\ Len(todo'[p]) = Len(todo[p]) - 1
      /\ \A j \in 1 .. Len(todo[p]) - 1 : todo'[p][j] = todo[p][j + 1]
  BY NextStep
<1>3. Len(todo[p]) \in Nat
  BY FirstStep
<1>4. k + 1 \in 1 .. Len(todo[p]) /\ todo'[p][k] = todo[p][k + 1]
  BY <1>2, <1>3
<1>5. Looked(local[p], todo[p][k + 1])
  BY <1>1, <1>4 DEF Holds
<1> QED
  BY <1>1, <1>4, <1>5, LookedKept

\* And so does what was found, but for the steps that look for more.
LEMMA FoundRest ==
  ASSUME SInv, Kept, NEW p \in Procs, Running(p), todo'[p] = Tail(todo[p]), todo'[p] # <<>>,
         Carried(local[p], local'[p]),
         local'[p].role = local[p].role, local'[p].found = local[p].found,
         Head(todo[p]).do \notin {"find_level", "load_role", "create_role"},
         Head(todo[p]).do = "find_member" => Belongs(local[p].member, local[p].tenant)
  PROVE  Found(local[p], Head(todo[p]))'
<1> DEFINE c == local[p]
           d == local'[p]
           r == Head(todo[p])
           s == todo[p][2]
<1>1. /\ d.op = c.op /\ d.tenant = c.tenant /\ d.role = c.role /\ d.found = c.found
      /\ d.member = c.member
  BY DEF Carried
<1>2. Found(c, r) /\ Asks(c) /\ Fit(c, r)
  BY FirstStep
<1>3. /\ Then(r, s) /\ Fit(c, s) /\ Head(todo'[p]) = s
      /\ s.do = "write_grant" => c.op = "create_role"
  BY NextStep
<1>4. r.do \in Steps /\ r.do \notin {"find_level", "load_role", "create_role"}
  <2>1. r \in Todo
    BY FirstStep
  <2> QED
    BY <2>1 DEF Todo
<1>0. r.do = "find_member" => Belongs(c.member, c.tenant)
  OBVIOUS
<1> HIDE DEF c, d, r, s
<1>5. s.do # "write_level"
  BY <1>3, <1>4 DEF Then, Steps
<1>6. s.do = "write_grant" => d.found = Null
  BY <1>1, <1>2, <1>3 DEF Asks, AsksFor
<1>7. ASSUME \/ d.op = "update_role" /\ s.do # "load_role"
             \/ d.op = "create_role" /\ s.do \in {"write_grant", "list_grants"}
      PROVE  d.role \in Roles /\ role'[d.role] # Absent /\ role'[d.role].org = d.tenant
  <2>1. \/ c.op = "update_role" /\ r.do # "load_role"
        \/ c.op = "create_role" /\ r.do \in {"write_grant", "list_grants"}
    BY <1>1, <1>2, <1>3, <1>4, <1>7 DEF Then, Fit, Steps
  <2>2. c.role \in Roles /\ role[c.role] # Absent /\ role[c.role].org = c.tenant
    BY <1>2, <2>1 DEF Found
  <2> QED
    BY <1>1, <2>2 DEF Kept
<1>8. s.do = "delete_member" =>
        member'[d.member] # Absent /\ member'[d.member].org = d.tenant
  <2>1. s.do = "delete_member" => r.do = "find_member" /\ c.member \in Members
    BY <1>2, <1>3, <1>4 DEF Then, Steps, Asks, AsksFor, Fit, OfMember
  <2> QED
    BY <1>0, <1>1, <2>1 DEF Belongs, Kept
<1> QED
  BY <1>3, <1>5, <1>6, <1>7, <1>8 DEF Found, Belongs, d, s

\* A step of a request p keeps SInv if it keeps p's part of it.
LEMMA Assemble ==
  ASSUME SInv, Kept, NEW p \in Procs, DbType', RunType', DbOK',
         Others(p) \/ Overtaken(p), Planned(p)', Holds(p)'
  PROVE  SInv'
<1>1. TypeOK'
  BY TypeParts DEF TypeOK, DbType, RunType, Rows
<1>2. ASSUME NEW q \in Procs
      PROVE  Planned(q)' /\ Holds(q)'
  <2>1. CASE q = p
    BY <2>1
  <2>2. CASE q # p
    <3>1. /\ todo'[q] = todo[q] /\ Along(local[q], local'[q])
          /\ Running(q) /\ local'[q].loose # TRUE => local[q].loose # TRUE
      BY <2>2 DEF Others, Overtaken, Along
    <3> QED
      BY <3>1, OtherKeeps
  <2> QED
    BY <2>1, <2>2
<1> QED
  BY <1>1, <1>2 DEF SInv

\* A step that takes one step off the script.
LEMMA GoesOn ==
  ASSUME SInv, Kept, NEW p \in Procs, DbType', RunType', DbOK',
         Others(p) \/ Overtaken(p), Running(p), todo'[p] = Tail(todo[p]),
         todo'[p] # <<>> =>
           Carried(local[p], local'[p]) /\ Found(local[p], Head(todo[p]))'
  PROVE  SInv'
<1>1. Planned(p)'
  BY PlannedRest
<1>2. Holds(p)'
  BY LookedRest DEF Holds, Running
<1> QED
  BY <1>1, <1>2, Assemble

\* A step that ends a request.
LEMMA Stops ==
  ASSUME SInv, NEW p \in Procs, Stop(p), faults' \in Nat
  PROVE  SInv'
<1>1. DbType /\ RunType /\ DbOK
  BY TypeParts DEF SInv
<1>2. /\ RunType' /\ Others(p) /\ todo'[p] = <<>> /\ UNCHANGED <<dbVars, twins>>
  BY <1>1, StopRuns
<1>3. DbType' /\ DbOK' /\ Kept
  <2>1. Kept
    BY <1>2, KeptSame
  <2>2. DbType'
    BY <1>1, <1>2 DEF DbType, dbVars, staffVars, catalogue
  <2>3. DbOK'
    BY <1>1, <1>2 DEF DbOK, SameTenant, Granted, dbVars, staffVars, catalogue
  <2> QED
    BY <2>1, <2>2, <2>3
<1>4. Planned(p)' /\ Holds(p)'
  BY <1>2 DEF Planned, Holds, Running
<1> QED
  BY <1>2, <1>3, <1>4, Assemble

\* A request that is refused.
LEMMA Refuses ==
  ASSUME SInv, NEW p \in Procs, Refuse(p)
  PROVE  SInv'
<1>1. faults' \in Nat
  BY TypeParts DEF SInv, RunType, Refuse
<1> QED
  BY <1>1, Stops DEF Refuse

\* A read of which the request notes nothing.
LEMMA Reads ==
  ASSUME SInv, NEW p \in Procs, Running(p), NEW l \in Local, Read(p, l),
         Carried(local[p], l),
         todo'[p] # <<>> => Found(local[p], Head(todo[p]))'
  PROVE  SInv'
<1>1. DbType /\ RunType /\ DbOK
  BY TypeParts DEF SInv
<1>2. /\ RunType' /\ Others(p) /\ todo'[p] = Tail(todo[p])
      /\ todo'[p] # <<>> => local'[p] = l
      /\ UNCHANGED <<dbVars, twins>>
  BY <1>1, ReadRuns
<1>3. DbType' /\ DbOK' /\ Kept
  <2>1. Kept
    BY <1>2, KeptSame
  <2>2. DbType'
    BY <1>1, <1>2 DEF DbType, dbVars, staffVars, catalogue
  <2>3. DbOK'
    BY <1>1, <1>2 DEF DbOK, SameTenant, Granted, dbVars, staffVars, catalogue
  <2> QED
    BY <2>1, <2>2, <2>3
<1> QED
  BY <1>2, <1>3, GoesOn

\* A read that only decides whether the request goes on.
LEMMA ReadsSame ==
  ASSUME SInv, NEW p \in Procs, Running(p), Read(p, local[p]),
         Head(todo[p]).do \notin {"find_level", "load_role", "create_role"},
         Head(todo[p]).do = "find_member" => Belongs(local[p].member, local[p].tenant)
  PROVE  SInv'
<1>1. local[p] \in Local /\ RunType
  BY FirstStep
<1>2. Carried(local[p], local[p])
  BY DEF Carried
<1>3. /\ todo'[p] = Tail(todo[p]) /\ (todo'[p] # <<>> => local'[p] = local[p])
      /\ UNCHANGED <<dbVars, twins>>
  BY <1>1, ReadRuns
<1>4. Kept
  BY <1>3, KeptSame
<1>5. todo'[p] # <<>> => Found(local[p], Head(todo[p]))'
  BY <1>2, <1>3, <1>4, FoundRest
<1> QED
  BY <1>1, <1>2, <1>5, Reads

\* A commit, after which the request goes on as it was but for its grants.
LEMMA Commits ==
  ASSUME SInv, Kept, DbType', DbOK', NEW p \in Procs, Running(p), NEW l \in Local,
         NEW rows \in SUBSET Rows, Commit(p, l, rows),
         Carried(local[p], l), l.role = local[p].role, l.found = local[p].found,
         Head(todo[p]).do \notin {"find_level", "load_role", "create_role"},
         Head(todo[p]).do = "find_member" => Belongs(local[p].member, local[p].tenant)
  PROVE  SInv'
<1>1. RunType
  BY FirstStep
<1>2. /\ RunType' /\ Overtaken(p) /\ todo'[p] = Tail(todo[p])
      /\ todo'[p] # <<>> => local'[p] = l
  BY <1>1, CommitRuns
<1>3. todo'[p] # <<>> => Found(local[p], Head(todo[p]))'
  BY <1>2, FoundRest
<1> QED
  BY <1>2, <1>3, GoesOn

\* A commit after which the request goes on with what it knows.
LEMMA Writes ==
  ASSUME SInv, Kept, DbType', DbOK', NEW p \in Procs, Running(p),
         NEW rows \in SUBSET Rows, Write(p, rows),
         Head(todo[p]).do \notin {"find_level", "load_role", "create_role"},
         Head(todo[p]).do = "find_member" => Belongs(local[p].member, local[p].tenant)
  PROVE  SInv'
<1>1. local[p] \in Local
  BY FirstStep
<1>2. Carried(local[p], local[p])
  BY DEF Carried
<1> QED
  BY <1>1, <1>2, Commits DEF Write

\* A read after which other steps come first, of rows that were looked up.
LEMMA Expands ==
  ASSUME SInv, NEW p \in Procs, Running(p), NEW l \in Local, NEW u \in Seq(Todo), Len(u) >= 1,
         Expand(p, u, l), Carried(local[p], l), Shape(local[p], u),
         \A j \in 1 .. Len(u), k \in 1 .. Len(Tail(todo[p])) :
           /\ j = Len(u) /\ k = 1 => Then(u[j], Tail(todo[p])[k])
           /\ k = 1 /\ Tail(todo[p])[k].do = "write_grant" => local[p].op = "create_role"
           /\ u[j].do = Tail(todo[p])[k].do /\ u[j].do \in {"create_part", "write_grant"}
              => u[j].on # Tail(todo[p])[k].on,
         \A k \in 1 .. Len(u) : Looked(l, u[k]), Found(l, u[1])
  PROVE  SInv'
<1> DEFINE t == todo[p]
           v == Tail(t)
           w == u \o v
<1>1. /\ RunType /\ DbType /\ DbOK /\ Planned(p) /\ Holds(p)
      /\ t \in Seq(Todo) /\ t # <<>> /\ Asks(local[p]) /\ Shape(local[p], t)
  BY FirstStep DEF SInv
<1>2. /\ v \in Seq(Todo) /\ Len(v) = Len(t) - 1 /\ Len(t) \in Nat
      /\ \A k \in 1 .. Len(t) - 1 : v[k] = t[k + 1]
      /\ Shape(local[p], v)
  BY <1>1, Rest, ShapeRest
<1>3. /\ RunType' /\ Others(p) /\ todo'[p] = w /\ local'[p] = l
      /\ UNCHANGED <<dbVars, twins>>
  BY <1>1, ExpandRuns
<1>4. Shape(local[p], w)
  BY <1>2, ShapeJoin
<1>5. Asks(l) /\ Shape(l, w)
  BY <1>1, <1>4, AsksCarried, ShapeCarried
<1>6. DbType' /\ DbOK' /\ Kept
  <2>1. Kept
    BY <1>3, KeptSame
  <2>2. DbType'
    BY <1>1, <1>3 DEF DbType, dbVars, staffVars, catalogue
  <2>3. DbOK'
    BY <1>1, <1>3 DEF DbOK, SameTenant, Granted, dbVars, staffVars, catalogue
  <2> QED
    BY <2>1, <2>2, <2>3
<1>7. /\ w \in Seq(Todo) /\ Len(w) = Len(u) + Len(v) /\ w[1] = u[1] /\ w # <<>>
      /\ Head(w) = w[1]
  <2>1. 1 \in 1 .. Len(u) /\ Len(u) \in Nat
    BY LenProperties
  <2>2. w \in Seq(Todo) /\ Len(w) = Len(u) + Len(v) /\ w[1] = u[1]
    BY <1>2, <2>1, Joined
  <2> HIDE DEF w
  <2>3. w # <<>>
    BY <1>2, <2>1, <2>2
  <2> QED
    BY <2>2, <2>3
<1>8. \A k \in 1 .. Len(todo'[p]) : Looked(local[p], todo[p][k])'
  <2> TAKE k \in 1 .. Len(todo'[p])
  <2>1. CASE k \in 1 .. Len(u) /\ w[k] = u[k]
    <3>1. Looked(l, u[k]) /\ todo'[p][k] = u[k] /\ local'[p] = l
      BY <1>3, <2>1
    <3> QED
      BY <1>3, <3>1 DEF Looked, Belongs, dbVars, staffVars
  <2>2. CASE k - Len(u) \in 1 .. Len(v) /\ w[k] = v[k - Len(u)]
    <3> DEFINE j == k - Len(u)
    <3>1. j + 1 \in 1 .. Len(t) /\ w[k] = t[j + 1]
      BY <1>2, <2>2
    <3>2. Looked(local[p], t[j + 1])
      BY <1>1, <3>1 DEF Holds
    <3>3. Carried(local[p], local'[p]) /\ todo'[p][k] = todo[p][j + 1]
      BY <1>3, <3>1
    <3> QED
      BY <1>1, <1>6, <3>1, <3>2, <3>3, LookedKept
  <2> QED
    BY <1>2, <1>3, <2>1, <2>2, JoinedIndex
<1>9. Found(local[p], Head(todo[p]))'
  <2>1. Head(todo'[p]) = u[1] /\ local'[p] = l
    BY <1>3, <1>7
  <2> QED
    BY <1>3, <2>1 DEF Found, Belongs, dbVars, staffVars, catalogue
<1>10. Planned(p)' /\ Holds(p)'
  <2>1. Asks(local'[p]) /\ Shape(local'[p], todo'[p])
    BY <1>3, <1>5
  <2> QED
    BY <1>8, <1>9, <2>1 DEF Planned, Holds
<1> QED
  BY <1>3, <1>6, <1>10, Assemble

-----------------------------------------------------------------------------
(* Members, their roles and shifts.                                        *)

\* What comes next of a request to set levels, once a member's are set.
LEMMA NextEntry ==
  ASSUME SInv, NEW p \in Procs, Running(p), local[p].op = "set_levels",
         Head(todo[p]).do = "find_member", NEW k \in 1 .. Len(Tail(todo[p]))
  PROVE  /\ k = 1 => Tail(todo[p])[k].do = "find_member"
         /\ Tail(todo[p])[k].do \notin {"create_part", "write_grant"}
<1> DEFINE t == todo[p]
           v == Tail(t)
<1>1. /\ t \in Seq(Todo) /\ t # <<>> /\ Shape(local[p], t) /\ Head(t) = t[1]
  BY FirstStep
<1>2. /\ Len(v) = Len(t) - 1 /\ Len(t) \in Nat
      /\ \A j \in 1 .. Len(t) - 1 : v[j] = t[j + 1]
  BY <1>1, Rest
<1>3. k + 1 \in 1 .. Len(t) /\ v[k] = t[k + 1] /\ k \in 1 .. Len(t) - 1
  BY <1>2
<1>4. Then(t[k], t[k + 1]) /\ Fit(local[p], t[k + 1])
  BY <1>1, <1>3 DEF Shape
<1>5. v[k].do \notin {"create_part", "write_grant", "find_role", "delete_level", "delete_member"}
  BY <1>3, <1>4 DEF Fit
<1>6. k = 1 => v[k].do = "find_member"
  BY <1>1, <1>3, <1>4, <1>5 DEF Then
<1> QED
  BY <1>5, <1>6

\* A member was looked up before its levels are set.
LEMMA FindMemberKeeps ==
  ASSUME SInv, NEW p \in Procs, FindMember(p)
  PROVE  SInv'
<1> DEFINE c == local[p]
           s == Head(todo[p])
           m == s.on
           found == /\ Owned(m, c.tenant)
                    /\ c.op = "remove_level" => member[m].team = c.team
<1>1. /\ Running(p) /\ s.do = "find_member"
      /\ \/ found /\ c.op # "set_levels" /\ Read(p, c)
         \/ found /\ c.op = "set_levels" /\ Expand(p, SetLevel(m, s.access), c)
         \/ ~found /\ Refuse(p)
  BY DEF FindMember, At
<1>2. CASE found /\ c.op # "set_levels" /\ Read(p, c)
  <2>1. Asks(c) /\ Fit(c, s)
    BY <1>1, FirstStep
  <2>2. m = c.member
    BY <1>1, <1>2, <2>1, StaffAssumption DEF Asks, AsksFor, Fit, OfMember
  <2>3. Belongs(c.member, c.tenant)
    BY <1>2, <2>2 DEF Owned, Live, Belongs
  <2> QED
    BY <1>1, <1>2, <2>3, ReadsSame
<1>3. CASE found /\ c.op = "set_levels" /\ Expand(p, SetLevel(m, s.access), c)
  <2> DEFINE u == SetLevel(m, s.access)
  <2>1. c \in Local /\ Fit(c, s) /\ Carried(c, c)
    BY <1>1, FirstStep DEF Carried
  <2>2. m \in Members /\ s.access \in Access
    BY <1>1, <1>3, <2>1 DEF Fit, OnMember
  <2>3. /\ u \in Seq(Todo) /\ Len(u) \in 2 .. 3 /\ Shape(c, u)
        /\ \A k \in 1 .. Len(u) :
             /\ u[k].do \in {"find_lead", "find_level", "write_level"} /\ u[k].on = m
        /\ u[Len(u)].do = "write_level"
        /\ u[1].do \in {"find_lead", "find_level"}
    BY <1>3, <2>2, SetLevelScript
  <2>4. Expand(p, u, c)
    BY <1>3
  <2> HIDE DEF u
  <2>5. \A k \in 1 .. Len(u) : Looked(c, u[k])
    <3>1. member[m] # Absent /\ member[m].org = c.tenant
      BY <1>3 DEF Owned, Live
    <3> QED
      BY <2>3, <3>1 DEF Looked, Belongs
  <2>6. Found(c, u[1])
    BY <1>3, <2>3 DEF Found
  <2>7. ASSUME NEW j \in 1 .. Len(u), NEW k \in 1 .. Len(Tail(todo[p]))
        PROVE  /\ j = Len(u) /\ k = 1 => Then(u[j], Tail(todo[p])[k])
               /\ k = 1 /\ Tail(todo[p])[k].do = "write_grant" => c.op = "create_role"
               /\ u[j].do = Tail(todo[p])[k].do /\ u[j].do \in {"create_part", "write_grant"}
                  => u[j].on # Tail(todo[p])[k].on
    <3>1. /\ k = 1 => Tail(todo[p])[k].do = "find_member"
          /\ Tail(todo[p])[k].do \notin {"create_part", "write_grant"}
      BY <1>1, <1>3, NextEntry
    <3>2. j = Len(u) /\ k = 1 => Then(u[j], Tail(todo[p])[k])
      BY <2>3, <3>1 DEF Then
    <3> QED
      BY <3>1, <3>2
  <2> QED
    <3>1. /\ Running(p) /\ c \in Local /\ u \in Seq(Todo) /\ Len(u) >= 1
          /\ Carried(c, c) /\ Shape(c, u)
      BY <1>1, <2>1, <2>3
    <3> QED
      BY ONLY SInv, p \in Procs, <3>1, <2>4, <2>5, <2>6, <2>7, Expands
<1>4. CASE ~found /\ Refuse(p)
  BY <1>4, Refuses
<1> QED
  BY <1>1, <1>2, <1>3, <1>4

\* Nothing comes after the last step of a script.
LEMMA LastStep ==
  ASSUME SInv, NEW p \in Procs, Running(p),
         Head(todo[p]).do \in {"load_member", "assign_role", "delete_member", "delete_level",
                               "create_team", "delete_team", "list_grants", "delete_role"}
  PROVE  Tail(todo[p]) = <<>> /\ Len(Tail(todo[p])) = 0 /\ AtEnd(p)
<1> DEFINE t == todo[p]
<1>1. /\ t \in Seq(Todo) /\ t # <<>> /\ Head(t) = t[1] /\ Shape(local[p], t)
  BY FirstStep
<1>0. Len(t) \in Nat /\ Len(t) >= 1
  BY <1>1, Rest
<1>2. /\ Len(Tail(t)) = Len(t) - 1
      /\ Len(t) = 1 <=> Tail(t) = <<>>
  BY <1>1, Rest
<1>3. ASSUME Len(t) # 1 PROVE FALSE
  <2>1. 1 \in 1 .. Len(t) - 1
    <3> DEFINE n == Len(t)
    <3>1. n \in Nat /\ n >= 1 /\ n # 1
      BY <1>0, <1>3
    <3> HIDE DEF n
    <3>2. 1 \in 1 .. n - 1
      BY <3>1
    <3> QED
      BY <3>2 DEF n
  <2>2. Then(t[1], t[1 + 1])
    BY <1>1, <2>1 DEF Shape
  <2> QED
    BY <1>1, <2>2 DEF Then
<1> QED
  BY <1>2, <1>3 DEF AtEnd

\* A member was looked up before it is updated.
LEMMA LoadMemberKeeps ==
  ASSUME SInv, NEW p \in Procs, LoadMember(p)
  PROVE  SInv'
<1> DEFINE c == local[p]
           s == Head(todo[p])
<1>1. /\ Running(p) /\ s.do = "load_member"
      /\ \/ Owned(c.member, c.tenant) /\ Expand(p, Rewrite(c), c)
         \/ ~Owned(c.member, c.tenant) /\ Refuse(p)
  BY DEF LoadMember, At
<1>2. CASE Owned(c.member, c.tenant) /\ Expand(p, Rewrite(c), c)
  <2> DEFINE u == Rewrite(c)
  <2>1. c \in Local /\ Fit(c, s) /\ Asks(c) /\ Carried(c, c) /\ TypeOK
    BY <1>1, FirstStep DEF Carried, SInv
  <2>2. c.op = "update_member"
    BY <1>1, <2>1 DEF Fit
  <2>3. /\ u \in Seq(Todo) /\ Len(u) >= 3 /\ Shape(c, u)
        /\ u[1].do = "update_member"
        /\ \A k \in 1 .. Len(u) : u[k].do \in OfParts \union {"find_level", "write_level"}
    BY <2>1, <2>2, RewriteScript
  <2>4. Expand(p, u, c)
    BY <1>2
  <2> HIDE DEF u
  <2>5. ASSUME NEW k \in 1 .. Len(u) PROVE Looked(c, u[k])
    <3>1. member[c.member] # Absent /\ member[c.member].org = c.tenant
      BY <1>2 DEF Owned, Live
    <3>2. Fit(c, u[k]) /\ u[k].do \in OfParts \union {"find_level", "write_level"}
      BY <2>3 DEF Shape
    <3> QED
      BY <2>2, <3>1, <3>2 DEF Looked, Belongs, Fit, OfParts
  <2>6. Found(c, u[1])
    BY <2>2, <2>3 DEF Found
  <2>7. Len(Tail(todo[p])) = 0
    BY <1>1, LastStep
  <2>8. ASSUME NEW j \in 1 .. Len(u), NEW k \in 1 .. Len(Tail(todo[p]))
        PROVE  /\ j = Len(u) /\ k = 1 => Then(u[j], Tail(todo[p])[k])
               /\ k = 1 /\ Tail(todo[p])[k].do = "write_grant" => c.op = "create_role"
               /\ u[j].do = Tail(todo[p])[k].do /\ u[j].do \in {"create_part", "write_grant"}
                  => u[j].on # Tail(todo[p])[k].on
    BY <2>7
  <2> QED
    <3>1. /\ Running(p) /\ c \in Local /\ u \in Seq(Todo) /\ Len(u) >= 1
          /\ Carried(c, c) /\ Shape(c, u)
      BY <1>1, <2>1, <2>3, LenProperties
    <3> QED
      BY ONLY SInv, p \in Procs, <3>1, <2>4, <2>5, <2>6, <2>8, Expands
<1>3. CASE ~Owned(c.member, c.tenant) /\ Refuse(p)
  BY <1>3, Refuses
<1> QED
  BY <1>1, <1>2, <1>3

\* An update leaves a member where it was looked up.
LEMMA UpdateMemberKeeps ==
  ASSUME SInv, NEW p \in Procs, UpdateMember(p), UNCHANGED catalogue
  PROVE  SInv'
<1> DEFINE c == local[p]
           s == Head(todo[p])
<1>1. /\ Running(p) /\ s.do = "update_member" /\ Write(p, {})
      /\ member' = [member EXCEPT ![c.member].team = c.team, ![c.member].org = c.tenant]
      /\ UNCHANGED <<part, level, team, issued, role, grant>>
  BY DEF UpdateMember, At, catalogue
<1>2. DbType /\ DbOK /\ Asks(c) /\ Fit(c, s) /\ Looked(c, s)
  BY <1>1, FirstStep
<1>3. /\ c.member \in Members /\ c.tenant \in Orgs /\ c.team \in Teams
      /\ member[c.member] # Absent /\ member[c.member].org = c.tenant
  BY <1>1, <1>2 DEF Asks, AsksFor, Fit, Looked, Belongs, OfMember
<1>4. member[c.member] \in Member
  BY <1>2, <1>3 DEF DbType
<1> DEFINE new == [member[c.member] EXCEPT !.team = c.team, !.org = c.tenant]
<1>5. new \in Member /\ new.org = member[c.member].org
  BY <1>3, <1>4 DEF Member
<1>6. new # Absent
  BY <1>5, StaffAssumption
<1>7. member' = [member EXCEPT ![c.member] = new]
  BY <1>1, <1>2, <1>3 DEF DbType
<1> HIDE DEF new
<1>8. member' \in [Members -> Member \union {Absent}]
  BY <1>2, <1>3, <1>5, <1>7 DEF DbType
<1>9. \A m \in Members :
        /\ member[m] # Absent => member'[m] # Absent
        /\ member'[m].org = member[m].org
  BY <1>2, <1>3, <1>5, <1>6, <1>7 DEF DbType
<1>10. Kept
  BY <1>1, <1>9 DEF Kept
<1>11. DbType'
  BY <1>1, <1>2, <1>8 DEF DbType
<1>12. DbOK'
  <2>1. \A a \in Levels : level[a] # Absent => level[a].member \in Members
    BY <1>2 DEF DbType, Level
  <2> QED
    BY <1>1, <1>2, <1>9, <2>1 DEF DbOK, SameTenant, Granted
<1> QED
  BY <1>1, <1>10, <1>11, <1>12, Writes

\* So does a deletion.
LEMMA DeleteMemberKeeps ==
  ASSUME SInv, NEW p \in Procs, DeleteMember(p), UNCHANGED catalogue
  PROVE  SInv'
<1> DEFINE c == local[p]
           s == Head(todo[p])
<1>1. /\ Running(p) /\ s.do = "delete_member" /\ Write(p, {})
      /\ member' = [member EXCEPT ![c.member].deleted = TRUE]
      /\ UNCHANGED <<part, level, team, issued, role, grant>>
  BY DEF DeleteMember, At, catalogue
<1>2. DbType /\ DbOK /\ Asks(c) /\ Fit(c, s) /\ Found(c, s)
  BY <1>1, FirstStep
<1>3. c.member \in Members
  BY <1>1, <1>2 DEF Asks, AsksFor, Fit, OfMember
<1>4. PICK new : new = [member[c.member] EXCEPT !.deleted = TRUE]
  OBVIOUS
<1>5. member' = [member EXCEPT ![c.member] = new]
  BY <1>1, <1>4
<1>6. member[c.member] \in Member
  BY <1>1, <1>2, <1>3 DEF Found, Belongs, DbType
<1>7. new \in Member /\ new.org = member[c.member].org
  BY <1>4, <1>6 DEF Member
<1>8. new # Absent
  BY <1>7, StaffAssumption
<1>9. member' \in [Members -> Member \union {Absent}]
  BY <1>2, <1>3, <1>5, <1>7 DEF DbType
<1>10. \A m \in Members :
         /\ member[m] # Absent => member'[m] # Absent
         /\ member'[m].org = member[m].org
  BY <1>2, <1>3, <1>5, <1>7, <1>8 DEF DbType
<1>11. Kept
  BY <1>1, <1>10 DEF Kept
<1>12. DbType'
  BY <1>1, <1>2, <1>9 DEF DbType
<1>13. DbOK'
  <2>1. \A a \in Levels : level[a] # Absent => level[a].member \in Members
    BY <1>2 DEF DbType, Level
  <2> QED
    BY <1>1, <1>2, <1>10, <2>1 DEF DbOK, SameTenant, Granted
<1> QED
  BY <1>1, <1>11, <1>12, <1>13, Writes

\* Rows whose deletion or insertion nothing else depends on.
LEMMA PartsWritten ==
  ASSUME SInv, NEW p \in Procs, Running(p), NEW rows \in SUBSET Rows, Write(p, rows),
         Head(todo[p]).do \in {"delete_part", "create_part", "assign_role"},
         part' \in [Parts -> Part \union {Absent}], issued' \in 0 .. MaxParts,
         UNCHANGED <<member, level, team, role, grant>>
  PROVE  SInv'
<1>1. DbType /\ DbOK
  BY FirstStep
<1>2. Kept
  BY DEF Kept
<1>3. DbType' /\ DbOK'
  BY <1>1 DEF DbType, DbOK, SameTenant, Granted
<1> QED
  BY <1>2, <1>3, Writes

\* A part that another request took goes once more, or the request stops.
LEMMA PartGoes ==
  ASSUME part \in [Parts -> Part \union {Absent}], NEW p, DeletePart(p)
  PROVE  LET x == Head(todo[p]).on
         IN /\ Running(p) /\ Head(todo[p]).do = "delete_part"
            /\ \/ /\ part' = [part EXCEPT ![x] = Absent] /\ Write(p, {})
                  /\ UNCHANGED <<member, level, team, issued>>
               \/ Refuse(p)
<1> DEFINE x == Head(todo[p]).on
<1>1. /\ Running(p) /\ Head(todo[p]).do = "delete_part"
      /\ \/ /\ part' = [part EXCEPT ![x] = Absent] /\ Write(p, {})
            /\ UNCHANGED <<member, level, team, issued>>
         \/ Refuse(p)
         \/ /\ part[x] = Absent /\ Write(p, {})
            /\ UNCHANGED <<member, part, level, team, issued>>
  BY DEF DeletePart, At, staffVars
<1> HIDE DEF x
<1>2. ASSUME part[x] = Absent, part' = part
      PROVE  part' = [part EXCEPT ![x] = Absent]
  BY <1>2
<1>3. \/ /\ part' = [part EXCEPT ![x] = Absent] /\ Write(p, {})
         /\ UNCHANGED <<member, level, team, issued>>
      \/ Refuse(p)
  BY <1>1, <1>2
<1> QED
  BY <1>1, <1>3 DEF x

\* A part that goes.
LEMMA DeletePartKeeps ==
  ASSUME SInv, NEW p \in Procs, DeletePart(p), UNCHANGED catalogue
  PROVE  SInv'
<1> DEFINE x == Head(todo[p]).on
<1>1. /\ Running(p) /\ Head(todo[p]).do = "delete_part"
      /\ \/ /\ part' = [part EXCEPT ![x] = Absent] /\ Write(p, {})
            /\ UNCHANGED <<member, level, team, issued, role, grant>>
         \/ Refuse(p)
  BY PartGoes DEF SInv, TypeOK, catalogue
<1>2. CASE Refuse(p)
  BY <1>2, Refuses
<1>3. CASE /\ part' = [part EXCEPT ![x] = Absent] /\ Write(p, {})
           /\ UNCHANGED <<member, level, team, issued, role, grant>>
  <2>1. DbType
    BY <1>1, FirstStep
  <2>2. part' \in [Parts -> Part \union {Absent}] /\ issued' \in 0 .. MaxParts
    BY <1>3, <2>1 DEF DbType
  <2> QED
    BY <1>1, <1>3, <2>2, PartsWritten
<1> QED
  BY <1>1, <1>2, <1>3

\* A part that comes.
LEMMA NewPartKeeps ==
  ASSUME SInv, NEW p \in Procs, NEW what \in Roles \union Days, Running(p),
         Head(todo[p]).do \in {"create_part", "assign_role"},
         NewPart(p, what), UNCHANGED catalogue
  PROVE  SInv'
<1>1. /\ issued < MaxParts /\ issued' = issued + 1
      /\ part' = [part EXCEPT ![issued + 1] = [member |-> local[p].member, of |-> what]]
      /\ Write(p, {<<"part", issued + 1>>})
      /\ UNCHANGED <<member, level, team, role, grant>>
  BY DEF NewPart, catalogue
<1>2. DbType /\ Asks(local[p]) /\ Fit(local[p], Head(todo[p]))
  BY FirstStep
<1>3. local[p].member \in Members
  BY <1>2 DEF Asks, AsksFor, Fit, OfMember
<1>4. issued + 1 \in Parts /\ issued' \in 0 .. MaxParts
  BY <1>1, <1>2, StaffAssumption DEF DbType, Parts
<1>5. {<<"part", issued + 1>>} \in SUBSET Rows
  BY <1>4 DEF Rows
<1>6. part' \in [Parts -> Part \union {Absent}]
  BY <1>1, <1>2, <1>3 DEF DbType, Part
<1> QED
  BY <1>1, <1>4, <1>5, <1>6, PartsWritten

\* The two steps that make one.
LEMMA CreatePartKeeps ==
  ASSUME SInv, NEW p \in Procs, CreatePart(p), UNCHANGED catalogue
  PROVE  SInv'
<1>1. Running(p) /\ Head(todo[p]).do = "create_part" /\ NewPart(p, Head(todo[p]).on)
  BY DEF CreatePart, At
<1>2. Head(todo[p]).on \in Roles \union Days
  BY <1>1, FirstStep DEF Fit
<1> QED
  BY <1>1, <1>2, NewPartKeeps

\* The role named by a request is one.
LEMMA RoleNamed ==
  ASSUME NEW c, Asks(c), c.op \in {"assign_role", "remove_role"}
  PROVE  RoleOf(c) \in Roles
  BY DEF Asks, AsksFor

\* A role that is assigned.
LEMMA AssignRoleKeeps ==
  ASSUME SInv, NEW p \in Procs, AssignRole(p), UNCHANGED catalogue
  PROVE  SInv'
<1>1. Running(p) /\ Head(todo[p]).do = "assign_role" /\ NewPart(p, RoleOf(local[p]))
  BY DEF AssignRole, At
<1>2. RoleOf(local[p]) \in Roles
  BY <1>1, FirstStep, RoleNamed DEF Fit
<1> QED
  BY <1>1, <1>2, NewPartKeeps

\* Looking for a role changes nothing.
LEMMA FindRoleKeeps ==
  ASSUME SInv, NEW p \in Procs, FindRole(p)
  PROVE  SInv'
<1>1. /\ Running(p) /\ Head(todo[p]).do = "find_role"
      /\ Read(p, local[p]) \/ Refuse(p)
  BY DEF FindRole, At
<1> QED
  BY <1>1, ReadsSame, Refuses

-----------------------------------------------------------------------------
(* Access levels.                                                          *)

\* Nor does looking for a lead.
LEMMA FindLeadKeeps ==
  ASSUME SInv, NEW p \in Procs, FindLead(p)
  PROVE  SInv'
<1>1. /\ Running(p) /\ Head(todo[p]).do = "find_lead"
      /\ Read(p, local[p]) \/ Refuse(p)
  BY DEF FindLead, At
<1> QED
  BY <1>1, ReadsSame, Refuses

\* The level found, if any, is the one to write.
LEMMA FindLevelKeeps ==
  ASSUME SInv, NEW p \in Procs, FindLevel(p)
  PROVE  SInv'
<1> DEFINE c == local[p]
           s == Head(todo[p])
           rows == LevelsOf(s.on, c.team, c.tenant)
<1>1. Running(p) /\ s.do = "find_level"
  BY DEF FindLevel, At
<1>2. PICK a \in IF rows = {} THEN {Null} ELSE rows : Read(p, [c EXCEPT !.found = a])
  BY DEF FindLevel
<1>3. PICK l : l = [c EXCEPT !.found = a]
  OBVIOUS
<1>4. Read(p, l)
  BY <1>2, <1>3
<1>5. /\ RunType /\ DbType /\ c \in Local /\ Asks(c) /\ Fit(c, s) /\ s \in Todo
  BY <1>1, FirstStep
<1>6. a \in Levels \union {Null}
  BY <1>2 DEF LevelsOf
<1>7. l \in Local /\ l.found = a
  BY <1>3, <1>5, <1>6 DEF Local
<1>8. Carried(c, l) /\ l.team = c.team /\ l.tenant = c.tenant /\ l.op = c.op
  <2>1. c.op # "create_role"
    BY <1>1, <1>5 DEF Fit
  <2> QED
    BY <1>3, <1>5, <2>1 DEF Carried, Local
<1>9. /\ todo'[p] = Tail(todo[p])
      /\ todo'[p] # <<>> => local'[p] = l
      /\ UNCHANGED <<dbVars, twins>>
  BY <1>1, <1>4, <1>5, <1>7, ReadRuns
<1>10. ASSUME todo'[p] # <<>> PROVE Found(local[p], Head(todo[p]))'
  <2>1. /\ Head(todo'[p]) = todo[p][2] /\ Then(s, todo[p][2])
    BY <1>1, <1>9, <1>10, NextStep
  <2>2. Head(todo'[p]).do = "write_level" /\ Head(todo'[p]).on = s.on
    BY <1>1, <2>1 DEF Then
  <2>3. a # Null => a \in rows
    BY <1>2
  <2>4. a # Null =>
          /\ a \in Levels /\ level[a] # Absent
          /\ level[a].member = s.on /\ level[a].team = c.team /\ level[a].org = c.tenant
    BY <2>3 DEF LevelsOf, Live
  <2>5. l.op \in {"update_member", "set_levels"}
    BY <1>1, <1>5, <1>8 DEF Fit
  <2>6. local'[p] = l /\ level' = level
    BY <1>9, <1>10 DEF dbVars, staffVars
  <2> HIDE DEF c, s, rows
  <2> QED
    BY <1>7, <1>8, <2>2, <2>4, <2>5, <2>6 DEF Found
<1> QED
  BY <1>1, <1>4, <1>7, <1>8, <1>10, Reads

\* A set of ids that is not empty has a least one.
LEMMA LeastRow ==
  ASSUME NEW free \in SUBSET Nat, free # {}
  PROVE  (CHOOSE x \in free : \A y \in free : x <= y) \in free
<1> DEFINE R == {ss \in Nat \X Nat : ss[1] < ss[2]}
<1>1. IsWellFoundedOn(R, Nat)
  BY NatLessThanWellFounded DEF OpToRel
<1> HIDE DEF R
<1>2. PICK x \in free : \A y \in free : ~(<<y, x>> \in R)
  BY <1>1, WFMin
<1>3. \A y \in free : x <= y
  <2> TAKE y \in free
  <2>1. ~(<<y, x>> \in R) /\ x \in Nat /\ y \in Nat
    BY <1>2
  <2>2. ~(y < x)
    BY <2>1 DEF R
  <2> QED
    BY <2>1, <2>2
<1> QED
  BY <1>2, <1>3

\* A level that is written stays in the organization of its member.
LEMMA LevelWritten ==
  ASSUME SInv, NEW p \in Procs, Running(p), NEW rows \in SUBSET Rows, Write(p, rows),
         Head(todo[p]).do \in {"write_level", "delete_level"},
         NEW a \in Levels, NEW new \in Level, level' = [level EXCEPT ![a] = new],
         level[a] # Absent => /\ new.member = level[a].member /\ new.team = level[a].team
                              /\ new.org = level[a].org,
         new.org = member[new.member].org,
         UNCHANGED <<member, part, team, issued, role, grant>>
  PROVE  SInv'
<1>1. DbType /\ DbOK
  BY FirstStep
<1>2. new # Absent
  BY StaffAssumption
<1>3. Kept
  BY <1>1, <1>2 DEF Kept, DbType
<1>4. DbType'
  BY <1>1 DEF DbType
<1>5. SameTenant'
  BY <1>1 DEF DbOK, DbType, SameTenant
<1>6. DbOK'
  BY <1>1, <1>5 DEF DbOK, Granted
<1> QED
  BY <1>3, <1>4, <1>6, Writes

\* The row that a level or a grant goes to: the one found, or a free one.
LEMMA Target ==
  ASSUME NEW free \in SUBSET Nat, NEW found, found = Null => free # {},
         NEW a, a = IF found # Null THEN found ELSE CHOOSE x \in free : \A y \in free : x <= y
  PROVE  (found = Null => a \in free) /\ (found # Null => a = found)
  BY LeastRow

\* A level is written for a member that was looked up in the organization, in
\* the row that was found or in a free one.
LEMMA LevelRow ==
  ASSUME SInv, NEW p \in Procs, WriteLevel(p)
  PROVE  \E a \in Levels, row \in Level :
           /\ level' = [level EXCEPT ![a] = row] /\ Write(p, {<<"level", a>>})
           /\ row.member = Head(todo[p]).on /\ row.access = Head(todo[p]).access
           /\ row.team = local[p].team /\ row.org = local[p].tenant
           /\ row.org = member[row.member].org
           /\ level[a] # Absent =>
                /\ row.member = level[a].member /\ row.team = level[a].team
                /\ row.org = level[a].org /\ row.deleted = level[a].deleted
           /\ local[p].found # Null => level[a] # Absent /\ a = local[p].found
           /\ local[p].found = Null => row.deleted = FALSE
<1> DEFINE c == local[p]
           step == Head(todo[p])
           new == [member |-> step.on, team |-> c.team, org |-> c.tenant,
                   access |-> step.access, deleted |-> FALSE]
           free == {x \in Levels : level[x] = Absent}
<1>0. PICK a : a = IF c.found # Null THEN c.found ELSE CHOOSE x \in free : \A y \in free : x <= y
  OBVIOUS
<1>1. /\ Running(p) /\ step.do = "write_level"
      /\ c.found = Null => free # {}
      /\ level' = [level EXCEPT ![a] = IF c.found = Null THEN new
                     ELSE [@ EXCEPT !.access = step.access, !.org = c.tenant]]
      /\ Write(p, {<<"level", a>>})
  BY <1>0 DEF WriteLevel, At
<1>2. /\ DbType /\ c \in Local /\ Asks(c) /\ Fit(c, step)
      /\ Looked(c, step) /\ Found(c, step)
  BY <1>1, FirstStep
<1>3. /\ step.on \in Members /\ step.access \in Access /\ c.team \in Teams /\ c.tenant \in Orgs
      /\ member[step.on] # Absent /\ member[step.on].org = c.tenant
  BY <1>1, <1>2 DEF Asks, AsksFor, Fit, OnMember, Looked, Belongs
<1>4. c.found # Null =>
        /\ c.found \in Levels /\ level[c.found] # Absent
        /\ level[c.found].member = step.on /\ level[c.found].team = c.team
        /\ level[c.found].org = c.tenant
  BY <1>1, <1>2 DEF Found
<1>5. Levels \in SUBSET Nat
  BY DEF Levels
<1>6. a \in Levels /\ (c.found = Null => level[a] = Absent) /\ (c.found # Null => a = c.found)
  <2>1. free \in SUBSET Nat
    BY <1>5
  <2>2. (c.found = Null => a \in free) /\ (c.found # Null => a = c.found)
    <3> HIDE DEF free
    <3> QED
      BY <1>0, <1>1, <2>1, Target
  <2> QED
    BY <1>4, <2>2
<1> HIDE DEF free
<1>7. new \in Level
  BY <1>3 DEF Level
<1>8. c.found # Null => level[a] \in Level
  BY <1>2, <1>4, <1>6 DEF DbType
<1>9. PICK row : row = IF c.found = Null THEN new
                       ELSE [level[a] EXCEPT !.access = step.access, !.org = c.tenant]
  OBVIOUS
<1>10. level' = [level EXCEPT ![a] = row]
  BY <1>1, <1>9
<1>11. /\ row \in Level /\ row.member = step.on /\ row.team = c.team /\ row.org = c.tenant
       /\ row.access = step.access
       /\ c.found # Null => row.deleted = level[a].deleted
       /\ c.found = Null => row.deleted = FALSE
  <2>1. CASE c.found = Null
    BY <1>7, <1>9, <2>1
  <2>2. CASE c.found # Null
    BY <1>3, <1>4, <1>6, <1>8, <1>9, <2>2 DEF Level
  <2> QED
    BY <2>1, <2>2
<1>12. level[a] # Absent => /\ row.member = level[a].member /\ row.team = level[a].team
                            /\ row.org = level[a].org /\ row.deleted = level[a].deleted
  BY <1>4, <1>6, <1>11
<1>13. row.org = member[row.member].org
  BY <1>3, <1>11
<1>14. c.found # Null => level[a] # Absent /\ a = c.found
  BY <1>4, <1>6
<1>15. Write(p, {<<"level", a>>})
  BY <1>1
<1> QED
  BY ONLY <1>6, <1>10, <1>11, <1>12, <1>13, <1>14, <1>15

\* It stays in the organization of the member.
LEMMA WriteLevelKeeps ==
  ASSUME SInv, NEW p \in Procs, WriteLevel(p), UNCHANGED catalogue
  PROVE  SInv'
<1>1. /\ Running(p) /\ Head(todo[p]).do = "write_level"
      /\ UNCHANGED <<member, part, team, issued, role, grant>>
  BY DEF WriteLevel, At, catalogue
<1>2. PICK a \in Levels, row \in Level :
        /\ level' = [level EXCEPT ![a] = row] /\ Write(p, {<<"level", a>>})
        /\ row.org = member[row.member].org
        /\ level[a] # Absent =>
             /\ row.member = level[a].member /\ row.team = level[a].team
             /\ row.org = level[a].org
  BY LevelRow
<1>3. {<<"level", a>>} \in SUBSET Rows
  BY DEF Rows
<1> QED
  BY <1>1, <1>2, <1>3, LevelWritten

\* A level is deleted where it is.
LEMMA DeleteLevelKeeps ==
  ASSUME SInv, NEW p \in Procs, DeleteLevel(p), UNCHANGED catalogue
  PROVE  SInv'
<1> DEFINE c == local[p]
           rows == {x \in Levels : /\ level[x] # Absent
                                   /\ level[x].member = c.member /\ level[x].org = c.tenant}
<1>1. /\ Running(p) /\ Head(todo[p]).do = "delete_level" /\ Write(p, {})
      /\ \/ level' = level
         \/ \E a \in rows : level' = [level EXCEPT ![a].deleted = TRUE]
      /\ UNCHANGED <<member, part, team, issued, role, grant>>
  BY DEF DeleteLevel, At, catalogue
<1>2. DbType /\ DbOK
  BY <1>1, FirstStep
<1>3. CASE level' = level
  <2>1. UNCHANGED dbVars
    BY <1>1, <1>3 DEF dbVars, staffVars, catalogue
  <2>2. Kept
    BY <2>1, KeptSame
  <2>3. DbType' /\ DbOK'
    BY <1>1, <1>2, <1>3 DEF DbType, DbOK, SameTenant, Granted
  <2> QED
    BY <1>1, <2>2, <2>3, Writes
<1>4. ASSUME NEW a \in rows, level' = [level EXCEPT ![a].deleted = TRUE]
      PROVE  SInv'
  <2>1. level[a] \in Level /\ a \in Levels
    BY <1>2 DEF DbType
  <2>2. PICK row : row = [level[a] EXCEPT !.deleted = TRUE]
    OBVIOUS
  <2>3. level' = [level EXCEPT ![a] = row]
    BY <1>4, <2>2
  <2>4. /\ row \in Level /\ row.member = level[a].member /\ row.team = level[a].team
        /\ row.org = level[a].org
    BY <2>1, <2>2 DEF Level
  <2>5. row.org = member[row.member].org
    BY <1>2, <2>4 DEF DbOK, SameTenant
  <2> HIDE DEF rows
  <2> QED
    BY <1>1, <2>1, <2>3, <2>4, <2>5, LevelWritten
<1> QED
  BY <1>1, <1>3, <1>4

-----------------------------------------------------------------------------
(* Teams.                                                                  *)

\* Looking for a name changes nothing.
LEMMA FindTeamKeeps ==
  ASSUME SInv, NEW p \in Procs, FindTeam(p)
  PROVE  SInv'
<1>1. /\ Running(p) /\ Head(todo[p]).do = "find_team"
      /\ Read(p, local[p]) \/ Refuse(p)
  BY DEF FindTeam, At
<1> QED
  BY <1>1, ReadsSame, Refuses

\* Rows of teams that nothing here depends on.
LEMMA TeamWritten ==
  ASSUME SInv, NEW p \in Procs, Running(p), NEW rows \in SUBSET Rows, Write(p, rows),
         Head(todo[p]).do \in {"create_team", "delete_team"},
         team' \in [Teams -> Team \union {Absent}],
         UNCHANGED <<member, part, level, issued, role, grant>>
  PROVE  SInv'
<1>1. DbType /\ DbOK
  BY FirstStep
<1>2. Kept
  BY DEF Kept
<1>3. DbType' /\ DbOK'
  BY <1>1 DEF DbType, DbOK, SameTenant, Granted
<1> QED
  BY <1>2, <1>3, Writes

\* A team that comes.
LEMMA CreateTeamKeeps ==
  ASSUME SInv, NEW p \in Procs, CreateTeam(p), UNCHANGED catalogue
  PROVE  SInv'
<1> DEFINE c == local[p]
<1>1. /\ Running(p) /\ Head(todo[p]).do = "create_team"
      /\ UNCHANGED <<member, part, level, issued, role, grant>>
  BY DEF CreateTeam, At, catalogue
<1>2. PICK t \in Teams :
        /\ team' = [team EXCEPT ![t] = [name |-> c.name, org |-> c.tenant, deleted |-> FALSE]]
        /\ Write(p, {<<"team", t>>})
  BY DEF CreateTeam
<1>3. DbType /\ Asks(c) /\ Fit(c, Head(todo[p]))
  BY <1>1, FirstStep
<1>4. c.name \in Names /\ c.tenant \in Orgs
  BY <1>1, <1>3 DEF Asks, AsksFor, Fit
<1>5. team' \in [Teams -> Team \union {Absent}]
  BY <1>2, <1>3, <1>4 DEF DbType, Team
<1>6. {<<"team", t>>} \in SUBSET Rows
  BY DEF Rows
<1> QED
  BY <1>1, <1>2, <1>5, <1>6, TeamWritten

\* A team that goes.
LEMMA DeleteTeamKeeps ==
  ASSUME SInv, NEW p \in Procs, DeleteTeam(p), UNCHANGED catalogue
  PROVE  SInv'
<1> DEFINE t == local[p].team
<1>1. /\ Running(p) /\ Head(todo[p]).do = "delete_team"
      /\ \/ /\ Live(team, t) /\ Write(p, {})
            /\ team' = [team EXCEPT ![t].deleted = TRUE]
            /\ UNCHANGED <<member, part, level, issued, role, grant>>
         \/ Refuse(p)
  BY DEF DeleteTeam, At, catalogue
<1>2. CASE Refuse(p)
  BY <1>2, Refuses
<1>3. CASE /\ Live(team, t) /\ Write(p, {})
           /\ team' = [team EXCEPT ![t].deleted = TRUE]
           /\ UNCHANGED <<member, part, level, issued, role, grant>>
  <2>1. DbType /\ Asks(local[p]) /\ Fit(local[p], Head(todo[p]))
    BY <1>1, FirstStep
  <2>2. t \in Teams
    BY <1>1, <2>1 DEF Asks, AsksFor, Fit
  <2>3. team[t] \in Team
    BY <1>3, <2>1, <2>2 DEF DbType, Live
  <2>4. PICK row : row = [team[t] EXCEPT !.deleted = TRUE]
    OBVIOUS
  <2>5. row \in Team /\ team' = [team EXCEPT ![t] = row]
    BY <1>3, <2>3, <2>4 DEF Team
  <2>6. team' \in [Teams -> Team \union {Absent}]
    BY <2>1, <2>5 DEF DbType
  <2> QED
    BY <1>1, <1>3, <2>6, TeamWritten
<1> QED
  BY <1>1, <1>2, <1>3

-----------------------------------------------------------------------------
(* The catalogue of roles.                                                 *)

\* The role that an edit is about is one of the organization.
LEMMA LoadRoleKeeps ==
  ASSUME SInv, NEW p \in Procs, LoadRole(p)
  PROVE  SInv'
<1> DEFINE c == local[p]
           s == Head(todo[p])
<1>1. /\ Running(p) /\ s.do = "load_role"
      /\ \/ Live(role, c.role) /\ role[c.role].org = c.tenant /\ Read(p, c)
         \/ Refuse(p)
  BY DEF LoadRole, At
<1>2. CASE Refuse(p)
  BY <1>2, Refuses
<1>3. CASE Live(role, c.role) /\ role[c.role].org = c.tenant /\ Read(p, c)
  <2>1. /\ RunType /\ c \in Local /\ Asks(c) /\ Fit(c, s)
    BY <1>1, FirstStep
  <2>2. c.op = "update_role" /\ c.role \in Roles
    BY <1>1, <2>1 DEF Asks, AsksFor, Fit
  <2>3. Carried(c, c)
    BY DEF Carried
  <2>4. /\ todo'[p] = Tail(todo[p]) /\ (todo'[p] # <<>> => local'[p] = c)
        /\ UNCHANGED <<dbVars, twins>>
    BY <1>1, <1>3, <2>1, ReadRuns
  <2>5. ASSUME todo'[p] # <<>> PROVE Found(local[p], Head(todo[p]))'
    <3>1. Head(todo'[p]) = todo[p][2] /\ Then(s, todo[p][2])
      BY <1>1, <2>4, <2>5, NextStep
    <3>2. Head(todo'[p]).do = "find_name"
      BY <1>1, <3>1 DEF Then
    <3>3. local'[p] = c /\ role' = role
      BY <2>4, <2>5 DEF dbVars, catalogue
    <3>4. role[c.role] # Absent /\ role[c.role].org = c.tenant
      BY <1>3 DEF Live
    <3> QED
      BY <2>2, <3>2, <3>3, <3>4 DEF Found
  <2> QED
    BY <1>1, <1>3, <2>1, <2>3, <2>5, Reads
<1> QED
  BY <1>1, <1>2, <1>3

\* Looking for its name changes nothing.
LEMMA FindNameKeeps ==
  ASSUME SInv, NEW p \in Procs, FindName(p)
  PROVE  SInv'
<1>1. /\ Running(p) /\ Head(todo[p]).do = "find_name"
      /\ Read(p, local[p]) \/ Refuse(p)
  BY DEF FindName, At
<1> QED
  BY <1>1, ReadsSame, Refuses

\* A role that is written stays in its organization.
LEMMA RoleWritten ==
  ASSUME SInv, NEW r \in Roles, NEW new \in Role, role' = [role EXCEPT ![r] = new],
         role[r] # Absent => new.org = role[r].org,
         UNCHANGED <<member, part, level, team, issued, grant>>
  PROVE  Kept /\ DbType' /\ DbOK'
<1>1. DbType /\ DbOK
  BY TypeParts DEF SInv
<1>2. new # Absent
  BY StaffAssumption
<1>3. Kept
  BY <1>1, <1>2 DEF Kept, DbType
<1>4. DbType'
  BY <1>1 DEF DbType
<1>5. \A g \in Grants : grant[g] # Absent => grant[g].role \in Roles
  BY <1>1 DEF DbType, Grant
<1>6. Granted'
  BY <1>1, <1>2, <1>5 DEF DbOK, DbType, Granted
<1>7. DbOK'
  BY <1>1, <1>6 DEF DbOK, SameTenant
<1> QED
  BY <1>3, <1>4, <1>7

\* A new role is one of the organization.
LEMMA CreateRoleKeeps ==
  ASSUME SInv, NEW p \in Procs, CreateRole(p), UNCHANGED staffVars
  PROVE  SInv'
<1> DEFINE c == local[p]
<1>1. /\ Running(p) /\ Head(todo[p]).do = "create_role"
      /\ UNCHANGED <<member, part, level, team, issued, grant>>
  BY DEF CreateRole, At, staffVars
<1>2. PICK r \in Roles :
        /\ role[r] = Absent
        /\ role' = [role EXCEPT ![r] = [name |-> c.name, org |-> c.tenant,
                                        listed |-> {}, deleted |-> FALSE]]
        /\ Commit(p, [c EXCEPT !.role = r], {<<"role", r>>})
  BY DEF CreateRole
<1>3. DbType /\ RunType /\ c \in Local /\ Asks(c) /\ Fit(c, Head(todo[p]))
  BY <1>1, FirstStep
<1>4. c.name \in Names /\ c.tenant \in Orgs /\ c.op = "create_role" /\ c.found = Null
  BY <1>1, <1>3 DEF Asks, AsksFor, Fit
<1>5. PICK new : new = [name |-> c.name, org |-> c.tenant, listed |-> {}, deleted |-> FALSE]
  OBVIOUS
<1>6. new \in Role /\ new.org = c.tenant /\ role' = [role EXCEPT ![r] = new]
  BY <1>2, <1>4, <1>5 DEF Role
<1>7. Kept /\ DbType' /\ DbOK'
  BY <1>1, <1>2, <1>6, RoleWritten
<1>8. PICK l : l = [c EXCEPT !.role = r]
  OBVIOUS
<1>9. l \in Local /\ Carried(c, l) /\ l.role = r /\ l.tenant = c.tenant /\ l.found = Null
      /\ l.op = "create_role"
  <2>1. c \in Local
    BY <1>3
  <2>2. l \in Local
    BY ONLY <2>1, <1>8, r \in Roles DEF Local
  <2>3. l.role = r
    BY ONLY <2>1, <1>8 DEF Local
  <2>4. /\ l.op = c.op /\ l.tenant = c.tenant /\ l.member = c.member /\ l.team = c.team
        /\ l.roles = c.roles /\ l.name = c.name /\ l.found = c.found
        /\ l.days = c.days /\ l.grants = c.grants /\ l.loose = c.loose
    BY ONLY <2>1, <1>8 DEF Local
  <2>5. Carried(c, l)
    BY ONLY <2>4, <1>4 DEF Carried
  <2> QED
    BY ONLY <1>4, <2>2, <2>3, <2>4, <2>5
<1>10. {<<"role", r>>} \in SUBSET Rows
  BY DEF Rows
<1>11. /\ RunType' /\ Overtaken(p) /\ todo'[p] = Tail(todo[p])
       /\ todo'[p] # <<>> => local'[p] = l
  BY <1>1, <1>2, <1>3, <1>8, <1>9, <1>10, CommitRuns
<1>12. ASSUME todo'[p] # <<>>
       PROVE  Carried(local[p], local'[p]) /\ Found(local[p], Head(todo[p]))'
  <2>1. local'[p] = l
    BY <1>11, <1>12
  <2>2. Head(todo'[p]) = todo[p][2] /\ Then(Head(todo[p]), todo[p][2])
    BY <1>1, <1>11, <1>12, NextStep
  <2>3. Head(todo'[p]).do \in {"write_grant", "find_grant", "list_grants"}
    BY <1>1, <2>2 DEF Then
  <2>4. role'[r] # Absent /\ role'[r].org = c.tenant
    <3>1. role'[r] = new
      BY <1>3, <1>6 DEF DbType
    <3> QED
      BY <1>6, <3>1, StaffAssumption
  <2>5. Found(local[p], Head(todo[p]))'
    BY <1>9, <2>1, <2>3, <2>4 DEF Found
  <2> QED
    BY <1>9, <2>1, <2>5
<1> QED
  BY <1>1, <1>7, <1>11, <1>12, GoesOn

\* The role of an edit was looked up.
LEMMA RoleHeld ==
  ASSUME SInv, NEW p \in Procs, Running(p),
         Head(todo[p]).do \in {"rename_role", "find_grant", "write_grant", "list_grants"}
  PROVE  /\ local[p].role \in Roles /\ role[local[p].role] \in Role
         /\ role[local[p].role].org = local[p].tenant /\ local[p].tenant \in Orgs
         /\ Head(todo[p]).do = "rename_role" => local[p].name \in Names
<1>1. /\ DbType /\ Asks(local[p]) /\ Fit(local[p], Head(todo[p]))
      /\ Found(local[p], Head(todo[p]))
  BY FirstStep
<1>2. /\ local[p].role \in Roles /\ role[local[p].role] # Absent
      /\ role[local[p].role].org = local[p].tenant
  BY <1>1 DEF Fit, Found
<1>3. role[local[p].role] \in Role
  BY <1>1, <1>2 DEF DbType
<1>4. local[p].tenant \in Orgs
  BY <1>1 DEF Asks, AsksFor
<1>5. Head(todo[p]).do = "rename_role" => local[p].name \in Names
  BY <1>1 DEF Asks, AsksFor, Fit
<1> QED
  BY <1>2, <1>3, <1>4, <1>5

\* A role is renamed where it is.
LEMMA RenameRoleKeeps ==
  ASSUME SInv, NEW p \in Procs, RenameRole(p), UNCHANGED staffVars
  PROVE  SInv'
<1> DEFINE c == local[p]
<1>1. /\ Running(p) /\ Head(todo[p]).do = "rename_role"
      /\ role' = [role EXCEPT ![c.role].name = c.name, ![c.role].org = c.tenant]
      /\ Write(p, {<<"role", c.role>>})
      /\ UNCHANGED <<member, part, level, team, issued, grant>>
  BY DEF RenameRole, At, staffVars
<1>2. /\ c.role \in Roles /\ role[c.role] \in Role /\ role[c.role].org = c.tenant
      /\ c.tenant \in Orgs /\ c.name \in Names
  BY <1>1, RoleHeld
<1>3. DbType
  BY <1>1, FirstStep
<1>4. PICK new : new = [role[c.role] EXCEPT !.name = c.name, !.org = c.tenant]
  OBVIOUS
<1>5. new \in Role /\ new.org = role[c.role].org
  BY <1>2, <1>4 DEF Role
<1>6. role' = [role EXCEPT ![c.role] = new]
  BY <1>1, <1>2, <1>3, <1>4 DEF DbType
<1>7. Kept /\ DbType' /\ DbOK'
  BY <1>1, <1>2, <1>5, <1>6, RoleWritten
<1>8. {<<"role", c.role>>} \in SUBSET Rows
  BY <1>2 DEF Rows
<1> QED
  BY <1>1, <1>7, <1>8, Writes

\* The grants written so far are rows.
LEMMA ListGrantsKeeps ==
  ASSUME SInv, NEW p \in Procs, ListGrants(p), UNCHANGED staffVars
  PROVE  SInv'
<1> DEFINE c == local[p]
<1>1. /\ Running(p) /\ Head(todo[p]).do = "list_grants"
      /\ role' = [role EXCEPT ![c.role].listed = c.listed, ![c.role].org = c.tenant]
      /\ Write(p, {})
      /\ UNCHANGED <<member, part, level, team, issued, grant>>
  BY DEF ListGrants, At, staffVars
<1>2. /\ c.role \in Roles /\ role[c.role] \in Role /\ role[c.role].org = c.tenant
      /\ c.tenant \in Orgs
  BY <1>1, RoleHeld
<1>3. DbType /\ c.listed \in SUBSET Grants
  BY <1>1, FirstStep DEF Local
<1>4. PICK new : new = [role[c.role] EXCEPT !.listed = c.listed, !.org = c.tenant]
  OBVIOUS
<1>5. new \in Role /\ new.org = role[c.role].org
  BY <1>2, <1>3, <1>4 DEF Role
<1>6. role' = [role EXCEPT ![c.role] = new]
  BY <1>1, <1>2, <1>3, <1>4 DEF DbType
<1>7. Kept /\ DbType' /\ DbOK'
  BY <1>1, <1>2, <1>5, <1>6, RoleWritten
<1> QED
  BY <1>1, <1>7, Writes

\* A role is deleted where it is.
LEMMA DeleteRoleKeeps ==
  ASSUME SInv, NEW p \in Procs, DeleteRole(p), UNCHANGED staffVars
  PROVE  SInv'
<1> DEFINE r == local[p].role
<1>1. /\ Running(p) /\ Head(todo[p]).do = "delete_role"
      /\ role' = IF role[r] # Absent /\ role[r].org = local[p].tenant
                 THEN [role EXCEPT ![r].deleted = TRUE] ELSE role
      /\ Write(p, {})
      /\ UNCHANGED <<member, part, level, team, issued, grant>>
  BY DEF DeleteRole, At, staffVars
<1>2. /\ DbType /\ DbOK /\ Asks(local[p]) /\ Fit(local[p], Head(todo[p]))
  BY <1>1, FirstStep
<1>3. r \in Roles
  BY <1>1, <1>2 DEF Asks, AsksFor, Fit
<1>4. CASE role[r] # Absent /\ role' = [role EXCEPT ![r].deleted = TRUE]
  <2>1. role[r] \in Role
    BY <1>2, <1>3, <1>4 DEF DbType
  <2>2. PICK new : new = [role[r] EXCEPT !.deleted = TRUE]
    OBVIOUS
  <2>3. new \in Role /\ new.org = role[r].org /\ role' = [role EXCEPT ![r] = new]
    BY <1>4, <2>1, <2>2 DEF Role
  <2>4. Kept /\ DbType' /\ DbOK'
    BY <1>1, <1>3, <2>3, RoleWritten
  <2> QED
    BY <1>1, <2>4, Writes
<1>5. CASE role' = role
  <2>1. UNCHANGED dbVars
    BY <1>1, <1>5 DEF dbVars, staffVars, catalogue
  <2>2. Kept
    BY <2>1, KeptSame
  <2>3. DbType' /\ DbOK'
    BY <1>1, <1>2, <1>5 DEF DbType, DbOK, SameTenant, Granted
  <2> QED
    BY <1>1, <2>2, <2>3, Writes
<1> QED
  BY <1>1, <1>4, <1>5

\* Only a new role is granted permissions without a look at its grants.
LEMMA NextGrant ==
  ASSUME SInv, NEW p \in Procs, Running(p), Head(todo[p]).do = "find_grant",
         NEW k \in 1 .. Len(Tail(todo[p]))
  PROVE  /\ k = 1 => Tail(todo[p])[k].do \in {"write_grant", "find_grant", "list_grants"}
         /\ Tail(todo[p])[k].do # "write_grant"
<1> DEFINE t == todo[p]
           v == Tail(t)
<1>1. /\ t \in Seq(Todo) /\ t # <<>> /\ Shape(local[p], t) /\ Head(t) = t[1]
      /\ Fit(local[p], Head(t))
  BY FirstStep
<1>2. /\ Len(v) = Len(t) - 1 /\ Len(t) \in Nat
      /\ \A j \in 1 .. Len(t) - 1 : v[j] = t[j + 1]
  BY <1>1, Rest
<1>3. k + 1 \in 2 .. Len(t) /\ v[k] = t[k + 1] /\ k \in 1 .. Len(t) - 1
  BY <1>2
<1>4. Then(t[k], t[k + 1])
  BY <1>1, <1>3 DEF Shape
<1>5. v[k].do = "write_grant" => local[p].op = "create_role"
  BY <1>1, <1>3 DEF Shape
<1>6. local[p].op = "update_role"
  BY <1>1 DEF Fit
<1>7. k = 1 => v[k].do \in {"write_grant", "find_grant", "list_grants"}
  BY <1>1, <1>3, <1>4 DEF Then
<1> QED
  BY <1>5, <1>6, <1>7

\* The grant found, if any, is the one to write.
LEMMA FindGrantKeeps ==
  ASSUME SInv, NEW p \in Procs, FindGrant(p)
  PROVE  SInv'
<1> DEFINE c == local[p]
           s == Head(todo[p])
           rows == {g \in Grants : /\ grant[g] # Absent
                                   /\ grant[g].role = c.role /\ grant[g].perm = s.on}
<1>1. Running(p) /\ s.do = "find_grant"
  BY DEF FindGrant, At
<1>2. PICK g \in IF rows = {} THEN {Null} ELSE rows :
        Expand(p, <<[s EXCEPT !.do = "write_grant"]>>, [c EXCEPT !.found = g])
  BY DEF FindGrant
<1>3. PICK l : l = [c EXCEPT !.found = g]
  OBVIOUS
<1>4. PICK x : x = [s EXCEPT !.do = "write_grant"]
  OBVIOUS
<1>5. PICK u : u = <<x>>
  OBVIOUS
<1>6. Expand(p, u, l)
  BY <1>2, <1>3, <1>4, <1>5
<1>7. /\ DbType /\ c \in Local /\ Asks(c) /\ Fit(c, s) /\ s \in Todo /\ Found(c, s)
  BY <1>1, FirstStep
<1>8. g \in Grants \union {Null}
  BY <1>2
<1>9. l \in Local /\ l.found = g
  BY <1>3, <1>7, <1>8 DEF Local
<1>10. c.op = "update_role"
  BY <1>1, <1>7 DEF Fit
<1>11. Carried(c, l) /\ l.op = c.op /\ l.role = c.role /\ l.tenant = c.tenant
  BY <1>3, <1>7, <1>10 DEF Carried, Local
<1>12. x \in Todo /\ x.do = "write_grant" /\ x.on = s.on /\ x.access = s.access
  BY <1>4, <1>7 DEF Todo, Steps
<1>13. Fit(c, x)
  BY <1>1, <1>7, <1>10, <1>12 DEF Fit, OnMember
<1>14. u \in Seq(Todo) /\ Len(u) = 1 /\ u[1] = x /\ Shape(c, u)
  BY <1>5, <1>12, <1>13, OneStep
<1>15. ASSUME NEW k \in 1 .. Len(u) PROVE Looked(l, u[k])
  BY <1>12, <1>14 DEF Looked
<1>16. Found(l, u[1])
  <2>1. g # Null => g \in rows
    BY <1>2
  <2>2. g # Null =>
          /\ g \in Grants /\ grant[g] # Absent
          /\ grant[g].role = c.role /\ grant[g].perm = s.on
    BY <2>1
  <2>3. c.role \in Roles /\ role[c.role] # Absent /\ role[c.role].org = c.tenant
    BY <1>1, <1>7, <1>10 DEF Found
  <2> HIDE DEF rows
  <2> QED
    BY <1>9, <1>11, <1>12, <1>14, <2>2, <2>3 DEF Found
<1>17. ASSUME NEW j \in 1 .. Len(u), NEW k \in 1 .. Len(Tail(todo[p]))
       PROVE  /\ j = Len(u) /\ k = 1 => Then(u[j], Tail(todo[p])[k])
              /\ k = 1 /\ Tail(todo[p])[k].do = "write_grant" => c.op = "create_role"
              /\ u[j].do = Tail(todo[p])[k].do /\ u[j].do \in {"create_part", "write_grant"}
                 => u[j].on # Tail(todo[p])[k].on
  <2>1. /\ k = 1 => Tail(todo[p])[k].do \in {"write_grant", "find_grant", "list_grants"}
        /\ Tail(todo[p])[k].do # "write_grant"
    BY <1>1, NextGrant
  <2>2. u[j] = x
    BY <1>14
  <2>3. j = Len(u) /\ k = 1 => Then(u[j], Tail(todo[p])[k])
    BY <1>12, <2>1, <2>2 DEF Then
  <2> QED
    BY <1>12, <2>1, <2>2, <2>3
<1>18. /\ Running(p) /\ l \in Local /\ u \in Seq(Todo) /\ Len(u) >= 1
       /\ Carried(c, l) /\ Shape(c, u)
  BY <1>1, <1>9, <1>11, <1>14
<1> QED
  BY ONLY SInv, p \in Procs, <1>6, <1>15, <1>16, <1>17, <1>18, Expands

\* A grant is written for the role and the permission of the request, in the
\* row that was found or in a free one.
LEMMA GrantRow ==
  ASSUME SInv, NEW p \in Procs, WriteGrant(p)
  PROVE  \E g \in Grants, row \in Grant :
           /\ grant' = [grant EXCEPT ![g] = row]
           /\ Commit(p, [local[p] EXCEPT !.listed = @ \union {g}], {<<"grant", g>>})
           /\ row.role = local[p].role /\ row.perm = Head(todo[p]).on
           /\ row.flags = Head(todo[p]).access
           /\ grant[g] # Absent => grant[g].role = row.role /\ grant[g].perm = row.perm
           /\ local[p].found # Null <=> grant[g] # Absent
<1> DEFINE c == local[p]
           step == Head(todo[p])
           new == [role |-> c.role, perm |-> step.on, flags |-> step.access]
           free == {x \in Grants : grant[x] = Absent}
<1>1. PICK g : g = IF c.found # Null THEN c.found ELSE CHOOSE x \in free : \A y \in free : x <= y
  OBVIOUS
<1>2. /\ Running(p) /\ step.do = "write_grant"
      /\ c.found = Null => free # {}
      /\ grant' = [grant EXCEPT ![g] = new]
      /\ Commit(p, [c EXCEPT !.listed = @ \union {g}], {<<"grant", g>>})
  BY <1>1 DEF WriteGrant, At
<1>3. /\ DbType /\ c \in Local /\ Asks(c) /\ Fit(c, step) /\ Found(c, step)
  BY <1>2, FirstStep
<1>4. c.role \in Roles
  BY <1>2, RoleHeld
<1>5. step.on \in Perms /\ step.access \in Flags
  BY <1>2, <1>3 DEF Fit
<1>6. c.found # Null =>
        /\ c.found \in Grants /\ grant[c.found] # Absent
        /\ grant[c.found].role = c.role /\ grant[c.found].perm = step.on
  BY <1>2, <1>3 DEF Found
<1>7. g \in Grants /\ (c.found = Null => grant[g] = Absent) /\ (c.found # Null => g = c.found)
  <2>1. free \in SUBSET Nat
    BY DEF Grants
  <2>2. (c.found = Null => g \in free) /\ (c.found # Null => g = c.found)
    <3> HIDE DEF free
    <3> QED
      BY <1>1, <1>2, <2>1, Target
  <2> QED
    BY <1>6, <2>2
<1> HIDE DEF free
<1>8. PICK row : row = new
  OBVIOUS
<1>9. /\ row \in Grant /\ row.role = c.role /\ row.perm = step.on /\ row.flags = step.access
      /\ grant' = [grant EXCEPT ![g] = row]
  BY <1>2, <1>4, <1>5, <1>8 DEF Grant
<1>10. grant[g] # Absent => grant[g].role = row.role /\ grant[g].perm = row.perm
  BY <1>6, <1>7, <1>9
<1>11. c.found # Null => grant[g] # Absent
  BY <1>6, <1>7
<1>12. Commit(p, [c EXCEPT !.listed = @ \union {g}], {<<"grant", g>>})
  BY <1>2
<1> QED
  BY ONLY <1>7, <1>9, <1>10, <1>11, <1>12

\* The role is there.
LEMMA WriteGrantKeeps ==
  ASSUME SInv, NEW p \in Procs, WriteGrant(p), UNCHANGED staffVars
  PROVE  SInv'
<1> DEFINE c == local[p]
<1>1. PICK g \in Grants, row \in Grant :
        /\ grant' = [grant EXCEPT ![g] = row]
        /\ Commit(p, [c EXCEPT !.listed = @ \union {g}], {<<"grant", g>>})
        /\ row.role = c.role
        /\ grant[g] # Absent => grant[g].role = row.role /\ grant[g].perm = row.perm
  BY GrantRow
<1>2. /\ Running(p) /\ Head(todo[p]).do = "write_grant"
      /\ UNCHANGED <<member, part, level, team, issued, role>>
  BY DEF WriteGrant, At, staffVars
<1>3. DbType /\ DbOK /\ c \in Local
  BY <1>2, FirstStep
<1>4. c.role \in Roles /\ role[c.role] \in Role
  BY <1>2, RoleHeld
<1>5. row # Absent /\ role[c.role] # Absent
  BY <1>4, StaffAssumption
<1>6. Kept
  BY <1>1, <1>2, <1>3, <1>5 DEF Kept, DbType
<1>7. DbType'
  BY <1>1, <1>2, <1>3 DEF DbType
<1>8. DbOK'
  <2>1. SameTenant'
    BY <1>2, <1>3 DEF DbOK, SameTenant
  <2>2. Granted'
    BY <1>1, <1>2, <1>3, <1>5 DEF DbOK, DbType, Granted
  <2> QED
    BY <2>1, <2>2 DEF DbOK
<1>9. PICK l : l = [c EXCEPT !.listed = @ \union {g}]
  OBVIOUS
<1>10. /\ l \in Local /\ Carried(c, l) /\ l.role = c.role /\ l.found = c.found
  BY <1>3, <1>9 DEF Local, Carried
<1>11. {<<"grant", g>>} \in SUBSET Rows /\ Commit(p, l, {<<"grant", g>>})
  BY <1>1, <1>9 DEF Rows
<1> QED
  BY <1>2, <1>6, <1>7, <1>8, <1>10, <1>11, Commits

-----------------------------------------------------------------------------
(* Requests come.                                                          *)

\* A request c comes.
Starts(p, c) ==
  /\ requests' = requests + 1
  /\ todo' = [todo EXCEPT ![p] = Script(c)]
  /\ local' = [local EXCEPT ![p] = c]
  /\ UNCHANGED <<dbVars, twins, faults>>

\* A request that comes has an opening.
LEMMA Comes ==
  ASSUME SInv, NEW p \in Procs, NEW c \in Local, Asks(c), Starts(p, c),
         Opening(c, Script(c))
  PROVE  SInv'
<1> DEFINE t == Script(c)
<1>1. DbType /\ RunType /\ DbOK
  BY TypeParts DEF SInv
<1>2. /\ requests' = requests + 1 /\ todo' = [todo EXCEPT ![p] = t]
      /\ local' = [local EXCEPT ![p] = c] /\ UNCHANGED <<dbVars, twins, faults>>
  BY DEF Starts
<1> HIDE DEF t
<1>3. /\ t \in Seq(Todo) /\ Len(t) >= 1 /\ Shape(c, t)
      /\ \A k \in 1 .. Len(t) :
           t[k].do \notin {"update_member", "find_lead", "find_level", "write_level",
                           "create_part"}
      /\ t[1].do \notin {"write_grant", "list_grants", "delete_member"}
      /\ c.op = "update_role" => t[1].do = "load_role"
  BY DEF Opening, t
<1>4. Head(t) = t[1]
  BY <1>3
<1>5. RunType' /\ Others(p) /\ todo'[p] = t /\ local'[p] = c
  BY <1>1, <1>2, <1>3 DEF RunType, Others
<1>6. DbType' /\ DbOK' /\ Kept
  <2>1. Kept
    BY <1>2, KeptSame
  <2>2. DbType'
    BY <1>1, <1>2 DEF DbType, dbVars, staffVars, catalogue
  <2>3. DbOK'
    BY <1>1, <1>2 DEF DbOK, SameTenant, Granted, dbVars, staffVars, catalogue
  <2> QED
    BY <2>1, <2>2, <2>3
<1>7. Planned(p)'
  BY <1>3, <1>5 DEF Planned
<1>8. \A k \in 1 .. Len(todo'[p]) : Looked(local[p], todo[p][k])'
  BY <1>3, <1>5 DEF Looked
<1>9. Found(local[p], Head(todo[p]))'
  BY <1>3, <1>4, <1>5 DEF Found
<1>10. Holds(p)'
  BY <1>8, <1>9 DEF Holds
<1> QED
  BY <1>5, <1>6, <1>7, <1>10, Assemble

\* A call with no arguments yet, and one with some.
LEMMA CallBlank ==
  ASSUME NEW op \in Ops, NEW o \in Orgs
  PROVE  LET c == Call(op, o)
         IN /\ c \in Local /\ c.op = op /\ c.tenant = o
            /\ c.loose = FALSE /\ c.found = Null /\ c.role = Null
<1>1. PICK b : b = Blank
  OBVIOUS
<1>2. b \in Local /\ b.loose = FALSE /\ b.found = Null /\ b.role = Null
  BY <1>1, BlankLocal DEF Blank
<1>3. Call(op, o) = [b EXCEPT !.op = op, !.tenant = o]
  BY <1>1 DEF Call
<1> QED
  BY <1>2, <1>3 DEF Local

\* A call has written nothing.
LEMMA CallUnlisted ==
  ASSUME NEW op, NEW o
  PROVE  Call(op, o).listed = {}
  BY DEF Call, Blank

\* The entries that a call may have.
LEMMA ListsOf ==
  ASSUME NEW S, NEW l \in Lists(S)
  PROVE  l \in Seq(S) /\ l # <<>>
<1>1. CASE \E e \in S : l = <<e>>
  BY <1>1
<1>2. CASE \E e \in S, f \in S : l = <<e, f>>
  BY <1>2
<1> QED
  BY <1>1, <1>2 DEF Lists

\* What a client sends asks for rows of the right kind, and knows nothing.
Calls(c) ==
  /\ c \in Local /\ AsksFor(c)
  /\ c.op = "create_role" => c.role = Null
  /\ c.op \in {"create_role", "update_role"} => c.listed = {}
  /\ c.op = "set_levels" => c.levels # <<>>

\* Then such a request comes.
Asking(p, c) ==
  /\ c \in Local /\ Asks(c) /\ Starts(p, c)
  /\ c.op = "create_role" => c.role = Null
  /\ c.op \in {"create_role", "update_role"} => c.listed = {}
  /\ Opening(c, Script(c))

\* What comes is what was sent, but that it is loose if it names an entry twice.
LEMMA Received ==
  ASSUME NEW p \in Procs, NEW b, Calls(b), Receive(p, b)
  PROVE  \E c : Asking(p, c)
<1>1. PICK r \in BOOLEAN : r = Repeats(b)
  BY DEF Repeats
<1>2. PICK c : c = [b EXCEPT !.loose = r]
  OBVIOUS
<1>3. b \in Local
  BY DEF Calls
<1>4. c \in Local /\ Along(b, c) /\ c.loose = r
  BY <1>2, <1>3 DEF Local, Along
<1>5. AsksFor(c)
  BY <1>4 DEF Calls, AsksFor, RoleOf, Along
<1>6. Repeats(c) <=> Repeats(b)
  BY ONLY <1>4 DEF Repeats, Along
<1>7. Asks(c)
  BY <1>1, <1>4, <1>5, <1>6 DEF Asks
<1>8. Starts(p, c)
  BY <1>1, <1>2 DEF Receive, Starts
<1>9. /\ c.op = "create_role" => c.role = Null
      /\ c.op \in {"create_role", "update_role"} => c.listed = {}
      /\ c.op = "set_levels" => c.levels # <<>>
  BY <1>4 DEF Calls, Along
<1>10. Opening(c, Script(c))
  BY <1>4, <1>7, <1>9, OpeningShort, OpeningLevels, OpeningRole
<1> QED
  BY <1>4, <1>7, <1>8, <1>9, <1>10 DEF Asking

\* A call to update a member.
LEMMA CallUpdate ==
  ASSUME NEW o \in Orgs, NEW m \in Members, NEW t \in Teams,
         NEW r \in Seq(Roles), NEW d \in Seq(Days),
         NEW c,
         c = [Call("update_member", o) EXCEPT !.member = m, !.team = t, !.roles = r,
                                               !.days = d],
         c.op \in Ops
  PROVE  Calls(c)
<1>1. c.op = "update_member"
  BY DEF Call, Blank
<1>2. "update_member" \in Ops
  BY <1>1
<1>3. PICK b : b = Call("update_member", o)
  OBVIOUS
<1>4. /\ b \in Local /\ b.tenant = o /\ b.loose = FALSE /\ b.found = Null /\ b.role = Null
  BY <1>2, <1>3, CallBlank
<1>5. c = [b EXCEPT !.member = m, !.team = t, !.roles = r, !.days = d]
  BY <1>3
<1>6. c \in Local /\ c.tenant = o /\ c.loose = FALSE /\ c.found = Null /\ c.member = m
      /\ c.team = t
  BY ZenonT(60), <1>4, <1>5 DEF Local
<1>7. AsksFor(c)
  BY <1>1, <1>2, <1>6 DEF AsksFor, OfMember
<1>10. c.op \notin {"create_role", "update_role", "set_levels"}
  BY <1>1
<1> QED
  BY <1>6, <1>7, <1>10 DEF Calls

\* A call to give or take a role.
LEMMA CallAssign ==
  ASSUME NEW o \in Orgs, NEW m \in Members, NEW r \in Roles,
         NEW op \in {"assign_role", "remove_role"},
         NEW c, c = [Call(op, o) EXCEPT !.member = m, !.roles = <<r>>], c.op \in Ops
  PROVE  Calls(c)
<1>1. c.op = op
  BY DEF Call, Blank
<1>2. op \in Ops
  BY <1>1
<1>3. PICK b : b = Call(op, o)
  OBVIOUS
<1>4. /\ b \in Local /\ b.tenant = o /\ b.loose = FALSE /\ b.found = Null /\ b.role = Null
  BY <1>2, <1>3, CallBlank
<1>8. <<r>> \in Seq(Roles)
  OBVIOUS
<1>0. PICK rs \in Seq(Roles) : rs = <<r>> /\ rs[1] = r
  BY <1>8
<1>5. c = [b EXCEPT !.member = m, !.roles = rs]
  BY <1>0, <1>3
<1>6. c \in Local /\ c.tenant = o /\ c.loose = FALSE /\ c.found = Null /\ c.member = m
      /\ c.roles = rs
  BY <1>4, <1>5 DEF Local
<1>7. AsksFor(c)
  BY <1>0, <1>1, <1>2, <1>6 DEF AsksFor, RoleOf, OfMember
<1>10. c.op \notin {"create_role", "update_role", "set_levels"}
  BY <1>1
<1> QED
  BY <1>6, <1>7, <1>10 DEF Calls

\* A call to remove a level.
LEMMA CallRemove ==
  ASSUME NEW o \in Orgs, NEW m \in Members, NEW t \in Teams,
         NEW c, c = [Call("remove_level", o) EXCEPT !.member = m, !.team = t], c.op \in Ops
  PROVE  Calls(c)
<1>1. c.op = "remove_level"
  BY DEF Call, Blank
<1>2. "remove_level" \in Ops
  BY <1>1
<1>3. PICK b : b = Call("remove_level", o)
  OBVIOUS
<1>4. /\ b \in Local /\ b.tenant = o /\ b.loose = FALSE /\ b.found = Null /\ b.role = Null
  BY <1>2, <1>3, CallBlank
<1>5. c = [b EXCEPT !.member = m, !.team = t]
  BY <1>3
<1>6. c \in Local /\ c.tenant = o /\ c.loose = FALSE /\ c.found = Null /\ c.member = m
      /\ c.team = t
  BY <1>4, <1>5 DEF Local
<1>7. AsksFor(c)
  BY <1>1, <1>2, <1>6 DEF AsksFor, OfMember
<1>10. c.op \notin {"create_role", "update_role", "set_levels"}
  BY <1>1
<1> QED
  BY <1>6, <1>7, <1>10 DEF Calls

\* A call to delete a member.
LEMMA CallDelete ==
  ASSUME NEW o \in Orgs, NEW m \in Members,
         NEW c, c = [Call("delete_member", o) EXCEPT !.member = m], c.op \in Ops
  PROVE  Calls(c)
<1>1. c.op = "delete_member"
  BY DEF Call, Blank
<1>2. "delete_member" \in Ops
  BY <1>1
<1>3. PICK b : b = Call("delete_member", o)
  OBVIOUS
<1>4. /\ b \in Local /\ b.tenant = o /\ b.loose = FALSE /\ b.found = Null /\ b.role = Null
  BY <1>2, <1>3, CallBlank
<1>5. c = [b EXCEPT !.member = m]
  BY <1>3
<1>6. c \in Local /\ c.tenant = o /\ c.loose = FALSE /\ c.found = Null /\ c.member = m
  BY <1>4, <1>5 DEF Local
<1>7. AsksFor(c)
  BY <1>1, <1>2, <1>6 DEF AsksFor, OfMember
<1>10. c.op \notin {"create_role", "update_role", "set_levels"}
  BY <1>1
<1> QED
  BY <1>6, <1>7, <1>10 DEF Calls

\* A call to create a team.
LEMMA CallNewTeam ==
  ASSUME NEW o \in Orgs, NEW n \in Names,
         NEW c, c = [Call("create_team", o) EXCEPT !.name = n], c.op \in Ops
  PROVE  Calls(c)
<1>1. c.op = "create_team"
  BY DEF Call, Blank
<1>2. "create_team" \in Ops
  BY <1>1
<1>3. PICK b : b = Call("create_team", o)
  OBVIOUS
<1>4. /\ b \in Local /\ b.tenant = o /\ b.loose = FALSE /\ b.found = Null /\ b.role = Null
  BY <1>2, <1>3, CallBlank
<1>5. c = [b EXCEPT !.name = n]
  BY <1>3
<1>6. c \in Local /\ c.tenant = o /\ c.loose = FALSE /\ c.found = Null /\ c.name = n
  BY <1>4, <1>5 DEF Local
<1>7. AsksFor(c)
  BY <1>1, <1>2, <1>6 DEF AsksFor, OfMember
<1>10. c.op \notin {"create_role", "update_role", "set_levels"}
  BY <1>1
<1> QED
  BY <1>6, <1>7, <1>10 DEF Calls

\* A call to delete a team.
LEMMA CallOldTeam ==
  ASSUME NEW o \in Orgs, NEW t \in Teams,
         NEW c, c = [Call("delete_team", o) EXCEPT !.team = t], c.op \in Ops
  PROVE  Calls(c)
<1>1. c.op = "delete_team"
  BY DEF Call, Blank
<1>2. "delete_team" \in Ops
  BY <1>1
<1>3. PICK b : b = Call("delete_team", o)
  OBVIOUS
<1>4. /\ b \in Local /\ b.tenant = o /\ b.loose = FALSE /\ b.found = Null /\ b.role = Null
  BY <1>2, <1>3, CallBlank
<1>5. c = [b EXCEPT !.team = t]
  BY <1>3
<1>6. c \in Local /\ c.tenant = o /\ c.loose = FALSE /\ c.found = Null /\ c.team = t
  BY <1>4, <1>5 DEF Local
<1>7. AsksFor(c)
  BY <1>1, <1>2, <1>6 DEF AsksFor, OfMember
<1>10. c.op \notin {"create_role", "update_role", "set_levels"}
  BY <1>1
<1> QED
  BY <1>6, <1>7, <1>10 DEF Calls

\* A call to set levels.
LEMMA CallLevels ==
  ASSUME NEW o \in Orgs, NEW t \in Teams,
         NEW l \in Lists(Members \X Access),
         NEW c, c = [Call("set_levels", o) EXCEPT !.team = t, !.levels = l], c.op \in Ops
  PROVE  Calls(c)
<1>0. l \in Seq(Members \X Access) /\ l # <<>>
  BY ListsOf
<1>1. c.op = "set_levels"
  BY DEF Call, Blank
<1>2. "set_levels" \in Ops
  BY <1>1
<1>3. PICK b : b = Call("set_levels", o)
  OBVIOUS
<1>4. /\ b \in Local /\ b.tenant = o /\ b.loose = FALSE /\ b.found = Null /\ b.role = Null
  BY <1>2, <1>3, CallBlank
<1>5. c = [b EXCEPT !.team = t, !.levels = l]
  BY <1>3
<1>6. c \in Local /\ c.tenant = o /\ c.loose = FALSE /\ c.found = Null /\ c.team = t
      /\ c.levels # <<>>
  BY <1>0, <1>4, <1>5 DEF Local
<1>7. AsksFor(c)
  BY <1>1, <1>2, <1>6 DEF AsksFor, OfMember
<1>10. c.op \notin {"create_role", "update_role"}
  BY <1>1
<1> QED
  BY <1>6, <1>7, <1>10 DEF Calls

\* A call to create a role.
LEMMA CallNewRole ==
  ASSUME NEW o \in Orgs, NEW n \in Names, NEW g \in Lists(Perms \X Flags),
         NEW c, c = [Call("create_role", o) EXCEPT !.name = n, !.grants = g], c.op \in Ops
  PROVE  Calls(c)
<1>0. g \in Seq(Perms \X Flags)
  BY ListsOf
<1>1. c.op = "create_role"
  BY DEF Call, Blank
<1>2. "create_role" \in Ops
  BY <1>1
<1>3. PICK b : b = Call("create_role", o)
  OBVIOUS
<1>4. /\ b \in Local /\ b.tenant = o /\ b.loose = FALSE /\ b.found = Null /\ b.role = Null
  BY <1>2, <1>3, CallBlank
<1>5. c = [b EXCEPT !.name = n, !.grants = g]
  BY <1>3
<1>6. c \in Local /\ c.tenant = o /\ c.loose = FALSE /\ c.found = Null /\ c.name = n
      /\ c.grants = g /\ c.role = Null
  BY <1>0, <1>4, <1>5 DEF Local
<1>7. AsksFor(c)
  BY <1>1, <1>2, <1>6 DEF AsksFor, OfMember
<1>9. c.listed = {}
  <2>1. b.listed = {}
    BY ONLY <1>3, CallUnlisted
  <2> QED
    BY ONLY <1>4, <1>5, <2>1 DEF Local
<1>11. c.op # "set_levels"
  BY <1>1
<1> QED
  BY ONLY <1>1, <1>6, <1>7, <1>9, <1>11 DEF Calls

\* A call to edit a role.
LEMMA CallOldRole ==
  ASSUME NEW o \in Orgs, NEW r \in Roles, NEW n \in Names, NEW g \in Lists(Perms \X Flags),
         NEW c, c.op \in Ops,
         c = [Call("update_role", o) EXCEPT !.role = r, !.name = n, !.grants = g]
  PROVE  Calls(c)
<1>0. g \in Seq(Perms \X Flags)
  BY ListsOf
<1>1. c.op = "update_role"
  BY DEF Call, Blank
<1>2. "update_role" \in Ops
  BY <1>1
<1>3. PICK b : b = Call("update_role", o)
  OBVIOUS
<1>4. /\ b \in Local /\ b.tenant = o /\ b.loose = FALSE /\ b.found = Null /\ b.role = Null
  BY <1>2, <1>3, CallBlank
<1>5. c = [b EXCEPT !.role = r, !.name = n, !.grants = g]
  BY <1>3
<1>6. c \in Local /\ c.tenant = o /\ c.loose = FALSE /\ c.found = Null /\ c.role = r
      /\ c.name = n /\ c.grants = g
  BY ZenonT(60), <1>0, <1>4, <1>5 DEF Local
<1>7. AsksFor(c)
  BY <1>1, <1>2, <1>6 DEF AsksFor, OfMember
<1>9. c.listed = {}
  <2>1. b.listed = {}
    BY ONLY <1>3, CallUnlisted
  <2> QED
    BY ONLY <1>4, <1>5, <2>1 DEF Local
<1>11. c.op # "set_levels"
  BY <1>1
<1> QED
  BY ONLY <1>1, <1>6, <1>7, <1>9, <1>11 DEF Calls

\* A call to delete a role.
LEMMA CallDropRole ==
  ASSUME NEW o \in Orgs, NEW r \in Roles,
         NEW c, c = [Call("delete_role", o) EXCEPT !.role = r], c.op \in Ops
  PROVE  Calls(c)
<1>1. c.op = "delete_role"
  BY DEF Call, Blank
<1>2. "delete_role" \in Ops
  BY <1>1
<1>3. PICK b : b = Call("delete_role", o)
  OBVIOUS
<1>4. /\ b \in Local /\ b.tenant = o /\ b.loose = FALSE /\ b.found = Null /\ b.role = Null
  BY <1>2, <1>3, CallBlank
<1>5. c = [b EXCEPT !.role = r]
  BY <1>3
<1>6. c \in Local /\ c.tenant = o /\ c.loose = FALSE /\ c.found = Null /\ c.role = r
  BY <1>4, <1>5 DEF Local
<1>7. AsksFor(c)
  BY <1>1, <1>2, <1>6 DEF AsksFor, OfMember
<1>10. c.op \notin {"create_role", "update_role", "set_levels"}
  BY <1>1
<1> QED
  BY <1>6, <1>7, <1>10 DEF Calls

\* All that a client may send.
LEMMA ClientAsks ==
  ASSUME NEW p \in Procs, Client(p)
  PROVE  \E c : Asking(p, c)
<1>1. PICK o \in Orgs : (\E m \in Members : CallMember(p, o, m)) \/ CallTeam(p, o)
                        \/ CallRole(p, o)
  BY DEF Client
<1>2. ASSUME NEW b, Receive(p, b)
      PROVE  b.op \in Ops
  <2>1. PICK r : r = Repeats(b)
    OBVIOUS
  <2>2. [b EXCEPT !.loose = r].op \in Ops
    BY <1>2, <2>1 DEF Receive
  <2> QED
    BY <2>2
<1>3. ASSUME NEW m \in Members, CallMember(p, o, m)
      PROVE  \E b : Calls(b) /\ Receive(p, b)
  <2>1. ASSUME NEW r \in Lists(Roles) \union {<<>>} PROVE r \in Seq(Roles)
    <3>1. CASE r \in Lists(Roles)
      BY <3>1, ListsOf
    <3>2. CASE r = <<>>
      BY <3>2
    <3> QED
      BY <3>1, <3>2
  <2>2. ASSUME NEW d \in Lists(Days) \union {<<>>} PROVE d \in Seq(Days)
    <3>1. CASE d \in Lists(Days)
      BY <3>1, ListsOf
    <3>2. CASE d = <<>>
      BY <3>2
    <3> QED
      BY <3>1, <3>2
  <2> QED
    BY <1>2, <1>3, <2>1, <2>2, CallUpdate, CallAssign, CallRemove, CallDelete DEF CallMember
<1>4. CASE CallTeam(p, o)
  <2>1. \E b : Calls(b) /\ Receive(p, b)
    BY <1>2, <1>4, CallNewTeam, CallOldTeam, CallLevels DEF CallTeam
  <2> QED
    BY <2>1, Received
<1>5. CASE CallRole(p, o)
  <2>1. \E b : Calls(b) /\ Receive(p, b)
    BY <1>2, <1>5, CallNewRole, CallOldRole, CallDropRole DEF CallRole
  <2> QED
    BY <2>1, Received
<1> QED
  BY <1>1, <1>3, <1>4, <1>5, Received

-----------------------------------------------------------------------------
(* Every step.                                                             *)

\* Members, shifts, levels and teams.
LEMMA StaffKeeps ==
  ASSUME SInv, NEW p \in Procs, StaffStep(p), UNCHANGED catalogue
  PROVE  SInv'
<1>1. CASE FindMember(p) BY <1>1, FindMemberKeeps
<1>2. CASE LoadMember(p) BY <1>2, LoadMemberKeeps
<1>3. CASE UpdateMember(p) BY <1>3, UpdateMemberKeeps
<1>4. CASE DeletePart(p) BY <1>4, DeletePartKeeps
<1>5. CASE CreatePart(p) BY <1>5, CreatePartKeeps
<1>6. CASE FindRole(p) BY <1>6, FindRoleKeeps
<1>7. CASE AssignRole(p) BY <1>7, AssignRoleKeeps
<1>8. CASE DeleteMember(p) BY <1>8, DeleteMemberKeeps
<1>9. CASE FindLead(p) BY <1>9, FindLeadKeeps
<1>10. CASE FindLevel(p) BY <1>10, FindLevelKeeps
<1>11. CASE WriteLevel(p) BY <1>11, WriteLevelKeeps
<1>12. CASE DeleteLevel(p) BY <1>12, DeleteLevelKeeps
<1>13. CASE FindTeam(p) BY <1>13, FindTeamKeeps
<1>14. CASE CreateTeam(p) BY <1>14, CreateTeamKeeps
<1>15. CASE DeleteTeam(p) BY <1>15, DeleteTeamKeeps
<1> QED
  BY <1>1, <1>2, <1>3, <1>4, <1>5, <1>6, <1>7, <1>8, <1>9, <1>10, <1>11, <1>12, <1>13,
     <1>14, <1>15 DEF StaffStep

\* Roles and grants.
LEMMA CatalogueKeeps ==
  ASSUME SInv, NEW p \in Procs, CatalogueStep(p), UNCHANGED staffVars
  PROVE  SInv'
<1>1. CASE LoadRole(p) BY <1>1, LoadRoleKeeps
<1>2. CASE FindName(p) BY <1>2, FindNameKeeps
<1>3. CASE CreateRole(p) BY <1>3, CreateRoleKeeps
<1>4. CASE RenameRole(p) BY <1>4, RenameRoleKeeps
<1>5. CASE FindGrant(p) BY <1>5, FindGrantKeeps
<1>6. CASE WriteGrant(p) BY <1>6, WriteGrantKeeps
<1>7. CASE ListGrants(p) BY <1>7, ListGrantsKeeps
<1>8. CASE DeleteRole(p) BY <1>8, DeleteRoleKeeps
<1> QED
  BY <1>1, <1>2, <1>3, <1>4, <1>5, <1>6, <1>7, <1>8 DEF CatalogueStep

\* Requests that come, and those that are cut short.
LEMMA OutsideKeeps ==
  ASSUME SInv, NEW p \in Procs, Client(p) \/ Fail(p)
  PROVE  SInv'
<1>1. CASE Client(p)
  <2>1. PICK c : Asking(p, c)
    BY <1>1, ClientAsks
  <2> QED
    BY <2>1, Comes DEF Asking
<1>2. CASE Fail(p)
  <2>1. faults' \in Nat /\ Stop(p)
    BY <1>2, TypeParts DEF SInv, RunType, Fail
  <2> QED
    BY <2>1, Stops
<1> QED
  BY <1>1, <1>2

\* Requests are not there at first, nor are levels.
LEMMA SInvInit ==
  ASSUME Init
  PROVE  SInv
<1>1. TypeOK
  <2>1. \A r \in Roles : role[r] \in Role \union {Absent}
    BY DEF Init, Role
  <2>2. role \in [Roles -> Role \union {Absent}]
    BY <2>1 DEF Init
  <2>3. <<>> \in Seq(Todo)
    OBVIOUS
  <2>4. issued \in 0 .. MaxParts /\ requests \in Nat /\ faults \in Nat
    BY StaffAssumption DEF Init
  <2> QED
    BY <2>2, <2>3, <2>4, BlankLocal DEF Init, TypeOK
<1>2. \A p \in Procs : ~Running(p)
  BY DEF Init, Running
<1>3. DbOK
  BY DEF Init, DbOK, SameTenant, Granted
<1> QED
  BY <1>1, <1>2, <1>3 DEF SInv, Planned, Holds

\* No step breaks what requests know.
LEMMA SInvStep ==
  ASSUME SInv, [Next]_vars
  PROVE  SInv'
<1>1. CASE Next
  <2>1. PICK p \in Procs : Client(p) \/ Step(p) \/ Fail(p)
    BY <1>1 DEF Next
  <2> QED
    BY <2>1, StaffKeeps, CatalogueKeeps, OutsideKeeps DEF Step
<1>2. CASE UNCHANGED vars
  <2>1. UNCHANGED <<member, part, level, team, role, grant, issued, todo, local, twins,
                   requests, faults>>
    BY <1>2 DEF vars, dbVars, staffVars, catalogue
  <2>2. TypeOK'
    BY <2>1 DEF SInv, TypeOK
  <2>3. DbOK'
    BY <2>1 DEF SInv, DbOK, SameTenant, Granted
  <2>4. \A p \in Procs : Planned(p)'
    BY <2>1 DEF SInv, Planned, Running
  <2>5. \A p \in Procs : Holds(p)'
    BY <2>1 DEF SInv, Holds, Running, Looked, Found, Belongs
  <2> QED
    BY <2>2, <2>3, <2>4, <2>5 DEF SInv
<1> QED
  BY <1>1, <1>2

\* Rows, scripts and requests are always of their types.
THEOREM TypeCorrect == Spec => []TypeOK
<1>1. Init => SInv
  BY SInvInit
<1>2. SInv /\ [Next]_vars => SInv'
  BY SInvStep
<1>3. SInv => TypeOK
  BY DEF SInv
<1> QED
  BY <1>1, <1>2, <1>3, PTL DEF Spec

\* No interleaving of requests, failures and restarts gives a member a level
\* in another organization.
THEOREM TenantSafe == Spec => []SameTenant
<1>1. Init => SInv
  BY SInvInit
<1>2. SInv /\ [Next]_vars => SInv'
  BY SInvStep
<1>3. SInv => SameTenant
  BY DEF SInv, DbOK
<1> QED
  BY <1>1, <1>2, <1>3, PTL DEF Spec

-----------------------------------------------------------------------------
(* What a request has looked up stays so, unless another one writes.       *)

\* Nothing is fresh of a request that has ended or is loose.
LEMMA FreshVoid ==
  ASSUME NEW p \in Procs, todo'[p] = <<>> \/ local'[p].loose = TRUE
  PROVE  Fresh(p)'
  BY DEF Fresh, Running

\* A request keeps what it has looked up while nobody writes.
LEMMA FreshSame ==
  ASSUME NEW p \in Procs, Fresh(p), todo'[p] = todo[p], local'[p] = local[p],
         UNCHANGED <<dbVars, twins>>
  PROVE  Fresh(p)'
<1> DEFINE c == local[p]
           t == todo[p]
<1>1. UNCHANGED <<member, part, level, team, role, grant, twins>>
  BY DEF dbVars, staffVars, catalogue
<1>2. local'[p] = local[p] /\ todo'[p] = todo[p]
  OBVIOUS
<1>3. Running(p)' <=> Running(p)
  BY <1>2 DEF Running
<1>4. Cover(c.member, t)' <=> Cover(c.member, t)
  BY <1>1, <1>2 DEF Cover
<1>5. Ungranted(c, t)' <=> Ungranted(c, t)
  BY <1>1, <1>2 DEF Ungranted
<1>6. ASSUME NEW m PROVE LevelsOf(m, c.team, c.tenant)' = LevelsOf(m, c.team, c.tenant)
  BY <1>1, <1>2 DEF LevelsOf, Live
<1>7. ASSUME NEW m
      PROVE  NoRival(m, c.team, c.tenant)' <=> NoRival(m, c.team, c.tenant)
  <2>1. LeadsOf(c.team, c.tenant)' = LeadsOf(c.team, c.tenant)
    BY <1>1, <1>2 DEF LeadsOf, Live
  <2>2. Contended(c.team, c.tenant)' <=> Contended(c.team, c.tenant)
    BY <1>1, <1>2 DEF Contended
  <2> QED
    BY <1>1, <1>2, <2>1, <2>2 DEF NoRival
<1>8. \A x : (Live(team, x)' <=> Live(team, x)) /\ (Live(role, x)' <=> Live(role, x))
  BY <1>1 DEF Live
<1>9. ASSUME Fits(c, t) PROVE Fits(c, t)'
  BY <1>1, <1>2, <1>6, <1>7, <1>8, <1>9 DEF Fits, RoleOf
<1> QED
  BY <1>2, <1>3, <1>4, <1>5, <1>9 DEF Fresh

\* The invariant from the part of it about the request that takes a step.
LEMMA Gather ==
  ASSUME IInv, SInv', NoTwins', NEW p \in Procs, Fresh(p)',
         Overtaken(p) \/ (Others(p) /\ UNCHANGED <<dbVars, twins>>)
  PROVE  IInv'
<1>1. ASSUME NEW q \in Procs, q # p
      PROVE  Fresh(q)'
  <2>1. CASE Overtaken(p)
    <3>1. todo'[q] = todo[q] /\ local'[q].loose = Running(q)
      BY <1>1, <2>1 DEF Overtaken
    <3>2. CASE Running(q)
      <4>1. local'[q].loose = TRUE
        BY <3>1, <3>2 DEF Running
      <4> QED
        BY <4>1, FreshVoid
    <3>3. CASE ~Running(q)
      BY <3>1, <3>3, FreshVoid DEF Running
    <3> QED
      BY <3>2, <3>3
  <2>2. CASE Others(p) /\ UNCHANGED <<dbVars, twins>>
    <3>1. todo'[q] = todo[q] /\ local'[q] = local[q] /\ Fresh(q)
      BY <1>1, <2>2 DEF Others, IInv
    <3> QED
      BY <2>2, <3>1, FreshSame
  <2> QED
    BY <2>1, <2>2
<1> QED
  BY <1>1 DEF IInv

\* No row is written.
LEMMA TwinsSame ==
  ASSUME NoTwins, UNCHANGED <<dbVars, twins>>
  PROVE  NoTwins'
  BY DEF NoTwins, OnePart, OneTeam, OneLevel, OneRole, OneGrant, Excused, Contended, Live,
         dbVars, staffVars, catalogue

\* A request that ends.
LEMMA FreshStops ==
  ASSUME IInv, SInv', NEW p \in Procs, Stop(p)
  PROVE  IInv'
<1>1. RunType /\ faults' \in Nat /\ NoTwins
  BY TypeParts DEF IInv, SInv, TypeOK
<1>2. Others(p) /\ todo'[p] = <<>> /\ UNCHANGED <<dbVars, twins>>
  BY <1>1, StopRuns
<1>3. Fresh(p)'
  BY <1>2, FreshVoid
<1> QED
  BY <1>1, <1>2, <1>3, TwinsSame, Gather

\* A request that reads.
LEMMA FreshReads ==
  ASSUME IInv, SInv', NEW p \in Procs, Running(p), NEW l \in Local, Read(p, l),
         /\ todo'[p] = Tail(todo[p]) /\ todo'[p] # <<>> /\ local'[p] = l
         /\ UNCHANGED <<dbVars, twins>>
         => Fresh(p)'
  PROVE  IInv'
<1>1. RunType /\ NoTwins
  BY TypeParts DEF IInv, SInv
<1>2. /\ Others(p) /\ todo'[p] = Tail(todo[p])
      /\ todo'[p] # <<>> => local'[p] = l
      /\ UNCHANGED <<dbVars, twins>>
  BY <1>1, ReadRuns
<1>3. Fresh(p)'
  BY <1>2, FreshVoid
<1> QED
  BY <1>1, <1>2, <1>3, TwinsSame, Gather

\* A request that reads and knows what comes next.
LEMMA FreshExpands ==
  ASSUME IInv, SInv', NEW p \in Procs, Running(p), NEW l \in Local, NEW u \in Seq(Todo),
         Expand(p, u, l),
         /\ todo'[p] = u \o Tail(todo[p]) /\ local'[p] = l
         /\ UNCHANGED <<dbVars, twins>>
         => Fresh(p)'
  PROVE  IInv'
<1>1. RunType /\ NoTwins
  BY TypeParts DEF IInv, SInv
<1>2. /\ Others(p) /\ todo'[p] = u \o Tail(todo[p]) /\ local'[p] = l
      /\ UNCHANGED <<dbVars, twins>>
  BY <1>1, ExpandRuns
<1> QED
  BY <1>1, <1>2, TwinsSame, Gather

\* A request that writes.
LEMMA FreshCommits ==
  ASSUME IInv, SInv', NEW p \in Procs, Running(p), NEW l \in Local,
         NEW rows \in SUBSET Rows, Commit(p, l, rows),
         /\ twins \subseteq twins' /\ (local[p].loose = TRUE => rows \subseteq twins')
         => NoTwins',
         /\ todo'[p] = Tail(todo[p]) /\ todo'[p] # <<>> /\ local'[p] = l
         => Fresh(p)'
  PROVE  IInv'
<1>1. RunType
  BY TypeParts DEF IInv, SInv
<1>2. /\ Overtaken(p) /\ todo'[p] = Tail(todo[p])
      /\ todo'[p] # <<>> => local'[p] = l
      /\ twins \subseteq twins'
      /\ local[p].loose = TRUE => rows \subseteq twins'
  BY <1>1, CommitRuns
<1>3. Fresh(p)'
  BY <1>2, FreshVoid
<1> QED
  BY <1>2, <1>3, Gather

\* The next step of a request to update a member gives nothing that the member
\* has by then and keeps.
LEMMA CoverRest ==
  ASSUME SInv, NEW p \in Procs, Running(p), todo'[p] = Tail(todo[p]), todo'[p] # <<>>,
         local[p].loose # TRUE, local'[p].member = local[p].member,
         Cover(local[p].member, todo[p]),
         \A x \in Parts : part'[x] # Absent /\ part'[x].member = local[p].member =>
           \/ /\ part'[x] = part[x]
              /\ ~(Head(todo[p]).do = "delete_part" /\ Head(todo[p]).on = x)
           \/ Head(todo[p]).do = "create_part" /\ part'[x].of = Head(todo[p]).on
  PROVE  Cover(local[p].member, todo[p])'
<1> DEFINE t == todo[p]
           v == todo'[p]
<1>1. /\ t \in Seq(Todo) /\ Head(t) = t[1] /\ Len(t) \in Nat /\ Shape(local[p], t)
  BY FirstStep
<1>2. /\ Len(t) >= 2 /\ Len(v) = Len(t) - 1
      /\ \A k \in 1 .. Len(t) - 1 : v[k] = t[k + 1]
  BY NextStep
<1> SUFFICES ASSUME NEW k \in 1 .. Len(v), v[k].do = "create_part",
                    NEW x \in Parts, part'[x] # Absent, part'[x].member = local'[p].member,
                    part'[x].of = v[k].on
             PROVE  \E j \in 1 .. k - 1 : v[j].do = "delete_part" /\ v[j].on = x
  BY DEF Cover
<1>3. k + 1 \in 1 .. Len(t) /\ v[k] = t[k + 1] /\ 1 \in 1 .. Len(t) /\ k + 1 # 1
  BY <1>1, <1>2
<1>4. part'[x] = part[x] /\ ~(t[1].do = "delete_part" /\ t[1].on = x)
  <2>1. t[1].do = "create_part" => t[1].on # t[k + 1].on
    BY <1>1, <1>3 DEF Shape, Unlike
  <2> QED
    BY <1>1, <1>3, <2>1
<1>5. PICK j \in 1 .. (k + 1) - 1 : t[j].do = "delete_part" /\ t[j].on = x
  BY <1>3, <1>4 DEF Cover
<1>6. j # 1
  BY <1>4, <1>5
<1>7. j - 1 \in 1 .. k - 1 /\ v[j - 1] = t[(j - 1) + 1] /\ (j - 1) + 1 = j
  BY <1>1, <1>2, <1>3, <1>5, <1>6
<1> QED
  BY <1>5, <1>7

\* The next step of a new role grants what was not granted and is not now.
LEMMA UngrantedRest ==
  ASSUME SInv, NEW p \in Procs, Running(p), todo'[p] = Tail(todo[p]), todo'[p] # <<>>,
         local[p].loose # TRUE, Ungranted(local[p], todo[p]), local[p].found = Null,
         local'[p].role = local[p].role,
         \A g \in Grants : grant'[g] # Absent /\ grant'[g].role = local[p].role =>
           \/ grant'[g] = grant[g]
           \/ Head(todo[p]).do = "write_grant" /\ grant'[g].perm = Head(todo[p]).on
  PROVE  Ungranted(local[p], todo[p])'
<1> DEFINE t == todo[p]
           v == todo'[p]
<1>1. /\ t \in Seq(Todo) /\ Head(t) = t[1] /\ Len(t) \in Nat /\ Shape(local[p], t)
  BY FirstStep
<1>2. /\ Len(t) >= 2 /\ Len(v) = Len(t) - 1
      /\ \A k \in 1 .. Len(t) - 1 : v[k] = t[k + 1]
  BY NextStep
<1> SUFFICES ASSUME NEW k \in 1 .. Len(v), v[k].do = "write_grant",
                    NEW g \in Grants, grant'[g] # Absent, grant'[g].role = local'[p].role
             PROVE  grant'[g].perm # v[k].on
  BY DEF Ungranted
<1>3. k + 1 \in 1 .. Len(t) /\ v[k] = t[k + 1] /\ 1 \in 1 .. Len(t) /\ k + 1 # 1
  BY <1>1, <1>2
<1>4. CASE grant'[g] = grant[g]
  BY <1>3, <1>4 DEF Ungranted
<1>5. CASE Head(t).do = "write_grant" /\ grant'[g].perm = Head(t).on
  <2>1. t[1].on # t[k + 1].on
    BY <1>1, <1>3, <1>5 DEF Shape, Unlike
  <2> QED
    BY <1>1, <1>3, <1>5, <2>1
<1> QED
  BY <1>4, <1>5

\* What is left of a request after a step.
LEMMA Left ==
  ASSUME SInv', NEW p \in Procs, Running(p)'
  PROVE  /\ Asks(local'[p]) /\ Shape(local'[p], todo'[p]) /\ todo'[p] \in Seq(Todo)
         /\ Head(todo'[p]) = todo'[p][1] /\ Len(todo'[p]) \in Nat /\ 1 \in 1 .. Len(todo'[p])
         /\ Fit(local'[p], Head(todo'[p]))
<1>1. Planned(p)' /\ todo' \in [Procs -> Seq(Todo)]
  BY DEF SInv, TypeOK
<1>2. todo'[p] \in Seq(Todo) /\ todo'[p] # <<>>
  BY <1>1 DEF Running
<1>3. Asks(local'[p]) /\ Shape(local'[p], todo'[p])
  BY <1>1 DEF Planned
<1>4. /\ Head(todo'[p]) = todo'[p][1] /\ Len(todo'[p]) \in Nat /\ Len(todo'[p]) >= 1
  BY <1>2, Rest
<1>5. 1 \in 1 .. Len(todo'[p])
  BY <1>4
<1> QED
  BY <1>2, <1>3, <1>4, <1>5 DEF Shape

\* A step that comes after no look-up.
LEMMA FitsVoid ==
  ASSUME SInv', NEW p \in Procs, Running(p)',
         Head(todo'[p]).do \notin {"assign_role", "create_team", "create_role", "rename_role",
                                   "write_level"},
         Head(todo'[p]).do = "find_level" => local'[p].op = "update_member",
         Head(todo'[p]).do = "find_name" => local'[p].op = "update_role"
  PROVE  Fits(local[p], todo[p])'
<1> DEFINE c == local'[p]
           t == todo'[p]
<1>1. /\ Shape(c, t) /\ Head(t) = t[1] /\ Len(t) \in Nat
  BY Left
<1>2. t[1].do = "find_level" /\ Len(t) >= 2 => t[2].access # "LEAD"
  <2> SUFFICES ASSUME t[1].do = "find_level", Len(t) >= 2
               PROVE  t[2].access # "LEAD"
    OBVIOUS
  <2>1. 1 \in 1 .. Len(t) - 1 /\ 2 \in 1 .. Len(t)
    BY <1>1
  <2>2. Then(t[1], t[1 + 1]) /\ Fit(c, t[2])
    BY <1>1, <2>1 DEF Shape
  <2>3. t[2].do = "write_level" /\ c.op = "update_member"
    BY <1>1, <2>2 DEF Then
  <2> QED
    BY <2>2, <2>3 DEF Fit
<1> QED
  BY <1>1, <1>2 DEF Fits

\* Only requests to update a member give parts step by step, and only those on
\* a role grant permissions.
LEMMA FreshFrom ==
  ASSUME SInv', NEW p \in Procs,
         Running(p)' /\ local'[p].loose # TRUE =>
           /\ Fits(local[p], todo[p])'
           /\ local'[p].op = "update_member" => Cover(local[p].member, todo[p])'
           /\ local'[p].op = "create_role" \/ Head(todo'[p]).do = "write_grant"
              => Ungranted(local[p], todo[p])'
  PROVE  Fresh(p)'
<1> SUFFICES ASSUME Running(p)', local'[p].loose # TRUE
             PROVE  Fresh(p)'
  BY DEF Fresh
<1> DEFINE c == local'[p]
           t == todo'[p]
<1>1. Shape(c, t) /\ Head(t) = t[1] /\ Len(t) \in Nat
  BY Left
<1>2. Cover(local[p].member, todo[p])'
  <2>1. CASE c.op = "update_member"
    BY <2>1
  <2>2. CASE c.op # "update_member"
    <3>1. \A k \in 1 .. Len(t) : t[k].do # "create_part"
      BY <1>1, <2>2 DEF Shape, Fit
    <3> QED
      BY <3>1 DEF Cover
  <2> QED
    BY <2>1, <2>2
<1>3. Ungranted(local[p], todo[p])'
  <2>1. CASE c.op = "create_role" \/ t[1].do = "write_grant"
    BY <1>1, <2>1
  <2>2. CASE c.op # "create_role" /\ t[1].do # "write_grant"
    <3>1. \A k \in 1 .. Len(t) : t[k].do # "write_grant"
      BY <1>1, <2>2 DEF Shape
    <3> QED
      BY <3>1 DEF Ungranted
  <2> QED
    BY <2>1, <2>2
<1> QED
  BY <1>2, <1>3 DEF Fresh

\* A step that comes after no look-up, of a request that gives no parts and is
\* not about a new role.
LEMMA FreshQuiet ==
  ASSUME SInv', NEW p \in Procs,
         Running(p)' =>
           /\ Head(todo'[p]).do \notin {"assign_role", "create_team", "create_role",
                                        "rename_role", "write_level", "write_grant", "find_level"}
           /\ local'[p].op \notin {"update_member", "create_role"}
  PROVE  Fresh(p)'
<1>1. Running(p)' /\ Head(todo'[p]).do = "find_name" => local'[p].op = "update_role"
  BY Left DEF Fit
<1> QED
  BY <1>1, FitsVoid, FreshFrom

-----------------------------------------------------------------------------
(* Looking before writing.                                                 *)

\* A request and its first step, of which it knows what is fresh.
LEMMA FirstFresh ==
  ASSUME IInv, NEW p \in Procs, Running(p)
  PROVE  /\ SInv /\ NoTwins /\ local[p] \in Local /\ todo[p] \in Seq(Todo)
         /\ Head(todo[p]) = todo[p][1] /\ 1 \in 1 .. Len(todo[p]) /\ Head(todo[p]) \in Todo
         /\ Asks(local[p]) /\ Fit(local[p], Head(todo[p])) /\ Found(local[p], Head(todo[p]))
         /\ local[p].loose # TRUE =>
              /\ Fits(local[p], todo[p])
              /\ Cover(local[p].member, todo[p])
              /\ Ungranted(local[p], todo[p])
<1>1. SInv /\ NoTwins /\ Fresh(p)
  BY DEF IInv
<1>2. local[p] \in Local
  BY <1>1, FirstStep
<1>3. local[p].loose # TRUE => ~local[p].loose
  BY <1>2 DEF Local
<1> QED
  BY <1>1, <1>3, FirstStep DEF Fresh

\* The members of requests to set levels have the levels that others leave.
LEMMA FindMemberFresh ==
  ASSUME IInv, SInv', NEW p \in Procs, FindMember(p)
  PROVE  IInv'
<1> DEFINE c == local[p]
           s == Head(todo[p])
           m == s.on
           found == /\ Owned(m, c.tenant)
                    /\ c.op = "remove_level" => member[m].team = c.team
<1>1. /\ Running(p) /\ s.do = "find_member"
      /\ \/ found /\ c.op # "set_levels" /\ Read(p, c)
         \/ found /\ c.op = "set_levels" /\ Expand(p, SetLevel(m, s.access), c)
         \/ ~found /\ Refuse(p)
  BY DEF FindMember, At
<1>2. SInv /\ c \in Local /\ Fit(c, s)
  BY <1>1, FirstFresh
<1>3. c.op \notin {"update_member", "create_role"}
  BY <1>1, <1>2 DEF Fit
<1>4. CASE c.op # "set_levels" /\ Read(p, c)
  <2> SUFFICES ASSUME todo'[p] = Tail(todo[p]), todo'[p] # <<>>, local'[p] = c
               PROVE  Fresh(p)'
    BY <1>1, <1>2, <1>4, FreshReads
  <2>1. Head(todo'[p]) = todo[p][2] /\ Then(s, todo[p][2])
    BY <1>1, <1>2, NextStep
  <2>2. Head(todo'[p]).do \in {"find_role", "delete_level", "delete_member", "find_member"}
    BY <1>1, <2>1 DEF Then
  <2> QED
    BY <1>3, <2>2, FreshQuiet
<1>5. CASE c.op = "set_levels" /\ Expand(p, SetLevel(m, s.access), c)
  <2> DEFINE u == SetLevel(m, s.access)
  <2>1. m \in Members /\ s.access \in Access
    BY <1>1, <1>2, <1>5 DEF Fit, OnMember
  <2>2. /\ u \in Seq(Todo) /\ Len(u) \in 2 .. 3
        /\ u[1].do = "find_level" => Len(u) = 2 /\ u[2].access = "MEMBER"
        /\ u[1].do \in {"find_lead", "find_level"}
    BY <1>5, <2>1, SetLevelScript
  <2>3. Expand(p, u, c)
    BY <1>5
  <2> HIDE DEF u
  <2>4. Tail(todo[p]) \in Seq(Todo)
    BY <1>1, <1>2, FirstStep, Rest
  <2>5. /\ (u \o Tail(todo[p]))[1] = u[1] /\ (u \o Tail(todo[p]))[2] = u[2]
    <3>1. 1 \in 1 .. Len(u) /\ 2 \in 1 .. Len(u)
      BY SMTT(40), <2>2
    <3> QED
      BY <2>2, <2>4, <3>1, Joined
  <2>6. ASSUME todo'[p] = u \o Tail(todo[p]), local'[p] = c
        PROVE  Fresh(p)'
    <3>1. ASSUME Running(p)'
          PROVE  Fits(local[p], todo[p])' /\ Head(todo'[p]).do # "write_grant"
      <4>1. Head(todo'[p]) = u[1] /\ todo'[p][2] = u[2]
        BY <2>5, <2>6, <3>1, Left
      <4> QED
        BY <2>2, <4>1 DEF Fits
    <3> QED
      BY <1>3, <2>6, <3>1, FreshFrom
  <2> QED
    BY <1>1, <1>2, <2>2, <2>3, <2>6, FreshExpands
<1>6. CASE Refuse(p)
  BY <1>6, FreshStops DEF Refuse
<1> QED
  BY <1>1, <1>4, <1>5, <1>6

\* What update_member gives is covered by what it deletes first.
LEMMA LoadMemberFresh ==
  ASSUME IInv, SInv', NEW p \in Procs, LoadMember(p)
  PROVE  IInv'
<1> DEFINE c == local[p]
           s == Head(todo[p])
<1>1. /\ Running(p) /\ s.do = "load_member"
      /\ Expand(p, Rewrite(c), c) \/ Refuse(p)
  BY DEF LoadMember, At
<1>2. SInv /\ c \in Local /\ Fit(c, s) /\ Asks(c) /\ TypeOK
  BY <1>1, FirstFresh DEF SInv
<1>3. c.op = "update_member"
  BY <1>1, <1>2 DEF Fit
<1>4. CASE Expand(p, Rewrite(c), c)
  <2> DEFINE u == Rewrite(c)
  <2>1. /\ u \in Seq(Todo) /\ Len(u) >= 3 /\ Cover(c.member, u)
        /\ u[1].do = "update_member"
    BY <1>2, <1>3, RewriteScript
  <2>2. Expand(p, u, c)
    BY <1>4
  <2>3. Tail(todo[p]) = <<>>
    BY <1>1, <1>2, LastStep
  <2> HIDE DEF u
  <2>4. u \o <<>> = u
    BY <2>1, ConcatEmptySeq
  <2>5. ASSUME todo'[p] = u \o Tail(todo[p]), local'[p] = c, UNCHANGED <<dbVars, twins>>
        PROVE  Fresh(p)'
    <3>1. todo'[p] = u /\ part' = part
      BY <2>3, <2>4, <2>5 DEF dbVars, staffVars
    <3>2. Cover(local[p].member, todo[p])'
      BY <2>1, <2>5, <3>1 DEF Cover
    <3>3. ASSUME Running(p)'
          PROVE  Fits(local[p], todo[p])' /\ Head(todo'[p]).do # "write_grant"
      <4>1. Head(todo'[p]) = u[1]
        BY <3>1, <3>3, Left
      <4> QED
        BY <2>1, <3>3, <4>1, FitsVoid
    <3> QED
      BY <1>3, <2>5, <3>2, <3>3, FreshFrom
  <2> QED
    BY <1>1, <1>2, <2>1, <2>2, <2>5, FreshExpands
<1>5. CASE Refuse(p)
  BY <1>5, FreshStops DEF Refuse
<1> QED
  BY <1>1, <1>4, <1>5

\* A role is only assigned to a member without it.
LEMMA FindRoleFresh ==
  ASSUME IInv, SInv', NEW p \in Procs, FindRole(p)
  PROVE  IInv'
<1> DEFINE c == local[p]
           s == Head(todo[p])
           found == \E x \in PartsOf(c.member, Roles) : part[x].of = RoleOf(c)
<1>1. /\ Running(p) /\ s.do = "find_role"
      /\ \/ c.op = "assign_role" /\ ~found /\ Read(p, c)
         \/ Refuse(p)
  BY DEF FindRole, At
<1>2. SInv /\ c \in Local /\ Asks(c) /\ todo[p] \in Seq(Todo)
  BY <1>1, FirstFresh
<1>3. CASE c.op = "assign_role" /\ ~found /\ Read(p, c)
  <2> SUFFICES ASSUME todo'[p] = Tail(todo[p]), todo'[p] # <<>>, local'[p] = c,
                      UNCHANGED <<dbVars, twins>>
               PROVE  Fresh(p)'
    BY <1>1, <1>2, <1>3, FreshReads
  <2>1. Head(todo'[p]) = todo[p][2] /\ Then(s, todo[p][2])
    BY <1>1, <1>2, NextStep
  <2>2. Head(todo'[p]).do = "assign_role"
    BY <1>1, <2>1 DEF Then
  <2>3. RoleOf(c) \in Roles
    BY <1>2, <1>3, RoleNamed
  <2>4. \A x \in Parts : part'[x] # Absent /\ part'[x].member = c.member =>
          part'[x].of # RoleOf(c)
    <3>1. part' = part
      BY DEF dbVars, staffVars
    <3> QED
      BY <1>3, <2>3, <3>1 DEF PartsOf
  <2>5. RoleOf(local[p])' = RoleOf(c)
    BY DEF RoleOf
  <2>6. Fits(local[p], todo[p])'
    BY <2>2, <2>4, <2>5 DEF Fits
  <2> QED
    BY <1>3, <2>2, <2>6, FreshFrom
<1>4. CASE Refuse(p)
  BY <1>4, FreshStops DEF Refuse
<1> QED
  BY <1>1, <1>3, <1>4

\* A member becomes the lead of a team without one, or that it leads.
LEMMA FindLeadFresh ==
  ASSUME IInv, SInv', NEW p \in Procs, FindLead(p)
  PROVE  IInv'
<1> DEFINE c == local[p]
           s == Head(todo[p])
           leads == LeadsOf(c.team, c.tenant)
<1>1. /\ Running(p) /\ s.do = "find_lead"
      /\ \/ leads = {} \/ \E a \in leads : level[a].member = s.on
         \/ Refuse(p)
      /\ Read(p, c) \/ Refuse(p)
  BY DEF FindLead, At
<1>2. SInv /\ NoTwins /\ c \in Local /\ Fit(c, s)
  BY <1>1, FirstFresh
<1>3. CASE (leads = {} \/ \E a \in leads : level[a].member = s.on) /\ Read(p, c)
  <2> SUFFICES ASSUME todo'[p] = Tail(todo[p]), todo'[p] # <<>>, local'[p] = c,
                      UNCHANGED <<dbVars, twins>>
               PROVE  Fresh(p)'
    BY <1>1, <1>2, <1>3, FreshReads
  <2>1. Head(todo'[p]) = todo[p][2] /\ Then(s, todo[p][2])
    BY <1>1, <1>2, NextStep
  <2>2. Head(todo'[p]).do = "find_level" /\ Head(todo'[p]).on = s.on
    BY <1>1, <2>1 DEF Then
  <2>3. NoRival(s.on, c.team, c.tenant)
    <3>1. ASSUME NEW a \in leads, level[a].member = s.on, NEW b \in leads, b # a
          PROVE  Contended(c.team, c.tenant)
      <4>1. /\ a \in Levels /\ b \in Levels /\ Live(level, a) /\ Live(level, b)
            /\ level[a].team = c.team /\ level[b].team = c.team
            /\ level[a].org = c.tenant /\ level[b].org = c.tenant
            /\ level[a].access = "LEAD" /\ level[b].access = "LEAD"
        BY <3>1 DEF LeadsOf
      <4> QED
        BY <1>2, <3>1, <4>1 DEF NoTwins, OneLevel
    <3> QED
      BY <1>3, <3>1 DEF NoRival
  <2>4. Fits(local[p], todo[p])'
    <3>1. level' = level /\ twins' = twins
      BY DEF dbVars, staffVars
    <3>2. LeadsOf(local[p].team, local[p].tenant)' = leads
      BY <3>1 DEF LeadsOf, Live
    <3>3. Contended(local[p].team, local[p].tenant)' <=> Contended(c.team, c.tenant)
      BY <3>1 DEF Contended
    <3>4. Contended(c.team, c.tenant) \/ \A a \in leads : level'[a].member = s.on
      BY <2>3, <3>1 DEF NoRival
    <3> HIDE DEF leads
    <3> QED
      BY <2>2, <3>2, <3>3, <3>4 DEF Fits, NoRival
  <2> QED
    BY <1>1, <1>2, <2>2, <2>4, FreshFrom DEF Fit
<1>4. CASE Refuse(p)
  BY <1>4, FreshStops DEF Refuse
<1> QED
  BY <1>1, <1>3, <1>4

\* A level is made for a member without one, and nobody becomes a lead between.
LEMMA FindLevelFresh ==
  ASSUME IInv, SInv', NEW p \in Procs, FindLevel(p)
  PROVE  IInv'
<1> DEFINE c == local[p]
           s == Head(todo[p])
           rows == LevelsOf(s.on, c.team, c.tenant)
<1>1. Running(p) /\ s.do = "find_level"
  BY DEF FindLevel, At
<1>2. PICK a \in IF rows = {} THEN {Null} ELSE rows : Read(p, [c EXCEPT !.found = a])
  BY DEF FindLevel
<1>3. PICK l : l = [c EXCEPT !.found = a]
  OBVIOUS
<1>4. Read(p, l)
  BY <1>2, <1>3
<1>5. /\ SInv /\ c \in Local /\ Fit(c, s) /\ todo[p] \in Seq(Todo)
      /\ c.loose # TRUE => Fits(c, todo[p]) /\ Cover(c.member, todo[p])
  BY <1>1, FirstFresh
<1>6. a \in Levels \union {Null} /\ (a = Null => rows = {})
  <2>1. rows \subseteq Levels
    BY DEF LevelsOf
  <2>2. Null \notin Levels
    BY StaffAssumption
  <2> QED
    BY <1>2, <2>1, <2>2
<1>7. /\ l \in Local /\ l.found = a /\ l.team = c.team /\ l.tenant = c.tenant /\ l.op = c.op
      /\ l.loose = c.loose /\ l.member = c.member
  BY <1>3, <1>5, <1>6 DEF Local
<1> SUFFICES ASSUME todo'[p] = Tail(todo[p]), todo'[p] # <<>>, local'[p] = l,
                    UNCHANGED <<dbVars, twins>>
             PROVE  Fresh(p)'
  BY <1>1, <1>4, <1>7, FreshReads
<1>8. Head(todo'[p]) = todo[p][2] /\ Then(s, todo[p][2]) /\ Len(todo[p]) >= 2
  BY <1>1, <1>5, NextStep
<1>9. Head(todo'[p]).do = "write_level" /\ Head(todo'[p]).on = s.on
  BY <1>1, <1>8 DEF Then
<1>10. c.op \in {"update_member", "set_levels"}
  BY <1>1, <1>5 DEF Fit
<1>11. level' = level /\ twins' = twins /\ part' = part
  BY DEF dbVars, staffVars
<1>12. c.loose # TRUE => Fits(local[p], todo[p])'
  <2> SUFFICES ASSUME c.loose # TRUE PROVE Fits(local[p], todo[p])'
    OBVIOUS
  <2>1. LeadsOf(local[p].team, local[p].tenant)' = LeadsOf(c.team, c.tenant)
    BY <1>7, <1>11 DEF LeadsOf, Live
  <2>2. Contended(local[p].team, local[p].tenant)' <=> Contended(c.team, c.tenant)
    BY <1>7, <1>11 DEF Contended
  <2>3. Head(todo'[p]).access = "LEAD" => NoRival(s.on, c.team, c.tenant)
    BY <1>1, <1>5, <1>8 DEF Fits
  <2>4. Head(todo'[p]).access = "LEAD" =>
          Contended(c.team, c.tenant)
          \/ \A b \in LeadsOf(c.team, c.tenant) : level'[b].member = s.on
    BY <1>11, <2>3 DEF NoRival
  <2>5. LevelsOf(Head(todo[p]).on, local[p].team, local[p].tenant)' = rows
    BY <1>7, <1>9, <1>11 DEF LevelsOf, Live
  <2> HIDE DEF rows
  <2> QED
    BY <1>6, <1>7, <1>9, <2>1, <2>2, <2>4, <2>5 DEF Fits, NoRival
<1>13. c.op = "update_member" /\ c.loose # TRUE => Cover(local[p].member, todo[p])'
  BY <1>1, <1>5, <1>7, <1>11, CoverRest
<1> QED
  BY <1>7, <1>9, <1>10, <1>12, <1>13, FreshFrom

\* A team is created under a name that no other has.
LEMMA FindTeamFresh ==
  ASSUME IInv, SInv', NEW p \in Procs, FindTeam(p)
  PROVE  IInv'
<1> DEFINE c == local[p]
           s == Head(todo[p])
           found == \E t \in Teams : /\ Live(team, t)
                                     /\ team[t].org = c.tenant /\ team[t].name = c.name
<1>1. /\ Running(p) /\ s.do = "find_team"
      /\ \/ ~found /\ Read(p, c)
         \/ Refuse(p)
  BY DEF FindTeam, At
<1>2. SInv /\ c \in Local /\ Fit(c, s)
  BY <1>1, FirstFresh
<1>3. CASE ~found /\ Read(p, c)
  <2> SUFFICES ASSUME todo'[p] = Tail(todo[p]), todo'[p] # <<>>, local'[p] = c,
                      UNCHANGED <<dbVars, twins>>
               PROVE  Fresh(p)'
    BY <1>1, <1>2, <1>3, FreshReads
  <2>1. Head(todo'[p]) = todo[p][2] /\ Then(s, todo[p][2])
    BY <1>1, <1>2, NextStep
  <2>2. Head(todo'[p]).do = "create_team" /\ c.op = "create_team"
    BY <1>1, <1>2, <2>1 DEF Then, Fit
  <2>3. team' = team
    BY DEF dbVars, staffVars
  <2>4. \A u \in Teams : Live(team, u)' /\ team'[u].org = c.tenant => team'[u].name # c.name
    BY <1>3, <2>3 DEF Live
  <2>5. Fits(local[p], todo[p])'
    BY <2>2, <2>4 DEF Fits
  <2> QED
    BY <2>2, <2>5, FreshFrom
<1>4. CASE Refuse(p)
  BY <1>4, FreshStops DEF Refuse
<1> QED
  BY <1>1, <1>3, <1>4

\* An edit looks for the role first.
LEMMA LoadRoleFresh ==
  ASSUME IInv, SInv', NEW p \in Procs, LoadRole(p)
  PROVE  IInv'
<1> DEFINE c == local[p]
           s == Head(todo[p])
<1>1. /\ Running(p) /\ s.do = "load_role"
      /\ Read(p, c) \/ Refuse(p)
  BY DEF LoadRole, At
<1>2. SInv /\ c \in Local /\ Fit(c, s)
  BY <1>1, FirstFresh
<1>3. CASE Read(p, c)
  <2> SUFFICES ASSUME todo'[p] = Tail(todo[p]), todo'[p] # <<>>, local'[p] = c
               PROVE  Fresh(p)'
    BY <1>1, <1>2, <1>3, FreshReads
  <2>1. Head(todo'[p]) = todo[p][2] /\ Then(s, todo[p][2])
    BY <1>1, <1>2, NextStep
  <2>2. Head(todo'[p]).do = "find_name" /\ c.op = "update_role"
    BY <1>1, <1>2, <2>1 DEF Then, Fit
  <2> QED
    BY <2>2, FreshQuiet
<1>4. CASE Refuse(p)
  BY <1>4, FreshStops DEF Refuse
<1> QED
  BY <1>1, <1>3, <1>4

\* A role gets a name that no other has, or keeps its own.
LEMMA FindNameFresh ==
  ASSUME IInv, SInv', NEW p \in Procs, FindName(p)
  PROVE  IInv'
<1> DEFINE c == local[p]
           s == Head(todo[p])
           rows == {r \in Roles : /\ Live(role, r)
                                  /\ role[r].org = c.tenant /\ role[r].name = c.name}
<1>1. /\ Running(p) /\ s.do = "find_name"
      /\ \/ (rows = {} \/ c.role \in rows) /\ Read(p, c)
         \/ Refuse(p)
  BY DEF FindName, At
<1>2. /\ SInv /\ c \in Local /\ Fit(c, s) /\ Asks(c) /\ todo[p] \in Seq(Todo)
      /\ c.loose # TRUE => Fits(c, todo[p]) /\ Ungranted(c, todo[p])
  BY <1>1, FirstFresh
<1>3. CASE (rows = {} \/ c.role \in rows) /\ Read(p, c)
  <2> SUFFICES ASSUME todo'[p] = Tail(todo[p]), todo'[p] # <<>>, local'[p] = c,
                      UNCHANGED <<dbVars, twins>>
               PROVE  Fresh(p)'
    BY <1>1, <1>2, <1>3, FreshReads
  <2>1. /\ Head(todo'[p]) = todo[p][2] /\ Then(s, todo[p][2]) /\ Fit(c, todo[p][2])
        /\ SInv
    BY <1>1, <1>2, NextStep
  <2>2. /\ Head(todo'[p]).do \in {"create_role", "rename_role"}
        /\ c.op \in {"create_role", "update_role"}
        /\ Head(todo'[p]).do = "create_role" => c.op = "create_role"
        /\ Head(todo'[p]).do = "rename_role" => c.op = "update_role"
    BY <1>1, <1>2, <2>1 DEF Then, Fit
  <2>3. role' = role /\ grant' = grant
    BY DEF dbVars, catalogue
  <2>4. c.op = "create_role" => c.found = Null
    BY <1>2 DEF Asks, AsksFor
  <2>5. c.op = "create_role" /\ c.loose # TRUE => Ungranted(local[p], todo[p])'
    BY <1>1, <1>2, <2>3, <2>4, UngrantedRest
  <2>6. c.op = "create_role" /\ c.loose # TRUE => c.role = Null
    BY <1>1, <1>2 DEF Fits
  <2>7. c.op = "create_role" /\ c.loose # TRUE => rows = {}
    <3>1. Null \notin Roles
      BY StaffAssumption
    <3> QED
      BY <1>3, <2>6, <3>1
  <2>8. rows = {} =>
          \A r \in Roles : Live(role, r)' /\ role'[r].org = c.tenant => role'[r].name # c.name
    BY <2>3 DEF Live
  <2>9. c.role \in rows => Live(role, c.role)' /\ role'[c.role].name = c.name
    BY <2>3 DEF Live
  <2>10. Live(role, local[p].role)' <=> Live(role, c.role)'
    BY DEF Live
  <2> HIDE DEF rows
  <2>11. c.loose # TRUE => Fits(local[p], todo[p])'
    BY <1>3, <2>2, <2>6, <2>7, <2>8, <2>9, <2>10 DEF Fits
  <2> QED
    BY <2>2, <2>5, <2>11, FreshFrom
<1>4. CASE Refuse(p)
  BY <1>4, FreshStops DEF Refuse
<1> QED
  BY <1>1, <1>3, <1>4

\* A permission without a grant is granted next.
LEMMA FindGrantFresh ==
  ASSUME IInv, SInv', NEW p \in Procs, FindGrant(p)
  PROVE  IInv'
<1> DEFINE c == local[p]
           s == Head(todo[p])
           rows == {g \in Grants : /\ grant[g] # Absent
                                   /\ grant[g].role = c.role /\ grant[g].perm = s.on}
<1>1. Running(p) /\ s.do = "find_grant"
  BY DEF FindGrant, At
<1>2. PICK g \in IF rows = {} THEN {Null} ELSE rows :
        Expand(p, <<[s EXCEPT !.do = "write_grant"]>>, [c EXCEPT !.found = g])
  BY DEF FindGrant
<1>3. PICK l : l = [c EXCEPT !.found = g]
  OBVIOUS
<1>4. PICK x : x = [s EXCEPT !.do = "write_grant"]
  OBVIOUS
<1>5. PICK u : u = <<x>>
  OBVIOUS
<1>6. Expand(p, u, l)
  BY <1>2, <1>3, <1>4, <1>5
<1>7. SInv /\ c \in Local /\ Fit(c, s) /\ s \in Todo /\ todo[p] \in Seq(Todo)
  BY <1>1, FirstFresh
<1>8. g \in Grants \union {Null} /\ (g = Null => rows = {})
  <2>1. Null \notin Grants
    BY StaffAssumption
  <2> QED
    BY <1>2, <2>1
<1>9. c.op = "update_role"
  BY <1>1, <1>7 DEF Fit
<1>10. l \in Local /\ l.found = g /\ l.op = "update_role" /\ l.role = c.role
  BY <1>3, <1>7, <1>8, <1>9 DEF Local
<1>11. x \in Todo /\ x.do = "write_grant" /\ x.on = s.on
  BY <1>4, <1>7 DEF Todo, Steps
<1>12. u \in Seq(Todo) /\ Len(u) = 1 /\ u[1] = x
  BY <1>5, <1>11
<1>13. (u \o Tail(todo[p]))[1] = x
  <2>1. Tail(todo[p]) \in Seq(Todo)
    BY <1>1, <1>7, FirstStep, Rest
  <2>2. 1 \in 1 .. Len(u) /\ u \in Seq(Todo) /\ u[1] = x
    BY <1>12
  <2> QED
    BY ONLY <2>1, <2>2, Joined
<1>14. ASSUME todo'[p] = u \o Tail(todo[p]), local'[p] = l, UNCHANGED <<dbVars, twins>>,
              Running(p)'
       PROVE  /\ Fits(local[p], todo[p])'
              /\ Ungranted(local[p], todo[p])'
  <2>1. /\ Shape(local'[p], todo'[p]) /\ Head(todo'[p]) = todo'[p][1]
        /\ Len(todo'[p]) \in Nat
    BY <1>14, Left
  <2>2. todo'[p][1] = x
    BY <1>13, <1>14
  <2>3. Fits(local[p], todo[p])'
    BY <1>11, <1>14, <2>1, <2>2, FitsVoid
  <2>4. ASSUME NEW k \in 1 .. Len(todo'[p]), todo'[p][k].do = "write_grant"
        PROVE  k = 1
    <3>1. k \in 2 .. Len(todo'[p]) => local'[p].op = "create_role"
      BY <2>1, <2>4 DEF Shape
    <3> QED
      BY <1>10, <1>14, <2>1, <3>1
  <2>5. grant' = grant
    BY <1>14 DEF dbVars, catalogue
  <2>6. g = Null => \A h \in Grants : grant'[h] # Absent /\ grant'[h].role = c.role =>
                      grant'[h].perm # s.on
    BY <1>8, <2>5
  <2> HIDE DEF rows
  <2>7. Ungranted(local[p], todo[p])'
    BY <1>10, <1>11, <1>14, <2>2, <2>4, <2>6 DEF Ungranted
  <2> QED
    BY <2>3, <2>7
<1>15. ASSUME todo'[p] = u \o Tail(todo[p]), local'[p] = l, UNCHANGED <<dbVars, twins>>
       PROVE  Fresh(p)'
  BY <1>10, <1>14, <1>15, FreshFrom
<1> QED
  BY <1>1, <1>6, <1>7, <1>10, <1>12, <1>15, FreshExpands

-----------------------------------------------------------------------------
(* Writing: rows that stay single.                                         *)

\* Parts that go leave no twins.
LEMMA PartsRemain ==
  ASSUME NoTwins, twins \subseteq twins',
         \A x \in Parts : part'[x] # Absent => part'[x] = part[x]
  PROVE  OnePart'
  BY DEF NoTwins, OnePart, Excused

\* So do teams that go.
LEMMA TeamsRemain ==
  ASSUME NoTwins, twins \subseteq twins',
         \A t \in Teams : Live(team, t)' =>
           /\ Live(team, t)
           /\ team'[t].name = team[t].name /\ team'[t].org = team[t].org
  PROVE  OneTeam'
  BY DEF NoTwins, OneTeam, Excused

\* So do levels that go.
LEMMA LevelsRemain ==
  ASSUME NoTwins, twins \subseteq twins',
         \A a \in Levels : level[a] # Absent =>
           /\ level'[a] # Absent
           /\ level'[a].team = level[a].team /\ level'[a].org = level[a].org,
         \A a \in Levels : Live(level, a)' =>
           /\ Live(level, a)
           /\ level'[a].member = level[a].member /\ level'[a].access = level[a].access
  PROVE  OneLevel'
<1> SUFFICES ASSUME NEW a \in Levels, NEW b \in Levels, a # b, Live(level, a)', Live(level, b)',
                    level'[a].team = level'[b].team, level'[a].org = level'[b].org
             PROVE  /\ level'[a].member = level'[b].member => Excused("level", a, b)'
                    /\ level'[a].access = "LEAD" /\ level'[b].access = "LEAD"
                       => Contended(level[a].team, level[a].org)'
  BY DEF OneLevel
<1>1. /\ Live(level, a) /\ Live(level, b) /\ level[a].team = level[b].team
      /\ level[a].org = level[b].org
      /\ level'[a].team = level[a].team /\ level'[a].org = level[a].org
  BY DEF Live
<1>2. /\ level[a].member = level[b].member => Excused("level", a, b)
      /\ level[a].access = "LEAD" /\ level[b].access = "LEAD"
         => Contended(level[a].team, level[a].org)
  BY <1>1 DEF NoTwins, OneLevel
<1>3. Contended(level[a].team, level[a].org) => Contended(level[a].team, level[a].org)'
  BY <1>1 DEF Contended
<1> QED
  BY <1>2, <1>3 DEF Excused

\* So do roles.
LEMMA RolesRemain ==
  ASSUME NoTwins, twins \subseteq twins',
         \A r \in Roles : Live(role, r)' =>
           /\ Live(role, r)
           /\ role'[r].name = role[r].name /\ role'[r].org = role[r].org
  PROVE  OneRole'
  BY DEF NoTwins, OneRole, Excused

\* Tables that nobody writes have no new twins.
LEMMA Unwritten ==
  ASSUME NoTwins, twins \subseteq twins'
  PROVE  /\ part' = part => OnePart'
         /\ team' = team => OneTeam'
         /\ level' = level => OneLevel'
         /\ role' = role => OneRole'
         /\ grant' = grant => OneGrant'
<1>1. part' = part => OnePart'
  BY PartsRemain
<1>2. team' = team => OneTeam'
  BY TeamsRemain DEF Live
<1>3. level' = level => OneLevel'
  BY LevelsRemain DEF Live
<1>4. role' = role => OneRole'
  BY RolesRemain DEF Live
<1>5. grant' = grant => OneGrant'
  BY DEF NoTwins, OneGrant, Excused
<1> QED
  BY <1>1, <1>2, <1>3, <1>4, <1>5

\* A request that writes and learns nothing.
LEMMA FreshWrites ==
  ASSUME IInv, SInv', NEW p \in Procs, Running(p), NEW rows \in SUBSET Rows, Write(p, rows),
         /\ twins \subseteq twins' /\ (local[p].loose = TRUE => rows \subseteq twins')
         => NoTwins',
         /\ todo'[p] = Tail(todo[p]) /\ todo'[p] # <<>> /\ local'[p] = local[p]
         => Fresh(p)'
  PROVE  IInv'
<1>1. local[p] \in Local
  BY FirstFresh
<1> QED
  BY <1>1, FreshCommits DEF Write

\* What is left of an update goes on covering what it gives.
LEMMA UpdateGoesOn ==
  ASSUME IInv, SInv', NEW p \in Procs, Running(p), todo'[p] = Tail(todo[p]), todo'[p] # <<>>,
         local'[p] = local[p],
         Head(todo[p]).do \in {"update_member", "delete_part", "create_part"},
         \A x \in Parts : part'[x] # Absent /\ part'[x].member = local[p].member =>
           \/ /\ part'[x] = part[x]
              /\ ~(Head(todo[p]).do = "delete_part" /\ Head(todo[p]).on = x)
           \/ Head(todo[p]).do = "create_part" /\ part'[x].of = Head(todo[p]).on
  PROVE  Fresh(p)'
<1> DEFINE c == local[p]
<1>1. /\ SInv /\ Fit(c, Head(todo[p]))
      /\ c.loose # TRUE => Cover(c.member, todo[p])
  BY FirstFresh
<1>2. c.op = "update_member"
  BY <1>1 DEF Fit
<1>3. Head(todo'[p]) = todo[p][2] /\ Then(Head(todo[p]), todo[p][2])
  BY <1>1, NextStep
<1>4. Head(todo'[p]).do \in {"delete_part", "create_part", "find_level"}
  BY <1>3 DEF Then
<1>5. c.loose # TRUE => Cover(local[p].member, todo[p])'
  <2>1. SUFFICES ASSUME c.loose # TRUE PROVE Cover(local[p].member, todo[p])'
    OBVIOUS
  <2>2. local'[p].member = local[p].member
    OBVIOUS
  <2> QED
    BY <1>1, <2>1, <2>2, CoverRest
<1>6. Running(p)' => Fits(local[p], todo[p])'
  BY <1>2, <1>4, FitsVoid
<1> QED
  BY <1>2, <1>4, <1>5, <1>6, FreshFrom

\* A member that is updated has the parts that it had.
LEMMA UpdateMemberFresh ==
  ASSUME IInv, SInv', NEW p \in Procs, UpdateMember(p), UNCHANGED catalogue
  PROVE  IInv'
<1>1. /\ Running(p) /\ Head(todo[p]).do = "update_member" /\ Write(p, {})
      /\ UNCHANGED <<part, level, team, issued, role, grant>>
  BY DEF UpdateMember, At, catalogue
<1>2. NoTwins
  BY DEF IInv
<1>3. ASSUME twins \subseteq twins' PROVE NoTwins'
  BY <1>1, <1>2, <1>3, Unwritten DEF NoTwins
<1>4. ASSUME todo'[p] = Tail(todo[p]), todo'[p] # <<>>, local'[p] = local[p]
      PROVE  Fresh(p)'
  BY <1>1, <1>4, UpdateGoesOn
<1> QED
  BY <1>1, <1>3, <1>4, FreshWrites

\* Nothing comes after a deletion of a member.
LEMMA DeleteMemberFresh ==
  ASSUME IInv, SInv', NEW p \in Procs, DeleteMember(p), UNCHANGED catalogue
  PROVE  IInv'
<1>1. /\ Running(p) /\ Head(todo[p]).do = "delete_member" /\ Write(p, {})
      /\ UNCHANGED <<part, level, team, issued, role, grant>>
  BY DEF DeleteMember, At, catalogue
<1>2. NoTwins /\ SInv
  BY DEF IInv
<1>3. ASSUME twins \subseteq twins' PROVE NoTwins'
  BY <1>1, <1>2, <1>3, Unwritten DEF NoTwins
<1>4. Tail(todo[p]) = <<>>
  BY <1>1, <1>2, LastStep
<1> QED
  BY <1>1, <1>3, <1>4, FreshWrites

\* A part that goes is one of those that cover what comes.
LEMMA DeletePartFresh ==
  ASSUME IInv, SInv', NEW p \in Procs, DeletePart(p), UNCHANGED catalogue
  PROVE  IInv'
<1> DEFINE x == Head(todo[p]).on
<1>1. /\ Running(p) /\ Head(todo[p]).do = "delete_part"
      /\ \/ /\ part' = [part EXCEPT ![x] = Absent] /\ Write(p, {})
            /\ UNCHANGED <<member, level, team, issued, role, grant>>
         \/ Refuse(p)
  BY PartGoes DEF IInv, SInv, TypeOK, catalogue
<1>2. CASE Refuse(p)
  BY <1>2, FreshStops DEF Refuse
<1>3. CASE /\ part' = [part EXCEPT ![x] = Absent] /\ Write(p, {})
           /\ UNCHANGED <<member, level, team, issued, role, grant>>
  <2>1. NoTwins /\ SInv /\ part \in [Parts -> Part \union {Absent}]
    BY DEF IInv, SInv, TypeOK
  <2>2. \A y \in Parts : part'[y] # Absent => part'[y] = part[y] /\ x # y
    BY <1>3, <2>1
  <2>3. ASSUME twins \subseteq twins' PROVE NoTwins'
    BY <1>3, <2>1, <2>2, <2>3, PartsRemain, Unwritten DEF NoTwins
  <2>4. ASSUME todo'[p] = Tail(todo[p]), todo'[p] # <<>>, local'[p] = local[p]
        PROVE  Fresh(p)'
    BY <1>1, <2>2, <2>4, UpdateGoesOn
  <2> QED
    BY <1>1, <1>3, <2>3, <2>4, FreshWrites
<1> QED
  BY <1>1, <1>2, <1>3

\* A member gets nothing twice, or the request is loose.
LEMMA NewPartSingle ==
  ASSUME IInv, NEW p \in Procs, NEW what, NewPart(p, what), twins \subseteq twins',
         local[p].loose = TRUE => <<"part", issued + 1>> \in twins',
         local[p].loose # TRUE =>
           \A x \in Parts : part[x] # Absent /\ part[x].member = local[p].member =>
             part[x].of # what
  PROVE  OnePart'
<1> DEFINE n == issued + 1
<1>1. PICK new : new = [member |-> local[p].member, of |-> what]
  OBVIOUS
<1>2. part' = [part EXCEPT ![n] = new]
  BY <1>1 DEF NewPart
<1>3. NoTwins /\ part \in [Parts -> Part \union {Absent}]
  BY DEF IInv, SInv, TypeOK
<1> SUFFICES ASSUME NEW x \in Parts, NEW y \in Parts, x # y, part'[x] # Absent,
                    part'[x] = part'[y]
             PROVE  Excused("part", x, y)'
  BY DEF OnePart
<1> HIDE DEF n
<1>4. CASE x # n /\ y # n
  <2>1. part[x] = part'[x] /\ part[y] = part'[y]
    BY <1>2, <1>3, <1>4
  <2>2. Excused("part", x, y)
    BY <1>3, <2>1 DEF NoTwins, OnePart
  <2> QED
    BY <2>2 DEF Excused
<1>5. CASE x = n \/ y = n
  <2>1. PICK z \in {x, y} : part[z] = part'[z] /\ part'[z] = new /\ part[z] # Absent
    BY <1>2, <1>3, <1>5
  <2>2. local[p].loose = TRUE
    <3>1. new.member = local[p].member /\ new.of = what
      BY <1>1
    <3>2. z \in Parts /\ part[z] = new /\ part[z] # Absent
      BY <2>1
    <3> QED
      BY <3>1, <3>2
  <2> QED
    BY <1>5, <2>2 DEF Excused, n
<1> QED
  BY <1>4, <1>5

\* What an update gives was covered.
LEMMA CreatePartFresh ==
  ASSUME IInv, SInv', NEW p \in Procs, CreatePart(p), UNCHANGED catalogue
  PROVE  IInv'
<1> DEFINE c == local[p]
           what == Head(todo[p]).on
<1>1. /\ Running(p) /\ Head(todo[p]).do = "create_part" /\ NewPart(p, what)
      /\ issued < MaxParts
      /\ part' = [part EXCEPT ![issued + 1] = [member |-> c.member, of |-> what]]
      /\ Write(p, {<<"part", issued + 1>>})
      /\ UNCHANGED <<member, level, team, role, grant>>
  BY DEF CreatePart, NewPart, At, catalogue
<1>2. /\ SInv /\ NoTwins /\ todo[p] \in Seq(Todo) /\ Head(todo[p]) = todo[p][1]
      /\ 1 \in 1 .. Len(todo[p])
      /\ c.loose # TRUE => Cover(c.member, todo[p])
  BY <1>1, FirstFresh
<1>3. part \in [Parts -> Part \union {Absent}] /\ issued \in 0 .. MaxParts
  BY <1>2 DEF SInv, TypeOK
<1>4. issued + 1 \in Parts
  BY <1>1, <1>3, StaffAssumption DEF Parts
<1>5. c.loose # TRUE =>
        \A x \in Parts : part[x] # Absent /\ part[x].member = c.member => part[x].of # what
  <2> SUFFICES ASSUME c.loose # TRUE, NEW x \in Parts, part[x] # Absent,
                      part[x].member = c.member, part[x].of = what
               PROVE  FALSE
    OBVIOUS
  <2>1. PICK j \in 1 .. 1 - 1 : TRUE
    BY <1>1, <1>2 DEF Cover
  <2> QED
    BY <2>1
<1>6. ASSUME twins \subseteq twins', c.loose = TRUE => {<<"part", issued + 1>>} \subseteq twins'
      PROVE  NoTwins'
  <2>1. OnePart'
    BY <1>1, <1>5, <1>6, NewPartSingle
  <2> QED
    BY <1>1, <1>2, <1>6, <2>1, Unwritten DEF NoTwins
<1>7. \A x \in Parts : part'[x] # Absent /\ part'[x].member = c.member =>
        part'[x] = part[x] \/ part'[x].of = what
  BY <1>1, <1>3
<1>8. ASSUME todo'[p] = Tail(todo[p]), todo'[p] # <<>>, local'[p] = local[p]
      PROVE  Fresh(p)'
  BY <1>1, <1>7, <1>8, UpdateGoesOn
<1>9. {<<"part", issued + 1>>} \in SUBSET Rows
  BY <1>4 DEF Rows
<1> QED
  BY <1>1, <1>6, <1>8, <1>9, FreshWrites

\* The member had no such role.
LEMMA AssignRoleFresh ==
  ASSUME IInv, SInv', NEW p \in Procs, AssignRole(p), UNCHANGED catalogue
  PROVE  IInv'
<1> DEFINE c == local[p]
<1>1. /\ Running(p) /\ Head(todo[p]).do = "assign_role" /\ NewPart(p, RoleOf(c))
      /\ issued < MaxParts /\ Write(p, {<<"part", issued + 1>>})
      /\ UNCHANGED <<member, level, team, role, grant>>
  BY DEF AssignRole, NewPart, At, catalogue
<1>2. SInv /\ NoTwins /\ (c.loose # TRUE => Fits(c, todo[p]))
  BY <1>1, FirstFresh
<1>3. issued \in 0 .. MaxParts
  BY <1>2 DEF SInv, TypeOK
<1>4. issued + 1 \in Parts
  BY <1>1, <1>3, StaffAssumption DEF Parts
<1>5. c.loose # TRUE =>
        \A x \in Parts : part[x] # Absent /\ part[x].member = c.member =>
          part[x].of # RoleOf(c)
  BY <1>1, <1>2 DEF Fits
<1>6. ASSUME twins \subseteq twins', c.loose = TRUE => {<<"part", issued + 1>>} \subseteq twins'
      PROVE  NoTwins'
  <2>1. OnePart'
    BY <1>1, <1>5, <1>6, NewPartSingle
  <2> QED
    BY <1>1, <1>2, <1>6, <2>1, Unwritten DEF NoTwins
<1>7. Tail(todo[p]) = <<>>
  BY <1>1, <1>2, LastStep
<1>8. {<<"part", issued + 1>>} \in SUBSET Rows
  BY <1>4 DEF Rows
<1> QED
  BY <1>1, <1>6, <1>7, <1>8, FreshWrites

\* A level that is deleted leaves no twins.
LEMMA DeleteLevelFresh ==
  ASSUME IInv, SInv', NEW p \in Procs, DeleteLevel(p), UNCHANGED catalogue
  PROVE  IInv'
<1>1. /\ Running(p) /\ Head(todo[p]).do = "delete_level" /\ Write(p, {})
      /\ \/ level' = level
         \/ \E a \in Levels : level[a] # Absent /\ level' = [level EXCEPT ![a].deleted = TRUE]
      /\ UNCHANGED <<member, part, team, issued, role, grant>>
  BY DEF DeleteLevel, At, catalogue
<1>2. NoTwins /\ SInv /\ level \in [Levels -> Level \union {Absent}]
  BY DEF IInv, SInv, TypeOK
<1>3. ASSUME NEW a \in Levels, level[a] # Absent, level' = [level EXCEPT ![a].deleted = TRUE],
             twins \subseteq twins'
      PROVE  OneLevel'
  <2>1. PICK row : row = [level[a] EXCEPT !.deleted = TRUE]
    OBVIOUS
  <2>2. level' = [level EXCEPT ![a] = row]
    BY <1>3, <2>1
  <2>3. level[a] \in Level
    BY <1>2, <1>3
  <2>4. /\ row \in Level /\ row.deleted = TRUE /\ row.team = level[a].team
        /\ row.org = level[a].org
    BY <2>1, <2>3 DEF Level
  <2>5. row # Absent
    BY <2>4, StaffAssumption
  <2>6. ASSUME NEW b \in Levels, level[b] # Absent
        PROVE  /\ level'[b] # Absent
               /\ level'[b].team = level[b].team /\ level'[b].org = level[b].org
    BY <1>2, <2>2, <2>4, <2>5, <2>6
  <2>7. ASSUME NEW b \in Levels, Live(level, b)'
        PROVE  Live(level, b) /\ level'[b] = level[b]
    BY <1>2, <2>2, <2>4, <2>7 DEF Live
  <2> QED
    BY <1>2, <1>3, <2>6, <2>7, LevelsRemain
<1>4. ASSUME twins \subseteq twins' PROVE NoTwins'
  BY <1>1, <1>2, <1>3, <1>4, Unwritten DEF NoTwins
<1>5. Tail(todo[p]) = <<>>
  BY <1>1, <1>2, LastStep
<1> QED
  BY <1>1, <1>4, <1>5, FreshWrites

\* The level that a member gets is its only one, and nobody else leads, or the
\* request was overtaken.
LEMMA LevelSingle ==
  ASSUME IInv, NEW p \in Procs, Running(p), Head(todo[p]).do = "write_level",
         twins \subseteq twins', NEW a \in Levels, NEW row \in Level,
         level' = [level EXCEPT ![a] = row],
         row.member = Head(todo[p]).on, row.access = Head(todo[p]).access,
         row.team = local[p].team, row.org = local[p].tenant,
         level[a] # Absent => /\ row.member = level[a].member /\ row.team = level[a].team
                              /\ row.org = level[a].org /\ row.deleted = level[a].deleted,
         local[p].found # Null => level[a] # Absent,
         local[p].loose = TRUE => <<"level", a>> \in twins'
  PROVE  OneLevel'
<1> DEFINE c == local[p]
           s == Head(todo[p])
<1>1. NoTwins /\ level \in [Levels -> Level \union {Absent}] /\ (c.loose # TRUE => Fits(c, todo[p]))
  BY FirstFresh DEF IInv, SInv, TypeOK
<1>2. row # Absent
  BY StaffAssumption
<1>3. level'[a] = row /\ \A b \in Levels \ {a} : level'[b] = level[b]
  BY <1>1
<1>4. \A b \in Levels : level[b] # Absent =>
        /\ level'[b] # Absent
        /\ level'[b].team = level[b].team /\ level'[b].org = level[b].org
  BY <1>2, <1>3
<1>5. ASSUME Contended(c.team, c.tenant) PROVE Contended(row.team, row.org)'
  <2>1. PICK b \in Levels : /\ <<"level", b>> \in twins /\ level[b] # Absent
                            /\ level[b].team = c.team /\ level[b].org = c.tenant
    BY <1>5 DEF Contended
  <2> QED
    BY <1>4, <2>1 DEF Contended
<1>6. ASSUME NEW b \in Levels \ {a}, Excused("level", a, b)', level[b] # Absent,
             level[b].team = c.team, level[b].org = c.tenant
      PROVE  Contended(row.team, row.org)'
  BY <1>2, <1>3, <1>6 DEF Contended, Excused
<1>7. ASSUME NEW b \in Levels \ {a}, Live(level, a)', Live(level, b),
             level[b].team = c.team, level[b].org = c.tenant
      PROVE  /\ row.member = level[b].member => Excused("level", a, b)'
             /\ row.access = "LEAD" /\ level[b].access = "LEAD"
                => Contended(row.team, row.org)'
  <2>1. CASE c.loose = TRUE
    <3>1. Excused("level", a, b)'
      BY <2>1 DEF Excused
    <3> QED
      BY <1>6, <1>7, <3>1 DEF Live
  <2>2. CASE c.loose # TRUE
    <3>1. /\ s.access = "LEAD" => NoRival(s.on, c.team, c.tenant)
          /\ c.found = Null => LevelsOf(s.on, c.team, c.tenant) = {}
      BY <1>1, <2>2 DEF Fits
    <3>2. ASSUME row.member = level[b].member PROVE Excused("level", a, b)'
      <4>1. b \in LevelsOf(s.on, c.team, c.tenant)
        BY <1>7, <3>2 DEF LevelsOf
      <4>2. level[a] # Absent
        BY <3>1, <4>1
      <4>3. /\ Live(level, a) /\ level[a].team = c.team /\ level[a].org = c.tenant
            /\ level[a].member = level[b].member
        BY <1>3, <1>7, <3>2, <4>2 DEF Live
      <4>4. Excused("level", a, b)
        BY <1>1, <1>7, <4>3 DEF NoTwins, OneLevel
      <4> QED
        BY <4>4 DEF Excused
    <3>3. ASSUME row.access = "LEAD", level[b].access = "LEAD"
          PROVE  Contended(row.team, row.org)'
      <4>1. b \in LeadsOf(c.team, c.tenant)
        BY <1>7, <3>3 DEF LeadsOf
      <4>2. Contended(c.team, c.tenant) \/ level[b].member = s.on
        BY <3>1, <3>3, <4>1 DEF NoRival
      <4> QED
        BY <1>5, <1>6, <1>7, <3>2, <4>2 DEF Live
    <3> QED
      BY <3>2, <3>3
  <2> QED
    BY <2>1, <2>2
<1> SUFFICES ASSUME NEW x \in Levels, NEW y \in Levels, x # y, Live(level, x)', Live(level, y)',
                    level'[x].team = level'[y].team, level'[x].org = level'[y].org
             PROVE  /\ level'[x].member = level'[y].member => Excused("level", x, y)'
                    /\ level'[x].access = "LEAD" /\ level'[y].access = "LEAD"
                       => Contended(level[x].team, level[x].org)'
  BY DEF OneLevel
<1>8. CASE x # a /\ y # a
  <2>1. /\ level'[x] = level[x] /\ level'[y] = level[y] /\ Live(level, x) /\ Live(level, y)
    BY <1>3, <1>8 DEF Live
  <2>2. /\ level[x].member = level[y].member => Excused("level", x, y)
        /\ level[x].access = "LEAD" /\ level[y].access = "LEAD"
           => Contended(level[x].team, level[x].org)
    BY <1>1, <2>1 DEF NoTwins, OneLevel
  <2>3. Contended(level[x].team, level[x].org) => Contended(level[x].team, level[x].org)'
    BY ZenonT(60), <1>4, <2>1 DEF Contended
  <2> QED
    BY <2>1, <2>2, <2>3 DEF Excused
<1>9. CASE x = a
  <2>1. /\ level'[x] = row /\ level'[y] = level[y] /\ Live(level, y) /\ Live(level, a)'
        /\ level[y].team = c.team /\ level[y].org = c.tenant
    BY <1>3, <1>9 DEF Live
  <2>2. /\ row.member = level[y].member => Excused("level", a, y)'
        /\ row.access = "LEAD" /\ level[y].access = "LEAD" => Contended(row.team, row.org)'
    BY <1>7, <1>9, <2>1
  <2> QED
    BY <1>9, <2>1, <2>2 DEF Contended
<1>10. CASE y = a
  <2>1. /\ level'[y] = row /\ level'[x] = level[x] /\ Live(level, x) /\ Live(level, a)'
        /\ level[x].team = c.team /\ level[x].org = c.tenant
    BY <1>3, <1>10 DEF Live
  <2>2. /\ row.member = level[x].member => Excused("level", a, x)'
        /\ row.access = "LEAD" /\ level[x].access = "LEAD" => Contended(row.team, row.org)'
    BY <1>7, <1>10, <2>1
  <2> QED
    BY <1>10, <2>1, <2>2 DEF Contended, Excused
<1> QED
  BY <1>8, <1>9, <1>10

\* A level that is written is the only one.
LEMMA WriteLevelFresh ==
  ASSUME IInv, SInv', NEW p \in Procs, WriteLevel(p), UNCHANGED catalogue
  PROVE  IInv'
<1>1. /\ Running(p) /\ Head(todo[p]).do = "write_level"
      /\ UNCHANGED <<member, part, team, issued, role, grant>>
  BY DEF WriteLevel, At, catalogue
<1>2. SInv /\ NoTwins /\ todo[p] \in Seq(Todo)
  BY <1>1, FirstFresh
<1>3. PICK a \in Levels, row \in Level :
        /\ level' = [level EXCEPT ![a] = row] /\ Write(p, {<<"level", a>>})
        /\ row.member = Head(todo[p]).on /\ row.access = Head(todo[p]).access
        /\ row.team = local[p].team /\ row.org = local[p].tenant
        /\ level[a] # Absent =>
             /\ row.member = level[a].member /\ row.team = level[a].team
             /\ row.org = level[a].org /\ row.deleted = level[a].deleted
        /\ local[p].found # Null => level[a] # Absent
  BY <1>2, LevelRow
<1>4. ASSUME twins \subseteq twins',
             local[p].loose = TRUE => {<<"level", a>>} \subseteq twins'
      PROVE  NoTwins'
  <2>1. OneLevel'
    BY <1>1, <1>3, <1>4, LevelSingle
  <2> QED
    BY <1>1, <1>2, <1>4, <2>1, Unwritten DEF NoTwins
<1>5. ASSUME todo'[p] = Tail(todo[p]), todo'[p] # <<>>, local'[p] = local[p]
      PROVE  Fresh(p)'
  <2>1. /\ Head(todo'[p]) = todo[p][2] /\ Then(Head(todo[p]), todo[p][2])
        /\ Fit(local[p], todo[p][2])
    BY <1>1, <1>2, <1>5, NextStep
  <2>2. Head(todo'[p]).do = "find_member"
    BY <1>1, <2>1 DEF Then
  <2>3. local[p].op \notin {"update_member", "create_role"}
    BY <2>1, <2>2 DEF Fit
  <2> QED
    BY <1>5, <2>2, <2>3, FreshQuiet
<1>6. {<<"level", a>>} \in SUBSET Rows
  BY DEF Rows
<1> QED
  BY <1>1, <1>3, <1>4, <1>5, <1>6, FreshWrites

\* A team is created under a name that no other has, or the request was
\* overtaken.
LEMMA CreateTeamFresh ==
  ASSUME IInv, SInv', NEW p \in Procs, CreateTeam(p), UNCHANGED catalogue
  PROVE  IInv'
<1> DEFINE c == local[p]
<1>1. /\ Running(p) /\ Head(todo[p]).do = "create_team"
      /\ UNCHANGED <<member, part, level, issued, role, grant>>
  BY DEF CreateTeam, At, catalogue
<1>2. PICK t \in Teams :
        /\ team' = [team EXCEPT ![t] = [name |-> c.name, org |-> c.tenant, deleted |-> FALSE]]
        /\ Write(p, {<<"team", t>>})
  BY DEF CreateTeam
<1>3. /\ SInv /\ NoTwins /\ team \in [Teams -> Team \union {Absent}]
      /\ c.loose # TRUE => Fits(c, todo[p])
  BY <1>1, FirstFresh DEF SInv, TypeOK
<1>4. PICK new : new = [name |-> c.name, org |-> c.tenant, deleted |-> FALSE]
  OBVIOUS
<1>5. new.name = c.name /\ new.org = c.tenant /\ team'[t] = new
  BY <1>2, <1>3, <1>4
<1>6. \A u \in Teams \ {t} : team'[u] = team[u]
  BY <1>2, <1>3
<1>7. c.loose # TRUE =>
        \A u \in Teams : Live(team, u) /\ team[u].org = c.tenant => team[u].name # c.name
  BY <1>1, <1>3 DEF Fits
<1>8. ASSUME twins \subseteq twins', c.loose = TRUE => {<<"team", t>>} \subseteq twins'
      PROVE  NoTwins'
  <2>1. ASSUME NEW x \in Teams, NEW y \in Teams, x # y, Live(team, x)', Live(team, y)',
               team'[x].name = team'[y].name, team'[x].org = team'[y].org
        PROVE  Excused("team", x, y)'
    <3>1. CASE x # t /\ y # t
      <4>1. Excused("team", x, y)
        BY <1>3, <1>6, <2>1, <3>1 DEF NoTwins, OneTeam, Live
      <4> QED
        BY <1>8, <4>1 DEF Excused
    <3>2. CASE x = t \/ y = t
      <4>1. PICK u \in {x, y} : /\ u \in Teams /\ Live(team, u)
                                /\ team[u].name = c.name /\ team[u].org = c.tenant
        BY <1>5, <1>6, <2>1, <3>2 DEF Live
      <4>2. c.loose = TRUE
        BY <1>7, <4>1
      <4> QED
        BY <1>8, <3>2, <4>2 DEF Excused
    <3> QED
      BY <3>1, <3>2
  <2>2. OneTeam'
    BY <2>1 DEF OneTeam
  <2> QED
    BY <1>1, <1>3, <1>8, <2>2, Unwritten DEF NoTwins
<1>9. Tail(todo[p]) = <<>>
  BY <1>1, <1>3, LastStep
<1>10. {<<"team", t>>} \in SUBSET Rows
  BY DEF Rows
<1> QED
  BY <1>1, <1>2, <1>8, <1>9, <1>10, FreshWrites

\* A team that goes leaves no twins.
LEMMA DeleteTeamFresh ==
  ASSUME IInv, SInv', NEW p \in Procs, DeleteTeam(p), UNCHANGED catalogue
  PROVE  IInv'
<1> DEFINE t == local[p].team
<1>1. /\ Running(p) /\ Head(todo[p]).do = "delete_team"
      /\ \/ /\ Live(team, t) /\ Write(p, {})
            /\ team' = [team EXCEPT ![t].deleted = TRUE]
            /\ UNCHANGED <<member, part, level, issued, role, grant>>
         \/ Refuse(p)
  BY DEF DeleteTeam, At, catalogue
<1>2. CASE Refuse(p)
  BY <1>2, FreshStops DEF Refuse
<1>3. CASE /\ Live(team, t) /\ Write(p, {})
           /\ team' = [team EXCEPT ![t].deleted = TRUE]
           /\ UNCHANGED <<member, part, level, issued, role, grant>>
  <2>1. /\ SInv /\ NoTwins /\ team \in [Teams -> Team \union {Absent}]
        /\ Asks(local[p]) /\ Fit(local[p], Head(todo[p]))
    BY <1>1, FirstFresh DEF SInv, TypeOK
  <2>2. t \in Teams
    BY <1>1, <2>1 DEF Asks, AsksFor, Fit
  <2>3. team[t] \in Team
    BY <1>3, <2>1, <2>2 DEF Live
  <2>4. PICK row : row = [team[t] EXCEPT !.deleted = TRUE]
    OBVIOUS
  <2>5. team' = [team EXCEPT ![t] = row] /\ row.deleted = TRUE
    BY <1>3, <2>3, <2>4 DEF Team
  <2>6. ASSUME NEW u \in Teams, Live(team, u)'
        PROVE  Live(team, u) /\ team'[u] = team[u]
    BY <2>1, <2>2, <2>5, <2>6 DEF Live
  <2>7. ASSUME twins \subseteq twins' PROVE NoTwins'
    BY <1>3, <2>1, <2>6, <2>7, TeamsRemain, Unwritten DEF NoTwins
  <2>8. Tail(todo[p]) = <<>>
    BY <1>1, <2>1, LastStep
  <2> QED
    BY <1>1, <1>3, <2>7, <2>8, FreshWrites
<1> QED
  BY <1>1, <1>2, <1>3

-----------------------------------------------------------------------------
(* Writing: the catalogue.                                                 *)

\* A role that is written has a name that no other has, or the one it had, or
\* the request was overtaken.
LEMMA RoleSingle ==
  ASSUME NoTwins, role \in [Roles -> Role \union {Absent}], twins \subseteq twins',
         NEW r \in Roles, NEW new \in Role, role' = [role EXCEPT ![r] = new],
         \/ <<"role", r>> \in twins'
         \/ \A s \in Roles \ {r} : Live(role, s) /\ role[s].org = new.org =>
              role[s].name # new.name
         \/ Live(role, r) /\ role[r].name = new.name /\ role[r].org = new.org
  PROVE  OneRole'
<1>1. role'[r] = new /\ \A s \in Roles \ {r} : role'[s] = role[s]
  OBVIOUS
<1> SUFFICES ASSUME NEW x \in Roles, NEW y \in Roles, x # y, Live(role, x)', Live(role, y)',
                    role'[x].name = role'[y].name, role'[x].org = role'[y].org
             PROVE  Excused("role", x, y)'
  BY DEF OneRole
<1>2. CASE x # r /\ y # r
  <2>1. Excused("role", x, y)
    BY <1>1, <1>2 DEF NoTwins, OneRole, Live
  <2> QED
    BY <2>1 DEF Excused
<1>3. CASE x = r \/ y = r
  <2>1. PICK s \in Roles \ {r} : /\ s \in {x, y} /\ Live(role, s)
                                 /\ role[s].name = new.name /\ role[s].org = new.org
    BY <1>1, <1>3 DEF Live
  <2>2. CASE <<"role", r>> \in twins'
    BY <1>3, <2>2 DEF Excused
  <2>3. CASE Live(role, r) /\ role[r].name = new.name /\ role[r].org = new.org
    <3>1. Excused("role", r, s)
      BY <2>1, <2>3 DEF NoTwins, OneRole
    <3> QED
      BY <1>3, <2>1, <3>1 DEF Excused
  <2> QED
    BY <1>3, <2>1, <2>2, <2>3
<1> QED
  BY <1>2, <1>3

\* A role is created under a name that no other has, without grants.
LEMMA CreateRoleFresh ==
  ASSUME IInv, SInv', NEW p \in Procs, CreateRole(p), UNCHANGED staffVars
  PROVE  IInv'
<1> DEFINE c == local[p]
<1>1. /\ Running(p) /\ Head(todo[p]).do = "create_role"
      /\ UNCHANGED <<member, part, level, team, issued, grant>>
  BY DEF CreateRole, At, staffVars
<1>2. PICK r \in Roles :
        /\ role[r] = Absent
        /\ role' = [role EXCEPT ![r] = [name |-> c.name, org |-> c.tenant,
                                        listed |-> {}, deleted |-> FALSE]]
        /\ Commit(p, [c EXCEPT !.role = r], {<<"role", r>>})
  BY DEF CreateRole
<1>3. /\ SInv /\ NoTwins /\ c \in Local /\ Asks(c) /\ Fit(c, Head(todo[p]))
      /\ todo[p] \in Seq(Todo)
      /\ c.loose # TRUE => Fits(c, todo[p])
  BY <1>1, FirstFresh
<1>4. role \in [Roles -> Role \union {Absent}] /\ Granted
  BY <1>3 DEF SInv, TypeOK, DbOK
<1>5. c.name \in Names /\ c.tenant \in Orgs /\ c.op = "create_role"
  BY <1>1, <1>3 DEF Asks, AsksFor, Fit
<1>6. PICK new : new = [name |-> c.name, org |-> c.tenant, listed |-> {}, deleted |-> FALSE]
  OBVIOUS
<1>7. /\ new \in Role /\ new.name = c.name /\ new.org = c.tenant
      /\ role' = [role EXCEPT ![r] = new]
  BY <1>2, <1>5, <1>6 DEF Role
<1>8. PICK l : l = [c EXCEPT !.role = r]
  OBVIOUS
<1>9. l \in Local /\ l.role = r /\ l.op = "create_role" /\ l.loose = c.loose
  BY <1>3, <1>5, <1>8 DEF Local
<1>10. c.loose # TRUE =>
         \A s \in Roles : Live(role, s) /\ role[s].org = c.tenant => role[s].name # c.name
  BY <1>1, <1>3 DEF Fits
<1>11. ASSUME twins \subseteq twins', c.loose = TRUE => {<<"role", r>>} \subseteq twins'
       PROVE  NoTwins'
  <2>1. \/ <<"role", r>> \in twins'
        \/ \A s \in Roles \ {r} : Live(role, s) /\ role[s].org = new.org =>
             role[s].name # new.name
    BY <1>7, <1>10, <1>11
  <2>2. OneRole'
    BY <1>3, <1>4, <1>7, <1>11, <2>1, RoleSingle
  <2> QED
    BY <1>1, <1>3, <1>11, <2>2, Unwritten DEF NoTwins
<1>12. ASSUME todo'[p] = Tail(todo[p]), todo'[p] # <<>>, local'[p] = l
       PROVE  Fresh(p)'
  <2>1. /\ Head(todo'[p]) = todo[p][2] /\ Then(Head(todo[p]), todo[p][2])
    BY <1>1, <1>3, <1>12, NextStep
  <2>2. Head(todo'[p]).do \in {"write_grant", "find_grant", "list_grants"}
    BY <1>1, <2>1 DEF Then
  <2>3. Running(p)' => Fits(local[p], todo[p])'
    BY <2>2, FitsVoid
  <2>4. ASSUME NEW g \in Grants, grant'[g] # Absent, grant'[g].role = r
        PROVE  FALSE
    BY <1>1, <1>2, <1>4, <2>4 DEF Granted
  <2>5. Ungranted(local[p], todo[p])'
    BY <1>9, <1>12, <2>4 DEF Ungranted
  <2> QED
    BY <1>9, <1>12, <2>3, <2>5, FreshFrom
<1>13. {<<"role", r>>} \in SUBSET Rows /\ Commit(p, l, {<<"role", r>>})
  BY <1>2, <1>8 DEF Rows
<1> QED
  BY <1>1, <1>9, <1>11, <1>12, <1>13, FreshCommits

\* A role is renamed to a name that no other has, or keeps its own.
LEMMA RenameRoleFresh ==
  ASSUME IInv, SInv', NEW p \in Procs, RenameRole(p), UNCHANGED staffVars
  PROVE  IInv'
<1> DEFINE c == local[p]
<1>1. /\ Running(p) /\ Head(todo[p]).do = "rename_role"
      /\ role' = [role EXCEPT ![c.role].name = c.name, ![c.role].org = c.tenant]
      /\ Write(p, {<<"role", c.role>>})
      /\ UNCHANGED <<member, part, level, team, issued, grant>>
  BY DEF RenameRole, At, staffVars
<1>2. /\ SInv /\ NoTwins /\ Fit(c, Head(todo[p])) /\ todo[p] \in Seq(Todo)
      /\ c.loose # TRUE => Fits(c, todo[p])
  BY <1>1, FirstFresh
<1>3. /\ c.role \in Roles /\ role[c.role] \in Role /\ role[c.role].org = c.tenant
      /\ c.tenant \in Orgs /\ c.name \in Names
  BY <1>1, <1>2, RoleHeld
<1>4. role \in [Roles -> Role \union {Absent}]
  BY <1>2 DEF SInv, TypeOK
<1>5. PICK new : new = [role[c.role] EXCEPT !.name = c.name, !.org = c.tenant]
  OBVIOUS
<1>6. new \in Role /\ new.name = c.name /\ new.org = c.tenant
  BY <1>3, <1>5 DEF Role
<1>7. role' = [role EXCEPT ![c.role] = new]
  BY <1>1, <1>3, <1>4, <1>5
<1>8. c.loose # TRUE =>
        \/ \A s \in Roles : Live(role, s) /\ role[s].org = c.tenant => role[s].name # c.name
        \/ Live(role, c.role) /\ role[c.role].name = c.name
  BY <1>1, <1>2 DEF Fits
<1>9. ASSUME twins \subseteq twins', c.loose = TRUE => {<<"role", c.role>>} \subseteq twins'
      PROVE  NoTwins'
  <2>1. \/ <<"role", c.role>> \in twins'
        \/ \A s \in Roles \ {c.role} : Live(role, s) /\ role[s].org = new.org =>
             role[s].name # new.name
        \/ Live(role, c.role) /\ role[c.role].name = new.name /\ role[c.role].org = new.org
    BY <1>3, <1>6, <1>8, <1>9
  <2>2. OneRole'
    BY <1>2, <1>3, <1>4, <1>6, <1>7, <1>9, <2>1, RoleSingle
  <2> QED
    BY <1>1, <1>2, <1>9, <2>2, Unwritten DEF NoTwins
<1>10. ASSUME todo'[p] = Tail(todo[p]), todo'[p] # <<>>, local'[p] = c
       PROVE  Fresh(p)'
  <2>1. /\ Head(todo'[p]) = todo[p][2] /\ Then(Head(todo[p]), todo[p][2])
        /\ todo[p][2].do = "write_grant" => c.op = "create_role"
    BY <1>1, <1>2, <1>10, NextStep
  <2>2. c.op = "update_role"
    BY <1>1, <1>2 DEF Fit
  <2>3. Head(todo'[p]).do \in {"find_grant", "list_grants"}
    BY <1>1, <2>1, <2>2 DEF Then
  <2> QED
    BY <1>10, <2>2, <2>3, FreshQuiet
<1>11. {<<"role", c.role>>} \in SUBSET Rows
  BY <1>3 DEF Rows
<1> QED
  BY <1>1, <1>9, <1>10, <1>11, FreshWrites

\* What is granted was not, or the request is loose.
LEMMA WriteGrantFresh ==
  ASSUME IInv, SInv', NEW p \in Procs, WriteGrant(p), UNCHANGED staffVars
  PROVE  IInv'
<1> DEFINE c == local[p]
           s == Head(todo[p])
<1>1. /\ Running(p) /\ s.do = "write_grant"
      /\ UNCHANGED <<member, part, level, team, issued, role>>
  BY DEF WriteGrant, At, staffVars
<1>2. /\ SInv /\ NoTwins /\ grant \in [Grants -> Grant \union {Absent}] /\ c \in Local
      /\ Asks(c) /\ Fit(c, s) /\ todo[p] \in Seq(Todo) /\ s = todo[p][1]
      /\ 1 \in 1 .. Len(todo[p])
      /\ c.loose # TRUE => Ungranted(c, todo[p])
  BY <1>1, FirstFresh DEF SInv, TypeOK
<1>3. PICK g \in Grants, row \in Grant :
        /\ grant' = [grant EXCEPT ![g] = row]
        /\ Commit(p, [c EXCEPT !.listed = @ \union {g}], {<<"grant", g>>})
        /\ row.role = c.role /\ row.perm = s.on
        /\ grant[g] # Absent => grant[g].role = row.role /\ grant[g].perm = row.perm
        /\ c.found # Null => grant[g] # Absent
  <2>1. SInv /\ WriteGrant(p) /\ p \in Procs
    BY <1>2
  <2>2. \E g \in Grants, row \in Grant :
          /\ grant' = [grant EXCEPT ![g] = row]
          /\ Commit(p, [local[p] EXCEPT !.listed = @ \union {g}], {<<"grant", g>>})
          /\ row.role = local[p].role /\ row.perm = Head(todo[p]).on
          /\ row.flags = Head(todo[p]).access
          /\ grant[g] # Absent => grant[g].role = row.role /\ grant[g].perm = row.perm
          /\ local[p].found # Null <=> grant[g] # Absent
    BY ONLY <2>1, GrantRow
  <2> QED
    BY ONLY <2>2
<1>4. PICK l : l = [c EXCEPT !.listed = @ \union {g}]
  OBVIOUS
<1>5. /\ l \in Local /\ l.role = c.role /\ l.op = c.op /\ l.loose = c.loose
      /\ l.found = c.found
  BY <1>2, <1>4 DEF Local
<1>6. grant'[g] = row /\ \A h \in Grants \ {g} : grant'[h] = grant[h]
  BY <1>2, <1>3
<1>7. ASSUME NEW h \in Grants \ {g}, grant[h] # Absent, grant[h].role = c.role,
             grant[h].perm = s.on, c.loose # TRUE
      PROVE  Excused("grant", g, h)
  <2>1. c.found # Null
    BY <1>1, <1>2, <1>7 DEF Ungranted
  <2>2. grant[g] # Absent /\ grant[g].role = c.role /\ grant[g].perm = s.on
    BY <1>3, <2>1
  <2> QED
    BY <1>2, <1>7, <2>2 DEF NoTwins, OneGrant
<1>8. ASSUME twins \subseteq twins', c.loose = TRUE => {<<"grant", g>>} \subseteq twins'
      PROVE  NoTwins'
  <2>1. ASSUME NEW x \in Grants, NEW y \in Grants, x # y, grant'[x] # Absent, grant'[y] # Absent,
               grant'[x].role = grant'[y].role, grant'[x].perm = grant'[y].perm
        PROVE  Excused("grant", x, y)'
    <3>1. CASE x # g /\ y # g
      <4>1. Excused("grant", x, y)
        BY <1>2, <1>6, <2>1, <3>1 DEF NoTwins, OneGrant
      <4> QED
        BY <1>8, <4>1 DEF Excused
    <3>2. CASE x = g \/ y = g
      <4>1. PICK h \in Grants \ {g} : /\ h \in {x, y} /\ grant[h] # Absent
                                      /\ grant[h].role = c.role /\ grant[h].perm = s.on
        BY <1>3, <1>6, <2>1, <3>2
      <4>2. CASE c.loose = TRUE
        BY <1>8, <3>2, <4>2 DEF Excused
      <4>3. CASE c.loose # TRUE
        <5>1. Excused("grant", g, h)
          BY <1>7, <4>1, <4>3
        <5> QED
          BY <1>8, <3>2, <4>1, <5>1 DEF Excused
      <4> QED
        BY <4>2, <4>3
    <3> QED
      BY <3>1, <3>2
  <2>2. OneGrant'
    BY <2>1 DEF OneGrant
  <2> QED
    BY <1>1, <1>2, <1>8, <2>2, Unwritten DEF NoTwins
<1>9. ASSUME todo'[p] = Tail(todo[p]), todo'[p] # <<>>, local'[p] = l
      PROVE  Fresh(p)'
  <2>1. /\ Head(todo'[p]) = todo[p][2] /\ Then(s, todo[p][2])
        /\ todo[p][2].do = "write_grant" => c.op = "create_role"
    BY <1>1, <1>2, <1>9, NextStep
  <2>2. Head(todo'[p]).do \in {"write_grant", "find_grant", "list_grants"}
    BY <1>1, <2>1 DEF Then
  <2>3. Running(p)' => Fits(local[p], todo[p])'
    BY <2>2, FitsVoid
  <2>4. ASSUME c.op = "create_role", c.loose # TRUE PROVE Ungranted(local[p], todo[p])'
    <3>1. c.found = Null
      BY <1>2, <2>4 DEF Asks, AsksFor
    <3>2. ASSUME NEW h \in Grants, grant'[h] # Absent, grant'[h].role = c.role
          PROVE  grant'[h] = grant[h] \/ grant'[h].perm = s.on
      BY <1>3, <1>6
    <3>3. SInv /\ Ungranted(c, todo[p]) /\ local'[p].role = c.role
      BY <1>2, <1>5, <1>9, <2>4
    <3> QED
      BY <1>1, <1>9, <2>4, <3>1, <3>2, <3>3, UngrantedRest
  <2>5. c.op \in {"create_role", "update_role"}
    BY <1>1, <1>2 DEF Fit
  <2> QED
    BY <1>5, <1>9, <2>1, <2>3, <2>4, <2>5, FreshFrom
<1>10. {<<"grant", g>>} \in SUBSET Rows /\ Commit(p, l, {<<"grant", g>>})
  BY <1>3, <1>4 DEF Rows
<1> QED
  BY <1>1, <1>5, <1>8, <1>9, <1>10, FreshCommits

\* The list of a role's grants is no name.
LEMMA ListGrantsFresh ==
  ASSUME IInv, SInv', NEW p \in Procs, ListGrants(p), UNCHANGED staffVars
  PROVE  IInv'
<1> DEFINE c == local[p]
<1>1. /\ Running(p) /\ Head(todo[p]).do = "list_grants"
      /\ role' = [role EXCEPT ![c.role].listed = c.listed, ![c.role].org = c.tenant]
      /\ Write(p, {})
      /\ UNCHANGED <<member, part, level, team, issued, grant>>
  BY DEF ListGrants, At, staffVars
<1>2. SInv /\ NoTwins /\ role \in [Roles -> Role \union {Absent}]
  BY <1>1, FirstFresh DEF SInv, TypeOK
<1>3. /\ c.role \in Roles /\ role[c.role] \in Role /\ role[c.role].org = c.tenant
  BY <1>1, <1>2, RoleHeld
<1>4. PICK new : new = [role[c.role] EXCEPT !.listed = c.listed, !.org = c.tenant]
  OBVIOUS
<1>5. /\ new.name = role[c.role].name /\ new.org = role[c.role].org
      /\ new.deleted = role[c.role].deleted
  BY <1>3, <1>4 DEF Role
<1>6. role' = [role EXCEPT ![c.role] = new]
  BY <1>1, <1>2, <1>3, <1>4
<1>7. role[c.role] # Absent
  BY <1>3, StaffAssumption
<1>8. ASSUME NEW r \in Roles, Live(role, r)'
      PROVE  Live(role, r) /\ role'[r].name = role[r].name /\ role'[r].org = role[r].org
  BY <1>2, <1>3, <1>5, <1>6, <1>7, <1>8 DEF Live
<1>9. ASSUME twins \subseteq twins' PROVE NoTwins'
  BY <1>1, <1>2, <1>8, <1>9, RolesRemain, Unwritten DEF NoTwins
<1>10. Tail(todo[p]) = <<>>
  BY <1>1, <1>2, LastStep
<1> QED
  BY <1>1, <1>9, <1>10, FreshWrites

\* A role that goes leaves no twins.
LEMMA DeleteRoleFresh ==
  ASSUME IInv, SInv', NEW p \in Procs, DeleteRole(p), UNCHANGED staffVars
  PROVE  IInv'
<1> DEFINE r == local[p].role
<1>1. /\ Running(p) /\ Head(todo[p]).do = "delete_role"
      /\ role' = IF role[r] # Absent /\ role[r].org = local[p].tenant
                 THEN [role EXCEPT ![r].deleted = TRUE] ELSE role
      /\ Write(p, {})
      /\ UNCHANGED <<member, part, level, team, issued, grant>>
  BY DEF DeleteRole, At, staffVars
<1>2. /\ SInv /\ NoTwins /\ role \in [Roles -> Role \union {Absent}]
      /\ Asks(local[p]) /\ Fit(local[p], Head(todo[p]))
  BY <1>1, FirstFresh DEF SInv, TypeOK
<1>3. r \in Roles
  BY <1>1, <1>2 DEF Asks, AsksFor, Fit
<1>4. ASSUME NEW s \in Roles, Live(role, s)'
      PROVE  Live(role, s) /\ role'[s] = role[s]
  <2>1. CASE role[r] # Absent /\ role' = [role EXCEPT ![r].deleted = TRUE]
    <3>1. role[r] \in Role
      BY <1>2, <1>3, <2>1
    <3>2. PICK new : new = [role[r] EXCEPT !.deleted = TRUE]
      OBVIOUS
    <3>3. new.deleted = TRUE /\ role' = [role EXCEPT ![r] = new]
      BY <2>1, <3>1, <3>2 DEF Role
    <3> QED
      BY <1>2, <1>3, <1>4, <3>3 DEF Live
  <2>2. CASE role' = role
    BY <1>4, <2>2 DEF Live
  <2> QED
    BY <1>1, <2>1, <2>2
<1>5. ASSUME twins \subseteq twins' PROVE NoTwins'
  BY <1>1, <1>2, <1>4, <1>5, RolesRemain, Unwritten DEF NoTwins
<1>6. Tail(todo[p]) = <<>>
  BY <1>1, <1>2, LastStep
<1> QED
  BY <1>1, <1>5, <1>6, FreshWrites

-----------------------------------------------------------------------------
(* Every step.                                                             *)

\* A request that comes has looked up nothing, and needs nothing yet.
LEMMA ComesFresh ==
  ASSUME IInv, SInv', NEW p \in Procs, NEW c, Asking(p, c)
  PROVE  IInv'
<1> DEFINE t == Script(c)
<1>1. /\ requests' = requests + 1 /\ todo' = [todo EXCEPT ![p] = t]
      /\ local' = [local EXCEPT ![p] = c] /\ UNCHANGED <<dbVars, twins, faults>>
      /\ Opening(c, t) /\ c \in Local
      /\ c.op = "create_role" => c.role = Null
  BY DEF Asking, Starts
<1> HIDE DEF t
<1>2. SInv /\ NoTwins /\ todo \in [Procs -> Seq(Todo)] /\ local \in [Procs -> Local]
  BY DEF IInv, SInv, TypeOK
<1>3. todo'[p] = t /\ local'[p] = c /\ Others(p)
  BY <1>1, <1>2 DEF Others
<1>4. /\ t \in Seq(Todo) /\ Len(t) >= 1
      /\ \A k \in 1 .. Len(t) :
           t[k].do \notin {"update_member", "find_lead", "find_level", "write_level",
                           "create_part"}
      /\ t[1].do \notin {"write_grant", "list_grants", "assign_role", "create_team",
                         "create_role", "rename_role", "delete_member"}
  BY <1>1 DEF Opening
<1>5. Head(t) = t[1] /\ 1 \in 1 .. Len(t)
  BY <1>4
<1>6. t[1].do \notin {"find_level", "write_level", "write_grant", "assign_role", "create_team",
                      "create_role", "rename_role"}
  BY <1>4, <1>5
<1>7. Fits(local[p], todo[p])'
  BY <1>1, <1>3, <1>5, <1>6 DEF Fits
<1>8. Cover(local[p].member, todo[p])'
  BY <1>3, <1>4 DEF Cover
<1>9. c.op = "create_role" => Ungranted(local[p], todo[p])'
  <2> SUFFICES ASSUME c.op = "create_role" PROVE Ungranted(local[p], todo[p])'
    OBVIOUS
  <2>1. grant' \in [Grants -> Grant \union {Absent}] /\ c.role = Null
    BY <1>1 DEF SInv, TypeOK
  <2>2. ASSUME NEW g \in Grants, grant'[g] # Absent, grant'[g].role = Null
        PROVE  FALSE
    <3>1. grant'[g].role \in Roles
      BY <2>1, <2>2 DEF Grant
    <3> QED
      BY <2>2, <3>1, StaffAssumption
  <2> QED
    BY <1>3, <2>1, <2>2 DEF Ungranted
<1>10. Head(todo'[p]).do # "write_grant"
  BY <1>3, <1>5, <1>6
<1>11. Fresh(p)'
  BY <1>3, <1>7, <1>8, <1>9, <1>10, FreshFrom
<1>12. NoTwins'
  BY <1>1, <1>2, TwinsSame
<1> QED
  BY <1>1, <1>3, <1>11, <1>12, Gather

\* Members, shifts, levels and teams.
LEMMA StaffFresh ==
  ASSUME IInv, SInv', NEW p \in Procs, StaffStep(p), UNCHANGED catalogue
  PROVE  IInv'
<1>1. CASE FindMember(p) BY <1>1, FindMemberFresh
<1>2. CASE LoadMember(p) BY <1>2, LoadMemberFresh
<1>3. CASE UpdateMember(p) BY <1>3, UpdateMemberFresh
<1>4. CASE DeletePart(p) BY <1>4, DeletePartFresh
<1>5. CASE CreatePart(p) BY <1>5, CreatePartFresh
<1>6. CASE FindRole(p) BY <1>6, FindRoleFresh
<1>7. CASE AssignRole(p) BY <1>7, AssignRoleFresh
<1>8. CASE DeleteMember(p) BY <1>8, DeleteMemberFresh
<1>9. CASE FindLead(p) BY <1>9, FindLeadFresh
<1>10. CASE FindLevel(p) BY <1>10, FindLevelFresh
<1>11. CASE WriteLevel(p) BY <1>11, WriteLevelFresh
<1>12. CASE DeleteLevel(p) BY <1>12, DeleteLevelFresh
<1>13. CASE FindTeam(p) BY <1>13, FindTeamFresh
<1>14. CASE CreateTeam(p) BY <1>14, CreateTeamFresh
<1>15. CASE DeleteTeam(p) BY <1>15, DeleteTeamFresh
<1> QED
  BY <1>1, <1>2, <1>3, <1>4, <1>5, <1>6, <1>7, <1>8, <1>9, <1>10, <1>11, <1>12, <1>13,
     <1>14, <1>15 DEF StaffStep

\* Roles and grants.
LEMMA CatalogueFresh ==
  ASSUME IInv, SInv', NEW p \in Procs, CatalogueStep(p), UNCHANGED staffVars
  PROVE  IInv'
<1>1. CASE LoadRole(p) BY <1>1, LoadRoleFresh
<1>2. CASE FindName(p) BY <1>2, FindNameFresh
<1>3. CASE CreateRole(p) BY <1>3, CreateRoleFresh
<1>4. CASE RenameRole(p) BY <1>4, RenameRoleFresh
<1>5. CASE FindGrant(p) BY <1>5, FindGrantFresh
<1>6. CASE WriteGrant(p) BY <1>6, WriteGrantFresh
<1>7. CASE ListGrants(p) BY <1>7, ListGrantsFresh
<1>8. CASE DeleteRole(p) BY <1>8, DeleteRoleFresh
<1> QED
  BY <1>1, <1>2, <1>3, <1>4, <1>5, <1>6, <1>7, <1>8 DEF CatalogueStep

\* There are no twins at first, and nobody has looked.
LEMMA IInvInit ==
  ASSUME Init
  PROVE  IInv
<1>1. SInv
  BY SInvInit
<1>2. \A p \in Procs : Fresh(p)
  BY DEF Init, Fresh, Running
<1>3. OnePart /\ OneLevel /\ OneGrant
  BY DEF Init, OnePart, OneLevel, OneGrant, Live
<1>4. OneTeam
  BY DEF Init, OneTeam
<1>5. OneRole
  BY DEF Init, OneRole, Live
<1> QED
  BY <1>1, <1>2, <1>3, <1>4, <1>5 DEF IInv, NoTwins

\* No step makes twins of rows but those of a loose request.
LEMMA IInvStep ==
  ASSUME IInv, [Next]_vars
  PROVE  IInv'
<1>1. SInv'
  BY SInvStep DEF IInv
<1>2. CASE Next
  <2>1. PICK p \in Procs : Client(p) \/ Step(p) \/ Fail(p)
    BY <1>2 DEF Next
  <2>2. CASE Client(p)
    BY <1>1, <2>2, ClientAsks, ComesFresh
  <2>3. CASE Step(p)
    BY <1>1, <2>3, StaffFresh, CatalogueFresh DEF Step
  <2>4. CASE Fail(p)
    BY <1>1, <2>4, FreshStops DEF Fail
  <2> QED
    BY <2>1, <2>2, <2>3, <2>4
<1>3. CASE UNCHANGED vars
  <2>1. UNCHANGED <<dbVars, twins>> /\ todo' = todo /\ local' = local
    BY <1>3 DEF vars
  <2>2. NoTwins'
    BY <2>1, TwinsSame DEF IInv
  <2>3. \A p \in Procs : Fresh(p)'
    BY <2>1, FreshSame DEF IInv
  <2> QED
    BY <1>1, <2>2, <2>3 DEF IInv
<1> QED
  BY <1>2, <1>3

\* Looking before writing keeps rows single, but for those of a request that
\* another task overtook or whose list names an entry twice: whatever else is
\* set, removed, cut short and repeated, no member has a role twice, no
\* organization two live teams or roles of one name, no member two live levels
\* in a team, no team two leads and no role two grants of one permission.
THEOREM RowsSingle == Spec => []NoTwins
<1>1. Init => IInv
  BY IInvInit
<1>2. IInv /\ [Next]_vars => IInv'
  BY IInvStep
<1>3. IInv => NoTwins
  BY DEF IInv
<1> QED
  BY <1>1, <1>2, <1>3, PTL DEF Spec
-----------------------------------------------------------------------------
(* Requests that are not loose.                                            *)

\* The parts of a member m that the steps t leave.
Stay(m, t) == PartsOf(m, Roles \union Days) \ Takes(t)

\* What update_member has done: with the steps t that a request c has left,
\* its member comes to have the parts asked for, each once, and its team is set
\* first.  A part yet to be deleted is none of those to be made.
Dealt(c, t) ==
  /\ Head(t).do # "update_member" => member[c.member].team = c.team
  /\ \A x \in Takes(t) : x \in 1 .. issued
  /\ Gives(t) \union {part[x].of : x \in Stay(c.member, t)} = Wanted(c)
  /\ \A x, y \in Stay(c.member, t) : part[x].of = part[y].of => x = y
  /\ Head(t).do = "write_level" /\ c.found # Null => Live(level, c.found)

\* Steps about a grant of the role.
OfGrants == {"find_grant", "write_grant"}

\* The permissions and flags that the steps t grant.
Allots(t) == {<<t[k].on, t[k].access>> : k \in {j \in 1 .. Len(t) : t[j].do \in OfGrants}}

\* The steps t grant no permission twice.
Singly(t) ==
  \A j, k \in 1 .. Len(t) :
    j # k /\ t[j].do \in OfGrants /\ t[k].do \in OfGrants => t[j].on # t[k].on

\* The role of a request c is named, and with the steps t that it has left lists
\* the grants asked for, each once.
Listing(c, t) ==
  /\ \/ Head(t).do \in OfGrants \union {"list_grants"} /\ role[c.role].name = c.name
     \/ Head(t).do \notin OfGrants \union {"list_grants"} /\ c.listed = {}
  /\ Singly(t)
  /\ \A g \in c.listed : grant[g] # Absent /\ grant[g].role = c.role
  /\ Allots(t) \union {<<grant[g].perm, grant[g].flags>> : g \in c.listed}
       = {c.grants[k] : k \in 1 .. Len(c.grants)}
  /\ \A g \in c.listed, e \in Allots(t) : grant[g].perm # e[1]
  /\ \A g, h \in c.listed : grant[g].perm = grant[h].perm => g = h
  /\ Entries(c)

\* A request that is not loose does what it was asked.
Due(p) ==
  Running(p) /\ local[p].loose # TRUE =>
    /\ local[p].op = "update_member" /\ Head(todo[p]).do # "load_member"
         => Dealt(local[p], todo[p])
    /\ local[p].op \in {"create_role", "update_role"} => Listing(local[p], todo[p])

\* Parts have the ids issued to them.
PartIds == \A x \in Parts : part[x] # Absent => x \in 1 .. issued

\* The inductive invariant of what requests do by their end.
XInv == IInv /\ PartIds /\ \A p \in Procs : Due(p)

\* What the rest of the steps give, take and grant.
LEMMA GivesRest ==
  ASSUME NEW S, NEW t \in Seq(S), t # <<>>
  PROVE  /\ Gives(t) = Gives(Tail(t)) \union {x \in {t[1].on} : t[1].do = "create_part"}
         /\ Takes(t) = Takes(Tail(t)) \union {x \in {t[1].on} : t[1].do = "delete_part"}
<1> DEFINE r == Tail(t)
<1>1. /\ Len(t) \in Nat /\ Len(t) >= 1 /\ Len(r) = Len(t) - 1
      /\ \A k \in 1 .. Len(t) - 1 : r[k] = t[k + 1]
  BY Rest
<1> HIDE DEF r
<1>2. \A k \in 1 .. Len(t) : k = 1 \/ (k - 1 \in 1 .. Len(r) /\ t[k] = r[k - 1])
  BY <1>1
<1>3. \A k \in 1 .. Len(r) : k + 1 \in 1 .. Len(t) /\ r[k] = t[k + 1]
  BY <1>1
<1>4. 1 \in 1 .. Len(t)
  BY <1>1
<1>5. Gives(t) = Gives(r) \union {x \in {t[1].on} : t[1].do = "create_part"}
  <2>1. ASSUME NEW x \in Gives(t) PROVE x \in Gives(r) \/ (x = t[1].on /\ t[1].do = "create_part")
    BY <1>2, <2>1 DEF Gives
  <2>2. ASSUME NEW x \in Gives(r) PROVE x \in Gives(t)
    BY <1>3, <2>2 DEF Gives
  <2>3. t[1].do = "create_part" => t[1].on \in Gives(t)
    BY <1>4 DEF Gives
  <2> QED
    BY ONLY <2>1, <2>2, <2>3
<1>6. Takes(t) = Takes(r) \union {x \in {t[1].on} : t[1].do = "delete_part"}
  <2>1. ASSUME NEW x \in Takes(t) PROVE x \in Takes(r) \/ (x = t[1].on /\ t[1].do = "delete_part")
    BY <1>2, <2>1 DEF Takes
  <2>2. ASSUME NEW x \in Takes(r) PROVE x \in Takes(t)
    BY <1>3, <2>2 DEF Takes
  <2>3. t[1].do = "delete_part" => t[1].on \in Takes(t)
    BY <1>4 DEF Takes
  <2> QED
    BY ONLY <2>1, <2>2, <2>3
<1> QED
  BY <1>5, <1>6 DEF r

\* What the rest of the steps grant.
LEMMA AllotsRest ==
  ASSUME NEW S, NEW t \in Seq(S), t # <<>>
  PROVE  Allots(t) = Allots(Tail(t)) \union
                       {x \in {<<t[1].on, t[1].access>>} : t[1].do \in OfGrants}
<1> DEFINE r == Tail(t)
<1>1. /\ Len(t) \in Nat /\ Len(t) >= 1 /\ Len(r) = Len(t) - 1
      /\ \A k \in 1 .. Len(t) - 1 : r[k] = t[k + 1]
  BY Rest
<1> HIDE DEF r
<1>2. \A k \in 1 .. Len(t) : k = 1 \/ (k - 1 \in 1 .. Len(r) /\ t[k] = r[k - 1])
  BY <1>1
<1>3. \A k \in 1 .. Len(r) : k + 1 \in 1 .. Len(t) /\ r[k] = t[k + 1]
  BY <1>1
<1>4. 1 \in 1 .. Len(t)
  BY <1>1
<1>5. Allots(t) = Allots(r) \union {x \in {<<t[1].on, t[1].access>>} : t[1].do \in OfGrants}
  BY <1>2, <1>3, <1>4 DEF Allots
<1> QED
  BY <1>5 DEF r

\* Joined scripts grant what both do.
LEMMA AllotsJoin ==
  ASSUME NEW S, NEW u \in Seq(S), NEW v \in Seq(S)
  PROVE  Allots(u \o v) = Allots(u) \union Allots(v)
<1> DEFINE w == u \o v
<1>1. /\ Len(u) \in Nat /\ Len(v) \in Nat /\ Len(w) = Len(u) + Len(v)
      /\ \A j \in 1 .. Len(u) : w[j] = u[j]
      /\ \A j \in 1 .. Len(v) : w[Len(u) + j] = v[j]
  BY Joined, LenProperties
<1>2. \A k \in 1 .. Len(w) :
        \/ k \in 1 .. Len(u) /\ w[k] = u[k]
        \/ k - Len(u) \in 1 .. Len(v) /\ w[k] = v[k - Len(u)]
  BY JoinedIndex
<1>3. /\ \A j \in 1 .. Len(u) : j \in 1 .. Len(w)
      /\ \A j \in 1 .. Len(v) : Len(u) + j \in 1 .. Len(w)
  BY <1>1
<1> HIDE DEF w
<1>4. Allots(w) \subseteq Allots(u) \union Allots(v)
  BY <1>2 DEF Allots
<1>5. Allots(u) \subseteq Allots(w) /\ Allots(v) \subseteq Allots(w)
  BY <1>1, <1>3 DEF Allots
<1> QED
  BY <1>4, <1>5 DEF w

\* No steps, no effects.
LEMMA NoStep ==
  ASSUME NEW t, Len(t) = 0
  PROVE  Gives(t) = {} /\ Takes(t) = {} /\ Allots(t) = {}
<1>1. \A k \in 1 .. Len(t) : FALSE
  OBVIOUS
<1> QED
  BY <1>1 DEF Gives, Takes, Allots

\* A step of one request either writes nothing or overtakes the others.
LEMMA ReadAlone ==
  ASSUME NEW p \in Procs, NEW l, Read(p, l), RunType
  PROVE  Others(p) /\ UNCHANGED dbVars
  BY DEF Read, Advance, Others, RunType

\* A read that puts other steps first.
LEMMA ExpandAlone ==
  ASSUME NEW p \in Procs, NEW l, NEW u, Expand(p, u, l), RunType
  PROVE  Others(p) /\ UNCHANGED dbVars
  BY DEF Expand, Others, RunType

\* An end of a request.
LEMMA StopAlone ==
  ASSUME NEW p \in Procs, Stop(p), RunType
  PROVE  Others(p) /\ UNCHANGED dbVars /\ todo'[p] = <<>>
  BY DEF Stop, Others, RunType

\* A commit tells the others that it overtook them.
LEMMA CommitAlone ==
  ASSUME NEW p \in Procs, NEW l, NEW rows, Commit(p, l, rows), RunType
  PROVE  \A q \in Procs \ {p} : todo'[q] = todo[q] /\ local'[q].loose = Running(q)
<1>1. /\ todo' = [todo EXCEPT ![p] = Tail(@)]
      /\ local' = [q \in Procs |-> IF q = p THEN IF AtEnd(p) THEN Blank ELSE l
                                   ELSE [local[q] EXCEPT !.loose = Running(q)]]
  BY DEF Commit, Advance
<1>2. ASSUME NEW q \in Procs \ {p}
      PROVE  todo'[q] = todo[q] /\ local'[q].loose = Running(q)
  <2>1. local[q] \in Local
    BY DEF RunType
  <2>2. local'[q] = [local[q] EXCEPT !.loose = Running(q)]
    BY <1>1
  <2>3. local'[q].loose = Running(q)
    BY <2>1, <2>2 DEF Local
  <2> QED
    BY <1>1, <2>3 DEF RunType
<1> QED
  BY <1>2

\* What a step of p leaves to the others: those that nobody overtook find the
\* tables as they were.
Apart(p) ==
  \A q \in Procs \ {p} :
    Running(q)' /\ local'[q].loose # TRUE =>
      todo'[q] = todo[q] /\ local'[q] = local[q] /\ UNCHANGED dbVars

\* A step that writes nothing.
LEMMA ApartQuiet ==
  ASSUME NEW p \in Procs, Others(p), UNCHANGED dbVars
  PROVE  Apart(p)
  BY DEF Apart, Others

\* A commit.
LEMMA ApartCommit ==
  ASSUME NEW p \in Procs, \A q \in Procs \ {p} : todo'[q] = todo[q] /\ local'[q].loose = Running(q)
  PROVE  Apart(p)
  BY DEF Apart, Running

\* Every way to take a step.
LEMMA ApartMoves ==
  ASSUME RunType, NEW p \in Procs,
         \/ \E l : Read(p, l)
         \/ \E u, l : Expand(p, u, l)
         \/ \E l, rows : Commit(p, l, rows)
         \/ Stop(p)
  PROVE  Apart(p)
  BY ReadAlone, ExpandAlone, StopAlone, CommitAlone, ApartQuiet, ApartCommit

\* Steps on members and teams are taken in one of these ways.
LEMMA StaffMoves ==
  ASSUME NEW p \in Procs, StaffStep(p)
  PROVE  \/ \E l : Read(p, l)
         \/ \E u, l : Expand(p, u, l)
         \/ \E l, rows : Commit(p, l, rows)
         \/ Stop(p)
<1>1. CASE FindMember(p) BY <1>1 DEF FindMember, Refuse
<1>2. CASE LoadMember(p) BY <1>2 DEF LoadMember, Refuse
<1>3. CASE UpdateMember(p) BY <1>3 DEF UpdateMember, Write
<1>4. CASE DeletePart(p) BY <1>4 DEF DeletePart, Write, Refuse
<1>5. CASE CreatePart(p) BY <1>5 DEF CreatePart, NewPart, Write
<1>6. CASE FindRole(p) BY <1>6 DEF FindRole, Refuse
<1>7. CASE AssignRole(p) BY <1>7 DEF AssignRole, NewPart, Write
<1>8. CASE DeleteMember(p) BY <1>8 DEF DeleteMember, Write
<1>9. CASE FindLead(p) BY <1>9 DEF FindLead, Refuse
<1>10. CASE FindLevel(p) BY <1>10 DEF FindLevel
<1>11. CASE WriteLevel(p) BY <1>11 DEF WriteLevel, Write
<1>12. CASE DeleteLevel(p) BY <1>12 DEF DeleteLevel, Write
<1>13. CASE FindTeam(p) BY <1>13 DEF FindTeam, Refuse
<1>14. CASE CreateTeam(p) BY <1>14 DEF CreateTeam, Write
<1>15. CASE DeleteTeam(p) BY <1>15 DEF DeleteTeam, Write, Refuse
<1> QED
  BY <1>1, <1>2, <1>3, <1>4, <1>5, <1>6, <1>7, <1>8, <1>9, <1>10, <1>11, <1>12, <1>13, <1>14,
     <1>15 DEF StaffStep

\* So are steps on roles.
LEMMA CatalogueMoves ==
  ASSUME NEW p \in Procs, CatalogueStep(p)
  PROVE  \/ \E l : Read(p, l)
         \/ \E u, l : Expand(p, u, l)
         \/ \E l, rows : Commit(p, l, rows)
         \/ Stop(p)
<1>1. CASE LoadRole(p) BY <1>1 DEF LoadRole, Refuse
<1>2. CASE FindName(p) BY <1>2 DEF FindName, Refuse
<1>3. CASE CreateRole(p) BY <1>3 DEF CreateRole
<1>4. CASE RenameRole(p) BY <1>4 DEF RenameRole, Write
<1>5. CASE FindGrant(p) BY <1>5 DEF FindGrant
<1>6. CASE WriteGrant(p) BY <1>6 DEF WriteGrant
<1>7. CASE ListGrants(p) BY <1>7 DEF ListGrants, Write
<1>8. CASE DeleteRole(p) BY <1>8 DEF DeleteRole, Write
<1> QED
  BY <1>1, <1>2, <1>3, <1>4, <1>5, <1>6, <1>7, <1>8 DEF CatalogueStep

\* No step changes a table under a request that it does not overtake.
LEMMA ApartStep ==
  ASSUME SInv, NEW p \in Procs, Client(p) \/ Step(p) \/ Fail(p)
  PROVE  Apart(p)
<1>1. RunType
  BY TypeParts DEF SInv
<1>2. CASE Client(p)
  <2>1. PICK c : Asking(p, c)
    BY <1>2, ClientAsks
  <2>2. Others(p) /\ UNCHANGED dbVars
    BY <1>1, <2>1 DEF Asking, Starts, Others, RunType
  <2> QED
    BY <2>2, ApartQuiet
<1>3. CASE Step(p)
  BY <1>1, <1>3, StaffMoves, CatalogueMoves, ApartMoves DEF Step
<1>4. CASE Fail(p)
  BY <1>1, <1>4, ApartMoves DEF Fail
<1> QED
  BY <1>2, <1>3, <1>4

\* The requests that make many commits.
Exacting == {"update_member", "create_role", "update_role"}

\* What a request is due stays so while it and the tables do.
LEMMA DueSame ==
  ASSUME NEW p \in Procs, Due(p), todo'[p] = todo[p], local'[p] = local[p], UNCHANGED dbVars
  PROVE  Due(p)'
<1>1. member' = member /\ part' = part /\ level' = level /\ issued' = issued /\ role' = role
      /\ grant' = grant
  BY DEF dbVars, staffVars, catalogue
<1> SUFFICES ASSUME Running(p)', local'[p].loose # TRUE
             PROVE  /\ local[p].op = "update_member" /\ Head(todo[p]).do # "load_member"
                         => Dealt(local[p], todo[p])'
                    /\ local[p].op \in {"create_role", "update_role"}
                         => Listing(local[p], todo[p])'
  BY DEF Due
<1>2. /\ local[p].op = "update_member" /\ Head(todo[p]).do # "load_member"
           => Dealt(local[p], todo[p])
      /\ local[p].op \in {"create_role", "update_role"} => Listing(local[p], todo[p])
  BY DEF Due, Running
<1>3. Dealt(local[p], todo[p]) => Dealt(local[p], todo[p])'
  BY <1>1 DEF Dealt, Stay, PartsOf, Live
<1>4. Listing(local[p], todo[p]) => Listing(local[p], todo[p])'
  BY <1>1 DEF Listing
<1> QED
  BY <1>2, <1>3, <1>4

\* Nothing is due of a request that is over, is loose or is of another kind.
LEMMA DueVoid ==
  ASSUME NEW p \in Procs,
         \/ todo'[p] = <<>>
         \/ local'[p].loose = TRUE
         \/ local'[p].op \notin Exacting
  PROVE  Due(p)'
  BY DEF Due, Running, Exacting

\* The others are left alone.
LEMMA DueGather ==
  ASSUME XInv, IInv', PartIds', NEW p \in Procs, Apart(p), Due(p)'
  PROVE  XInv'
<1>1. ASSUME NEW q \in Procs \ {p} PROVE Due(q)'
  <2>1. CASE Running(q)' /\ local'[q].loose # TRUE
    BY <2>1, DueSame DEF Apart, XInv
  <2>2. CASE ~(Running(q)' /\ local'[q].loose # TRUE)
    BY <2>2 DEF Due
  <2> QED
    BY <2>1, <2>2
<1> QED
  BY <1>1 DEF XInv

\* What a request that runs may count on.
LEMMA FirstDue ==
  ASSUME XInv, NEW p \in Procs, Running(p)
  PROVE  /\ IInv /\ SInv /\ PartIds
         /\ local[p].loose # TRUE =>
              /\ local[p].op = "update_member" /\ Head(todo[p]).do # "load_member"
                   => Dealt(local[p], todo[p])
              /\ local[p].op \in {"create_role", "update_role"} => Listing(local[p], todo[p])
  BY DEF XInv, IInv, Due

\* Only what gives and deletes parts writes their table.
LEMMA PartIdsSame ==
  ASSUME PartIds, part' = part, issued' = issued
  PROVE  PartIds'
  BY DEF PartIds

\* A new part has the next id.
LEMMA PartIdsNew ==
  ASSUME SInv, PartIds, NEW p, NEW what, NewPart(p, what)
  PROVE  PartIds'
<1>1. part \in [Parts -> Part \union {Absent}] /\ issued \in 0 .. MaxParts
  BY DEF SInv, TypeOK
<1>2. PICK new : new = [member |-> local[p].member, of |-> what]
  OBVIOUS
<1>3. part' = [part EXCEPT ![issued + 1] = new] /\ issued' = issued + 1
  BY <1>2 DEF NewPart
<1>4. MaxParts \in Nat
  BY StaffAssumption
<1> SUFFICES ASSUME NEW x \in Parts, part'[x] # Absent PROVE x \in 1 .. issued'
  BY DEF PartIds
<1>5. CASE x = issued + 1
  BY <1>1, <1>3, <1>4, <1>5
<1>6. CASE x # issued + 1
  <2>1. x \in 1 .. issued
    BY <1>1, <1>3, <1>6 DEF PartIds
  <2> QED
    BY <1>1, <1>3, <1>4, <2>1
<1> QED
  BY <1>5, <1>6

\* A part that goes gives its id to no other.
LEMMA PartIdsDeleted ==
  ASSUME SInv, PartIds, NEW p, DeletePart(p)
  PROVE  PartIds'
<1> DEFINE x == Head(todo[p]).on
<1>1. part \in [Parts -> Part \union {Absent}]
  BY DEF SInv, TypeOK
<1>2. CASE part' = [part EXCEPT ![x] = Absent] /\ issued' = issued
  <2>1. \A y \in Parts : part'[y] # Absent => part[y] # Absent
    BY <1>1, <1>2
  <2> QED
    BY <1>2, <2>1 DEF PartIds
<1>3. CASE Refuse(p)
  BY <1>3, PartIdsSame DEF Refuse, Stop, dbVars, staffVars
<1> QED
  BY <1>1, <1>2, <1>3, PartGoes

\* A step that writes nothing.
LEMMA PartIdsQuiet ==
  ASSUME PartIds, NEW p, \/ \E l : Read(p, l)
                         \/ \E u, l : Expand(p, u, l)
                         \/ Refuse(p)
  PROVE  PartIds'
<1>1. UNCHANGED dbVars
  BY DEF Read, Expand, Refuse, Stop
<1> QED
  BY <1>1, PartIdsSame DEF dbVars, staffVars

\* No step issues an id twice.
LEMMA PartIdsStep ==
  ASSUME XInv, NEW p \in Procs, Client(p) \/ Step(p) \/ Fail(p)
  PROVE  PartIds'
<1>1. PartIds /\ SInv
  BY DEF XInv, IInv
<1>2. CASE Client(p)
  <2>1. PICK c : Asking(p, c)
    BY <1>2, ClientAsks
  <2> QED
    BY <1>1, <2>1, PartIdsSame DEF Asking, Starts, dbVars, staffVars
<1>3. CASE Fail(p)
  BY <1>1, <1>3, PartIdsSame DEF Fail, Stop, dbVars, staffVars
<1>4. CASE CatalogueStep(p) /\ UNCHANGED staffVars
  BY <1>1, <1>4, PartIdsSame DEF staffVars
<1>5. CASE StaffStep(p)
  <2>1. CASE FindMember(p) BY <1>1, <2>1, PartIdsQuiet DEF FindMember
  <2>2. CASE LoadMember(p) BY <1>1, <2>2, PartIdsQuiet DEF LoadMember
  <2>3. CASE UpdateMember(p) BY <1>1, <2>3, PartIdsSame DEF UpdateMember
  <2>4. CASE DeletePart(p) BY <1>1, <2>4, PartIdsDeleted
  <2>5. CASE CreatePart(p) BY <1>1, <2>5, PartIdsNew DEF CreatePart
  <2>6. CASE FindRole(p) BY <1>1, <2>6, PartIdsQuiet DEF FindRole
  <2>7. CASE AssignRole(p) BY <1>1, <2>7, PartIdsNew DEF AssignRole
  <2>8. CASE DeleteMember(p) BY <1>1, <2>8, PartIdsSame DEF DeleteMember
  <2>9. CASE FindLead(p) BY <1>1, <2>9, PartIdsQuiet DEF FindLead
  <2>10. CASE FindLevel(p) BY <1>1, <2>10, PartIdsQuiet DEF FindLevel
  <2>11. CASE WriteLevel(p) BY <1>1, <2>11, PartIdsSame DEF WriteLevel
  <2>12. CASE DeleteLevel(p) BY <1>1, <2>12, PartIdsSame DEF DeleteLevel
  <2>13. CASE FindTeam(p) BY <1>1, <2>13, PartIdsQuiet DEF FindTeam
  <2>14. CASE CreateTeam(p) BY <1>1, <2>14, PartIdsSame DEF CreateTeam
  <2>15. CASE DeleteTeam(p) BY <1>1, <2>15, PartIdsSame, PartIdsQuiet DEF DeleteTeam
  <2> QED
    BY <1>5, <2>1, <2>2, <2>3, <2>4, <2>5, <2>6, <2>7, <2>8, <2>9, <2>10, <2>11, <2>12, <2>13,
       <2>14, <2>15 DEF StaffStep
<1> QED
  BY <1>2, <1>3, <1>4, <1>5 DEF Step

-----------------------------------------------------------------------------
(* Updates of members.                                                     *)

\* The parts of a member.
LEMMA StayIn ==
  ASSUME NEW m, NEW t, NEW x \in Stay(m, t)
  PROVE  x \in Parts /\ part[x] # Absent /\ part[x].member = m
         /\ part[x].of \in Roles \union Days
  BY DEF Stay, PartsOf

\* The rows that an update has loaded are deleted, and the others made.
LEMMA LoadMemberDue ==
  ASSUME XInv, NEW p \in Procs, LoadMember(p)
  PROVE  Due(p)'
<1> DEFINE c == local[p]
           s == Head(todo[p])
<1>1. /\ Running(p) /\ s.do = "load_member"
      /\ Expand(p, Rewrite(c), c) \/ Refuse(p)
  BY DEF LoadMember, At
<1>2. SInv /\ PartIds /\ RunType /\ TypeOK
  BY <1>1, FirstDue, TypeParts DEF SInv
<1>3. c \in Local /\ Fit(c, s) /\ Asks(c)
  BY <1>1, <1>2, FirstStep
<1>4. c.op = "update_member"
  BY <1>1, <1>3 DEF Fit
<1>5. CASE Expand(p, Rewrite(c), c)
  <2> DEFINE u == Rewrite(c)
  <2>1. /\ u \in Seq(Todo) /\ Len(u) >= 3 /\ u[1].do = "update_member"
        /\ Gives(u) = Wanted(c)
        /\ Takes(u) = PartsOf(c.member, Roles \union Days)
    BY <1>2, <1>3, <1>4, RewriteScript
  <2>2. Expand(p, u, c)
    BY <1>5
  <2>3. Tail(todo[p]) = <<>>
    BY <1>1, <1>2, LastStep
  <2> HIDE DEF u
  <2>4. u \o <<>> = u
    BY <2>1, ConcatEmptySeq
  <2>5. todo'[p] = u \o Tail(todo[p]) /\ local'[p] = c /\ UNCHANGED dbVars
    BY <1>1, <1>2, <1>3, <2>1, <2>2, ExpandRuns
  <2>6. todo'[p] = u /\ Head(u) = u[1]
    <3>1. u # <<>>
      BY <2>1
    <3>2. Head(u) = u[1]
      BY ONLY <2>1, <3>1, Rest
    <3> QED
      BY <2>3, <2>4, <2>5, <3>2
  <2>7. part' = part /\ issued' = issued
    BY <2>5 DEF dbVars, staffVars
  <2>8. Stay(c.member, u) = {}
    BY <2>1 DEF Stay
  <2>9. \A x \in Takes(u) : x \in 1 .. issued
    BY <1>2, <2>1 DEF PartIds, PartsOf
  <2>10. Dealt(c, u)
    BY <2>1, <2>6, <2>8, <2>9 DEF Dealt
  <2>11. Dealt(local[p], todo[p])'
    <3>1. local'[p] = c /\ todo'[p] = u /\ UNCHANGED <<member, part, issued, level>>
      BY <2>5, <2>6 DEF dbVars, staffVars
    <3> HIDE DEF c
    <3> QED
      BY <2>10, <3>1 DEF Dealt, Stay, PartsOf, Live
  <2> QED
    BY <1>4, <2>5, <2>11 DEF Due
<1>6. CASE Refuse(p)
  BY <1>2, <1>6, StopAlone, DueVoid DEF Refuse
<1> QED
  BY <1>1, <1>5, <1>6

\* An update goes on with what is left.
LEMMA DealtRest ==
  ASSUME SInv, NEW p \in Procs, Running(p), local[p].op = "update_member",
         Dealt(local[p], todo[p]), todo'[p] = Tail(todo[p]), todo'[p] # <<>>,
         NEW r, r = Tail(todo[p]),
         NEW l, local'[p] = l, l.op = local[p].op,
         l.member = local[p].member, l.team = local[p].team,
         l.roles = local[p].roles, l.days = local[p].days,
         Head(todo[p]).do \in OfParts \union {"find_level"},
         member'[l.member].team = l.team, issued' \in Nat, issued \in Nat, issued <= issued',
         Gives(r) \union {part'[x].of : x \in Stay(l.member, r)'} = Wanted(l),
         \A x, y \in Stay(l.member, r)' : part'[x].of = part'[y].of => x = y,
         Head(todo[p]).do = "find_level" /\ l.found # Null => Live(level, l.found)'
  PROVE  Due(p)'
<1> DEFINE t == todo[p]
<1>1. /\ Len(t) >= 2 /\ Head(todo'[p]) = t[2] /\ Then(Head(t), t[2])
  BY NextStep
<1>2. Head(todo'[p]).do \in {"delete_part", "create_part", "find_level", "write_level"}
      /\ (Head(todo'[p]).do = "write_level" => Head(t).do = "find_level")
  BY <1>1 DEF Then, OfParts
<1>3. t \in Seq(Todo) /\ t # <<>>
  BY FirstStep
<1>4. \A x \in Takes(r) : x \in Takes(t)
  BY <1>3, GivesRest
<1>5. \A x \in Takes(r) : x \in 1 .. issued'
  <2> TAKE x \in Takes(r)
  <2>1. x \in 1 .. issued
    BY <1>4 DEF Dealt
  <2> QED
    BY <2>1
<1>6. Dealt(local[p], todo[p])'
  <2>1. Head(todo'[p]).do # "update_member" /\ (Head(todo'[p]).do = "write_level" /\ l.found # Null
                                                => Live(level, l.found)')
    BY <1>2
  <2> QED
    BY <1>5, <2>1 DEF Dealt
<1> QED
  BY <1>6 DEF Due

\* Steps that leave the parts in place.
LEMMA DealtQuiet ==
  ASSUME SInv, NEW p \in Procs, Running(p), local[p].op = "update_member",
         Dealt(local[p], todo[p]), todo'[p] = Tail(todo[p]), todo'[p] # <<>>,
         NEW l, local'[p] = l, l.op = local[p].op,
         l.member = local[p].member, l.team = local[p].team,
         l.roles = local[p].roles, l.days = local[p].days,
         Head(todo[p]).do \in {"update_member", "find_level"},
         member'[l.member].team = l.team, part' = part, issued' = issued,
         Head(todo[p]).do = "find_level" /\ l.found # Null => Live(level, l.found)'
  PROVE  Due(p)'
<1> DEFINE t == todo[p]
<1>1. PICK r : r = Tail(t)
  OBVIOUS
<1>2. t \in Seq(Todo) /\ t # <<>> /\ Head(t) = t[1] /\ DbType
  BY FirstStep
<1>3. Gives(r) = Gives(t) /\ Takes(r) = Takes(t)
  BY <1>1, <1>2, GivesRest
<1>4. Stay(l.member, r)' = Stay(l.member, t)
  BY <1>3 DEF Stay, PartsOf
<1>5. issued \in Nat
  BY <1>2 DEF DbType
<1>6. Gives(r) \union {part'[x].of : x \in Stay(l.member, r)'} = Wanted(l)
  BY <1>3, <1>4 DEF Dealt, Wanted
<1>7. \A x, y \in Stay(l.member, r)' : part'[x].of = part'[y].of => x = y
  BY <1>4 DEF Dealt
<1>8. issued' \in Nat /\ issued <= issued'
  BY <1>5
<1>9. Head(todo[p]).do \in OfParts \union {"find_level"}
  BY DEF OfParts
<1> QED
  BY <1>1, <1>5, <1>6, <1>7, <1>8, <1>9, DealtRest

\* A commit that changes nothing of what the request knows.
LEMMA WriteRuns ==
  ASSUME SInv, NEW p \in Procs, Running(p), NEW rows \in SUBSET Rows, Write(p, rows)
  PROVE  todo'[p] = Tail(todo[p]) /\ (todo'[p] # <<>> => local'[p] = local[p])
<1>1. RunType /\ local[p] \in Local /\ Commit(p, local[p], rows)
  BY FirstStep DEF Write
<1> QED
  BY <1>1, CommitRuns

\* The team is set first.
LEMMA UpdateMemberDue ==
  ASSUME XInv, NEW p \in Procs, UpdateMember(p)
  PROVE  Due(p)'
<1> DEFINE c == local[p]
<1>1. /\ Running(p) /\ Head(todo[p]).do = "update_member"
      /\ member' = [member EXCEPT ![c.member].team = c.team, ![c.member].org = c.tenant]
      /\ Write(p, {}) /\ UNCHANGED <<part, level, team, issued>>
  BY DEF UpdateMember, At
<1>2. SInv /\ RunType /\ DbType
  BY <1>1, FirstDue, TypeParts DEF SInv
<1>3. c \in Local /\ Fit(c, Head(todo[p])) /\ Asks(c) /\ Looked(c, Head(todo[p]))
  BY <1>1, <1>2, FirstStep
<1>4. c.op = "update_member" /\ c.member \in Members
  BY <1>1, <1>3 DEF Fit, Asks, AsksFor, OfMember
<1>5. member'[c.member].team = c.team
  <2>1. member[c.member] \in Member
    BY <1>1, <1>2, <1>3, <1>4 DEF DbType, Looked, Belongs
  <2>2. member'[c.member] = [member[c.member] EXCEPT !.team = c.team, !.org = c.tenant]
    BY <1>1, <1>2, <1>4 DEF DbType
  <2> QED
    BY <2>1, <2>2 DEF Member
<1>6. todo'[p] = Tail(todo[p]) /\ (todo'[p] # <<>> => local'[p] = c)
  BY <1>1, <1>2, WriteRuns
<1>7. CASE todo'[p] # <<>> /\ c.loose # TRUE
  <2>1. Dealt(c, todo[p])
    BY <1>1, <1>4, <1>7, FirstDue
  <2> QED
    BY <1>1, <1>2, <1>4, <1>5, <1>6, <1>7, <2>1, DealtQuiet
<1>8. CASE todo'[p] = <<>> \/ c.loose = TRUE
  BY <1>6, <1>8, DueVoid
<1> QED
  BY <1>3, <1>7, <1>8 DEF Local

\* A part that was to be deleted is.
LEMMA StayDeleted ==
  ASSUME NEW m, NEW t, NEW r, NEW d, DbType, part' = [part EXCEPT ![d] = Absent],
         Takes(t) = Takes(r) \union {d}
  PROVE  /\ Stay(m, r)' = Stay(m, t)
         /\ \A x \in Stay(m, t) : part'[x] = part[x]
<1>1. \A x \in Parts : x # d => part'[x] = part[x]
  BY DEF DbType
<1>2. d \in Parts => part'[d] = Absent
  BY DEF DbType
<1>3. Stay(m, r)' = Stay(m, t)
  BY <1>1, <1>2 DEF Stay, PartsOf
<1>4. \A x \in Stay(m, t) : x \in Parts /\ x # d
  BY DEF Stay, PartsOf
<1> QED
  BY <1>1, <1>3, <1>4

\* Each part that was there goes.
LEMMA DeletePartDue ==
  ASSUME XInv, NEW p \in Procs, DeletePart(p)
  PROVE  Due(p)'
<1>0. PICK c, t : c = local[p] /\ t = todo[p]
  OBVIOUS
<1>1. PICK d : d = Head(t).on
  OBVIOUS
<1>2. /\ Running(p) /\ Head(t).do = "delete_part"
      /\ \/ /\ part' = [part EXCEPT ![d] = Absent] /\ Write(p, {})
            /\ UNCHANGED <<member, level, team, issued>>
         \/ Refuse(p)
  BY <1>0, <1>1, PartGoes DEF XInv, IInv, SInv, TypeOK
<1>3. SInv /\ RunType /\ DbType
  BY <1>2, FirstDue, TypeParts DEF SInv
<1>4. /\ c \in Local /\ Fit(c, Head(t)) /\ t \in Seq(Todo) /\ t # <<>> /\ Head(t) = t[1]
  BY <1>0, <1>2, <1>3, FirstStep
<1>5. c.op = "update_member"
  BY <1>2, <1>4 DEF Fit
<1>6. CASE Refuse(p)
  BY <1>3, <1>6, StopAlone, DueVoid DEF Refuse
<1>7. CASE part' = [part EXCEPT ![d] = Absent] /\ Write(p, {})
           /\ UNCHANGED <<member, level, team, issued>>
  <2>1. todo'[p] = Tail(todo[p]) /\ (todo'[p] # <<>> => local'[p] = c)
    BY <1>0, <1>2, <1>3, <1>7, WriteRuns
  <2>2. CASE todo'[p] # <<>> /\ c.loose # TRUE
    <3>1. Dealt(c, t)
      BY <1>0, <1>2, <1>5, <2>2, FirstDue
    <3>2. PICK r : r = Tail(t)
      OBVIOUS
    <3>3. Gives(r) = Gives(t) /\ Takes(t) = Takes(r) \union {d}
      <4>1. /\ Gives(t) = Gives(r) \union {x \in {t[1].on} : t[1].do = "create_part"}
            /\ Takes(t) = Takes(r) \union {x \in {t[1].on} : t[1].do = "delete_part"}
        BY ONLY <1>4, <3>2, GivesRest
      <4>2. t[1].do = "delete_part" /\ t[1].on = d
        BY <1>1, <1>2, <1>4
      <4> QED
        BY ONLY <4>1, <4>2
    <3>4. /\ Stay(c.member, r)' = Stay(c.member, t)
          /\ \A x \in Stay(c.member, t) : part'[x] = part[x]
      BY <1>3, <1>7, <3>3, StayDeleted
    <3>5. Gives(r) \union {part'[x].of : x \in Stay(c.member, r)'} = Wanted(c)
      BY <3>1, <3>3, <3>4 DEF Dealt
    <3>6. \A x, y \in Stay(c.member, r)' : part'[x].of = part'[y].of => x = y
      BY <3>1, <3>4 DEF Dealt
    <3>7. member'[c.member].team = c.team
      BY <1>2, <1>7, <3>1 DEF Dealt
    <3>8. issued \in Nat /\ issued' \in Nat /\ issued <= issued'
      BY <1>3, <1>7 DEF DbType
    <3>9. Head(todo[p]).do \in OfParts \union {"find_level"} /\ Head(todo[p]).do # "find_level"
      BY <1>0, <1>2 DEF OfParts
    <3> QED
      BY <1>0, <1>2, <1>3, <1>5, <2>1, <2>2, <3>1, <3>2, <3>5, <3>6, <3>7, <3>8, <3>9, DealtRest
  <2>3. CASE todo'[p] = <<>> \/ c.loose = TRUE
    BY <2>1, <2>3, DueVoid
  <2> QED
    BY <1>4, <2>2, <2>3 DEF Local
<1> QED
  BY <1>2, <1>6, <1>7

\* What a member gets it does not have.
LEMMA Uncovered ==
  ASSUME NEW m, NEW S, NEW t \in Seq(S), t # <<>>, t[1].do = "create_part", Cover(m, t),
         NEW x \in Parts, part[x] # Absent, part[x].member = m
  PROVE  part[x].of # t[1].on
<1>1. 1 \in 1 .. Len(t)
  BY Rest
<1> SUFFICES ASSUME part[x].of = t[1].on PROVE FALSE
  OBVIOUS
<1>2. PICK j \in 1 .. 1 - 1 : TRUE
  BY <1>1 DEF Cover
<1> QED
  BY <1>2

\* A part that was to be made is.
LEMMA StayMade ==
  ASSUME NEW m, NEW t, DbType, NEW n \in Parts, part[n] = Absent, n \notin Takes(t),
         NEW new \in Part, new.member = m, part' = [part EXCEPT ![n] = new]
  PROVE  /\ Stay(m, t)' = Stay(m, t) \union {n}
         /\ \A x \in Stay(m, t) : part'[x] = part[x]
<1>1. part'[n] = new /\ \A x \in Parts : x # n => part'[x] = part[x]
  BY DEF DbType
<1>2. Stay(m, t)' = Stay(m, t) \union {n}
  <2>1. n \in Stay(m, t)'
    <3>1. new # Absent /\ new.of \in Roles \union Days
      BY StaffAssumption DEF Part
    <3> QED
      BY <1>1, <3>1 DEF Stay, PartsOf
  <2>2. \A x \in Parts \ {n} : x \in Stay(m, t)' <=> x \in Stay(m, t)
    BY <1>1 DEF Stay, PartsOf
  <2>3. Stay(m, t)' \subseteq Parts /\ Stay(m, t) \subseteq Parts /\ n \notin Stay(m, t)
    BY DEF Stay, PartsOf
  <2> QED
    BY <2>1, <2>2, <2>3
<1>3. \A x \in Stay(m, t) : x \in Parts /\ x # n
  BY DEF Stay, PartsOf
<1> QED
  BY <1>1, <1>2, <1>3

\* Each part asked for comes once.
LEMMA CreatePartDue ==
  ASSUME XInv, NEW p \in Procs, CreatePart(p)
  PROVE  Due(p)'
<1>0. PICK c, t, d : c = local[p] /\ t = todo[p] /\ d = Head(t).on
  OBVIOUS
<1>1. PICK new, n : new = [member |-> c.member, of |-> d] /\ n = issued + 1
  OBVIOUS
<1>2. /\ Running(p) /\ Head(t).do = "create_part"
      /\ issued < MaxParts /\ issued' = n
      /\ part' = [part EXCEPT ![n] = new]
      /\ Write(p, {<<"part", n>>})
      /\ UNCHANGED <<member, level, team>>
  BY <1>0, <1>1 DEF CreatePart, NewPart, At
<1>3. SInv /\ RunType /\ DbType /\ PartIds /\ IInv
  BY <1>2, FirstDue, TypeParts DEF SInv
<1>4. /\ c \in Local /\ Fit(c, Head(t)) /\ Asks(c)
      /\ t \in Seq(Todo) /\ t # <<>> /\ Head(t) = t[1]
  BY <1>0, <1>2, <1>3, FirstStep
<1>5. c.op = "update_member" /\ d \in Roles \union Days
  BY <1>0, <1>2, <1>4 DEF Fit
<1>6. n \in Parts
  BY <1>1, <1>2, <1>3, StaffAssumption DEF DbType, Parts
<1>7. {<<"part", n>>} \in SUBSET Rows
  BY <1>6 DEF Rows
<1>8. todo'[p] = Tail(todo[p]) /\ (todo'[p] # <<>> => local'[p] = c)
  BY <1>0, <1>2, <1>3, <1>7, WriteRuns
<1>9. CASE todo'[p] # <<>> /\ c.loose # TRUE
  <2>1. Dealt(c, t) /\ Cover(c.member, t)
    BY <1>0, <1>2, <1>3, <1>5, <1>9, FirstDue, FirstFresh
  <2>2. PICK r : r = Tail(t)
    OBVIOUS
  <2>3. Gives(t) = Gives(r) \union {d} /\ Takes(t) = Takes(r)
    <3>1. /\ Gives(t) = Gives(r) \union {x \in {t[1].on} : t[1].do = "create_part"}
          /\ Takes(t) = Takes(r) \union {x \in {t[1].on} : t[1].do = "delete_part"}
      BY ONLY <1>4, <2>2, GivesRest
    <3>2. t[1].do = "create_part" /\ t[1].on = d
      BY <1>0, <1>2, <1>4
    <3> QED
      BY ONLY <3>1, <3>2
  <2>4. part[n] = Absent /\ n \notin Takes(t)
    <3>1. n \notin 1 .. issued
      BY <1>1, <1>3 DEF DbType
    <3> QED
      BY <1>3, <1>6, <2>1, <3>1 DEF PartIds, Dealt
  <2>5. new \in Part /\ new.member = c.member /\ new.of = d
    BY <1>1, <1>4, <1>5 DEF Part, Asks, AsksFor, OfMember
  <2>6. /\ Stay(c.member, r)' = Stay(c.member, t) \union {n} /\ part'[n] = new
        /\ \A x \in Stay(c.member, t) : part'[x] = part[x]
    <3>1. part' = [part EXCEPT ![n] = new] /\ part \in [Parts -> Part \union {Absent}]
      BY <1>2, <1>3 DEF DbType
    <3>2. part'[n] = new
      BY ONLY <1>6, <3>1
    <3>3. /\ Stay(c.member, t)' = Stay(c.member, t) \union {n}
          /\ \A x \in Stay(c.member, t) : part'[x] = part[x]
      BY ONLY <1>3, <1>6, <2>4, <2>5, <3>1, StayMade
    <3>4. Stay(c.member, r)' = Stay(c.member, t)'
      BY ONLY <2>3 DEF Stay
    <3> QED
      BY ONLY <3>2, <3>3, <3>4
  <2>7. \A x \in Stay(c.member, t) : part[x].of # d
    <3> TAKE x \in Stay(c.member, t)
    <3>1. x \in Parts /\ part[x] # Absent /\ part[x].member = c.member
      BY StayIn
    <3> QED
      BY <1>0, <1>2, <1>4, <2>1, <3>1, Uncovered
  <2>8. Gives(r) \union {part'[x].of : x \in Stay(c.member, r)'} = Wanted(c)
    <3>1. Gives(t) \union {part[x].of : x \in Stay(c.member, t)} = Wanted(c)
      BY <2>1 DEF Dealt
    <3>2. {part'[x].of : x \in Stay(c.member, r)'}
            = {part[x].of : x \in Stay(c.member, t)} \union {d}
      BY ONLY <2>5, <2>6
    <3> QED
      BY ONLY <2>3, <3>1, <3>2
  <2>9. \A x, y \in Stay(c.member, r)' : part'[x].of = part'[y].of => x = y
    <3>1. \A x, y \in Stay(c.member, t) : part[x].of = part[y].of => x = y
      BY <2>1 DEF Dealt
    <3> QED
      BY ONLY <2>5, <2>6, <2>7, <3>1
  <2>10. member'[c.member].team = c.team
    BY <1>2, <2>1 DEF Dealt
  <2>11. issued \in Nat /\ issued' \in Nat /\ issued <= issued'
    BY <1>1, <1>2, <1>3 DEF DbType
  <2>12. Head(todo[p]).do \in OfParts \union {"find_level"} /\ Head(todo[p]).do # "find_level"
    BY <1>0, <1>2 DEF OfParts
  <2> QED
    BY <1>0, <1>2, <1>3, <1>5, <1>8, <1>9, <2>1, <2>2, <2>8, <2>9, <2>10, <2>11, <2>12, DealtRest
<1>10. CASE todo'[p] = <<>> \/ c.loose = TRUE
  BY <1>8, <1>10, DueVoid
<1> QED
  BY <1>4, <1>9, <1>10 DEF Local

\* The level that was found is there.
LEMMA FindLevelDue ==
  ASSUME XInv, NEW p \in Procs, FindLevel(p)
  PROVE  Due(p)'
<1>0. PICK c, t : c = local[p] /\ t = todo[p]
  OBVIOUS
<1> DEFINE rows == LevelsOf(Head(t).on, c.team, c.tenant)
<1>1. /\ Running(p) /\ Head(t).do = "find_level"
      /\ \E a \in IF rows = {} THEN {Null} ELSE rows : Read(p, [c EXCEPT !.found = a])
  BY <1>0 DEF FindLevel, At
<1>2. PICK a : a \in rows \union {Null} /\ Read(p, [c EXCEPT !.found = a])
  BY <1>1
<1>3. SInv /\ RunType /\ DbType
  BY <1>1, FirstDue, TypeParts DEF SInv
<1>4. c \in Local
  BY <1>0, <1>1, <1>3, FirstStep
<1>5. a # Null => a \in Levels /\ Live(level, a)
  BY <1>2 DEF LevelsOf
<1>6. PICK l : l = [c EXCEPT !.found = a]
  OBVIOUS
<1>7. /\ l.op = c.op /\ l.member = c.member /\ l.team = c.team /\ l.roles = c.roles
      /\ l.days = c.days /\ l.loose = c.loose /\ l.found = a
  BY ONLY <1>4, <1>6 DEF Local
<1>8. l \in Local
  BY <1>4, <1>5, <1>6 DEF Local
<1>9. /\ todo'[p] = Tail(todo[p]) /\ (todo'[p] # <<>> => local'[p] = l)
      /\ UNCHANGED dbVars
  BY <1>1, <1>2, <1>3, <1>6, <1>8, ReadRuns
<1>10. CASE todo'[p] # <<>> /\ c.loose # TRUE /\ c.op = "update_member"
  <2>1. Dealt(c, t)
    BY <1>0, <1>1, <1>10, FirstDue
  <2>2. UNCHANGED <<member, part, level, issued>>
    BY <1>9 DEF dbVars, staffVars
  <2>3. member'[l.member].team = l.team
    BY <1>1, <1>7, <2>1, <2>2 DEF Dealt
  <2>4. l.found # Null => Live(level, l.found)'
    BY <1>5, <1>7, <2>2 DEF Live
  <2> QED
    BY <1>0, <1>1, <1>3, <1>7, <1>9, <1>10, <2>1, <2>2, <2>3, <2>4, DealtQuiet
<1>11. CASE todo'[p] = <<>> \/ c.loose = TRUE
  BY <1>7, <1>9, <1>11, DueVoid
<1>12. CASE c.op # "update_member"
  <2>1. c.op = "set_levels"
    BY <1>0, <1>1, <1>3, <1>12, FirstStep DEF Fit
  <2> QED
    BY <1>7, <1>9, <2>1, DueVoid DEF Exacting
<1> QED
  BY <1>4, <1>10, <1>11, <1>12 DEF Local

\* The last step leaves nothing due.
LEMMA WriteLevelDue ==
  ASSUME XInv, NEW p \in Procs, WriteLevel(p)
  PROVE  Due(p)'
<1>1. Running(p) /\ Head(todo[p]).do = "write_level"
  BY DEF WriteLevel, At
<1>2. SInv
  BY <1>1, FirstDue
<1>3. PICK a \in Levels : Write(p, {<<"level", a>>})
  BY <1>2, LevelRow
<1>4. {<<"level", a>>} \in SUBSET Rows
  BY DEF Rows
<1>5. todo'[p] = Tail(todo[p]) /\ (todo'[p] # <<>> => local'[p] = local[p])
  BY <1>1, <1>2, <1>3, <1>4, WriteRuns
<1>6. ASSUME todo'[p] # <<>> PROVE local[p].op \notin Exacting
  <2>1. Then(Head(todo[p]), todo[p][2]) /\ Fit(local[p], todo[p][2])
    BY <1>1, <1>2, <1>5, <1>6, NextStep
  <2>2. todo[p][2].do = "find_member"
    BY <1>1, <2>1 DEF Then
  <2> QED
    BY <2>1, <2>2 DEF Fit, Exacting
<1> QED
  BY <1>5, <1>6, DueVoid

-----------------------------------------------------------------------------
(* Requests on roles.                                                      *)

\* Joined scripts that grant apart grant no permission twice.
LEMMA SinglyJoin ==
  ASSUME NEW S, NEW u \in Seq(S), NEW v \in Seq(S), Singly(u), Singly(v),
         \A j \in 1 .. Len(u), k \in 1 .. Len(v) :
           u[j].do \notin OfGrants \/ v[k].do \notin OfGrants
  PROVE  Singly(u \o v)
<1> DEFINE w == u \o v
<1>1. Len(u) \in Nat /\ Len(v) \in Nat /\ Len(w) = Len(u) + Len(v)
  BY Joined, LenProperties
<1>2. \A k \in 1 .. Len(w) :
        \/ k \in 1 .. Len(u) /\ w[k] = u[k]
        \/ k - Len(u) \in 1 .. Len(v) /\ w[k] = v[k - Len(u)]
  BY JoinedIndex
<1> HIDE DEF w
<1>3. ASSUME NEW j \in 1 .. Len(w), NEW k \in 1 .. Len(w), j # k,
             w[j].do \in OfGrants, w[k].do \in OfGrants
      PROVE  w[j].on # w[k].on
  <2>1. CASE j \in 1 .. Len(u) /\ w[j] = u[j] /\ k \in 1 .. Len(u) /\ w[k] = u[k]
    BY <1>3, <2>1 DEF Singly
  <2>2. CASE /\ j - Len(u) \in 1 .. Len(v) /\ w[j] = v[j - Len(u)]
             /\ k - Len(u) \in 1 .. Len(v) /\ w[k] = v[k - Len(u)]
    <3>1. j - Len(u) # k - Len(u)
      BY <1>1, <1>3
    <3> QED
      BY <1>3, <2>2, <3>1 DEF Singly
  <2>3. CASE j \in 1 .. Len(u) /\ w[j] = u[j] /\ k - Len(u) \in 1 .. Len(v) /\ w[k] = v[k - Len(u)]
    BY <1>3, <2>3
  <2>4. CASE k \in 1 .. Len(u) /\ w[k] = u[k] /\ j - Len(u) \in 1 .. Len(v) /\ w[j] = v[j - Len(u)]
    BY <1>3, <2>4
  <2> QED
    BY <1>2, <1>3, <2>1, <2>2, <2>3, <2>4
<1> QED
  BY <1>3 DEF Singly, w

\* What is left of steps that grant no permission twice.
LEMMA SinglyRest ==
  ASSUME NEW S, NEW t \in Seq(S), t # <<>>, Singly(t)
  PROVE  /\ Singly(Tail(t))
         /\ t[1].do \in OfGrants => \A e \in Allots(Tail(t)) : e[1] # t[1].on
<1> DEFINE r == Tail(t)
<1>1. /\ Len(t) \in Nat /\ Len(t) >= 1 /\ Len(r) = Len(t) - 1
      /\ \A k \in 1 .. Len(t) - 1 : r[k] = t[k + 1]
  BY Rest
<1> HIDE DEF r
<1>2. \A k \in 1 .. Len(r) : k + 1 \in 2 .. Len(t) /\ r[k] = t[k + 1]
  BY <1>1
<1>3. Singly(r)
  <2> SUFFICES ASSUME NEW j \in 1 .. Len(r), NEW k \in 1 .. Len(r), j # k,
                      r[j].do \in OfGrants, r[k].do \in OfGrants
               PROVE  r[j].on # r[k].on
    BY DEF Singly
  <2>1. j + 1 \in 1 .. Len(t) /\ k + 1 \in 1 .. Len(t) /\ j + 1 # k + 1
    BY <1>1
  <2> QED
    BY <1>2, <2>1 DEF Singly
<1>4. ASSUME t[1].do \in OfGrants, NEW e \in Allots(r) PROVE e[1] # t[1].on
  <2>1. PICK k \in 1 .. Len(r) : r[k].do \in OfGrants /\ e = <<r[k].on, r[k].access>>
    BY DEF Allots
  <2>2. k + 1 \in 1 .. Len(t) /\ 1 \in 1 .. Len(t) /\ k + 1 # 1 /\ r[k] = t[k + 1]
    BY <1>1
  <2>3. t[k + 1].on # t[1].on
    BY <1>4, <2>1, <2>2 DEF Singly
  <2> QED
    BY <2>1, <2>2, <2>3
<1> QED
  BY <1>3, <1>4 DEF r

\* The steps for the entries of a request.
LEMMA EntriesAllot ==
  ASSUME NEW g \in Seq(Perms \X Flags), NEW what \in OfGrants, NEW e, Len(e) = Len(g),
         \A k \in 1 .. Len(e) : e[k] = [do |-> what, on |-> g[k][1], access |-> g[k][2]],
         \A j, k \in 1 .. Len(g) : j # k => g[j][1] # g[k][1]
  PROVE  Allots(e) = {g[k] : k \in 1 .. Len(g)} /\ Singly(e)
<1>1. \A k \in 1 .. Len(e) : e[k].do = what /\ e[k].on = g[k][1] /\ e[k].access = g[k][2]
  <2> SUFFICES ASSUME NEW k \in 1 .. Len(e)
               PROVE  e[k].do = what /\ e[k].on = g[k][1] /\ e[k].access = g[k][2]
    OBVIOUS
  <2>1. e[k] = [do |-> what, on |-> g[k][1], access |-> g[k][2]]
    OBVIOUS
  <2> QED
    BY ONLY <2>1
<1>2. \A k \in 1 .. Len(e) : g[k] = <<g[k][1], g[k][2]>>
  <2> TAKE k \in 1 .. Len(e)
  <2>1. g[k] \in Perms \X Flags
    BY ElementOfSeq
  <2> QED
    BY <2>1
<1>3. Allots(e) = {g[k] : k \in 1 .. Len(g)}
  <2>1. \A k \in 1 .. Len(e) : <<e[k].on, e[k].access>> = g[k] /\ e[k].do \in OfGrants
    BY <1>1, <1>2
  <2>2. {k \in 1 .. Len(e) : e[k].do \in OfGrants} = 1 .. Len(e)
    BY <2>1
  <2>3. Allots(e) = {<<e[k].on, e[k].access>> : k \in 1 .. Len(e)}
    BY <2>2 DEF Allots
  <2> QED
    BY ONLY <2>1, <2>3, Len(e) = Len(g)
<1>4. Singly(e)
  BY <1>1 DEF Singly
<1> QED
  BY <1>3, <1>4

\* What a request on a role is to grant.
LEMMA RoleScript ==
  ASSUME NEW c \in Local, Asks(c), Entries(c), Opening(c, Script(c)),
         c.op \in {"create_role", "update_role"}
  PROVE  /\ Allots(Script(c)) = {c.grants[k] : k \in 1 .. Len(c.grants)}
         /\ Singly(Script(c))
         /\ Script(c)[1].do \notin OfGrants \union {"list_grants"}
<1> DEFINE D(what) == [do |-> what, on |-> Null, access |-> Null]
           what == IF c.op = "create_role" THEN "write_grant" ELSE "find_grant"
           u == IF c.op = "create_role" THEN <<D("find_name"), D("create_role")>>
                ELSE <<D("load_role"), D("find_name"), D("rename_role")>>
           e == EachEntry(what, c.grants)
           z == <<D("list_grants")>>
<1>1. Script(c) = (u \o e) \o z
  BY DEF Script, Do
<1>2. \A s \in Steps : D(s) \in Todo /\ D(s).do = s
  BY DEF Todo
<1>3. u \in Seq(Todo) /\ \A k \in 1 .. Len(u) : u[k].do \notin OfGrants
  <2>1. CASE c.op = "create_role"
    <3> DEFINE x == D("find_name")
               y == D("create_role")
    <3>1. u = <<x, y>>
      BY <2>1
    <3>2. x \in Todo /\ y \in Todo /\ x.do = "find_name" /\ y.do = "create_role"
      BY <1>2 DEF Steps
    <3> HIDE DEF x, y, u
    <3> QED
      BY <3>1, <3>2 DEF OfGrants
  <2>2. CASE c.op = "update_role"
    <3> DEFINE w == D("load_role")
               x == D("find_name")
               y == D("rename_role")
    <3>1. u = <<w, x, y>>
      BY <2>2
    <3>2. /\ w \in Todo /\ x \in Todo /\ y \in Todo
          /\ w.do = "load_role" /\ x.do = "find_name" /\ y.do = "rename_role"
      BY <1>2 DEF Steps
    <3> HIDE DEF w, x, y, u
    <3> QED
      BY <3>1, <3>2 DEF OfGrants
  <2> QED
    BY <2>1, <2>2
<1>4. z \in Seq(Todo) /\ \A k \in 1 .. Len(z) : z[k].do \notin OfGrants
  <2> DEFINE x == D("list_grants")
  <2>1. x \in Todo /\ x.do = "list_grants" /\ z = <<x>>
    BY <1>2 DEF Steps
  <2> HIDE DEF x, z
  <2> QED
    BY <2>1 DEF OfGrants
<1>5. what \in OfGrants /\ what \in Steps
  BY DEF OfGrants, Steps
<1>6. c.grants \in Seq(Perms \X Flags)
  BY DEF Local
<1> HIDE DEF u, what, z
<1>7. /\ Len(e) = Len(c.grants) /\ Len(e) \in Nat /\ DOMAIN e = 1 .. Len(e)
      /\ \A k \in 1 .. Len(e) :
           e[k] = [do |-> what, on |-> c.grants[k][1], access |-> c.grants[k][2]]
  BY ONLY <1>6, EntryStep
<1> HIDE DEF e
<1>8. Allots(e) = {c.grants[k] : k \in 1 .. Len(c.grants)} /\ Singly(e)
  BY <1>5, <1>6, <1>7, EntriesAllot DEF Entries
<1>9. e \in Seq(Todo)
  <2>1. ASSUME NEW k \in 1 .. Len(e) PROVE e[k] \in Todo
    <3>1. k \in 1 .. Len(c.grants) /\ c.grants[k] \in Perms \X Flags
      BY <1>6, <1>7, ElementOfSeq
    <3>2. /\ e[k] = [do |-> what, on |-> c.grants[k][1], access |-> c.grants[k][2]]
          /\ c.grants[k][1] \in Perms /\ c.grants[k][2] \in Flags
      BY <1>7, <3>1
    <3> QED
      BY <1>5, <3>2 DEF Todo
  <2>2. e = [k \in 1 .. Len(e) |-> e[k]]
    BY ONLY <1>7 DEF e, EachEntry
  <2> QED
    BY <1>7, <2>1, <2>2
<1>10. Allots(u) = {} /\ Singly(u) /\ Allots(z) = {} /\ Singly(z)
  BY <1>3, <1>4 DEF Allots, Singly
<1>11. u \o e \in Seq(Todo) /\ Singly(u \o e) /\ Allots(u \o e) = Allots(e)
  <2>1. Singly(u \o e)
    BY <1>3, <1>8, <1>9, <1>10, SinglyJoin
  <2>2. Allots(u \o e) = Allots(u) \union Allots(e)
    BY ONLY <1>3, <1>9, AllotsJoin
  <2>3. u \o e \in Seq(Todo)
    BY ONLY <1>3, <1>9, Joined
  <2> QED
    BY ONLY <1>10, <2>1, <2>2, <2>3
<1>12. Singly((u \o e) \o z) /\ Allots((u \o e) \o z) = Allots(e)
  <2> DEFINE v == u \o e
  <2> HIDE DEF v
  <2>1. v \in Seq(Todo) /\ Singly(v) /\ Allots(v) = Allots(e)
    BY <1>11 DEF v
  <2>2. Singly(v \o z)
    BY <1>4, <1>10, <2>1, SinglyJoin
  <2>3. Allots(v \o z) = Allots(v) \union Allots(z)
    BY ONLY <1>4, <2>1, AllotsJoin
  <2> QED
    BY <1>10, <2>1, <2>2, <2>3 DEF v
<1>13. Script(c)[1].do \notin OfGrants \union {"list_grants"}
  <2>1. /\ Script(c)[1].do \notin {"write_grant", "list_grants"} /\ 1 \in 1 .. Len(Script(c))
        /\ Shape(c, Script(c)) /\ (c.op = "update_role" => Script(c)[1].do = "load_role")
    BY LenProperties DEF Opening
  <2>2. Fit(c, Script(c)[1])
    BY <2>1 DEF Shape
  <2> QED
    BY <2>1, <2>2 DEF Fit, OfGrants
<1> QED
  BY <1>1, <1>8, <1>12, <1>13

\* A step that grants nothing leaves what is to be granted.
LEMMA ListingRest ==
  ASSUME XInv, NEW p \in Procs, Running(p), local[p].op \in {"create_role", "update_role"},
         Head(todo[p]).do \notin OfGrants \union {"list_grants"},
         NEW l, l.op = local[p].op, l.name = local[p].name, l.grants = local[p].grants,
         l.listed = local[p].listed, l.loose = local[p].loose,
         todo'[p] = Tail(todo[p]), todo'[p] # <<>> => local'[p] = l,
         \A b : Then(Head(todo[p]), b) /\ b.do \in OfGrants \union {"list_grants"}
                  => role'[l.role].name = l.name
  PROVE  Due(p)'
<1>0. PICK c, t : c = local[p] /\ t = todo[p]
  OBVIOUS
<1>1. CASE todo'[p] = <<>> \/ c.loose = TRUE
  BY <1>0, <1>1, DueVoid
<1>2. CASE todo'[p] # <<>> /\ c.loose # TRUE
  <2>1. Listing(c, t) /\ SInv
    BY <1>0, <1>2, FirstDue
  <2>2. PICK r : r = Tail(t)
    OBVIOUS
  <2>3. /\ t \in Seq(Todo) /\ t # <<>> /\ Head(t) = t[1]
        /\ Head(r) = t[2] /\ Then(Head(t), t[2])
    BY <1>0, <1>2, <2>1, <2>2, FirstStep, NextStep
  <2>4. Allots(r) = Allots(t) /\ Singly(r)
    <3>1. Allots(t) = Allots(r) \union {x \in {<<t[1].on, t[1].access>>} : t[1].do \in OfGrants}
      BY ONLY <2>2, <2>3, AllotsRest
    <3>2. Singly(r)
      BY <2>1, <2>2, <2>3, SinglyRest DEF Listing
    <3>3. t[1].do \notin OfGrants
      BY <1>0, <2>3
    <3> QED
      BY ONLY <3>1, <3>2, <3>3
  <2>5. c.listed = {} /\ Entries(c) /\ Allots(t) = {c.grants[k] : k \in 1 .. Len(c.grants)}
    <3>1. c.listed = {}
      BY <1>0, <2>1 DEF Listing
    <3> QED
      BY <2>1, <3>1 DEF Listing
  <2>6. Listing(local[p], todo[p])'
    <3>1. local'[p] = l /\ todo'[p] = r
      BY <1>0, <1>2, <2>2
    <3>2. Head(r).do \in OfGrants \union {"list_grants"} => role'[l.role].name = l.name
      BY <1>0, <2>3
    <3>3. l.listed = {} /\ Entries(l) /\ Allots(r) = {l.grants[k] : k \in 1 .. Len(l.grants)}
      BY <1>0, <2>4, <2>5 DEF Entries
    <3> QED
      BY ONLY <2>4, <3>1, <3>2, <3>3 DEF Listing
  <2>7. local'[p].op = c.op
    BY <1>0, <1>2
  <2> QED
    BY <1>0, <2>6, <2>7 DEF Due
<1> QED
  BY <1>1, <1>2

\* The first steps of a request on a role.
LEMMA LoadRoleDue ==
  ASSUME XInv, NEW p \in Procs, LoadRole(p)
  PROVE  Due(p)'
<1> DEFINE c == local[p]
<1>1. /\ Running(p) /\ Head(todo[p]).do = "load_role"
      /\ Read(p, c) \/ Refuse(p)
  BY DEF LoadRole, At
<1>2. SInv /\ RunType /\ c \in Local /\ Fit(c, Head(todo[p]))
  BY <1>1, FirstDue, FirstStep
<1>3. CASE Read(p, c)
  <2>1. todo'[p] = Tail(todo[p]) /\ (todo'[p] # <<>> => local'[p] = c)
    BY <1>1, <1>2, <1>3, ReadRuns
  <2>2. c.op \in {"create_role", "update_role"}
    BY <1>1, <1>2 DEF Fit
  <2>3. \A b : Then(Head(todo[p]), b) => b.do \notin OfGrants \union {"list_grants"}
    BY <1>1 DEF Then, OfGrants
  <2>4. Head(todo[p]).do \notin OfGrants \union {"list_grants"}
    BY <1>1 DEF OfGrants
  <2> QED
    BY <1>1, <2>1, <2>2, <2>3, <2>4, ListingRest
<1>4. CASE Refuse(p)
  BY <1>2, <1>4, StopAlone, DueVoid DEF Refuse
<1> QED
  BY <1>1, <1>3, <1>4

\* A name that is free.
LEMMA FindNameDue ==
  ASSUME XInv, NEW p \in Procs, FindName(p)
  PROVE  Due(p)'
<1> DEFINE c == local[p]
<1>1. /\ Running(p) /\ Head(todo[p]).do = "find_name"
      /\ Read(p, c) \/ Refuse(p)
  BY DEF FindName, At
<1>2. SInv /\ RunType /\ c \in Local /\ Fit(c, Head(todo[p]))
  BY <1>1, FirstDue, FirstStep
<1>3. CASE Read(p, c)
  <2>1. todo'[p] = Tail(todo[p]) /\ (todo'[p] # <<>> => local'[p] = c)
    BY <1>1, <1>2, <1>3, ReadRuns
  <2>2. c.op \in {"create_role", "update_role"}
    BY <1>1, <1>2 DEF Fit
  <2>3. \A b : Then(Head(todo[p]), b) => b.do \notin OfGrants \union {"list_grants"}
    BY <1>1 DEF Then, OfGrants
  <2>4. Head(todo[p]).do \notin OfGrants \union {"list_grants"}
    BY <1>1 DEF OfGrants
  <2> QED
    BY <1>1, <2>1, <2>2, <2>3, <2>4, ListingRest
<1>4. CASE Refuse(p)
  BY <1>2, <1>4, StopAlone, DueVoid DEF Refuse
<1> QED
  BY <1>1, <1>3, <1>4

\* A role gets its name.
LEMMA CreateRoleDue ==
  ASSUME XInv, NEW p \in Procs, CreateRole(p)
  PROVE  Due(p)'
<1>0. PICK c : c = local[p]
  OBVIOUS
<1>1. PICK r \in Roles :
        /\ role' = [role EXCEPT ![r] = [name |-> c.name, org |-> c.tenant,
                                        listed |-> {}, deleted |-> FALSE]]
        /\ Commit(p, [c EXCEPT !.role = r], {<<"role", r>>})
  BY <1>0 DEF CreateRole
<1>2. Running(p) /\ Head(todo[p]).do = "create_role"
  BY DEF CreateRole, At
<1>3. SInv /\ RunType /\ DbType /\ c \in Local /\ Fit(c, Head(todo[p]))
  BY <1>0, <1>2, FirstDue, FirstStep
<1>4. PICK l : l = [c EXCEPT !.role = r]
  OBVIOUS
<1>5. /\ l \in Local /\ l.op = c.op /\ l.name = c.name /\ l.grants = c.grants
      /\ l.listed = c.listed /\ l.loose = c.loose /\ l.role = r
  BY <1>3, <1>4 DEF Local
<1>6. {<<"role", r>>} \in SUBSET Rows
  BY DEF Rows
<1>7. todo'[p] = Tail(todo[p]) /\ (todo'[p] # <<>> => local'[p] = l)
  BY <1>1, <1>2, <1>3, <1>4, <1>5, <1>6, CommitRuns
<1>8. role'[l.role].name = l.name
  BY <1>1, <1>3, <1>5 DEF DbType
<1>9. c.op \in {"create_role", "update_role"}
  BY <1>2, <1>3 DEF Fit
<1>10. Head(todo[p]).do \notin OfGrants \union {"list_grants"}
  BY <1>2 DEF OfGrants
<1> QED
  BY <1>0, <1>2, <1>5, <1>7, <1>8, <1>9, <1>10, ListingRest

\* A role that is there gets its name.
LEMMA RenameRoleDue ==
  ASSUME XInv, NEW p \in Procs, RenameRole(p)
  PROVE  Due(p)'
<1>0. PICK c : c = local[p]
  OBVIOUS
<1>1. /\ role' = [role EXCEPT ![c.role].name = c.name, ![c.role].org = c.tenant]
      /\ Write(p, {<<"role", c.role>>})
  BY <1>0 DEF RenameRole
<1>2. Running(p) /\ Head(todo[p]).do = "rename_role"
  BY DEF RenameRole, At
<1>3. /\ SInv /\ RunType /\ DbType /\ c \in Local /\ Fit(c, Head(todo[p]))
      /\ Found(c, Head(todo[p]))
  BY <1>0, <1>2, FirstDue, FirstStep
<1>4. c.op = "update_role"
  BY <1>2, <1>3 DEF Fit
<1>5. c.role \in Roles /\ role[c.role] # Absent
  BY <1>2, <1>3, <1>4 DEF Found
<1>6. {<<"role", c.role>>} \in SUBSET Rows
  BY <1>5 DEF Rows
<1>7. todo'[p] = Tail(todo[p]) /\ (todo'[p] # <<>> => local'[p] = c)
  BY <1>0, <1>1, <1>2, <1>3, <1>6, WriteRuns
<1>8. role'[c.role].name = c.name
  <2>1. role[c.role] \in Role
    BY <1>3, <1>5 DEF DbType
  <2>2. role'[c.role] = [role[c.role] EXCEPT !.name = c.name, !.org = c.tenant]
    BY <1>1, <1>3, <1>5 DEF DbType
  <2> QED
    BY <2>1, <2>2 DEF Role
<1>9. Head(todo[p]).do \notin OfGrants \union {"list_grants"}
  BY <1>2 DEF OfGrants
<1> QED
  BY <1>0, <1>2, <1>4, <1>7, <1>8, <1>9, ListingRest

\* A look for a grant puts the step that writes it in its own place.
LEMMA Swapped ==
  ASSUME NEW t \in Seq(Todo), t # <<>>, NEW x \in Todo, x.do \in OfGrants,
         t[1].do \in OfGrants, x.on = t[1].on, x.access = t[1].access,
         NEW w, w = <<x>> \o Tail(t)
  PROVE  /\ Allots(w) = Allots(t) /\ (Singly(t) => Singly(w)) /\ Head(w) = x
<1>1. PICK r : r = Tail(t)
  OBVIOUS
<1>2. /\ r \in Seq(Todo) /\ Len(t) \in Nat /\ Len(t) >= 1 /\ Len(r) = Len(t) - 1
      /\ \A k \in 1 .. Len(t) - 1 : r[k] = t[k + 1]
  BY ONLY <1>1, t \in Seq(Todo), t # <<>>, Rest
<1>3. Len(w) = Len(t) /\ w \in Seq(Todo) /\ w[1] = x
      /\ \A k \in 1 .. Len(r) : w[1 + k] = r[k]
  <2>1. PICK v : v = <<x>>
    OBVIOUS
  <2>2. v \in Seq(Todo) /\ Len(v) = 1 /\ v[1] = x /\ w = v \o r
    BY <1>1, <2>1
  <2>3. v \in Seq(Todo) /\ r \in Seq(Todo)
    BY <1>2, <2>2
  <2>4. v \o r \in Seq(Todo) /\ Len(v \o r) = Len(v) + Len(r)
    BY ONLY <2>3, Joined
  <2>5. \A k \in 1 .. Len(v) : (v \o r)[k] = v[k]
    BY ONLY <2>3, Joined
  <2>6. \A k \in 1 .. Len(r) : (v \o r)[Len(v) + k] = r[k]
    BY ONLY <2>3, Joined
  <2>7. w[1] = v[1] /\ \A k \in 1 .. Len(r) : w[1 + k] = r[k]
    <3>1. 1 \in 1 .. Len(v)
      BY ONLY <2>2
    <3> QED
      BY ONLY <2>2, <2>5, <2>6, <3>1
  <2> QED
    BY ONLY <1>2, <2>2, <2>4, <2>7
<1>4. \A k \in 2 .. Len(t) : w[k] = t[k]
  <2> TAKE k \in 2 .. Len(t)
  <2>1. k - 1 \in 1 .. Len(r) /\ 1 + (k - 1) = k /\ (k - 1) + 1 = k
    BY <1>2
  <2>2. w[1 + (k - 1)] = r[k - 1] /\ r[k - 1] = t[(k - 1) + 1]
    BY ONLY <1>2, <1>3, <2>1
  <2> QED
    BY ONLY <2>1, <2>2
<1>5. \A k \in 1 .. Len(t) :
        /\ w[k].do \in OfGrants <=> t[k].do \in OfGrants
        /\ w[k].on = t[k].on /\ w[k].access = t[k].access
  <2> TAKE k \in 1 .. Len(t)
  <2>1. k = 1 \/ k \in 2 .. Len(t)
    BY <1>2
  <2> QED
    BY <1>3, <1>4, <2>1
<1>6. Allots(w) = Allots(t)
  <2>1. {k \in 1 .. Len(w) : w[k].do \in OfGrants} = {k \in 1 .. Len(t) : t[k].do \in OfGrants}
    BY <1>3, <1>5
  <2>2. PICK K : K = {k \in 1 .. Len(t) : t[k].do \in OfGrants}
    OBVIOUS
  <2>3. \A k \in K : <<w[k].on, w[k].access>> = <<t[k].on, t[k].access>>
    BY ONLY <1>5, <2>2
  <2>4. /\ Allots(w) = {<<w[k].on, w[k].access>> : k \in K}
        /\ Allots(t) = {<<t[k].on, t[k].access>> : k \in K}
    BY ONLY <2>1, <2>2 DEF Allots
  <2> QED
    BY ONLY <2>3, <2>4
<1>7. Singly(t) => Singly(w)
  BY ONLY <1>3, <1>5 DEF Singly
<1>8. Head(w) = x
  <2>1. w # <<>>
    BY <1>2, <1>3
  <2> QED
    BY <1>3, <2>1
<1> QED
  BY <1>6, <1>7, <1>8

\* A look for a grant.
LEMMA FindGrantDue ==
  ASSUME XInv, NEW p \in Procs, FindGrant(p)
  PROVE  Due(p)'
<1>0. PICK c, t, s : c = local[p] /\ t = todo[p] /\ s = Head(t)
  OBVIOUS
<1> DEFINE rows == {g \in Grants : grant[g] # Absent /\ grant[g].role = c.role
                                   /\ grant[g].perm = s.on}
<1>1. /\ Running(p) /\ s.do = "find_grant"
      /\ \E g \in IF rows = {} THEN {Null} ELSE rows :
           Expand(p, <<[s EXCEPT !.do = "write_grant"]>>, [c EXCEPT !.found = g])
  BY <1>0 DEF FindGrant, At
<1>2. PICK g : /\ g \in rows \union {Null}
               /\ Expand(p, <<[s EXCEPT !.do = "write_grant"]>>, [c EXCEPT !.found = g])
  BY <1>1
<1>3. g \in Grants \union {Null}
  BY <1>2
<1> HIDE DEF rows
<1>4. /\ SInv /\ RunType /\ c \in Local /\ Fit(c, s) /\ s \in Todo
      /\ t \in Seq(Todo) /\ t # <<>> /\ s = t[1]
  BY <1>0, <1>1, FirstDue, FirstStep
<1>5. c.op = "update_role"
  BY <1>1, <1>4 DEF Fit
<1>6. PICK l : l = [c EXCEPT !.found = g]
  OBVIOUS
<1>7. /\ l \in Local /\ l.op = c.op /\ l.name = c.name /\ l.grants = c.grants
      /\ l.listed = c.listed /\ l.loose = c.loose /\ l.role = c.role
  BY <1>3, <1>4, <1>6 DEF Local
<1>8. PICK x : x = [s EXCEPT !.do = "write_grant"]
  OBVIOUS
<1>9. x \in Todo /\ x.do = "write_grant" /\ x.on = s.on /\ x.access = s.access
  BY <1>4, <1>8 DEF Todo, Steps
<1>10. <<x>> \in Seq(Todo) /\ Expand(p, <<x>>, l)
  BY <1>2, <1>6, <1>8, <1>9
<1>11. PICK w : w = <<x>> \o Tail(t)
  OBVIOUS
<1>12. todo'[p] = w /\ local'[p] = l /\ UNCHANGED dbVars
  BY ONLY <1>0, <1>1, <1>4, <1>7, <1>10, <1>11, ExpandRuns
<1>13. CASE c.loose = TRUE
  BY <1>7, <1>12, <1>13, DueVoid
<1>14. CASE c.loose # TRUE
  <2>1. Listing(c, t)
    BY <1>0, <1>1, <1>5, <1>14, FirstDue
  <2>2. x.do \in OfGrants /\ t[1].do \in OfGrants
    BY <1>1, <1>4, <1>9 DEF OfGrants
  <2>3. Allots(w) = Allots(t) /\ (Singly(t) => Singly(w)) /\ Head(w) = x
    BY <1>4, <1>9, <1>11, <2>2, Swapped
  <2>4. role' = role /\ grant' = grant
    BY <1>12 DEF dbVars, catalogue
  <2>5. role[c.role].name = c.name
    BY <1>0, <1>4, <2>1, <2>2 DEF Listing
  <2>6. Listing(local[p], todo[p])'
    <3>1. Singly(t) /\ Entries(c)
      BY <2>1 DEF Listing
    <3>2. /\ \A h \in l.listed : grant'[h] # Absent /\ grant'[h].role = l.role
          /\ Allots(w) \union {<<grant'[h].perm, grant'[h].flags>> : h \in l.listed}
               = {l.grants[k] : k \in 1 .. Len(l.grants)}
          /\ \A h \in l.listed, e \in Allots(w) : grant'[h].perm # e[1]
          /\ \A h, i \in l.listed : grant'[h].perm = grant'[i].perm => h = i
      BY <1>7, <2>1, <2>3, <2>4 DEF Listing
    <3>3. Singly(w) /\ Entries(l) /\ role'[l.role].name = l.name
          /\ Head(w).do \in OfGrants \union {"list_grants"}
      BY <1>7, <2>2, <2>3, <2>4, <2>5, <3>1 DEF Entries
    <3> QED
      BY ONLY SMTT(40), <1>12, <3>2, <3>3 DEF Listing
  <2>7. local'[p].op = c.op
    BY <1>7, <1>12
  <2> QED
    BY <1>5, <2>6, <2>7 DEF Due
<1> QED
  BY <1>13, <1>14

\* A permission granted is listed.
LEMMA WriteGrantDue ==
  ASSUME XInv, NEW p \in Procs, WriteGrant(p)
  PROVE  Due(p)'
<1>0. PICK c, t, s : c = local[p] /\ t = todo[p] /\ s = Head(t)
  OBVIOUS
<1>1. Running(p) /\ s.do = "write_grant"
  BY <1>0 DEF WriteGrant, At
<1>2. SInv /\ RunType /\ DbType /\ c \in Local /\ Fit(c, s) /\ s \in Todo
      /\ t \in Seq(Todo) /\ t # <<>> /\ s = t[1]
  BY <1>0, <1>1, FirstDue, FirstStep
<1>3. PICK g \in Grants, row \in Grant :
        /\ grant' = [grant EXCEPT ![g] = row]
        /\ Commit(p, [c EXCEPT !.listed = @ \union {g}], {<<"grant", g>>})
        /\ row.role = c.role /\ row.perm = s.on /\ row.flags = s.access
        /\ grant[g] # Absent => grant[g].role = row.role /\ grant[g].perm = row.perm
  <2>1. PICK g \in Grants, row \in Grant :
          /\ grant' = [grant EXCEPT ![g] = row]
          /\ Commit(p, [local[p] EXCEPT !.listed = @ \union {g}], {<<"grant", g>>})
          /\ row.role = local[p].role /\ row.perm = Head(todo[p]).on
          /\ row.flags = Head(todo[p]).access
          /\ grant[g] # Absent => grant[g].role = row.role /\ grant[g].perm = row.perm
    BY <1>2, GrantRow
  <2> QED
    BY ONLY <1>0, <2>1
<1>4. role' = role
  BY DEF WriteGrant
<1>5. c.op \in {"create_role", "update_role"}
  BY <1>1, <1>2 DEF Fit
<1>6. PICK l : l = [c EXCEPT !.listed = @ \union {g}]
  OBVIOUS
<1>7. /\ l \in Local /\ l.op = c.op /\ l.name = c.name /\ l.grants = c.grants
      /\ l.listed = c.listed \union {g} /\ l.loose = c.loose /\ l.role = c.role
  BY <1>2, <1>6 DEF Local
<1>8. {<<"grant", g>>} \in SUBSET Rows
  BY DEF Rows
<1>9. todo'[p] = Tail(todo[p]) /\ (todo'[p] # <<>> => local'[p] = l)
  BY <1>1, <1>2, <1>3, <1>6, <1>7, <1>8, CommitRuns
<1>10. CASE todo'[p] = <<>> \/ c.loose = TRUE
  BY <1>7, <1>9, <1>10, DueVoid
<1>11. CASE todo'[p] # <<>> /\ c.loose # TRUE
  <2>1. Listing(c, t)
    BY <1>0, <1>1, <1>5, <1>11, FirstDue
  <2>2. PICK r : r = Tail(t)
    OBVIOUS
  <2>3. Head(r) = t[2] /\ Then(s, t[2])
    BY <1>0, <1>1, <1>2, <1>9, <1>11, <2>2, NextStep
  <2>4. Head(r).do \in OfGrants \union {"list_grants"}
    BY <1>1, <2>3 DEF Then, OfGrants
  <2>5. s.do \in OfGrants
    BY <1>1 DEF OfGrants
  <2>6. role[c.role].name = c.name /\ Singly(t) /\ Entries(c)
    BY <1>0, <1>2, <2>1, <2>5 DEF Listing
  <2>7. /\ \A h \in c.listed : grant[h] # Absent /\ grant[h].role = c.role
        /\ Allots(t) \union {<<grant[h].perm, grant[h].flags>> : h \in c.listed}
             = {c.grants[k] : k \in 1 .. Len(c.grants)}
        /\ \A h \in c.listed, e \in Allots(t) : grant[h].perm # e[1]
        /\ \A h, i \in c.listed : grant[h].perm = grant[i].perm => h = i
    BY <2>1 DEF Listing
  <2>8. Allots(t) = Allots(r) \union {<<s.on, s.access>>}
    <3>1. Allots(t) = Allots(r) \union {x \in {<<t[1].on, t[1].access>>} : t[1].do \in OfGrants}
      BY ONLY <1>2, <2>2, AllotsRest
    <3> QED
      BY ONLY <1>2, <2>5, <3>1
  <2>9. Singly(r) /\ \A e \in Allots(r) : e[1] # s.on
    BY ONLY <1>2, <2>2, <2>5, <2>6, SinglyRest
  <2>10. \A h \in c.listed : grant[h].perm # s.on
    <3>1. <<s.on, s.access>> \in Allots(t) /\ <<s.on, s.access>>[1] = s.on
      BY <2>8
    <3> QED
      BY ONLY <2>7, <3>1
  <2>11. g \notin c.listed
    BY ONLY <1>3, <2>7, <2>10
  <2>12. grant'[g] = row /\ \A h \in c.listed : grant'[h] = grant[h]
    <3>1. grant \in [Grants -> Grant \union {Absent}] /\ c.listed \subseteq Grants
      BY <1>2 DEF DbType, Local
    <3> QED
      BY ONLY <1>3, <2>11, <3>1
  <2>13. row # Absent
    BY StaffAssumption
  <2>14. \A h \in l.listed : grant'[h] # Absent /\ grant'[h].role = l.role
    BY ONLY <1>3, <1>7, <2>7, <2>12, <2>13
  <2>15. Allots(r) \union {<<grant'[h].perm, grant'[h].flags>> : h \in l.listed}
           = {l.grants[k] : k \in 1 .. Len(l.grants)}
    <3>1. {<<grant'[h].perm, grant'[h].flags>> : h \in l.listed}
            = {<<grant[h].perm, grant[h].flags>> : h \in c.listed} \union {<<s.on, s.access>>}
      BY ONLY <1>3, <1>7, <2>12
    <3> QED
      BY ONLY <1>7, <2>7, <2>8, <3>1
  <2>16. \A h \in l.listed, e \in Allots(r) : grant'[h].perm # e[1]
    BY ONLY <1>3, <1>7, <2>7, <2>8, <2>9, <2>12
  <2>17. \A h, i \in l.listed : grant'[h].perm = grant'[i].perm => h = i
    BY ONLY <1>3, <1>7, <2>7, <2>10, <2>12
  <2>18. Listing(local[p], todo[p])'
    <3>1. local'[p] = l /\ todo'[p] = r
      BY <1>0, <1>9, <1>11, <2>2
    <3>2. Entries(l) /\ role'[l.role].name = l.name
      BY ONLY <1>4, <1>7, <2>6 DEF Entries
    <3> QED
      BY ONLY <2>4, <2>9, <2>14, <2>15, <2>16, <2>17, <3>1, <3>2 DEF Listing
  <2>19. local'[p].op = c.op
    BY <1>7, <1>9, <1>11
  <2> QED
    BY <1>5, <2>18, <2>19 DEF Due
<1> QED
  BY <1>7, <1>10, <1>11 DEF Local

\* Requests that end.
LEMMA ListGrantsDue ==
  ASSUME XInv, NEW p \in Procs, ListGrants(p)
  PROVE  Due(p)'
<1>1. Running(p) /\ Head(todo[p]).do = "list_grants" /\ Write(p, {})
  BY DEF ListGrants, At
<1>2. SInv
  BY <1>1, FirstDue
<1>3. todo'[p] = Tail(todo[p])
  BY <1>1, <1>2, WriteRuns
<1>4. Tail(todo[p]) = <<>>
  BY <1>1, <1>2, LastStep
<1> QED
  BY <1>3, <1>4, DueVoid

\* A request comes with all of it to do.
LEMMA ComesDue ==
  ASSUME XInv, NEW p \in Procs, Client(p)
  PROVE  Due(p)'
<1>1. SInv /\ RunType
  BY TypeParts DEF XInv, IInv, SInv
<1>2. PICK c : Asking(p, c)
  BY ClientAsks
<1>3. /\ c \in Local /\ Asks(c) /\ Starts(p, c) /\ Opening(c, Script(c))
      /\ c.op \in {"create_role", "update_role"} => c.listed = {}
  BY <1>2 DEF Asking
<1>4. PICK t : t = Script(c)
  OBVIOUS
<1>5. todo'[p] = t /\ local'[p] = c
  BY <1>1, <1>3, <1>4 DEF Starts, RunType
<1>6. t \in Seq(Todo) /\ t # <<>> /\ Head(t) = t[1] /\ 1 \in 1 .. Len(t) /\ Fit(c, t[1])
  <2>1. t \in Seq(Todo) /\ Len(t) >= 1 /\ Shape(c, t)
    BY <1>3, <1>4 DEF Opening
  <2>2. Len(t) \in Nat /\ t # <<>> /\ Head(t) = t[1]
    BY <2>1
  <2> QED
    BY <2>1, <2>2 DEF Shape
<1>7. CASE c.op = "update_member"
  <2>1. t = <<On("load_member", c.member)>>
    BY <1>4, <1>7 DEF Script
  <2>2. t[1].do = "load_member"
    BY <2>1 DEF On, Do
  <2> QED
    BY <1>5, <1>6, <1>7, <2>2 DEF Due
<1>8. CASE c.op \in {"create_role", "update_role"} /\ c.loose # TRUE
  <2>0. Entries(c)
    <3>1. c.grants \in Seq(Perms \X Flags)
      BY <1>3 DEF Local
    <3> QED
      BY <1>3, <1>8, <3>1, OnceEach
  <2>1. /\ Allots(t) = {c.grants[k] : k \in 1 .. Len(c.grants)} /\ Singly(t)
        /\ t[1].do \notin OfGrants \union {"list_grants"}
    BY <1>3, <1>4, <1>8, <2>0, RoleScript
  <2>2. Listing(local[p], todo[p])'
    BY ONLY <1>3, <1>5, <1>6, <1>8, <2>0, <2>1 DEF Listing
  <2> QED
    BY <1>5, <1>8, <2>2 DEF Due
<1>9. CASE c.op \notin Exacting \/ c.loose = TRUE
  BY <1>5, <1>9, DueVoid
<1>10. c.loose \in BOOLEAN
  BY <1>3 DEF Local
<1> QED
  BY <1>7, <1>8, <1>9, <1>10 DEF Exacting

-----------------------------------------------------------------------------
(* Each step does what is due.                                             *)

\* Requests of other kinds.
LEMMA DueOther ==
  ASSUME SInv, NEW p \in Procs, Running(p), local[p].op \notin Exacting,
         \/ Read(p, local[p])
         \/ \E u : Expand(p, u, local[p])
         \/ \E rows : Write(p, rows)
         \/ Stop(p)
  PROVE  Due(p)'
<1>1. RunType /\ todo[p] \in Seq(Todo) /\ todo[p] # <<>>
  BY FirstStep
<1>2. CASE Read(p, local[p]) \/ \E rows : Write(p, rows)
  <2>1. todo'[p] = Tail(todo[p]) /\ local'[p] = IF AtEnd(p) THEN Blank ELSE local[p]
    BY <1>1, <1>2 DEF Read, Write, Commit, Advance, RunType
  <2>2. AtEnd(p) => Tail(todo[p]) = <<>>
    BY <1>1, Rest DEF AtEnd
  <2> QED
    BY <2>1, <2>2, DueVoid
<1>3. CASE \E u : Expand(p, u, local[p])
  <2>1. local'[p] = local[p]
    BY <1>1, <1>3 DEF Expand, RunType
  <2> QED
    BY <2>1, DueVoid
<1>4. CASE Stop(p)
  BY <1>1, <1>4, StopAlone, DueVoid
<1> QED
  BY <1>2, <1>3, <1>4

\* Steps on members and teams of other requests.
LEMMA OtherStaffDue ==
  ASSUME SInv, NEW p \in Procs,
         \/ FindMember(p) \/ FindRole(p) \/ AssignRole(p) \/ DeleteMember(p) \/ FindLead(p)
         \/ DeleteLevel(p) \/ FindTeam(p) \/ CreateTeam(p) \/ DeleteTeam(p)
  PROVE  Due(p)'
<1> DEFINE d == Head(todo[p]).do
<1>1. CASE FindMember(p)
  <2>1. /\ Running(p) /\ d = "find_member"
        /\ Read(p, local[p]) \/ (\E u : Expand(p, u, local[p])) \/ Stop(p)
    BY <1>1 DEF FindMember, At, Refuse
  <2>2. local[p].op \notin Exacting
    BY <2>1, FirstStep DEF Fit, Exacting
  <2> QED
    BY <2>1, <2>2, DueOther
<1>2. CASE FindRole(p)
  <2>1. Running(p) /\ d = "find_role" /\ (Read(p, local[p]) \/ Stop(p))
    BY <1>2 DEF FindRole, At, Refuse
  <2>2. local[p].op \notin Exacting
    BY <2>1, FirstStep DEF Fit, Exacting
  <2> QED
    BY <2>1, <2>2, DueOther
<1>3. CASE AssignRole(p)
  <2>1. Running(p) /\ d = "assign_role" /\ \E rows : Write(p, rows)
    BY <1>3 DEF AssignRole, NewPart, At
  <2>2. local[p].op \notin Exacting
    BY <2>1, FirstStep DEF Fit, Exacting
  <2> QED
    BY <2>1, <2>2, DueOther
<1>4. CASE DeleteMember(p)
  <2>1. Running(p) /\ d = "delete_member" /\ \E rows : Write(p, rows)
    BY <1>4 DEF DeleteMember, At
  <2>2. local[p].op \notin Exacting
    BY <2>1, FirstStep DEF Fit, Exacting
  <2> QED
    BY <2>1, <2>2, DueOther
<1>5. CASE FindLead(p)
  <2>1. Running(p) /\ d = "find_lead" /\ (Read(p, local[p]) \/ Stop(p))
    BY <1>5 DEF FindLead, At, Refuse
  <2>2. local[p].op \notin Exacting
    BY <2>1, FirstStep DEF Fit, Exacting
  <2> QED
    BY <2>1, <2>2, DueOther
<1>6. CASE DeleteLevel(p)
  <2>1. Running(p) /\ d = "delete_level" /\ \E rows : Write(p, rows)
    BY <1>6 DEF DeleteLevel, At
  <2>2. local[p].op \notin Exacting
    BY <2>1, FirstStep DEF Fit, Exacting
  <2> QED
    BY <2>1, <2>2, DueOther
<1>7. CASE FindTeam(p)
  <2>1. Running(p) /\ d = "find_team" /\ (Read(p, local[p]) \/ Stop(p))
    BY <1>7 DEF FindTeam, At, Refuse
  <2>2. local[p].op \notin Exacting
    BY <2>1, FirstStep DEF Fit, Exacting
  <2> QED
    BY <2>1, <2>2, DueOther
<1>8. CASE CreateTeam(p)
  <2>1. Running(p) /\ d = "create_team" /\ \E rows : Write(p, rows)
    BY <1>8 DEF CreateTeam, At
  <2>2. local[p].op \notin Exacting
    BY <2>1, FirstStep DEF Fit, Exacting
  <2> QED
    BY <2>1, <2>2, DueOther
<1>9. CASE DeleteTeam(p)
  <2>1. Running(p) /\ d = "delete_team" /\ ((\E rows : Write(p, rows)) \/ Stop(p))
    BY <1>9 DEF DeleteTeam, At, Refuse
  <2>2. local[p].op \notin Exacting
    BY <2>1, FirstStep DEF Fit, Exacting
  <2> QED
    BY <2>1, <2>2, DueOther
<1> QED
  BY <1>1, <1>2, <1>3, <1>4, <1>5, <1>6, <1>7, <1>8, <1>9

\* So does each of them.
LEMMA StaffDue ==
  ASSUME XInv, NEW p \in Procs, StaffStep(p)
  PROVE  Due(p)'
<1>1. SInv
  BY DEF XInv, IInv
<1> QED
  BY <1>1, LoadMemberDue, UpdateMemberDue, DeletePartDue, CreatePartDue, FindLevelDue,
     WriteLevelDue, OtherStaffDue DEF StaffStep

\* Steps on roles.
LEMMA CatalogueDue ==
  ASSUME XInv, NEW p \in Procs, CatalogueStep(p)
  PROVE  Due(p)'
<1>1. SInv
  BY DEF XInv, IInv
<1>2. CASE DeleteRole(p)
  <2>1. Running(p) /\ Head(todo[p]).do = "delete_role" /\ \E rows : Write(p, rows)
    BY <1>2 DEF DeleteRole, At
  <2>2. local[p].op \notin Exacting
    BY <1>1, <2>1, FirstStep DEF Fit, Exacting
  <2> QED
    BY <1>1, <2>1, <2>2, DueOther
<1> QED
  BY <1>2, LoadRoleDue, FindNameDue, CreateRoleDue, RenameRoleDue, FindGrantDue,
     WriteGrantDue, ListGrantsDue DEF CatalogueStep

\* No request is due anything at first.
LEMMA XInvInit == Init => XInv
<1> SUFFICES ASSUME Init PROVE XInv
  OBVIOUS
<1>1. IInv
  BY IInvInit
<1>2. PartIds
  BY DEF Init, PartIds
<1>3. \A p \in Procs : Due(p)
  BY DEF Init, Due, Running
<1> QED
  BY <1>1, <1>2, <1>3 DEF XInv

\* What a request is due no step takes away but one that overtakes it.
LEMMA XInvStep == XInv /\ [Next]_vars => XInv'
<1> SUFFICES ASSUME XInv, [Next]_vars PROVE XInv'
  OBVIOUS
<1>1. IInv /\ PartIds /\ SInv
  BY DEF XInv, IInv
<1>2. IInv'
  BY <1>1, IInvStep
<1>3. CASE UNCHANGED vars
  <2>1. UNCHANGED dbVars /\ todo' = todo /\ local' = local
    BY <1>3 DEF vars
  <2>2. PartIds'
    BY <1>1, <2>1, PartIdsSame DEF dbVars, staffVars
  <2>3. ASSUME NEW p \in Procs PROVE Due(p)'
    <3>1. Due(p)
      BY DEF XInv
    <3> QED
      BY <2>1, <3>1, DueSame
  <2> QED
    BY <1>2, <2>2, <2>3 DEF XInv
<1>4. ASSUME NEW p \in Procs, Client(p) \/ Step(p) \/ Fail(p) PROVE XInv'
  <2>1. PartIds' /\ Apart(p)
    BY <1>1, <1>4, PartIdsStep, ApartStep
  <2>2. CASE Client(p)
    BY <1>2, <2>1, <2>2, ComesDue, DueGather
  <2>3. CASE Step(p)
    <3>1. Due(p)'
      BY <2>3, StaffDue, CatalogueDue DEF Step
    <3> QED
      BY <1>2, <2>1, <3>1, DueGather
  <2>4. CASE Fail(p)
    <3>1. Stop(p) /\ RunType
      BY <1>1, <2>4, TypeParts DEF Fail, SInv
    <3>2. todo'[p] = <<>>
      BY <3>1, StopAlone
    <3>3. Due(p)'
      BY <3>2, DueVoid
    <3> QED
      BY <1>2, <2>1, <3>3, DueGather
  <2> QED
    BY <1>4, <2>2, <2>3, <2>4
<1> QED
  BY <1>3, <1>4 DEF Next

-----------------------------------------------------------------------------
(* Requests that end have done what they were asked.                       *)

\* A set has as many elements as one that it is mapped to one by one.
LEMMA SameCount ==
  ASSUME NEW S, IsFiniteSet(S), NEW T, NEW f \in [S -> T],
         \A x, y \in S : f[x] = f[y] => x = y,
         \A z \in T : \E x \in S : f[x] = z
  PROVE  Cardinality(T) = Cardinality(S)
<1>1. f \in Bijection(S, T)
  BY DEF Bijection, Injection, Surjection, IsInjective
<1>2. ExistsBijection(S, T)
  BY <1>1 DEF ExistsBijection
<1> QED
  BY <1>2, FS_Bijection

\* A last step leaves nothing to give, to take or to grant.
LEMMA LastLeaves ==
  ASSUME SInv, NEW p \in Procs, Running(p), Tail(todo[p]) = <<>>,
         Head(todo[p]).do \in {"write_level", "list_grants"}
  PROVE  Gives(todo[p]) = {} /\ Takes(todo[p]) = {} /\ Allots(todo[p]) = {}
<1>0. PICK t : t = todo[p]
  OBVIOUS
<1>1. t \in Seq(Todo) /\ t # <<>> /\ Head(t) = t[1]
  BY <1>0, FirstStep
<1>2. PICK r : r = Tail(t)
  OBVIOUS
<1>3. Gives(r) = {} /\ Takes(r) = {} /\ Allots(r) = {}
  <2>1. Len(r) = 0
    BY <1>0, <1>2
  <2> QED
    BY <2>1, NoStep
<1>4. /\ Gives(t) = Gives(r) \union {x \in {t[1].on} : t[1].do = "create_part"}
      /\ Takes(t) = Takes(r) \union {x \in {t[1].on} : t[1].do = "delete_part"}
  BY ONLY <1>1, <1>2, GivesRest
<1>5. Allots(t) = Allots(r) \union {x \in {<<t[1].on, t[1].access>>} : t[1].do \in OfGrants}
  BY ONLY <1>1, <1>2, AllotsRest
<1>6. t[1].do \notin {"create_part", "delete_part"} \union OfGrants
  BY <1>0, <1>1 DEF OfGrants
<1> QED
  BY ONLY <1>0, <1>3, <1>4, <1>5, <1>6

\* The last step of an update of a member.
LEMMA UpdateDone ==
  ASSUME XInv, NEW p \in Procs, WriteLevel(p), local[p].op = "update_member",
         ~local[p].loose, todo'[p] = <<>>
  PROVE  Exact(local[p])
<1>0. PICK c, t, s : c = local[p] /\ t = todo[p] /\ s = Head(t)
  OBVIOUS
<1>1. Running(p) /\ s.do = "write_level" /\ UNCHANGED <<member, part>>
  BY <1>0 DEF WriteLevel, At
<1>2. SInv /\ DbType /\ c \in Local /\ Fit(c, s) /\ Asks(c)
  BY <1>0, <1>1, FirstDue, FirstStep
<1>3. Dealt(c, t)
  BY <1>0, <1>1, FirstDue
<1>4. c.member \in Members
  BY <1>0, <1>2 DEF Asks, AsksFor, OfMember
<1>5. PICK a \in Levels, row \in Level :
        /\ level' = [level EXCEPT ![a] = row] /\ Write(p, {<<"level", a>>})
        /\ row.member = s.on /\ row.access = s.access /\ row.team = c.team
        /\ level[a] # Absent => row.deleted = level[a].deleted
        /\ c.found # Null => level[a] # Absent /\ a = c.found
        /\ c.found = Null => row.deleted = FALSE
  <2>1. PICK a \in Levels, row \in Level :
           /\ level' = [level EXCEPT ![a] = row] /\ Write(p, {<<"level", a>>})
           /\ row.member = Head(todo[p]).on /\ row.access = Head(todo[p]).access
           /\ row.team = local[p].team
           /\ level[a] # Absent => row.deleted = level[a].deleted
           /\ local[p].found # Null => level[a] # Absent /\ a = local[p].found
           /\ local[p].found = Null => row.deleted = FALSE
    BY <1>2, LevelRow
  <2> QED
    BY ONLY <1>0, <2>1
<1>6. Tail(todo[p]) = <<>>
  <2>1. {<<"level", a>>} \in SUBSET Rows
    BY DEF Rows
  <2>2. todo'[p] = Tail(todo[p])
    BY <1>1, <1>2, <1>5, <2>1, WriteRuns
  <2> QED
    BY <2>2
<1>7. Gives(t) = {} /\ Takes(t) = {}
  BY <1>0, <1>1, <1>2, <1>6, LastLeaves
<1>8. PICK S : S = {x \in Parts : part[x] # Absent /\ part[x].member = c.member}
  OBVIOUS
<1>9. Stay(c.member, t) = S
  <2>1. \A x \in Parts : part[x] # Absent => part[x].of \in Roles \union Days
    BY <1>2 DEF DbType, Part
  <2> QED
    BY <1>7, <1>8, <2>1 DEF Stay, PartsOf
<1>10. {part[x].of : x \in S} = Wanted(c)
  BY <1>3, <1>7, <1>9 DEF Dealt
<1>11. \A x, y \in S : part[x].of = part[y].of => x = y
  BY <1>3, <1>9 DEF Dealt
<1>12. Cardinality(S) = Cardinality(Wanted(c))
  <2>1. IsFiniteSet(S)
    <3>1. IsFiniteSet(Parts)
      BY FS_Interval, StaffAssumption DEF Parts
    <3> QED
      BY <1>8, <3>1, FS_Subset
  <2>2. PICK f : f = [x \in S |-> part[x].of]
    OBVIOUS
  <2>3. f \in [S -> Wanted(c)]
    BY <1>10, <2>2
  <2>4. /\ \A x, y \in S : f[x] = f[y] => x = y
        /\ \A z \in Wanted(c) : \E x \in S : f[x] = z
    BY <1>10, <1>11, <2>2
  <2> QED
    BY <2>1, <2>3, <2>4, SameCount
<1>13. member'[c.member].team = c.team
  BY <1>0, <1>1, <1>3 DEF Dealt
<1>14. Live(level', a) /\ level'[a] = row
  <2>1. level'[a] = row
    BY <1>2, <1>5 DEF DbType
  <2>2. row # Absent
    BY StaffAssumption
  <2>3. row.deleted = FALSE
    <3>1. c.found # Null => Live(level, c.found)
      BY <1>0, <1>1, <1>3 DEF Dealt
    <3>2. row.deleted \in BOOLEAN
      BY DEF Level
    <3> QED
      BY <1>5, <3>1, <3>2 DEF Live
  <2> QED
    BY <2>1, <2>2, <2>3 DEF Live
<1>15. row.member = c.member /\ row.team = c.team /\ row.access = "MEMBER"
  BY <1>0, <1>1, <1>2, <1>5 DEF Fit
<1>16. {x \in Parts : part'[x] # Absent /\ part'[x].member = c.member} = S
  BY <1>1, <1>8
<1>17. {part'[x].of : x \in S} = Wanted(c)
  BY <1>1, <1>10
<1>18. Exact(c)
  <2>1. \E b \in Levels : /\ Live(level', b)
                          /\ level'[b].member = c.member /\ level'[b].team = c.team
                          /\ level'[b].access = "MEMBER"
    BY <1>14, <1>15
  <2> QED
    BY ONLY <1>12, <1>13, <1>16, <1>17, <2>1 DEF Exact
<1> QED
  BY <1>0, <1>18

\* The last step of a request on a role.
LEMMA RoleDone ==
  ASSUME XInv, NEW p \in Procs, ListGrants(p), ~local[p].loose
  PROVE  ExactRole(local[p])
<1>0. PICK c, t, s : c = local[p] /\ t = todo[p] /\ s = Head(t)
  OBVIOUS
<1>1. /\ Running(p) /\ s.do = "list_grants"
      /\ role' = [role EXCEPT ![c.role].listed = c.listed, ![c.role].org = c.tenant]
      /\ grant' = grant
  BY <1>0 DEF ListGrants, At
<1>2. SInv /\ DbType /\ c \in Local /\ Fit(c, s) /\ Found(c, s)
  BY <1>0, <1>1, FirstDue, FirstStep
<1>3. c.op \in {"create_role", "update_role"}
  BY <1>1, <1>2 DEF Fit
<1>4. Listing(c, t)
  BY <1>0, <1>1, <1>3, FirstDue
<1>5. Allots(t) = {}
  <2>1. Tail(todo[p]) = <<>>
    BY <1>0, <1>1, <1>2, LastStep
  <2> QED
    BY <1>0, <1>1, <1>2, <2>1, LastLeaves
<1>6. /\ role'[c.role].name = c.name /\ role'[c.role].listed = c.listed
  <2>1. c.role \in Roles /\ role[c.role] # Absent
    BY <1>1, <1>2, <1>3 DEF Found
  <2>2. role[c.role] \in Role /\ c.listed \subseteq Grants
    BY <1>2, <2>1 DEF DbType, Local
  <2>3. role'[c.role] = [role[c.role] EXCEPT !.listed = c.listed, !.org = c.tenant]
    BY <1>1, <1>2, <2>1 DEF DbType
  <2>4. role[c.role].name = c.name
    BY <1>0, <1>1, <1>4 DEF Listing
  <2> QED
    BY <2>2, <2>3, <2>4 DEF Role
<1>7. c.grants \in Seq(Perms \X Flags) /\ Len(c.grants) \in Nat
      /\ DOMAIN c.grants = 1 .. Len(c.grants)
  <2>1. c.grants \in Seq(Perms \X Flags)
    BY <1>2 DEF Local
  <2> QED
    BY <2>1
<1>8. PICK n, K, L, T :
        /\ n = Len(c.grants) /\ K = 1 .. n /\ L = c.listed
        /\ T = {c.grants[k] : k \in K}
  OBVIOUS
<1>9. /\ {<<grant[g].perm, grant[g].flags>> : g \in L} = T
      /\ \A g, h \in L : grant[g].perm = grant[h].perm => g = h
      /\ \A g \in L : grant[g].role = c.role
      /\ \A j, k \in K : j # k => c.grants[j][1] # c.grants[k][1]
  <2>1. {<<grant[g].perm, grant[g].flags>> : g \in L} = T
    <3>1. Allots(t) \union {<<grant[g].perm, grant[g].flags>> : g \in c.listed}
            = {c.grants[k] : k \in 1 .. Len(c.grants)}
      BY <1>4 DEF Listing
    <3> QED
      BY ONLY <1>5, <1>8, <3>1
  <2> QED
    BY <1>4, <1>8, <2>1 DEF Listing, Entries
<1>10. Cardinality(T) = Cardinality(L)
  <2>1. IsFiniteSet(L)
    <3>1. L \subseteq Grants
      BY <1>2, <1>8 DEF Local
    <3>2. IsFiniteSet(Grants)
      BY FS_Interval, StaffAssumption DEF Grants
    <3> QED
      BY <3>1, <3>2, FS_Subset
  <2>2. PICK f : f = [g \in L |-> <<grant[g].perm, grant[g].flags>>]
    OBVIOUS
  <2>3. f \in [L -> T]
    BY <1>9, <2>2
  <2>4. /\ \A g, h \in L : f[g] = f[h] => g = h
        /\ \A z \in T : \E g \in L : f[g] = z
    BY <1>9, <2>2
  <2> QED
    BY <2>1, <2>3, <2>4, SameCount
<1>11. Cardinality(T) = n
  <2>1. IsFiniteSet(K) /\ Cardinality(K) = n
    BY <1>7, <1>8, FS_Interval
  <2>2. PICK f : f = [k \in K |-> c.grants[k]]
    OBVIOUS
  <2>3. f \in [K -> T]
    BY <1>8, <2>2
  <2>4. /\ \A j, k \in K : f[j] = f[k] => j = k
        /\ \A z \in T : \E k \in K : f[k] = z
    BY <1>8, <1>9, <2>2
  <2>5. Cardinality(T) = Cardinality(K)
    BY <2>1, <2>3, <2>4, SameCount
  <2> QED
    BY <2>1, <2>5
<1>12. {c.grants[k] : k \in DOMAIN c.grants} = T
  BY <1>7, <1>8
<1>13. {<<grant'[g].perm, grant'[g].flags>> : g \in L} = T /\ \A g \in L : grant'[g].role = c.role
  BY <1>1, <1>9
<1>14. ExactRole(c)
  BY ONLY <1>6, <1>8, <1>10, <1>11, <1>12, <1>13 DEF ExactRole
<1> QED
  BY <1>0, <1>14

\* The steps of others leave a request as far as it was.
LEMMA OthersStep ==
  ASSUME SInv, NEW p \in Procs, NEW q \in Procs \ {p}, Client(q) \/ Step(q) \/ Fail(q)
  PROVE  todo'[p] = todo[p]
<1>1. RunType
  BY TypeParts DEF SInv
<1>2. CASE Client(q)
  <2>1. PICK c : Asking(q, c)
    BY <1>2, ClientAsks
  <2> QED
    BY <1>1, <2>1 DEF Asking, Starts, RunType
<1>3. CASE \/ \E l : Read(q, l)
           \/ \E u, l : Expand(q, u, l)
           \/ \E l, rows : Commit(q, l, rows)
           \/ Stop(q)
  BY <1>1, <1>3, ReadAlone, ExpandAlone, StopAlone, CommitAlone DEF Others
<1> QED
  BY <1>2, <1>3, StaffMoves, CatalogueMoves DEF Step, Fail

\* What the last commit of a request is.
LEMMA DoneStep ==
  ASSUME SInv, NEW p \in Procs, Running(p), [Next]_vars, todo'[p] = <<>>, faults' = faults
  PROVE  Step(p)
<1>1. faults \in Nat
  BY DEF SInv, TypeOK
<1>2. todo'[p] # todo[p]
  BY DEF Running
<1>3. PICK q \in Procs : Client(q) \/ Step(q) \/ Fail(q)
  BY <1>2 DEF Next, vars
<1>4. q = p
  BY <1>2, <1>3, OthersStep
<1>5. ~Client(p)
  BY DEF Client, CallMember, CallTeam, CallRole, Idle
<1>6. ~Fail(p)
  BY <1>1 DEF Fail
<1> QED
  BY <1>3, <1>4, <1>5, <1>6

\* Of all steps only one has a given name.
LEMMA StepNames ==
  ASSUME NEW p \in Procs, Step(p)
  PROVE  /\ At(p, "write_level") => WriteLevel(p)
         /\ At(p, "list_grants") => ListGrants(p)
<1> DEFINE d == Head(todo[p]).do
<1>1. CASE StaffStep(p)
  <2>1. \/ WriteLevel(p)
        \/ d \in {"find_member", "load_member", "update_member", "delete_part", "create_part",
                  "find_role", "assign_role", "delete_member", "find_lead", "find_level",
                  "delete_level", "find_team", "create_team", "delete_team"}
    BY <1>1 DEF StaffStep, FindMember, LoadMember, UpdateMember, DeletePart, CreatePart,
       FindRole, AssignRole, DeleteMember, FindLead, FindLevel, DeleteLevel, FindTeam,
       CreateTeam, DeleteTeam, At
  <2>2. WriteLevel(p) => d = "write_level"
    BY DEF WriteLevel, At
  <2> QED
    BY <2>1, <2>2 DEF At
<1>2. CASE CatalogueStep(p)
  <2>1. \/ ListGrants(p)
        \/ d \in {"load_role", "find_name", "create_role", "rename_role", "find_grant",
                  "write_grant", "delete_role"}
    BY <1>2 DEF CatalogueStep, LoadRole, FindName, CreateRole, RenameRole, FindGrant,
       WriteGrant, DeleteRole, At
  <2>2. ListGrants(p) => d = "list_grants"
    BY DEF ListGrants, At
  <2> QED
    BY <2>1, <2>2 DEF At
<1> QED
  BY <1>1, <1>2 DEF Step

\* The commits of update_member, create_role and update_role add up: a request
\* that no other one overtook and that names no entry twice leaves its member with the team, the roles and the
\* days asked for, each once, and with a level that does not lead, and its role
\* with a list of the permissions asked for, each once and with its flags.
THEOREM AskedAndDone == Spec => UpdateExact
<1> DEFINE Ends(p) ==
             LET c == local[p]
                 done == ~c.loose /\ todo'[p] = <<>> /\ faults' = faults
             IN /\ c.op = "update_member" /\ At(p, "write_level") /\ done => Exact(c)
                /\ At(p, "list_grants") /\ done => ExactRole(c)
<1>1. Init => XInv
  BY XInvInit
<1>2. XInv /\ [Next]_vars => XInv'
  BY XInvStep
<1>3. XInv /\ [Next]_vars => \A p \in Procs : Ends(p)
  <2> SUFFICES ASSUME XInv, [Next]_vars, NEW p \in Procs, todo'[p] = <<>>, faults' = faults,
                      ~local[p].loose
               PROVE  /\ local[p].op = "update_member" /\ At(p, "write_level")
                           => Exact(local[p])
                      /\ At(p, "list_grants") => ExactRole(local[p])
    OBVIOUS
  <2>1. SInv
    BY DEF XInv, IInv
  <2>2. Running(p) => Step(p)
    BY <2>1, DoneStep
  <2>3. CASE Running(p)
    BY <2>2, <2>3, StepNames, UpdateDone, RoleDone
  <2>4. CASE ~Running(p)
    BY <2>4 DEF At
  <2> QED
    BY <2>3, <2>4
<1>4. (Spec => [][\A p \in Procs : Ends(p)]_vars) => (Spec => UpdateExact)
  BY DEF UpdateExact
<1>5. Spec => [][\A p \in Procs : Ends(p)]_vars
  <2> HIDE DEF Ends
  <2> QED
    BY <1>1, <1>2, <1>3, PTL DEF Spec
<1> QED
  BY <1>4, <1>5

=============================================================================
