------------------------------- MODULE Staff -------------------------------
(***************************************************************************)
(* The members of organizations at work: their roles, shifts, teams and    *)
(* access levels, and the catalogue of roles with the permissions they     *)
(* grant.  The handlers of modules/organizations/router.py and             *)
(* modules/team/router.py that write these tables.                         *)
(*                                                                         *)
(* One call of a model's classmethod is one transaction; requests          *)
(* interleave between two calls.  A step a request has left is a record of *)
(* what to do and to which row: update_member loads rows first and then    *)
(* deletes and inserts them one by one.                                    *)
(***************************************************************************)
EXTENDS Integers, Sequences, FiniteSets, Functions

CONSTANTS
  Procs,                         \* request tasks
  Orgs,                          \* organizations
  Members, Teams,                \* row ids
  Roles,                         \* row ids of the catalogue
  Days,                          \* what a shift row stands for
  Perms,                         \* permissions, a table that only the seeds write
  Names,                         \* names of teams and roles
  Null,                          \* None
  Absent,                        \* no such row
  Ops,                           \* the operations of an instance
  MaxRequests,                   \* bound: requests received
  MaxFaults,                     \* bound: awaited calls that raise
  MaxParts, MaxLevels,           \* bound: ids issued to parts and to levels
  MaxGrants                      \* bound: ids issued to grants

Parts == 1 .. MaxParts
Levels == 1 .. MaxLevels
Grants == 1 .. MaxGrants

\* Levels other than the lead are all alike.
Access == {"LEAD", "MEMBER"}

Member == [org : Orgs, team : Teams \union {Null}, deleted : BOOLEAN]
Part == [member : Members, of : Roles \union Days]
Level == [member : Members, team : Teams, org : Orgs, access : Access,
          deleted : BOOLEAN]
Team == [name : Names, org : Orgs, deleted : BOOLEAN]

\* Whether a grant sets any of changeable, deletable and viewable.
Flags == {"some", "none"}

\* `listed` is attributes.permissions, the grants that the roles page shows.
Role == [name : Names, org : Orgs, listed : SUBSET Grants, deleted : BOOLEAN]
Grant == [role : Roles, perm : Perms, flags : Flags]

ASSUME StaffAssumption ==
  /\ Ops \subseteq {"update_member", "assign_role", "remove_role", "set_levels",
                    "remove_level", "delete_member", "create_team", "delete_team",
                    "create_role", "update_role", "delete_role"}
  /\ MaxRequests \in Nat /\ MaxFaults \in Nat
  /\ MaxParts \in Nat /\ MaxLevels \in Nat /\ MaxGrants \in Nat
  /\ Roles \intersect Days = {} /\ IsFiniteSet(Roles \union Days)
  /\ Absent \notin Member \union Part \union Level \union Team \union Role \union Grant
  /\ Null \notin Orgs \union Members \union Parts \union Levels \union Teams
                 \union Roles \union Days \union Names \union Perms \union Grants

VARIABLES
  member,                        \* org_members
  part,                          \* org_member_roles and org_member_shifts
  level,                         \* org_member_accesslevel
  team,                          \* org_teams
  role,                          \* org_roles
  grant,                         \* role_permissions
  issued,                        \* ids of parts issued so far: the next is one more
  todo,                          \* steps a request has left
  local,                         \* parameters and local variables of a request
  twins,                         \* rows written by a request that is loose, see Blank
  requests, faults               \* consumed bounds

staffVars == <<member, part, level, team, issued>>
catalogue == <<role, grant>>
dbVars == <<staffVars, catalogue>>
vars == <<dbVars, todo, local, twins, requests, faults>>

\* `levels` are the entries of a request to set levels, pairs of a member
\* and an access, `grants` those of a request on a role, pairs of a permission
\* and its flags; `found` is the row of a level or a grant looked up last, and
\* `listed` are the grants written so far; `loose` says that the request names
\* an entry twice or that another task wrote since it began (a history).
Blank == [op |-> Null, tenant |-> Null, member |-> Null, team |-> Null,
          roles |-> <<>>, days |-> <<>>, name |-> Null, levels |-> <<>>,
          role |-> Null, grants |-> <<>>, listed |-> {},
          found |-> Null, loose |-> FALSE]

Live(table, id) == table[id] # Absent /\ ~table[id].deleted

\* What the steps of requests are, see Script.
Steps == {"find_member", "load_member", "update_member", "delete_part", "create_part",
          "find_role", "assign_role", "delete_member", "find_lead", "find_level",
          "write_level", "delete_level", "find_team", "create_team", "delete_team",
          "load_role", "find_name", "create_role", "rename_role", "find_grant",
          "write_grant", "list_grants", "delete_role"}

Todo == [do : Steps,
         on : Members \union Parts \union Roles \union Days \union Perms \union {Null},
         access : Access \union Flags \union {Null}]

Local == [op : Ops \union {Null}, tenant : Orgs \union {Null},
          member : Members \union {Null}, team : Teams \union {Null},
          roles : Seq(Roles), days : Seq(Days), name : Names \union {Null},
          levels : Seq(Members \X Access), role : Roles \union {Null},
          grants : Seq(Perms \X Flags), listed : SUBSET Grants,
          found : Levels \union Grants \union {Null}, loose : BOOLEAN]

TypeOK ==
  /\ member \in [Members -> Member \union {Absent}]
  /\ part \in [Parts -> Part \union {Absent}]
  /\ level \in [Levels -> Level \union {Absent}]
  /\ team \in [Teams -> Team \union {Absent}]
  /\ role \in [Roles -> Role \union {Absent}]
  /\ grant \in [Grants -> Grant \union {Absent}]
  /\ issued \in 0 .. MaxParts
  /\ todo \in [Procs -> Seq(Todo)]
  /\ local \in [Procs -> Local]
  /\ twins \subseteq ({"part"} \X Parts) \union ({"level"} \X Levels)
                 \union ({"team"} \X Teams) \union ({"role"} \X Roles)
                 \union ({"grant"} \X Grants)
  /\ requests \in Nat /\ faults \in Nat

\* Members without roles, shifts or levels, and roles without grants; teams
\* and roles of one organization have names of their own.
Init ==
  /\ member \in [Members -> Member \union {Absent}]
  /\ part = [x \in Parts |-> Absent]
  /\ level = [a \in Levels |-> Absent]
  /\ team \in [Teams -> Team \union {Absent}]
  /\ \A m \in Members : Live(member, m) /\ member[m].team # Null =>
       team[member[m].team] # Absent
  /\ \A t, u \in Teams : t # u /\ Live(team, t) /\ Live(team, u) =>
       team[t].name # team[u].name \/ team[t].org # team[u].org
  /\ role \in [Roles -> [name : Names, org : Orgs, listed : {{}}, deleted : {FALSE}]
                       \union {Absent}]
  /\ \A r, s \in Roles : r # s /\ role[r] # Absent /\ role[s] # Absent =>
       role[r].name # role[s].name \/ role[r].org # role[s].org
  /\ grant = [g \in Grants |-> Absent]
  /\ issued = 0
  /\ todo = [p \in Procs |-> <<>>]
  /\ local = [p \in Procs |-> Blank]
  /\ twins = {}
  /\ requests = 0 /\ faults = 0

-----------------------------------------------------------------------------
(* Requests.                                                               *)

Do(what) == [do |-> what, on |-> Null, access |-> Null]
On(what, id) == [Do(what) EXCEPT !.on = id]
Each(what, ids) ==
  LET order == CHOOSE f \in Bijection(1 .. Cardinality(ids), ids) : TRUE
  IN [k \in 1 .. Cardinality(ids) |-> On(what, order[k])]

\* One step for each id of a list, twice for one that is named twice.
InTurn(what, list) == [k \in DOMAIN list |-> On(what, list[k])]

\* One step for each entry of a request, a pair of a row and an access or flags.
EachEntry(what, entries) ==
  [k \in DOMAIN entries |-> [On(what, entries[k][1]) EXCEPT !.access = entries[k][2]]]

\* The steps that are known when the request comes: load_member, find_member
\* and find_grant add others, see Rewrite, SetLevel and FindGrant.
Script(c) ==
  CASE c.op = "update_member" -> <<On("load_member", c.member)>>
    [] c.op = "assign_role" ->
         <<On("find_member", c.member), Do("find_role"), Do("assign_role")>>
    [] c.op = "remove_role" -> <<On("find_member", c.member), Do("find_role")>>
    [] c.op = "set_levels" -> EachEntry("find_member", c.levels)
    [] c.op = "remove_level" -> <<On("find_member", c.member), Do("delete_level")>>
    [] c.op = "delete_member" -> <<On("find_member", c.member), Do("delete_member")>>
    [] c.op = "create_team" -> <<Do("find_team"), Do("create_team")>>
    [] c.op = "delete_team" -> <<Do("delete_team")>>
    [] c.op = "create_role" ->
         <<Do("find_name"), Do("create_role")>> \o EachEntry("write_grant", c.grants)
         \o <<Do("list_grants")>>
    [] c.op = "update_role" ->
         <<Do("load_role"), Do("find_name"), Do("rename_role")>>
         \o EachEntry("find_grant", c.grants) \o <<Do("list_grants")>>
    [] c.op = "delete_role" -> <<Do("delete_role")>>

\* Nothing refuses a request that names a role, a day or a permission twice.
Repeats(c) ==
  \/ \E j, k \in DOMAIN c.roles : j # k /\ c.roles[j] = c.roles[k]
  \/ \E j, k \in DOMAIN c.days : j # k /\ c.days[j] = c.days[k]
  \/ \E j, k \in DOMAIN c.grants : j # k /\ c.grants[j][1] = c.grants[k][1]

Running(p) == todo[p] # <<>>
At(p, what) == Running(p) /\ Head(todo[p]).do = what
AtEnd(p) == Len(todo[p]) = 1

\* A request is about teams that exist and gives roles that exist: the foreign
\* keys raise for others, as a failure does.
Receive(p, call) ==
  LET c == [call EXCEPT !.loose = Repeats(call)]
  IN /\ c.op \in Ops
     /\ c.team # Null => team[c.team] # Absent
     /\ \A k \in DOMAIN c.roles : role[c.roles[k]] # Absent
     /\ requests' = requests + 1
     /\ todo' = [todo EXCEPT ![p] = Script(c)]
     /\ local' = [local EXCEPT ![p] = c]
     /\ UNCHANGED <<dbVars, twins, faults>>

Advance(p) == todo' = [todo EXCEPT ![p] = Tail(@)] /\ UNCHANGED <<requests, faults>>

\* A read, of which l is what the handler's variables are then.
Read(p, l) ==
  /\ Advance(p)
  /\ local' = [local EXCEPT ![p] = IF AtEnd(p) THEN Blank ELSE l]
  /\ UNCHANGED <<dbVars, twins>>

\* A read after which `steps` come next.
Expand(p, steps, l) ==
  /\ todo' = [todo EXCEPT ![p] = steps \o Tail(@)]
  /\ local' = [local EXCEPT ![p] = l]
  /\ UNCHANGED <<dbVars, twins, requests, faults>>

\* A commit that writes `rows`, of which l is what the handler's variables
\* are then; it overtakes the other requests.
Commit(p, l, rows) ==
  /\ Advance(p)
  /\ twins' = IF local[p].loose THEN twins \union rows ELSE twins
  /\ local' = [q \in Procs |->
                 IF q = p THEN IF AtEnd(p) THEN Blank ELSE l
                 ELSE [local[q] EXCEPT !.loose = Running(q)]]

Write(p, rows) == Commit(p, local[p], rows)

Stop(p) ==
  /\ todo' = [todo EXCEPT ![p] = <<>>]
  /\ local' = [local EXCEPT ![p] = Blank]
  /\ UNCHANGED <<dbVars, twins, requests>>

\* An error answer.
Refuse(p) == Stop(p) /\ UNCHANGED faults

\* An awaited call raises, or the backend crashes with the request under way.
Fail(p) ==
  /\ Running(p)
  /\ faults < MaxFaults
  /\ faults' = faults + 1
  /\ Stop(p)

-----------------------------------------------------------------------------
(* Members, their roles and shifts.                                        *)

Owned(m, o) == Live(member, m) /\ member[m].org = o

\* The rest of an entry of update_team_members_access_level.
SetLevel(m, access) ==
  (IF access = "LEAD" THEN <<On("find_lead", m)>> ELSE <<>>)
  \o <<On("find_level", m), [On("write_level", m) EXCEPT !.access = access]>>

\* Faulty: looks for the member in all organizations.
FaultyFindMember(p) ==
  LET c == local[p]
      m == Head(todo[p]).on
  IN /\ At(p, "find_member")
     /\ \/ Live(member, m) /\ c.op # "set_levels" /\ Read(p, c)
        \/ /\ Live(member, m) /\ c.op = "set_levels"
           /\ Expand(p, SetLevel(m, Head(todo[p]).access), c)
        \/ ~Live(member, m) /\ Refuse(p)

\* remove_member_access_level looks for a member of the team.
FindMember(p) ==
  LET c == local[p]
      m == Head(todo[p]).on
      found == /\ Owned(m, c.tenant)
               /\ c.op = "remove_level" => member[m].team = c.team
  IN /\ At(p, "find_member")
     /\ \/ found /\ c.op # "set_levels" /\ Read(p, c)
        \/ found /\ c.op = "set_levels" /\ Expand(p, SetLevel(m, Head(todo[p]).access), c)
        \/ ~found /\ Refuse(p)

\* The parts of a member of which kind, Roles or Days.
PartsOf(m, kind) ==
  {x \in Parts : part[x] # Absent /\ part[x].member = m /\ part[x].of \in kind}

\* Faulty: the shifts there are stay.
FaultyRewrite(c) ==
  <<On("update_member", c.member)>>
  \o Each("delete_part", PartsOf(c.member, Roles)) \o InTurn("create_part", c.roles)
  \o InTurn("create_part", c.days)
  \o <<On("find_level", c.member), [On("write_level", c.member) EXCEPT !.access = "MEMBER"]>>

\* What update_member does with the rows it has loaded with the member.
Rewrite(c) ==
  <<On("update_member", c.member)>>
  \o Each("delete_part", PartsOf(c.member, Roles)) \o InTurn("create_part", c.roles)
  \o Each("delete_part", PartsOf(c.member, Days)) \o InTurn("create_part", c.days)
  \o <<On("find_level", c.member), [On("write_level", c.member) EXCEPT !.access = "MEMBER"]>>

LoadMember(p) ==
  LET c == local[p]
  IN /\ At(p, "load_member")
     /\ \/ Owned(c.member, c.tenant) /\ Expand(p, Rewrite(c), c)
        \/ ~Owned(c.member, c.tenant) /\ Refuse(p)

\* OrganizationMember.update, deleted or not; the tenant becomes its
\* organization.
UpdateMember(p) ==
  LET c == local[p]
  IN /\ At(p, "update_member")
     /\ member' = [member EXCEPT ![c.member].team = c.team, ![c.member].org = c.tenant]
     /\ Write(p, {})
     /\ UNCHANGED <<part, level, team, issued>>

\* Model.delete: 404 when its look finds no row.  When another deletion comes
\* between its look and its own, it deletes nothing without a word.
DeletePart(p) ==
  LET x == Head(todo[p]).on
  IN /\ At(p, "delete_part")
     /\ \/ /\ part[x] # Absent
           /\ part' = [part EXCEPT ![x] = Absent]
           /\ Write(p, {})
           /\ UNCHANGED <<member, level, team, issued>>
        \/ part[x] = Absent /\ Refuse(p)
        \/ part[x] = Absent /\ Write(p, {}) /\ UNCHANGED staffVars

NewPart(p, what) ==
  /\ issued < MaxParts
  /\ issued' = issued + 1
  /\ part' = [part EXCEPT ![issued + 1] = [member |-> local[p].member, of |-> what]]
  /\ Write(p, {<<"part", issued + 1>>})
  /\ UNCHANGED <<member, level, team>>

CreatePart(p) == At(p, "create_part") /\ NewPart(p, Head(todo[p]).on)

\* The role named by a request to assign or remove it.
RoleOf(c) == c.roles[1]

\* assign_role does nothing when the member has the role.  remove_assign_role
\* passes an id where soft_delete takes a condition, which raises: whether or
\* not the role is found, it changes nothing and answers an error.
FindRole(p) ==
  LET c == local[p]
      found == \E x \in PartsOf(c.member, Roles) : part[x].of = RoleOf(c)
  IN /\ At(p, "find_role")
     /\ \/ c.op = "assign_role" /\ ~found /\ Read(p, c)
        \/ (c.op = "remove_role" \/ found) /\ Refuse(p)

AssignRole(p) == At(p, "assign_role") /\ NewPart(p, RoleOf(local[p]))

DeleteMember(p) ==
  /\ At(p, "delete_member")
  /\ member' = [member EXCEPT ![local[p].member].deleted = TRUE]
  /\ Write(p, {})
  /\ UNCHANGED <<part, level, team, issued>>

-----------------------------------------------------------------------------
(* Access levels.                                                          *)

\* The rows that find_one may return.
LevelsOf(m, t, o) ==
  {a \in Levels : /\ Live(level, a)
                  /\ level[a].member = m /\ level[a].team = t /\ level[a].org = o}
LeadsOf(t, o) ==
  {a \in Levels : /\ Live(level, a)
                  /\ level[a].team = t /\ level[a].org = o /\ level[a].access = "LEAD"}

\* Faulty: looks for a lead that is the member itself.
FaultyFindLead(p) ==
  LET m == Head(todo[p]).on
      found == \E a \in LeadsOf(local[p].team, local[p].tenant) : level[a].member = m
  IN /\ At(p, "find_lead")
     /\ \/ ~found /\ Read(p, local[p])
        \/ found /\ Refuse(p)

\* The row it happens to find decides, when there are several.
FindLead(p) ==
  LET leads == LeadsOf(local[p].team, local[p].tenant)
      m == Head(todo[p]).on
  IN /\ At(p, "find_lead")
     /\ \/ /\ leads = {} \/ \E a \in leads : level[a].member = m
           /\ Read(p, local[p])
        \/ (\E a \in leads : level[a].member # m) /\ Refuse(p)

\* Faulty: takes the member's id for the id of the row.
FaultyFindLevel(p) ==
  /\ At(p, "find_level")
  /\ Read(p, [local[p] EXCEPT !.found = Head(todo[p]).on])

FindLevel(p) ==
  LET rows == LevelsOf(Head(todo[p]).on, local[p].team, local[p].tenant)
  IN /\ At(p, "find_level")
     /\ \E a \in IF rows = {} THEN {Null} ELSE rows :
          Read(p, [local[p] EXCEPT !.found = a])

\* Updates the row found, which may have been deleted since, or makes one.
WriteLevel(p) ==
  LET c == local[p]
      step == Head(todo[p])
      new == [member |-> step.on, team |-> c.team, org |-> c.tenant,
              access |-> step.access, deleted |-> FALSE]
      free == {a \in Levels : level[a] = Absent}
      a == IF c.found # Null THEN c.found ELSE CHOOSE x \in free : \A y \in free : x <= y
  IN /\ At(p, "write_level")
     /\ c.found = Null => free # {}
     /\ level' = [level EXCEPT ![a] = IF c.found = Null THEN new
                    ELSE [@ EXCEPT !.access = step.access, !.org = c.tenant]]
     /\ Write(p, {<<"level", a>>})
     /\ UNCHANGED <<member, part, team, issued>>

\* soft_delete of the first level of the member, in whichever team, and
\* deleted already or not.
DeleteLevel(p) ==
  LET c == local[p]
      rows == {a \in Levels : /\ level[a] # Absent
                              /\ level[a].member = c.member /\ level[a].org = c.tenant}
  IN /\ At(p, "delete_level")
     /\ \/ rows = {} /\ level' = level
        \/ \E a \in rows : level' = [level EXCEPT ![a].deleted = TRUE]
     /\ Write(p, {})
     /\ UNCHANGED <<member, part, team, issued>>

-----------------------------------------------------------------------------
(* Teams.                                                                  *)

FindTeam(p) ==
  LET found == \E t \in Teams : /\ Live(team, t)
                                /\ team[t].org = local[p].tenant
                                /\ team[t].name = local[p].name
  IN /\ At(p, "find_team")
     /\ \/ ~found /\ Read(p, local[p])
        \/ found /\ Refuse(p)

CreateTeam(p) ==
  /\ At(p, "create_team")
  /\ \E t \in Teams :
       /\ team[t] = Absent
       /\ team' = [team EXCEPT ![t] = [name |-> local[p].name, org |-> local[p].tenant,
                                       deleted |-> FALSE]]
       /\ Write(p, {<<"team", t>>})
  /\ UNCHANGED <<member, part, level, issued>>

\* delete_team finds the team in any organization.  A deletion between its
\* look and its own deletion changes nothing, so they are one step.
DeleteTeam(p) ==
  /\ At(p, "delete_team")
  /\ \/ /\ Live(team, local[p].team)
        /\ team' = [team EXCEPT ![local[p].team].deleted = TRUE]
        /\ Write(p, {})
        /\ UNCHANGED <<member, part, level, issued>>
     \/ ~Live(team, local[p].team) /\ Refuse(p)

-----------------------------------------------------------------------------
(* The catalogue of roles.                                                 *)

LoadRole(p) ==
  LET c == local[p]
      found == Live(role, c.role) /\ role[c.role].org = c.tenant
  IN /\ At(p, "load_role")
     /\ \/ found /\ Read(p, c)
        \/ ~found /\ Refuse(p)

\* validate_role_data: nobody else has the name, as far as the one row that it
\* finds tells, and some permission allows something.
FindName(p) ==
  LET c == local[p]
      rows == {r \in Roles : /\ Live(role, r)
                             /\ role[r].org = c.tenant /\ role[r].name = c.name}
      allows == \E k \in DOMAIN c.grants : c.grants[k][2] = "some"
  IN /\ At(p, "find_name")
     /\ \/ allows /\ (rows = {} \/ c.role \in rows) /\ Read(p, c)
        \/ (~allows \/ rows \ {c.role} # {}) /\ Refuse(p)

CreateRole(p) ==
  LET c == local[p]
  IN /\ At(p, "create_role")
     /\ \E r \in Roles :
          /\ role[r] = Absent
          /\ role' = [role EXCEPT ![r] = [name |-> c.name, org |-> c.tenant,
                                          listed |-> {}, deleted |-> FALSE]]
          /\ Commit(p, [c EXCEPT !.role = r], {<<"role", r>>})
     /\ UNCHANGED grant

\* OrganizationRole.update, of a role deleted since then as well.
RenameRole(p) ==
  LET c == local[p]
  IN /\ At(p, "rename_role")
     /\ role' = [role EXCEPT ![c.role].name = c.name, ![c.role].org = c.tenant]
     /\ Write(p, {<<"role", c.role>>})
     /\ UNCHANGED grant

FindGrant(p) ==
  LET rows == {g \in Grants : /\ grant[g] # Absent
                              /\ grant[g].role = local[p].role
                              /\ grant[g].perm = Head(todo[p]).on}
  IN /\ At(p, "find_grant")
     /\ \E g \in IF rows = {} THEN {Null} ELSE rows :
          Expand(p, <<[Head(todo[p]) EXCEPT !.do = "write_grant"]>>,
                 [local[p] EXCEPT !.found = g])

\* Updates the grant found, or makes one.
WriteGrant(p) ==
  LET c == local[p]
      step == Head(todo[p])
      free == {g \in Grants : grant[g] = Absent}
      g == IF c.found # Null THEN c.found ELSE CHOOSE x \in free : \A y \in free : x <= y
  IN /\ At(p, "write_grant")
     /\ c.found = Null => free # {}
     /\ grant' = [grant EXCEPT ![g] = [role |-> c.role, perm |-> step.on,
                                       flags |-> step.access]]
     /\ Commit(p, [c EXCEPT !.listed = @ \union {g}], {<<"grant", g>>})
     /\ UNCHANGED role

\* attributes.permissions: grants that a request leaves out keep their rows
\* and flags, and only disappear from this list.
ListGrants(p) ==
  LET c == local[p]
  IN /\ At(p, "list_grants")
     /\ role' = [role EXCEPT ![c.role].listed = c.listed, ![c.role].org = c.tenant]
     /\ Write(p, {})
     /\ UNCHANGED grant

\* soft_delete, without a word when the tenant has no such role.  The roles of
\* members stay.
DeleteRole(p) ==
  LET r == local[p].role
  IN /\ At(p, "delete_role")
     /\ role' = IF role[r] # Absent /\ role[r].org = local[p].tenant
                THEN [role EXCEPT ![r].deleted = TRUE] ELSE role
     /\ Write(p, {})
     /\ UNCHANGED grant

StaffStep(p) ==
  \/ FindMember(p) \/ LoadMember(p) \/ UpdateMember(p) \/ DeletePart(p)
  \/ CreatePart(p) \/ FindRole(p) \/ AssignRole(p) \/ DeleteMember(p)
  \/ FindLead(p) \/ FindLevel(p) \/ WriteLevel(p) \/ DeleteLevel(p)
  \/ FindTeam(p) \/ CreateTeam(p) \/ DeleteTeam(p)

CatalogueStep(p) ==
  \/ LoadRole(p) \/ FindName(p) \/ CreateRole(p) \/ RenameRole(p)
  \/ FindGrant(p) \/ WriteGrant(p) \/ ListGrants(p) \/ DeleteRole(p)

Step(p) ==
  \/ StaffStep(p) /\ UNCHANGED catalogue
  \/ CatalogueStep(p) /\ UNCHANGED staffVars

Idle(p) == ~Running(p) /\ requests < MaxRequests

Call(op, o) == [Blank EXCEPT !.op = op, !.tenant = o]

\* Bound: requests with one entry or two.
Lists(entries) ==
  {<<e>> : e \in entries} \union {<<e, f>> : e \in entries, f \in entries}

CallMember(p, o, m) ==
  /\ Idle(p)
  /\ \/ \E t \in Teams, r \in Lists(Roles) \union {<<>>},
          d \in Lists(Days) \union {<<>>} :
          Receive(p, [Call("update_member", o) EXCEPT !.member = m, !.team = t,
                                                      !.roles = r, !.days = d])
     \/ \E op \in {"assign_role", "remove_role"}, r \in Roles :
          Receive(p, [Call(op, o) EXCEPT !.member = m, !.roles = <<r>>])
     \/ \E t \in Teams :
          Receive(p, [Call("remove_level", o) EXCEPT !.member = m, !.team = t])
     \/ Receive(p, [Call("delete_member", o) EXCEPT !.member = m])

CallTeam(p, o) ==
  /\ Idle(p)
  /\ \/ \E n \in Names : Receive(p, [Call("create_team", o) EXCEPT !.name = n])
     \/ \E t \in Teams : Receive(p, [Call("delete_team", o) EXCEPT !.team = t])
     \/ \E t \in Teams, l \in Lists(Members \X Access) :
          Receive(p, [Call("set_levels", o) EXCEPT !.team = t, !.levels = l])

\* Permissions are ones of the group that the request names: others are
\* refused before anything is written.
CallRole(p, o) ==
  /\ Idle(p)
  /\ \/ \E n \in Names, g \in Lists(Perms \X Flags) :
          Receive(p, [Call("create_role", o) EXCEPT !.name = n, !.grants = g])
     \/ \E r \in Roles, n \in Names, g \in Lists(Perms \X Flags) :
          Receive(p, [Call("update_role", o) EXCEPT !.role = r, !.name = n,
                                                    !.grants = g])
     \/ \E r \in Roles : Receive(p, [Call("delete_role", o) EXCEPT !.role = r])

Client(p) ==
  \E o \in Orgs :
    (\E m \in Members : CallMember(p, o, m)) \/ CallTeam(p, o) \/ CallRole(p, o)

Next == \E p \in Procs : Client(p) \/ Step(p) \/ Fail(p)

Spec == Init /\ [][Next]_vars

=============================================================================
