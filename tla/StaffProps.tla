----------------------------- MODULE StaffProps -----------------------------
(***************************************************************************)
(* What roles, teams and access levels of members must guarantee.          *)
(***************************************************************************)
EXTENDS Staff

\* The code keeps its rows single by looking before it writes, in separate
\* awaits: no member has a role twice, no organization two live teams or two
\* live roles of one name ("Team Name Already Exists", team/router.py:46,
\* "Role name already exists", dependencies.py:170), no member two live levels
\* in a team, no team two leads ("A LEAD already exists in this team",
\* team/router.py:309) and no role two grants of one permission, whatever is
\* set, removed, updated and cut short in between, but for rows of requests
\* that are loose and the leads of a team with a level of one: the first of
\* two levels of a member that a look-up returns may not be the one that leads.
\* A request is loose when another task wrote while it ran, or when its list
\* names a role, a day or a permission twice, which nothing refuses: then the
\* two looks can both miss, or there is none.
Excused(kind, x, y) == <<kind, x>> \in twins \/ <<kind, y>> \in twins

Contended(t, o) ==
  \E a \in Levels : /\ <<"level", a>> \in twins /\ level[a] # Absent
                    /\ level[a].team = t /\ level[a].org = o

OnePart ==
  \A x, y \in Parts :
    x # y /\ part[x] # Absent /\ part[x] = part[y] => Excused("part", x, y)

OneTeam ==
  \A t, u \in Teams :
    /\ t # u /\ Live(team, t) /\ Live(team, u)
    /\ team[t].name = team[u].name /\ team[t].org = team[u].org
    => Excused("team", t, u)

OneLevel ==
  \A a, b \in Levels :
    /\ a # b /\ Live(level, a) /\ Live(level, b)
    /\ level[a].team = level[b].team /\ level[a].org = level[b].org
    => /\ level[a].member = level[b].member => Excused("level", a, b)
       /\ level[a].access = "LEAD" /\ level[b].access = "LEAD"
          => Contended(level[a].team, level[a].org)

OneRole ==
  \A r, s \in Roles :
    /\ r # s /\ Live(role, r) /\ Live(role, s)
    /\ role[r].name = role[s].name /\ role[r].org = role[s].org
    => Excused("role", r, s)

OneGrant ==
  \A g, h \in Grants :
    /\ g # h /\ grant[g] # Absent /\ grant[h] # Absent
    /\ grant[g].role = grant[h].role /\ grant[g].perm = grant[h].perm
    => Excused("grant", g, h)

NoTwins == OnePart /\ OneTeam /\ OneLevel /\ OneRole /\ OneGrant

\* No interleaving lets a request of one organization give a member of
\* another one a level.
SameTenant ==
  \A a \in Levels :
    level[a] # Absent => level[a].org = member[level[a].member].org

\* The last of the many commits of update_member, if no other request came in
\* between and it names no role and no day twice, leaves the member with the
\* team, the roles and the days asked for, each once and no others, and with a
\* level in that team that is not the lead: whatever earlier updates, cut short
\* or not, left behind.
Wanted(c) == Range(c.roles) \union Range(c.days)

Exact(c) ==
  /\ member'[c.member].team = c.team
  /\ {part'[x].of : x \in {x \in Parts : part'[x] # Absent /\ part'[x].member = c.member}}
       = Wanted(c)
  /\ Cardinality({x \in Parts : part'[x] # Absent /\ part'[x].member = c.member})
       = Cardinality(Wanted(c))
  /\ \E a \in Levels :
       /\ Live(level', a)
       /\ level'[a].member = c.member /\ level'[a].team = c.team
       /\ level'[a].access = "MEMBER"

\* And the last commit of create_role and update_role, that name no permission
\* twice, leaves a role that lists the permissions asked for, each once with the
\* flags asked for, and no others, although each has a row of its own that may
\* exist already.
ExactRole(c) ==
  LET r == role'[c.role]
  IN /\ r.name = c.name
     /\ {<<grant'[g].perm, grant'[g].flags>> : g \in r.listed}
          = {c.grants[k] : k \in DOMAIN c.grants}
     /\ Cardinality(r.listed) = Len(c.grants)
     /\ \A g \in r.listed : grant'[g].role = c.role

UpdateExact ==
  [][\A p \in Procs :
       LET c == local[p]
           done == ~c.loose /\ todo'[p] = <<>> /\ faults' = faults
       IN /\ c.op = "update_member" /\ At(p, "write_level") /\ done => Exact(c)
          /\ At(p, "list_grants") /\ done => ExactRole(c)]_vars

=============================================================================
