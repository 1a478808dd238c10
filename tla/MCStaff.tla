------------------------------ MODULE MCStaff ------------------------------
(***************************************************************************)
(* A small instance of Staff: m1 and m2 are members of o1, m1 with a role, *)
(* a shift and perhaps the lead of t1; o2 has no members.  Each has a role; *)
(* that of o1 grants x1, and once granted x2.                              *)
(***************************************************************************)
EXTENDS StaffProps, TLC

CONSTANTS o1, o2, m1, m2, t1, t2, r1, r2, r3, r4, d1, x1, x2, n1, n2

MCMember == [m \in Members |-> [org |-> o1, team |-> t1, deleted |-> FALSE]]
MCRole == [r \in Roles |->
            CASE r = r1 -> [name |-> n1, org |-> o1, listed |-> {1}, deleted |-> FALSE]
              [] r = r2 -> [name |-> n2, org |-> o2, listed |-> {}, deleted |-> FALSE]
              [] OTHER -> Absent]
MCGrant == [g \in Grants |->
             CASE g = 1 -> [role |-> r1, perm |-> x1, flags |-> "some"]
               [] g = 2 -> [role |-> r1, perm |-> x2, flags |-> "some"]
               [] OTHER -> Absent]

MCInit ==
  /\ member = MCMember
  /\ part = [x \in Parts |-> IF x = 1 THEN [member |-> m1, of |-> r1]
                             ELSE IF x = 2 THEN [member |-> m1, of |-> d1] ELSE Absent]
  /\ \E first \in {Absent, [member |-> m1, team |-> t1, org |-> o1,
                             access |-> "LEAD", deleted |-> FALSE]} :
       level = [a \in Levels |-> IF a = 1 THEN first ELSE Absent]
  /\ team = [t \in Teams |-> IF t = t1 THEN [name |-> n1, org |-> o1, deleted |-> FALSE]
                             ELSE Absent]
  /\ role = MCRole /\ grant = MCGrant
  /\ issued = 2
  /\ todo = [p \in Procs |-> <<>>]
  /\ local = [p \in Procs |-> Blank]
  /\ twins = {}
  /\ requests = 0 /\ faults = 0

MCSpec == MCInit /\ [][Next]_vars

OfCatalogue(p) == local[p].op \in {"create_role", "update_role", "delete_role"}

\* Requests that make a difference: two levels are about two members, an
\* update names a role, two or one twice, and of two grants the first allows
\* nothing.  Requests on the catalogue neither read nor write what the others
\* do, so either only they come, or only the others.
MCBound ==
  \A p \in Procs :
    LET c == local[p]
    IN /\ Len(c.levels) = 2 => c.levels[1][1] # c.levels[2][1]
       /\ c.op = "update_member" => c.roles \in {<<r1>>, <<r2>>, <<r2, r1>>, <<r2, r2>>}
       /\ Len(c.grants) = 1 => c.grants[1][1] = x1
       /\ Len(c.grants) = 2 => c.grants[1][2] = "none" /\ c.grants[2][2] = "some"
       /\ OfCatalogue(p) => /\ member = MCMember /\ issued = 2 /\ team[t2] = Absent
                            /\ \A a \in Levels : level[a] = Absent
       /\ Running(p) /\ ~OfCatalogue(p) => role = MCRole /\ grant = MCGrant

MCSymmetry == Permutations(Procs)

=============================================================================
