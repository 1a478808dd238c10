---------------------------- MODULE MCMembership ----------------------------
(***************************************************************************)
(* Small instances of Membership: u1 has founded o1 and, as an agent of    *)
(* his, invited u2.                                                        *)
(***************************************************************************)
EXTENDS MembershipProps, TLC

CONSTANTS o1, o2, o3, m1, m2, m3, i1, i2, i3, u1, u2, n1, n2, n3, d1, d2

MCInit ==
  /\ org = [o \in Orgs |-> IF o = o1
              THEN [name |-> n1, domain |-> d1, owner |-> u1, founder |-> u1,
                    deleted |-> FALSE]
              ELSE Absent]
  /\ member = [m \in Members |-> IF m = m1
                 THEN [user |-> u1, org |-> o1, deleted |-> FALSE] ELSE Absent]
  /\ invitation = [i \in Invitations |-> IF i = i1
                     THEN [email |-> u2, org |-> o1, status |-> "pending",
                           deleted |-> FALSE]
                     ELSE Absent]
  /\ todo = [p \in Procs |-> <<>>]
  /\ local = [p \in Procs |-> Blank]
  /\ twins = {} /\ disturbed = {}
  /\ requests = 0 /\ faults = 0

MCSpec == MCInit /\ [][Next]_vars

\* Three requests, or two and a failure.
MCBound == requests + faults <= 3

MCSymmetry == Permutations(Procs)

=============================================================================
