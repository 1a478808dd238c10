----------------------------- MODULE MCAccounts -----------------------------
(***************************************************************************)
(* A small instance of Accounts: u1 has two sessions, in none of which a   *)
(* user is cached, and a verification token; u2 has not registered yet.    *)
(***************************************************************************)
EXTENDS AccountsProps, TLC

CONSTANTS u1, u2, w1, w2, o1, o2, o3, s1, s2, s3, r1, r2, r3, k1, k2

MCInit ==
  /\ user = [u \in Users |-> IF u = u1 THEN [password |-> w1, current |-> Unset]
                             ELSE Absent]
  /\ refresh = [r \in Refreshes |-> IF r \in {r1, r2} THEN [user |-> u1, active |-> TRUE]
                                    ELSE Absent]
  /\ code = [k \in Codes |-> IF k = k1 THEN [user |-> u1, used |-> FALSE] ELSE Absent]
  /\ orgs = {o1} /\ expired = {}
  /\ holder = [s \in Sessions |-> IF s \in {s1, s2} THEN u1 ELSE Null]
  /\ cache = [s \in Sessions |-> Absent]
  /\ todo = [p \in Procs |-> <<>>]
  /\ local = [p \in Procs |-> Blank]
  /\ chosen = [s \in Sessions |-> Null]
  /\ ended = [u \in Users |-> 0] /\ redeemed = [k \in Codes |-> 0] /\ torn = {}
  /\ requests = 0 /\ faults = 0 /\ lapses = 0

MCSpec == MCInit /\ [][Next]_vars

MCSymmetry == Permutations(Procs)

\* A third request meets those about sessions and the cache only.
MCBound ==
  requests = 3 =>
    \A p \in Procs :
      local[p].op \in {Null, "visit", "logout", "set_organization",
                       "create_organization", "delete_workspace", "verify_two_fa"}

=============================================================================
