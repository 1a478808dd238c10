--------------------------- MODULE AccountsProps ---------------------------
(***************************************************************************)
(* What users, their tokens and the cache of users must guarantee.         *)
(***************************************************************************)
EXTENDS Accounts

Authenticating(p) ==
  \E step \in {"middleware", "lookup", "load", "admit"} : At(p, step)

\* A session reads its own writes: once set_organization or create_organization
\* has answered, each later request of the session acts for the organization
\* chosen, whether the user comes from the cache or from the database, until
\* the user chooses again here or elsewhere.  Only a request that had loaded
\* the user before, and caches him after, or a choice made at the same time,
\* can take it back.
ReadYourWrites ==
  [][\A p \in Procs :
       LET s == local[p].session
       IN  Authenticating(p) /\ Running(p)' /\ ~Authenticating(p)' /\ chosen[s] # Null
           => local'[p].tenant = chosen[s]]_vars

\* Each logout that is answered with success ends one session of the user, and
\* nothing else ends one; but for two logouts at a time that end the same one,
\* and for one whose update raised after its commit.
LogoutEnds ==
  \A u \in Users :
    LET Of == {r \in Refreshes : refresh[r] # Absent /\ refresh[r].user = u}
    IN  Of \intersect torn = {} =>
          Cardinality({r \in Of : ~refresh[r].active}) = ended[u]

\* A verification token has its effect once, whichever of the two handlers it
\* is sent to, and is not used up without it; but for two requests that looked
\* at it at once, and for one cut short between its two updates, be it by
\* the first of them after its commit.
RedeemedOnce ==
  \A k \in Codes \ torn :
    /\ redeemed[k] <= 1
    /\ code[k] # Absent /\ code[k].used =>
         \/ redeemed[k] = 1
         \/ \E p \in Procs : /\ local[p].token = k
                             /\ At(p, "set_verified") \/ At(p, "set_password")

=============================================================================
