--------------------------- MODULE MCSlaMonitor ---------------------------
(***************************************************************************)
(* Small instances of the SLA check: one or two tickets of one or two      *)
(* organizations.                                                          *)
(***************************************************************************)
EXTENDS SlaMonitorProps, TLC

CONSTANTS t1, t2, s1, s2, s3, s4, org1, org2

\* Statuses s1 to s3 and all tickets belong to org1, s4 to org2.
MCOrgOf == (s4 :> org2) @@ (t2 :> org2)
           @@ [x \in {t1, s1, s2, s3} |-> org1]

OneOrgOf == [x \in {t1, t2, s1, s2, s3} |-> org1]

MCSymmetry == Permutations(Receivers) \union Permutations(Statuses)

\* A fixed starting point for the liveness runs: s1 pending, s2 open, s3 and
\* s4 closed; each ticket has an SLA of its own when there are enough of them.
CONSTANTS l1, l2
MCInit ==
  /\ Init
  /\ category = [s \in Statuses |-> CASE s = s2 -> "open"
                                      [] s \in {s3, s4} -> "closed"
                                      [] OTHER -> "pending"]
  /\ status = [t \in Tickets |-> s1]
  /\ sla = [t \in Tickets |-> IF t = t1 THEN l1 ELSE l2]

MCFairSpec == MCInit /\ [][Next]_vars /\ Fairness

=============================================================================
