--------------------------- MODULE MCChatMessages ---------------------------
(***************************************************************************)
(* Small instances of the conversations.                                   *)
(***************************************************************************)
EXTENDS ChatMessagesProps, TLC

CONSTANTS p1, p2, o1, o2, s1, s2, g1, g2, k1, k2

\* s1 and g1 belong to o1.
MCOrgOf == [s \in Staff \union Guests |-> IF s \in {s2, g2} THEN o2 ELSE o1]

\* One open conversation in o1, where a customer of o2 listens too; the other
\* ids are free.
MCInit ==
  /\ Init
  /\ conv = [k \in Convs |-> IF k = k1 THEN [org |-> o1, guest |-> g1,
                                             resolved |-> FALSE]
                             ELSE Absent]
  /\ seats = {<<g1, k1>>, <<g2, k1>>}

MCSpec == MCInit /\ [][Next]_vars

MCSymmetry == Permutations(Procs)

\* Three requests, or two and a fault; opening a conversation counts twice.
MCBound ==
  requests + faults + Cardinality({k \in Convs : Stored(conv, k)}) <= 4

=============================================================================
