-------------------------- MODULE TicketDeskProofs --------------------------
(***************************************************************************)
(* Proofs about the ticket desk, for any finite number of request tasks    *)
(* and any organizations, rows, requests and faults.  Known says what a    *)
(* request that is running has left and what it has found out, and what    *)
(* holds of the tables; with TypeOK it is inductive, and gives SameTenant. *)
(* On it rest Backed, which counts a commit that is not logged yet with    *)
(* the request that is about to log it, Counted, which compares the        *)
(* commits of a request on settings with the calls it has left, and Gone,  *)
(* by which a row that is missing was deleted by some request.             *)
(***************************************************************************)
EXTENDS TicketDeskProps, SequenceTheorems, FiniteSetTheorems, TLAPS

-----------------------------------------------------------------------------
(* What a request has left.                                                *)

\* Calls that only look something up before the first change.
Checks == {"default_status", "default_sla", "check_priority", "check_status", "check_sla",
           "find_ticket", "already_opened", "open_status", "same_name", "find_row"}

\* Calls that commit a change the log is told of.
Commits == {"insert_ticket", "update_ticket", "soft_delete", "insert_row", "update_row",
            "delete_row"}

\* Calls that nothing but a check comes before.
Early == Checks \union {"insert_ticket"}

\* The calls of an operation.
StepsOf(c) ==
  CASE c.op = "create_ticket" ->
         {"default_status", "default_sla", "check_priority", "check_status", "check_sla",
          "insert_ticket", "log", "note", "mail"}
    [] c.op = "confirm_ticket" ->
         {"find_ticket", "already_opened", "open_status", "update_ticket", "log"}
    [] c.op = "edit_ticket" ->
         {"find_ticket", "check_priority", "default_sla", "check_status", "merge",
          "update_ticket", "log"}
    [] c.op = "delete_ticket" -> {"find_ticket", "soft_delete", "log"}
    [] c.op = "add_note" -> {"note"}
    [] c.op = "create_row" ->
         IF c.kind = "sla" THEN {"check_priority", "insert_row", "log"}
         ELSE {"same_name", "next_name", "insert_row", "log"}
    [] c.op = "edit_row" -> {"find_row", "check_priority", "update_row", "log"}
    [] c.op = "delete_row" ->
         {"find_row", "tickets_using_it", "select_row", "delete_row", "log"}

\* Whether two rows are to be created.
Twice(c) == c.op = "create_row" /\ c.extra = TRUE

\* Checks come first, a log entry right after its commit, the mail last.
Ordered(t) ==
  /\ \A i \in 1 .. Len(t) : \A j \in 1 .. Len(t) :
       i < j /\ t[j] \in Early => t[i] \in Checks
  /\ \A i \in 1 .. Len(t) :
       /\ t[i] = "log" => i = 1 \/ t[i - 1] \in Commits
       /\ t[i] \in Commits => i < Len(t) /\ t[i + 1] = "log"
       /\ t[i] = "mail" => i = Len(t)

\* The rounds of a request on settings, from the end.
Rounds(c, t) ==
  \A i \in 1 .. Len(t) :
    LET d == Len(t) - i
    IN /\ t[i] = "log" <=> d = 0 \/ (Twice(c) /\ d = 3)
       /\ t[i] \in Commits <=> d = 1 \/ (Twice(c) /\ d = 4)
       /\ t[i] \in {"same_name", "next_name"} => d = 2 \/ (Twice(c) /\ d = 5)

Rest(c, t) ==
  /\ t \in Seq(Steps)
  /\ \A i \in 1 .. Len(t) : t[i] \in StepsOf(c)
  /\ Ordered(t)
  /\ c.op \in RowOps => Rounds(c, t)

Running(p) == todo[p] # <<>>

Has(t, step) == \E i \in 1 .. Len(t) : t[i] = step

-----------------------------------------------------------------------------
(* What a request knows.                                                   *)

\* A row x as it is, or was, stored; h says whom ids were issued to.
Sound(x, r, h) ==
  /\ r.org = h[x]
  /\ x \in Slas => r.key \in Priorities /\ h[r.key] = r.org

\* The snapshot an edit keeps.
Snapped(c, h) ==
  /\ c.snap \in Ticket /\ c.snap.org = c.org
  /\ \A x \in Refs : Points(c.snap, x) =>
       h[x] = c.org /\ \E r \in c.refs : r[1] = x

\* The parameters of a request fit its operation.
Params(c) ==
  /\ c \in Local /\ c.op \in Ops /\ c.org \in Orgs
  /\ c.op \in TicketOps => c.row = Null
  /\ c.op \in {"confirm_ticket", "edit_ticket", "delete_ticket", "add_note"} =>
       c.ticket \in Tickets
  /\ c.op \in RowOps => c.kind \in Kinds /\ c.status = Null /\ c.sla = Null
  /\ c.op = "create_row" =>
       IF c.kind = "sla" THEN c.key \in Priorities /\ c.priority = c.key /\ c.extra = FALSE
       ELSE c.key \in Names /\ c.priority = Null
  /\ c.op = "edit_row" =>
       IF c.kind = "sla" THEN c.key \in Priorities \union {Null} /\ c.priority = c.key
       ELSE c.key \in Names \union {Null}
  /\ c.op \in {"edit_row", "delete_row"} => c.row \in IdsOf[c.kind]

\* What a request has found belongs to its organization; what it has yet to
\* check, it will before it writes; what it logs, it has.
Facts(c, t, h) ==
  /\ \A r \in c.refs : Sound(r[1], r[2], h)
  /\ c.priority # Null => Has(t, "check_priority") \/ h[c.priority] = c.org
  /\ c.status # Null => Has(t, "check_status") \/ h[c.status] = c.org
  /\ c.sla # Null => h[c.sla] = c.org
  /\ c.op \in {"confirm_ticket", "edit_ticket", "delete_ticket"} =>
       Has(t, "find_ticket") \/ h[c.ticket] = c.org
  /\ c.op = "edit_ticket" => Has(t, "find_ticket") \/ Snapped(c, h)
  /\ c.op = "create_ticket" => Has(t, "insert_ticket") \/ c.ticket \in Tickets
  /\ c.op \in {"edit_row", "delete_row"} => Has(t, "find_row") \/ h[c.row] = c.org
  /\ c.op = "create_row" /\ t[1] = "log" => c.row \in Refs

Knows(c, t, h) == Params(c) /\ Rest(c, t) /\ Facts(c, t, h)

Informed(p) == Knows(local[p], todo[p], home)

\* Rows, tickets and what they point at stay in one organization.
Tables ==
  /\ \A x \in Refs : Live(x) => Sound(x, row[x], home)
  /\ \A l \in Slas : Live(l) => Live(row[l].key)
  /\ \A t \in Tickets :
       /\ home[t] # Null => ticket[t] # Absent
       /\ ticket[t] # Absent =>
            /\ ticket[t].org = home[t]
            /\ \A x \in Refs : Points(ticket[t], x) => Live(x) /\ home[x] = home[t]

Known == TypeOK /\ Tables /\ \A p \in Procs : Running(p) => Informed(p)

-----------------------------------------------------------------------------
(* The log.                                                                *)

\* The entry a request is about to log.
Entry(c) == <<Verb(c), IF c.row # Null THEN c.row ELSE c.ticket>>

Pending(e) == {p \in Procs : At(p, "log") /\ Entry(local[p]) = e}

Mailing(t) == {p \in Procs : /\ Running(p) /\ local[p].op = "create_ticket"
                             /\ local[p].ticket = t}

\* Entries that handlers make without a commit: updates and deletions that find
\* the row gone.
Loose == {"updated", "deleted"} \X Refs

\* Entries of rows that are created or deleted.
RowEntries == {"created", "deleted"} \X Refs

\* Entries and mails there are, and those about to be made, are backed.
Backed ==
  /\ \A e \in Entries : e \in Loose \/ logs[e] + Cardinality(Pending(e)) <= done[e]
  /\ faults = 0 => \A e \in RowEntries : logs[e] + Cardinality(Pending(e)) >= done[e]
  /\ \A t \in Tickets : mailed[t] + Cardinality(Mailing(t)) <= done[<<"created", t>>]

\* A row that is gone was deleted by a request, and so was a row whose deletion is
\* logged, or about to be, or answered as a success.
Gone ==
  /\ \A x \in Refs : home[x] # Null /\ ~Live(x) => DeletedOnce(x)
  /\ \A x \in Refs : logs[<<"deleted", x>>] > 0 => DeletedOnce(x)
  /\ \A p \in Procs : local[p].op = "delete_row" /\ (At(p, "log") \/ answer[p] = "ok") =>
       local[p].row \in Refs /\ DeletedOnce(local[p].row)

\* Commits that are due when n calls are left.
Due(c, n) == IF Twice(c) THEN (IF n >= 5 THEN 0 ELSE IF n >= 2 THEN 1 ELSE 2)
                         ELSE IF n >= 2 THEN 0 ELSE 1

Exact(c) == c.op = "create_row" /\ c.kind # "status"

\* A request on settings has made the commits due when n calls are left.
OnTime(c, n, w, a) ==
  /\ a = Null /\ w <= Due(c, n)
  /\ Exact(c) => w = Due(c, n)

\* And what it answers, after f failures.
Answered(c, w, a, f) ==
  /\ a = "error" /\ (c.op = "delete_row" \/ f = 0) => w < Due(c, 0)
  /\ a = "ok" /\ Exact(c) => w = Due(c, 0)

Counted ==
  \A p \in Procs : local[p].op \in RowOps =>
    IF Running(p) THEN OnTime(local[p], Len(todo[p]), wrote[p], answer[p])
                  ELSE Answered(local[p], wrote[p], answer[p], faults)

-----------------------------------------------------------------------------
(* Sequences of calls.                                                     *)

\* What is left after n calls.
LEMMA Suffix ==
  ASSUME NEW t \in Seq(Steps), NEW n \in 1 .. Len(t)
  PROVE  LET u == SubSeq(t, n + 1, Len(t))
         IN  /\ u \in Seq(Steps) /\ Len(u) = Len(t) - n
             /\ \A i \in 1 .. Len(u) : u[i] = t[i + n]
             /\ u = <<>> <=> n = Len(t)
<1> DEFINE u == SubSeq(t, n + 1, Len(t))
<1>1. Len(t) \in Nat /\ n \in 1 .. Len(t) /\ n + 1 \in Int
  BY LenProperties
<1>2. \A i \in n + 1 .. Len(t) : t[i] \in Steps
  BY <1>1, ElementOfSeq
<1>3. /\ u \in Seq(Steps)
      /\ Len(u) = IF n + 1 <= Len(t) THEN Len(t) - (n + 1) + 1 ELSE 0
      /\ \A i \in 1 .. Len(t) - (n + 1) + 1 : u[i] = t[n + 1 + i - 1]
  BY <1>1, <1>2, SubSeqProperties
<1> HIDE DEF u
<1>4. Len(u) = Len(t) - n
  BY <1>1, <1>3
<1>5. \A i \in 1 .. Len(u) : u[i] = t[i + n]
  <2> SUFFICES ASSUME NEW i \in 1 .. Len(u) PROVE u[i] = t[i + n]
    OBVIOUS
  <2>1. i \in 1 .. Len(t) - (n + 1) + 1 /\ n + 1 + i - 1 = i + n
    BY <1>1, <1>4
  <2> QED BY <1>3, <2>1
<1>6. u = <<>> <=> Len(u) = 0
  BY <1>3, EmptySeq
<1>7. Len(u) = 0 <=> n = Len(t)
  BY <1>1, <1>4
<1> QED BY <1>3, <1>4, <1>5, <1>6, <1>7 DEF u

\* Order and rounds hold of what is left.
LEMMA RestOfRest ==
  ASSUME NEW c, NEW t, Rest(c, t), NEW n \in 1 .. Len(t)
  PROVE  Rest(c, SubSeq(t, n + 1, Len(t)))
<1> DEFINE u == SubSeq(t, n + 1, Len(t))
<1>1. t \in Seq(Steps) /\ Len(t) \in Nat
  BY LenProperties DEF Rest
<1>2. /\ u \in Seq(Steps) /\ Len(u) = Len(t) - n
      /\ \A i \in 1 .. Len(u) : u[i] = t[i + n]
  BY <1>1, Suffix
<1> HIDE DEF u
<1>3. \A i \in 1 .. Len(u) : i + n \in 1 .. Len(t)
  BY <1>1, <1>2
<1>4. \A i \in 1 .. Len(u) : u[i] \in StepsOf(c)
  BY <1>2, <1>3 DEF Rest
<1>5. Ordered(u)
  <2>1. ASSUME NEW i \in 1 .. Len(u), NEW j \in 1 .. Len(u), i < j, u[j] \in Early
        PROVE  u[i] \in Checks
    <3>1. i + n \in 1 .. Len(t) /\ j + n \in 1 .. Len(t) /\ i + n < j + n
      BY <1>1, <1>2, <1>3, <2>1
    <3>2. u[i] = t[i + n] /\ u[j] = t[j + n]
      BY <1>2
    <3> QED BY <2>1, <3>1, <3>2 DEF Rest, Ordered
  <2>2. ASSUME NEW i \in 1 .. Len(u)
        PROVE  /\ u[i] = "log" => i = 1 \/ u[i - 1] \in Commits
               /\ u[i] \in Commits => i < Len(u) /\ u[i + 1] = "log"
               /\ u[i] = "mail" => i = Len(u)
    <3>1. /\ t[i + n] = "log" => i + n = 1 \/ t[i + n - 1] \in Commits
          /\ t[i + n] \in Commits => i + n < Len(t) /\ t[i + n + 1] = "log"
          /\ t[i + n] = "mail" => i + n = Len(t)
      BY <1>3 DEF Rest, Ordered
    <3>2. i # 1 => u[i - 1] = t[i + n - 1]
      <4>1. i # 1 => i - 1 \in 1 .. Len(u) /\ (i - 1) + n = i + n - 1
        BY <1>1, <1>2
      <4> QED BY <1>2, <4>1
    <3>3. i < Len(u) => u[i + 1] = t[i + n + 1]
      <4>1. i < Len(u) => i + 1 \in 1 .. Len(u) /\ (i + 1) + n = i + n + 1
        BY <1>1, <1>2
      <4> QED BY <1>2, <4>1
    <3>4. u[i] = t[i + n] /\ (i + n < Len(t) => i < Len(u)) /\ (i + n = Len(t) => i = Len(u))
          /\ i + n # 1
      BY <1>1, <1>2
    <3> QED BY <3>1, <3>2, <3>3, <3>4
  <2> QED BY <2>1, <2>2 DEF Ordered
<1>6. Rounds(c, t) => Rounds(c, u)
  <2> SUFFICES ASSUME Rounds(c, t), NEW i \in 1 .. Len(u)
               PROVE  LET d == Len(u) - i
                      IN /\ u[i] = "log" <=> d = 0 \/ (Twice(c) /\ d = 3)
                         /\ u[i] \in Commits <=> d = 1 \/ (Twice(c) /\ d = 4)
                         /\ u[i] \in {"same_name", "next_name"} => d = 2 \/ (Twice(c) /\ d = 5)
    BY DEF Rounds
  <2>1. Len(t) - (i + n) = Len(u) - i /\ u[i] = t[i + n] /\ i + n \in 1 .. Len(t)
    BY <1>1, <1>2, <1>3
  <2> QED BY <2>1 DEF Rounds
<1> QED BY <1>2, <1>4, <1>5, <1>6 DEF Rest, u

\* Two parts of a script.
LEMMA Joined ==
  ASSUME NEW s \in Seq(Steps), NEW t \in Seq(Steps), Ordered(s), Ordered(t),
         ~Has(s, "mail"), Len(t) > 0 => t[1] # "log",
         \/ \A i \in 1 .. Len(s) : s[i] \in Checks
         \/ \A i \in 1 .. Len(t) : t[i] \notin Early
  PROVE  /\ s \o t \in Seq(Steps) /\ Ordered(s \o t)
         /\ Len(s \o t) = Len(s) + Len(t)
         /\ \A i \in 1 .. Len(s) : (s \o t)[i] = s[i]
         /\ \A i \in 1 .. Len(t) : (s \o t)[Len(s) + i] = t[i]
         /\ \A x : Has(s \o t, x) <=> Has(s, x) \/ Has(t, x)
<1> DEFINE u == s \o t
<1>1. /\ u \in Seq(Steps) /\ Len(u) = Len(s) + Len(t)
      /\ \A i \in 1 .. Len(s) + Len(t) : u[i] = IF i <= Len(s) THEN s[i] ELSE t[i - Len(s)]
  BY ConcatProperties
<1>2. Len(s) \in Nat /\ Len(t) \in Nat
  BY LenProperties
<1> HIDE DEF u
<1>3. \A i \in 1 .. Len(s) : u[i] = s[i] /\ i \in 1 .. Len(u)
  BY <1>1, <1>2
<1>4. ASSUME NEW i \in 1 .. Len(t) PROVE u[Len(s) + i] = t[i] /\ Len(s) + i \in 1 .. Len(u)
  <2>1. Len(s) + i \in 1 .. Len(s) + Len(t) /\ ~(Len(s) + i <= Len(s))
        /\ (Len(s) + i) - Len(s) = i
    BY <1>2
  <2> QED BY <1>1, <2>1
<1>5. ASSUME NEW i \in 1 .. Len(u), i \notin 1 .. Len(s)
      PROVE  i - Len(s) \in 1 .. Len(t) /\ i = Len(s) + (i - Len(s)) /\ u[i] = t[i - Len(s)]
  <2>1. i - Len(s) \in 1 .. Len(t) /\ ~(i <= Len(s)) /\ i \in 1 .. Len(s) + Len(t)
    BY <1>1, <1>2, <1>5
  <2> QED BY <1>1, <1>2, <2>1
<1>6. ASSUME NEW i \in 1 .. Len(u), NEW j \in 1 .. Len(u), i < j, u[j] \in Early
      PROVE  u[i] \in Checks
  <2>1. CASE j \in 1 .. Len(s)
    <3>1. i \in 1 .. Len(s)
      BY <1>2, <1>6, <2>1
    <3> QED BY <1>3, <1>6, <2>1, <3>1 DEF Ordered
  <2>2. CASE j \notin 1 .. Len(s)
    <3>1. j - Len(s) \in 1 .. Len(t) /\ t[j - Len(s)] \in Early
      BY <1>5, <1>6, <2>2
    <3>2. CASE i \in 1 .. Len(s)
      BY <1>3, <3>1, <3>2
    <3>3. CASE i \notin 1 .. Len(s)
      <4>1. i - Len(s) \in 1 .. Len(t) /\ u[i] = t[i - Len(s)]
        BY <1>5, <3>3
      <4>2. i - Len(s) < j - Len(s)
        BY <1>2, <1>6
      <4> QED BY <3>1, <4>1, <4>2 DEF Ordered
    <3> QED BY <3>2, <3>3
  <2> QED BY <2>1, <2>2
<1>7. ASSUME NEW i \in 1 .. Len(u)
      PROVE  /\ u[i] = "log" => i = 1 \/ u[i - 1] \in Commits
             /\ u[i] \in Commits => i < Len(u) /\ u[i + 1] = "log"
             /\ u[i] = "mail" => i = Len(u)
  <2>1. CASE i \in 1 .. Len(s)
    <3>1. u[i] = s[i] /\ s[i] # "mail"
      BY <1>3, <2>1 DEF Has
    <3>2. s[i] = "log" => i = 1 \/ s[i - 1] \in Commits
      BY <2>1 DEF Ordered
    <3>3. i # 1 => u[i - 1] = s[i - 1]
      <4>1. i # 1 => i - 1 \in 1 .. Len(s)
        BY <1>2, <2>1
      <4> QED BY <1>3, <4>1
    <3>4. s[i] \in Commits => i < Len(s) /\ s[i + 1] = "log"
      BY <2>1 DEF Ordered
    <3>5. i < Len(s) => u[i + 1] = s[i + 1] /\ i < Len(u)
      <4>1. i < Len(s) => i + 1 \in 1 .. Len(s) /\ i < Len(u)
        BY <1>1, <1>2, <2>1
      <4> QED BY <1>3, <4>1
    <3> QED BY <3>1, <3>2, <3>3, <3>4, <3>5
  <2>2. CASE i \notin 1 .. Len(s)
    <3> DEFINE k == i - Len(s)
    <3>1. k \in 1 .. Len(t) /\ u[i] = t[k] /\ i = Len(s) + k
      BY <1>5, <2>2
    <3> HIDE DEF k
    <3>2. /\ t[k] = "log" => k = 1 \/ t[k - 1] \in Commits
          /\ t[k] \in Commits => k < Len(t) /\ t[k + 1] = "log"
          /\ t[k] = "mail" => k = Len(t)
      BY <3>1 DEF Ordered
    <3>3. k = 1 => t[k] # "log"
      BY <1>2, <3>1
    <3>4. k # 1 => u[i - 1] = t[k - 1]
      <4>1. k # 1 => k - 1 \in 1 .. Len(t) /\ Len(s) + (k - 1) = i - 1
        BY <1>2, <3>1
      <4> QED BY <1>4, <4>1
    <3>5. k < Len(t) => u[i + 1] = t[k + 1] /\ i < Len(u)
      <4>1. k < Len(t) => k + 1 \in 1 .. Len(t) /\ Len(s) + (k + 1) = i + 1 /\ i < Len(u)
        BY <1>1, <1>2, <3>1
      <4> QED BY <1>4, <4>1
    <3>6. k = Len(t) => i = Len(u)
      BY <1>1, <3>1
    <3> QED BY <3>1, <3>2, <3>3, <3>4, <3>5, <3>6
  <2> QED BY <2>1, <2>2
<1>8. Ordered(u)
  BY <1>6, <1>7 DEF Ordered
<1>9. ASSUME NEW x PROVE Has(u, x) <=> Has(s, x) \/ Has(t, x)
  <2>1. Has(u, x) => Has(s, x) \/ Has(t, x)
    BY <1>3, <1>5 DEF Has
  <2>2. Has(s, x) => Has(u, x)
    BY <1>3 DEF Has
  <2>3. Has(t, x) => Has(u, x)
    BY <1>4 DEF Has
  <2> QED BY <2>1, <2>2, <2>3
<1> QED BY <1>1, <1>3, <1>4, <1>8, <1>9 DEF u

\* A script is a rest of itself, and makes the checks its parameters call for.
Scripted(c, t) ==
  /\ Rest(c, t) /\ t # <<>> /\ t[1] # "log"
  /\ c.priority # Null => Has(t, "check_priority")
  /\ c.status # Null => Has(t, "check_status")
  /\ c.op \in {"confirm_ticket", "edit_ticket", "delete_ticket"} => Has(t, "find_ticket")
  /\ c.op = "create_ticket" => Has(t, "insert_ticket")
  /\ c.op \in {"edit_row", "delete_row"} => Has(t, "find_row")
  /\ Twice(c) => Len(t) = 6

\* Nothing left is in order.
LEMMA EmptyOrdered == <<>> \in Seq(Steps) /\ Len(<<>>) = 0 /\ Ordered(<<>>) /\ ~Has(<<>>, "mail")
BY DEF Ordered, Has

\* A part of one call, which may be left out.
LEMMA OptionalPart ==
  ASSUME NEW x \in Steps, x # "log", x \notin Commits, x # "mail", NEW b
  PROVE  LET t == IF b THEN <<x>> ELSE <<>>
         IN  /\ t \in Seq(Steps) /\ Ordered(t) /\ (Len(t) > 0 => t[1] # "log")
             /\ ~Has(t, "mail") /\ (b => Has(t, x)) /\ Len(t) \in {0, 1}
             /\ \A i \in 1 .. Len(t) : t[i] = x
<1>1. <<x>> \in Seq(Steps) /\ Len(<<x>>) = 1 /\ <<x>>[1] = x
  OBVIOUS
<1>2. Ordered(<<x>>) /\ ~Has(<<x>>, "mail") /\ Has(<<x>>, x)
  BY <1>1 DEF Ordered, Has
<1> QED BY <1>1, <1>2, EmptyOrdered

\* The script of a new ticket, with or without a note.
LEMMA CreateTicketScript ==
  ASSUME NEW c, c.op = "create_ticket", c.status = Null
  PROVE  Scripted(c, Script(c))
<1> DEFINE a == <<"default_status", "default_sla", "check_priority",
                  "check_status", "check_sla", "insert_ticket", "log">>
           b == IF c.extra THEN <<"note">> ELSE <<>>
           m == <<"mail">>
<1>1. /\ a \in Seq(Steps) /\ Len(a) = 7
      /\ a[1] = "default_status" /\ a[2] = "default_sla" /\ a[3] = "check_priority"
      /\ a[4] = "check_status" /\ a[5] = "check_sla" /\ a[6] = "insert_ticket" /\ a[7] = "log"
  BY DEF Steps
<1>2. m \in Seq(Steps) /\ Len(m) = 1 /\ m[1] = "mail"
  BY DEF Steps
<1>3. Script(c) = (a \o b) \o m
  BY DEF Script
<1>4. /\ b \in Seq(Steps) /\ Ordered(b) /\ (Len(b) > 0 => b[1] # "log") /\ ~Has(b, "mail")
      /\ \A i \in 1 .. Len(b) : b[i] = "note"
  BY OptionalPart DEF Steps, Commits
<1> HIDE DEF a, b, m
<1>5. Ordered(a) /\ ~Has(a, "mail")
  BY <1>1 DEF Ordered, Early, Has, Checks, Commits
<1>6. Ordered(m)
  BY <1>2 DEF Ordered, Early, Checks, Commits
<1>7. /\ a \o b \in Seq(Steps) /\ Ordered(a \o b) /\ Len(a \o b) = Len(a) + Len(b)
      /\ \A i \in 1 .. Len(a) : (a \o b)[i] = a[i]
      /\ \A x : Has(a \o b, x) <=> Has(a, x) \/ Has(b, x)
  BY <1>1, <1>4, <1>5, Joined DEF Early, Checks
<1> DEFINE u == a \o b
<1> HIDE DEF u
<1>8. /\ u \o m \in Seq(Steps) /\ Ordered(u \o m) /\ Len(u \o m) = Len(u) + Len(m)
      /\ \A i \in 1 .. Len(u) : (u \o m)[i] = u[i]
      /\ \A x : Has(u \o m, x) <=> Has(u, x) \/ Has(m, x)
  <2>1. u \in Seq(Steps) /\ Ordered(u) /\ ~Has(u, "mail")
    BY <1>4, <1>5, <1>7 DEF u
  <2>2. \A i \in 1 .. Len(m) : m[i] \notin Early
    BY <1>2 DEF Early, Checks
  <2>3. Len(m) > 0 => m[1] # "log"
    BY <1>2
  <2> QED BY <1>2, <1>6, <2>1, <2>2, <2>3, Joined
<1>9. Script(c) = u \o m
  BY <1>3 DEF u
<1>10. Len(Script(c)) > 0 /\ Script(c)[1] = "default_status"
  <2>1. Len(b) \in Nat /\ Len(u) = 7 + Len(b) /\ u[1] = "default_status"
    BY <1>1, <1>4, <1>7, LenProperties DEF u
  <2> QED BY <1>2, <1>8, <1>9, <2>1
<1>11. \A x : Has(Script(c), x) <=> Has(a, x) \/ Has(b, x) \/ Has(m, x)
  BY <1>7, <1>8, <1>9 DEF u
<1>12. \A i \in 1 .. Len(Script(c)) : Script(c)[i] \in StepsOf(c)
  <2> SUFFICES ASSUME NEW x, Has(Script(c), x) PROVE x \in StepsOf(c)
    BY DEF Has
  <2>1. Has(a, x) \/ Has(b, x) \/ Has(m, x)
    BY <1>11
  <2>2. x \in {a[1], a[2], a[3], a[4], a[5], a[6], a[7], "note", "mail"}
    BY <1>1, <1>2, <1>4, <2>1 DEF Has
  <2> QED BY <1>1, <2>2 DEF StepsOf
<1>13. Has(Script(c), "check_priority") /\ Has(Script(c), "insert_ticket")
  <2>1. 3 \in 1 .. Len(a) /\ 6 \in 1 .. Len(a)
    BY <1>1
  <2>2. Has(a, "check_priority") /\ Has(a, "insert_ticket")
    BY <1>1, <2>1 DEF Has
  <2> QED BY <1>11, <2>2
<1>14. Script(c) # <<>>
  BY <1>8, <1>9, <1>10, EmptySeq
<1> QED BY <1>8, <1>9, <1>10, <1>12, <1>13, <1>14 DEF Scripted, Rest, RowOps, Twice

\* The script of an edit, with the checks of what it is given.
LEMMA EditTicketScript ==
  ASSUME NEW c, c.op = "edit_ticket"
  PROVE  Scripted(c, Script(c))
<1> DEFINE f == <<"find_ticket">>
           b == IF c.priority # Null THEN <<"check_priority", "default_sla">> ELSE <<>>
           s == IF c.status # Null THEN <<"check_status">> ELSE <<>>
           m == IF c.extra THEN <<"merge">> ELSE <<>>
           w == <<"update_ticket", "log">>
           fb == f \o b
           fbs == fb \o s
           fbsm == fbs \o m
<1>1. /\ f \in Seq(Steps) /\ Len(f) = 1 /\ f[1] = "find_ticket"
      /\ w \in Seq(Steps) /\ Len(w) = 2 /\ w[1] = "update_ticket" /\ w[2] = "log"
  BY DEF Steps
<1>2. /\ b \in Seq(Steps) /\ Len(b) \in {0, 2}
      /\ Len(b) > 0 => b[1] = "check_priority" /\ b[2] = "default_sla"
      /\ c.priority # Null => Len(b) = 2
  <2>1. CASE c.priority # Null
    BY <2>1 DEF Steps
  <2>2. CASE c.priority = Null
    BY <2>2, EmptyOrdered
  <2> QED BY <2>1, <2>2
<1>3. /\ s \in Seq(Steps) /\ Ordered(s) /\ (Len(s) > 0 => s[1] # "log") /\ ~Has(s, "mail")
      /\ c.status # Null => Has(s, "check_status")
      /\ \A i \in 1 .. Len(s) : s[i] = "check_status"
  BY OptionalPart DEF Steps, Commits
<1>4. /\ m \in Seq(Steps) /\ Ordered(m) /\ (Len(m) > 0 => m[1] # "log") /\ ~Has(m, "mail")
      /\ \A i \in 1 .. Len(m) : m[i] = "merge"
  BY OptionalPart DEF Steps, Commits
<1>5. Script(c) = fbsm \o w
  BY <1>1 DEF Script
<1> HIDE DEF f, b, s, m, w
<1>6. Ordered(f) /\ ~Has(f, "mail") /\ (\A i \in 1 .. Len(f) : f[i] \in Checks)
  BY <1>1 DEF Ordered, Early, Has, Checks, Commits
<1>7. Ordered(w) /\ ~Has(w, "mail") /\ (\A i \in 1 .. Len(w) : w[i] \notin Early)
  BY <1>1 DEF Ordered, Early, Has, Checks, Commits
<1>8. /\ Ordered(b) /\ ~Has(b, "mail") /\ (\A i \in 1 .. Len(b) : b[i] \in Checks)
      /\ Len(b) > 0 => b[1] # "log"
  BY <1>2 DEF Ordered, Early, Has, Checks, Commits
<1>9. /\ fb \in Seq(Steps) /\ Ordered(fb) /\ Len(fb) = Len(f) + Len(b)
      /\ \A i \in 1 .. Len(f) : fb[i] = f[i]
      /\ \A i \in 1 .. Len(b) : fb[Len(f) + i] = b[i]
      /\ \A x : Has(fb, x) <=> Has(f, x) \/ Has(b, x)
  BY <1>1, <1>2, <1>6, <1>8, Joined
<1> HIDE DEF fb
<1>10. \A i \in 1 .. Len(fb) : fb[i] \in Checks
  <2> SUFFICES ASSUME NEW x, Has(fb, x) PROVE x \in Checks
    BY DEF Has
  <2>1. Has(f, x) \/ Has(b, x)
    BY <1>9
  <2> QED BY <1>6, <1>8, <2>1 DEF Has
<1>11. /\ fbs \in Seq(Steps) /\ Ordered(fbs) /\ Len(fbs) = Len(fb) + Len(s)
       /\ \A i \in 1 .. Len(fb) : fbs[i] = fb[i]
       /\ \A x : Has(fbs, x) <=> Has(fb, x) \/ Has(s, x)
  <2>1. ~Has(fb, "mail")
    BY <1>6, <1>8, <1>9
  <2>2. Len(s) > 0 => s[1] # "log"
    BY <1>3
  <2>3. s \in Seq(Steps) /\ Ordered(s)
    BY <1>3
  <2> HIDE DEF fbs
  <2>4. fbs = fb \o s
    BY DEF fbs
  <2> QED BY ONLY <1>9, <1>10, <2>1, <2>2, <2>3, <2>4, Joined
<1> HIDE DEF fbs
<1>12. /\ fbsm \in Seq(Steps) /\ Ordered(fbsm) /\ Len(fbsm) = Len(fbs) + Len(m)
       /\ \A i \in 1 .. Len(fbs) : fbsm[i] = fbs[i]
       /\ \A x : Has(fbsm, x) <=> Has(fbs, x) \/ Has(m, x)
  <2>1. ~Has(fbs, "mail")
    BY <1>3, <1>6, <1>8, <1>9, <1>11
  <2>2. \A i \in 1 .. Len(m) : m[i] \notin Early
    BY <1>4 DEF Early, Checks
  <2> QED BY <1>4, <1>11, <2>1, <2>2, Joined
<1> HIDE DEF fbsm
<1>13. /\ fbsm \o w \in Seq(Steps) /\ Ordered(fbsm \o w) /\ Len(fbsm \o w) = Len(fbsm) + Len(w)
       /\ \A i \in 1 .. Len(fbsm) : (fbsm \o w)[i] = fbsm[i]
       /\ \A x : Has(fbsm \o w, x) <=> Has(fbsm, x) \/ Has(w, x)
  <2>1. ~Has(fbsm, "mail")
    BY <1>3, <1>4, <1>6, <1>8, <1>9, <1>11, <1>12
  <2>2. Len(w) > 0 => w[1] # "log"
    BY <1>1
  <2> QED BY <1>1, <1>7, <1>12, <2>1, <2>2, Joined
<1>14. Len(Script(c)) > 0 /\ Script(c)[1] = "find_ticket"
  <2>1. Len(b) \in Nat /\ Len(s) \in Nat /\ Len(m) \in Nat
    BY <1>2, <1>3, <1>4, LenProperties
  <2>2. Len(fb) = 1 + Len(b) /\ fb[1] = "find_ticket"
    BY <1>1, <1>9
  <2>3. Len(fbs) = 1 + Len(b) + Len(s) /\ fbs[1] = "find_ticket"
    BY <1>11, <2>1, <2>2
  <2>4. Len(fbsm) = 1 + Len(b) + Len(s) + Len(m) /\ fbsm[1] = "find_ticket"
    BY <1>12, <2>1, <2>3
  <2> QED BY <1>1, <1>5, <1>13, <2>1, <2>4
<1>15. \A x : Has(Script(c), x) <=> \/ Has(f, x) \/ Has(b, x) \/ Has(s, x)
                                    \/ Has(m, x) \/ Has(w, x)
  BY <1>5, <1>9, <1>11, <1>12, <1>13
<1>16. \A i \in 1 .. Len(Script(c)) : Script(c)[i] \in StepsOf(c)
  <2> SUFFICES ASSUME NEW x, Has(Script(c), x) PROVE x \in StepsOf(c)
    BY DEF Has
  <2>1. Has(f, x) \/ Has(b, x) \/ Has(s, x) \/ Has(m, x) \/ Has(w, x)
    BY <1>15
  <2>2. x \in {"find_ticket", "check_priority", "default_sla", "check_status", "merge",
               "update_ticket", "log"}
    <3>1. Has(f, x) => x = "find_ticket"
      BY <1>1 DEF Has
    <3>2. Has(b, x) => x \in {"check_priority", "default_sla"}
      <4>1. CASE Len(b) = 0
        BY <4>1 DEF Has
      <4>2. CASE Len(b) = 2
        BY <1>2, <4>2 DEF Has
      <4> QED BY <1>2, <4>1, <4>2
    <3>3. Has(s, x) => x = "check_status"
      BY <1>3 DEF Has
    <3>4. Has(m, x) => x = "merge"
      BY <1>4 DEF Has
    <3>5. Has(w, x) => x \in {"update_ticket", "log"}
      BY <1>1 DEF Has
    <3> QED BY <2>1, <3>1, <3>2, <3>3, <3>4, <3>5
  <2> QED BY <2>2 DEF StepsOf
<1>17. /\ c.priority # Null => Has(Script(c), "check_priority")
       /\ c.status # Null => Has(Script(c), "check_status")
       /\ Has(Script(c), "find_ticket")
  <2>1. c.priority # Null => Has(b, "check_priority")
    BY <1>2 DEF Has
  <2>2. Has(f, "find_ticket")
    BY <1>1 DEF Has
  <2> QED BY <1>3, <1>15, <2>1, <2>2
<1>18. Script(c) # <<>>
  BY <1>5, <1>13, <1>14, EmptySeq
<1> QED BY <1>5, <1>13, <1>14, <1>16, <1>17, <1>18 DEF Scripted, Rest, RowOps, Twice

\* The other operations on tickets.
LEMMA TicketScript ==
  ASSUME NEW c, c.op \in {"confirm_ticket", "delete_ticket", "add_note"}, c.status = Null,
         c.priority = Null
  PROVE  Scripted(c, Script(c))
<1>1. CASE c.op = "confirm_ticket"
  <2> DEFINE t == <<"find_ticket", "already_opened", "open_status", "update_ticket", "log">>
  <2>1. /\ t \in Seq(Steps) /\ Len(t) = 5 /\ t # <<>> /\ t[1] = "find_ticket"
        /\ t[2] = "already_opened" /\ t[3] = "open_status" /\ t[4] = "update_ticket"
        /\ t[5] = "log"
    BY DEF Steps
  <2>2. Script(c) = t
    BY <1>1 DEF Script
  <2> HIDE DEF t
  <2>3. Ordered(t)
    BY <2>1 DEF Ordered, Early, Checks, Commits
  <2>4. \A i \in 1 .. Len(t) : t[i] \in StepsOf(c)
    BY <1>1, <2>1 DEF StepsOf
  <2>5. t[1] # "log" /\ Has(t, "find_ticket")
    BY <2>1 DEF Has
  <2> QED BY <1>1, <2>1, <2>2, <2>3, <2>4, <2>5 DEF Scripted, Rest, RowOps, Twice
<1>2. CASE c.op = "delete_ticket"
  <2> DEFINE t == <<"find_ticket", "soft_delete", "log">>
  <2>1. /\ t \in Seq(Steps) /\ Len(t) = 3 /\ t # <<>> /\ t[1] = "find_ticket"
        /\ t[2] = "soft_delete" /\ t[3] = "log"
    BY DEF Steps
  <2>2. Script(c) = t
    BY <1>2 DEF Script
  <2> HIDE DEF t
  <2>3. Ordered(t)
    BY <2>1 DEF Ordered, Early, Checks, Commits
  <2>4. \A i \in 1 .. Len(t) : t[i] \in StepsOf(c)
    BY <1>2, <2>1 DEF StepsOf
  <2>5. t[1] # "log" /\ Has(t, "find_ticket")
    BY <2>1 DEF Has
  <2> QED BY <1>2, <2>1, <2>2, <2>3, <2>4, <2>5 DEF Scripted, Rest, RowOps, Twice
<1>3. CASE c.op = "add_note"
  <2> DEFINE t == <<"note">>
  <2>1. t \in Seq(Steps) /\ Len(t) = 1 /\ t # <<>> /\ t[1] = "note"
    BY DEF Steps
  <2>2. Script(c) = t
    BY <1>3 DEF Script
  <2> HIDE DEF t
  <2>3. Ordered(t)
    BY <2>1 DEF Ordered, Early, Checks, Commits
  <2>4. \A i \in 1 .. Len(t) : t[i] \in StepsOf(c)
    BY <1>3, <2>1 DEF StepsOf
  <2>5. t[1] # "log"
    BY <2>1
  <2> QED BY <1>3, <2>1, <2>2, <2>3, <2>4, <2>5 DEF Scripted, Rest, RowOps, Twice
<1> QED BY <1>1, <1>2, <1>3

\* A request on settings has its calls, and their rounds, from its script.
LEMMA RowScript ==
  ASSUME NEW c, NEW t \in Seq(Steps), NEW n \in {2, 3, 4, 5, 6}, Len(t) = n, c.op \in RowOps,
         Script(c) = t, c.status = Null, c.priority # Null => Has(t, "check_priority"),
         c.op \in {"edit_row", "delete_row"} => Has(t, "find_row"),
         t[1] \in {"check_priority", "same_name", "find_row"},
         \A i \in 1 .. Len(t) : t[i] \in StepsOf(c), Ordered(t), Rounds(c, t),
         Twice(c) => Len(t) = 6
  PROVE  Scripted(c, Script(c))
<1>1. t # <<>>
  BY EmptySeq
<1> QED BY <1>1 DEF Scripted, Rest, RowOps

\* The script of a deletion in the settings.
LEMMA DeleteRowScript ==
  ASSUME NEW c, c.op = "delete_row", c.status = Null, c.priority = Null
  PROVE  Scripted(c, Script(c))
<1> DEFINE t == <<"find_row", "tickets_using_it", "select_row", "delete_row", "log">>
<1>1. /\ t \in Seq(Steps) /\ Len(t) = 5 /\ t[1] = "find_row" /\ t[2] = "tickets_using_it"
      /\ t[3] = "select_row" /\ t[4] = "delete_row" /\ t[5] = "log"
  BY DEF Steps
<1>2. Script(c) = t
  BY DEF Script
<1> HIDE DEF t
<1>3. Ordered(t)
  <2>1. \A i \in 1 .. Len(t) : t[i] \in Early <=> i = 1
    BY <1>1 DEF Early, Checks
  <2>2. \A i \in 1 .. Len(t) : /\ t[i] = "log" <=> i = 5
                               /\ t[i] \in Commits <=> i = 4
                               /\ t[i] # "mail"
    BY <1>1 DEF Commits
  <2> QED BY <1>1, <2>1, <2>2 DEF Ordered
<1>4. Rounds(c, t)
  BY <1>1 DEF Rounds, Twice, Commits
<1>5. (\A i \in 1 .. Len(t) : t[i] \in StepsOf(c)) /\ Has(t, "find_row")
  BY <1>1 DEF StepsOf, Has
<1>6. c.op \in RowOps /\ c.op = "delete_row" /\ ~Twice(c) /\ Len(t) = 5 /\ t[1] = "find_row"
  BY <1>1 DEF RowOps, Twice
<1>7. c.priority = Null /\ c.status = Null
  OBVIOUS
<1>8. Scripted(c, Script(c))
  BY ONLY <1>1, <1>2, <1>3, <1>4, <1>5, <1>6, <1>7, RowScript
<1> QED BY <1>8

\* The script of an edit in the settings.
LEMMA EditRowScript ==
  ASSUME NEW c, c.op = "edit_row", c.status = Null
  PROVE  Scripted(c, Script(c))
<1> DEFINE f == <<"find_row">>
           b == IF c.priority # Null THEN <<"check_priority">> ELSE <<>>
           w == <<"update_row", "log">>
           fb == f \o b
           t == fb \o w
<1>1. /\ f \in Seq(Steps) /\ Len(f) = 1 /\ f[1] = "find_row"
      /\ w \in Seq(Steps) /\ Len(w) = 2 /\ w[1] = "update_row" /\ w[2] = "log"
  BY DEF Steps
<1>2. /\ b \in Seq(Steps) /\ Ordered(b) /\ (Len(b) > 0 => b[1] # "log") /\ ~Has(b, "mail")
      /\ Len(b) \in {0, 1} /\ (c.priority # Null => Has(b, "check_priority"))
      /\ \A i \in 1 .. Len(b) : b[i] = "check_priority"
  BY OptionalPart DEF Steps, Commits
<1>3. Script(c) = t
  BY <1>1 DEF Script
<1> HIDE DEF f, b, w
<1>4. Ordered(f) /\ ~Has(f, "mail") /\ (\A i \in 1 .. Len(f) : f[i] \in Checks)
  BY <1>1 DEF Ordered, Early, Has, Checks, Commits
<1>5. Ordered(w) /\ (\A i \in 1 .. Len(w) : w[i] \notin Early)
  BY <1>1 DEF Ordered, Early, Checks, Commits
<1>6. /\ fb \in Seq(Steps) /\ Ordered(fb) /\ Len(fb) = Len(f) + Len(b)
      /\ \A i \in 1 .. Len(f) : fb[i] = f[i]
      /\ \A i \in 1 .. Len(b) : fb[Len(f) + i] = b[i]
      /\ \A x : Has(fb, x) <=> Has(f, x) \/ Has(b, x)
  BY <1>1, <1>2, <1>4, Joined
<1> HIDE DEF fb
<1>7. /\ t \in Seq(Steps) /\ Ordered(t) /\ Len(t) = Len(fb) + Len(w)
      /\ \A i \in 1 .. Len(fb) : t[i] = fb[i]
      /\ \A i \in 1 .. Len(w) : t[Len(fb) + i] = w[i]
      /\ \A x : Has(t, x) <=> Has(fb, x) \/ Has(w, x)
  <2>1. ~Has(fb, "mail") /\ (Len(w) > 0 => w[1] # "log")
    BY <1>1, <1>2, <1>4, <1>6
  <2> QED BY <1>1, <1>5, <1>6, <2>1, Joined
<1> HIDE DEF t
<1>8. Has(t, "find_row") /\ (c.priority # Null => Has(t, "check_priority"))
  <2>1. Has(f, "find_row")
    BY <1>1 DEF Has
  <2> QED BY <1>2, <1>6, <1>7, <2>1
<1>9. CASE Len(b) = 0
  <2>1. Len(fb) = 1 /\ fb[1] = "find_row"
    BY <1>1, <1>6, <1>9
  <2>2. Len(t) = 3 /\ t[1] = "find_row" /\ t[2] = "update_row" /\ t[3] = "log"
    <3>1. t[1] = fb[1] /\ t[1 + 1] = w[1] /\ t[1 + 2] = w[2]
      BY <1>1, <1>7, <2>1
    <3> QED BY <1>1, <1>7, <2>1, <3>1
  <2>3. Rounds(c, t)
    BY <2>2 DEF Rounds, Twice, Commits
  <2>4. \A i \in 1 .. Len(t) : t[i] \in StepsOf(c)
    BY <2>2 DEF StepsOf
  <2> QED BY <1>3, <1>7, <1>8, <2>2, <2>3, <2>4, RowScript DEF RowOps, Twice
<1>10. CASE Len(b) = 1
  <2>1. Len(fb) = 2 /\ fb[1] = "find_row" /\ fb[2] = "check_priority"
    <3>1. b[1] = "check_priority" /\ fb[1 + 1] = b[1]
      BY <1>1, <1>2, <1>6, <1>10
    <3> QED BY <1>1, <1>6, <1>10, <3>1
  <2>2. /\ Len(t) = 4 /\ t[1] = "find_row" /\ t[2] = "check_priority"
        /\ t[3] = "update_row" /\ t[4] = "log"
    <3>1. t[1] = fb[1] /\ t[2] = fb[2] /\ t[2 + 1] = w[1] /\ t[2 + 2] = w[2]
      BY <1>1, <1>7, <2>1
    <3> QED BY <1>1, <1>7, <2>1, <3>1
  <2>3. Rounds(c, t)
    BY <2>2 DEF Rounds, Twice, Commits
  <2>4. \A i \in 1 .. Len(t) : t[i] \in StepsOf(c)
    BY <2>2 DEF StepsOf
  <2> QED BY <1>3, <1>7, <1>8, <2>2, <2>3, <2>4, RowScript DEF RowOps, Twice
<1> QED BY <1>2, <1>9, <1>10

\* The script of one new row in the settings, or of two.
LEMMA CreateRowScript ==
  ASSUME NEW c, c.op = "create_row", c.status = Null, c.extra \in BOOLEAN,
         IF c.kind = "sla" THEN c.extra = FALSE ELSE c.priority = Null
  PROVE  Scripted(c, Script(c))
<1> DEFINE h == IF c.kind = "sla" THEN "check_priority" ELSE "same_name"
           a == <<h, "insert_row", "log">>
           b == <<"next_name", "insert_row", "log">>
           e == <<>>
<1>0. h = "check_priority" <=> c.kind = "sla"
  OBVIOUS
<1>1. h \in {"check_priority", "same_name"}
  OBVIOUS
<1> HIDE DEF h
<1>2. /\ a \in Seq(Steps) /\ Len(a) = 3 /\ a[1] = h /\ a[2] = "insert_row" /\ a[3] = "log"
      /\ b \in Seq(Steps) /\ Len(b) = 3 /\ b[1] = "next_name" /\ b[2] = "insert_row"
      /\ b[3] = "log"
  BY <1>1 DEF Steps
<1>3. Script(c) = a \o (IF c.extra THEN b ELSE e)
  BY DEF Script, h
<1> HIDE DEF a, b
<1>4. /\ Ordered(a) /\ ~Has(a, "mail")
      /\ Ordered(b) /\ (\A i \in 1 .. Len(b) : b[i] \notin Early)
  BY <1>1, <1>2 DEF Ordered, Early, Has, Checks, Commits
<1>5. CASE c.extra = FALSE
  <2>1. Script(c) = a
    BY <1>2, <1>3, <1>5, ConcatEmptySeq
  <2>2. Rounds(c, a)
    BY <1>1, <1>2, <1>5 DEF Rounds, Twice, Commits
  <2>3. \A i \in 1 .. Len(a) : a[i] \in StepsOf(c)
    BY <1>0, <1>1, <1>2 DEF StepsOf
  <2>4. c.priority # Null => Has(a, "check_priority")
    BY <1>0, <1>2 DEF Has
  <2> QED BY <1>1, <1>2, <1>4, <1>5, <2>1, <2>2, <2>3, <2>4, RowScript DEF RowOps, Twice
<1>6. CASE c.extra = TRUE
  <2> DEFINE t == a \o b
  <2>1. Script(c) = t
    BY <1>3, <1>6
  <2>2. /\ t \in Seq(Steps) /\ Ordered(t) /\ Len(t) = Len(a) + Len(b)
        /\ \A i \in 1 .. Len(a) : t[i] = a[i]
        /\ \A i \in 1 .. Len(b) : t[Len(a) + i] = b[i]
    <3>1. Len(b) > 0 => b[1] # "log"
      BY <1>2
    <3> QED BY <1>2, <1>4, <3>1, Joined
  <2> HIDE DEF t
  <2>3. /\ Len(t) = 6 /\ t[1] = h /\ t[2] = "insert_row" /\ t[3] = "log"
        /\ t[4] = "next_name" /\ t[5] = "insert_row" /\ t[6] = "log"
    <3>1. t[1] = a[1] /\ t[2] = a[2] /\ t[3] = a[3]
          /\ t[3 + 1] = b[1] /\ t[3 + 2] = b[2] /\ t[3 + 3] = b[3]
      BY <1>2, <2>2
    <3> QED BY <1>2, <2>2, <3>1
  <2>4. h = "same_name" /\ c.kind # "sla" /\ c.priority = Null
    BY <1>0, <1>1, <1>6
  <2>5. Rounds(c, t)
    BY <1>6, <2>3, <2>4 DEF Rounds, Twice, Commits
  <2>6. \A i \in 1 .. Len(t) : t[i] \in StepsOf(c)
    BY <2>3, <2>4 DEF StepsOf
  <2> QED BY <2>1, <2>2, <2>3, <2>4, <2>5, <2>6, RowScript DEF RowOps, Twice
<1> QED BY <1>5, <1>6

-----------------------------------------------------------------------------
(* What clients ask for.                                                   *)

\* A new request.
Fresh(c) == /\ Params(c) /\ Scripted(c, Script(c))
            /\ c.refs = {} /\ c.sla = Null /\ c.snap = Null
            /\ c.op = "create_ticket" => c.ticket = Null

\* No string is Null, no entity is.
LEMMA Apart ==
  /\ Null \notin Entities /\ Null \notin Names /\ Null \notin Orgs /\ Null \notin Row
  /\ Null \notin Ticket /\ Null \notin Kinds
  /\ Null \notin Statuses /\ Null \notin Priorities /\ Null \notin Slas /\ Null \notin Tickets
BY TicketDeskAssumption DEF Entities, Refs

\* A ticket to be created.
LEMMA NewTicket ==
  ASSUME NEW o \in Orgs, NEW n \in Priorities, NEW b \in BOOLEAN, "create_ticket" \in Ops
  PROVE  Fresh([Blank EXCEPT !.op = "create_ticket", !.org = o, !.priority = n, !.extra = b])
<1> DEFINE c == [Blank EXCEPT !.op = "create_ticket", !.org = o, !.priority = n, !.extra = b]
<1>1. /\ c.op = "create_ticket" /\ c.org = o /\ c.kind = Null /\ c.ticket = Null
      /\ c.row = Null /\ c.key = Null /\ c.category = Null /\ c.status = Null
      /\ c.priority = n /\ c.sla = Null /\ c.extra = b
      /\ c.snap = Null /\ c.refs = {}
  BY DEF Blank
<1>2. c \in Local
  BY DEF Blank, Local
<1> HIDE DEF c
<1>4. Params(c)
  BY <1>1, <1>2 DEF Params, RowOps
<1>5. Scripted(c, Script(c))
  BY <1>1, CreateTicketScript
<1>6. Fresh(c)
  BY <1>1, <1>4, <1>5 DEF Fresh
<1> QED BY <1>6 DEF c

\* A ticket to be confirmed or deleted, or to get a note.
LEMMA OnTicket ==
  ASSUME NEW op \in {"confirm_ticket", "delete_ticket", "add_note"}, op \in Ops,
         NEW o \in Orgs, NEW t \in Tickets
  PROVE  Fresh([Blank EXCEPT !.op = op, !.org = o, !.ticket = t])
<1> DEFINE c == [Blank EXCEPT !.op = op, !.org = o, !.ticket = t]
<1>1. /\ c.op = op /\ c.org = o /\ c.kind = Null /\ c.ticket = t
      /\ c.row = Null /\ c.key = Null /\ c.category = Null /\ c.status = Null
      /\ c.priority = Null /\ c.sla = Null /\ c.extra = FALSE
      /\ c.snap = Null /\ c.refs = {}
  BY DEF Blank
<1>2. c \in Local
  BY DEF Blank, Local
<1> HIDE DEF c
<1>4. Params(c)
  BY <1>1, <1>2 DEF Params, RowOps
<1>5. Scripted(c, Script(c))
  BY <1>1, TicketScript
<1>6. Fresh(c)
  BY <1>1, <1>4, <1>5 DEF Fresh
<1> QED BY <1>6 DEF c

\* A ticket to be edited.
LEMMA EditedTicket ==
  ASSUME NEW o \in Orgs, NEW t \in Tickets, NEW s \in Statuses \union {Null},
         NEW n \in Priorities \union {Null}, NEW b \in BOOLEAN, "edit_ticket" \in Ops
  PROVE  Fresh([Blank EXCEPT !.op = "edit_ticket", !.org = o, !.ticket = t,
                             !.status = s, !.priority = n, !.extra = b])
<1> DEFINE c == [Blank EXCEPT !.op = "edit_ticket", !.org = o, !.ticket = t,
                             !.status = s, !.priority = n, !.extra = b]
<1>1. /\ c.op = "edit_ticket" /\ c.org = o /\ c.kind = Null /\ c.ticket = t
      /\ c.row = Null /\ c.key = Null /\ c.category = Null /\ c.status = s
      /\ c.priority = n /\ c.sla = Null /\ c.extra = b
      /\ c.snap = Null /\ c.refs = {}
  BY DEF Blank
<1>2. c \in Local
  BY DEF Blank, Local
<1> HIDE DEF c
<1>4. Params(c)
  BY <1>1, <1>2 DEF Params, RowOps
<1>5. Scripted(c, Script(c))
  BY <1>1, EditTicketScript
<1>6. Fresh(c)
  BY <1>1, <1>4, <1>5 DEF Fresh
<1> QED BY <1>6 DEF c

\* The kinds of rows.
LEMMA KindFacts ==
  ASSUME NEW k \in Kinds
  PROVE  /\ IdsOf[k] \subseteq Refs /\ CategoriesOf(k) \subseteq Categories \union {Null}
         /\ KeysOf(k) \subseteq Names \union Priorities
         /\ k = "sla" => KeysOf(k) = Priorities
         /\ k # "sla" => KeysOf(k) = Names
BY DEF Kinds, IdsOf, Refs, CategoriesOf, KeysOf

\* A row, or two, to be created.
LEMMA NewRow ==
  ASSUME NEW o \in Orgs, NEW k \in Kinds, NEW key \in KeysOf(k), NEW cat \in CategoriesOf(k),
         NEW b \in BOOLEAN, k = "sla" => b = FALSE, "create_row" \in Ops
  PROVE  Fresh([Keyed("create_row", o, k, key, cat) EXCEPT !.extra = b])
<1> DEFINE c == [Keyed("create_row", o, k, key, cat) EXCEPT !.extra = b]
<1>1. /\ c.op = "create_row" /\ c.org = o /\ c.kind = k /\ c.ticket = Null
      /\ c.row = Null /\ c.key = key /\ c.category = cat /\ c.status = Null
      /\ c.priority = (IF k = "sla" THEN key ELSE Null) /\ c.sla = Null /\ c.extra = b
      /\ c.snap = Null /\ c.refs = {}
  BY DEF Blank, Keyed
<1>2. c \in Local
  <2>1. /\ key \in Names \union Priorities \union {Null}
        /\ cat \in Categories \union {Null}
        /\ (IF k = "sla" THEN key ELSE Null) \in Priorities \union {Null}
    BY KindFacts
  <2>2. PICK q \in Priorities \union {Null} : q = IF k = "sla" THEN key ELSE Null
    BY <2>1
  <2> QED BY <2>1, <2>2, ZenonT(60) DEF Blank, Local, Keyed
<1> HIDE DEF c
<1>4. Params(c)
  BY <1>1, <1>2, KindFacts DEF Params, TicketOps
<1>5. Scripted(c, Script(c))
  BY <1>1, KindFacts, CreateRowScript
<1>6. Fresh(c)
  BY <1>1, <1>4, <1>5 DEF Fresh
<1> QED BY <1>6 DEF c

\* A row to be edited.
LEMMA EditedRow ==
  ASSUME NEW o \in Orgs, NEW k \in Kinds, NEW key \in KeysOf(k) \union {Null},
         NEW cat \in CategoriesOf(k) \union {Null}, NEW x \in IdsOf[k], "edit_row" \in Ops
  PROVE  Fresh([Keyed("edit_row", o, k, key, cat) EXCEPT !.row = x])
<1> DEFINE c == [Keyed("edit_row", o, k, key, cat) EXCEPT !.row = x]
<1>1. /\ c.op = "edit_row" /\ c.org = o /\ c.kind = k /\ c.ticket = Null
      /\ c.row = x /\ c.key = key /\ c.category = cat /\ c.status = Null
      /\ c.priority = (IF k = "sla" THEN key ELSE Null) /\ c.sla = Null /\ c.extra = FALSE
      /\ c.snap = Null /\ c.refs = {}
  BY DEF Blank, Keyed
<1>2. c \in Local
  <2>1. /\ key \in Names \union Priorities \union {Null}
        /\ cat \in Categories \union {Null}
        /\ (IF k = "sla" THEN key ELSE Null) \in Priorities \union {Null}
        /\ x \in Refs
    BY KindFacts
  <2>2. PICK q \in Priorities \union {Null} : q = IF k = "sla" THEN key ELSE Null
    BY <2>1
  <2> QED BY <2>1, <2>2, ZenonT(60) DEF Blank, Local, Keyed
<1> HIDE DEF c
<1>4. Params(c)
  BY <1>1, <1>2, KindFacts DEF Params, TicketOps
<1>5. Scripted(c, Script(c))
  BY <1>1, KindFacts, EditRowScript
<1>6. Fresh(c)
  BY <1>1, <1>4, <1>5 DEF Fresh
<1> QED BY <1>6 DEF c

\* A row to be deleted.
LEMMA DeletedRow ==
  ASSUME NEW o \in Orgs, NEW k \in Kinds, NEW x \in IdsOf[k], "delete_row" \in Ops
  PROVE  Fresh([Keyed("delete_row", o, k, Null, Null) EXCEPT !.row = x])
<1> DEFINE c == [Keyed("delete_row", o, k, Null, Null) EXCEPT !.row = x]
<1>1. /\ c.op = "delete_row" /\ c.org = o /\ c.kind = k /\ c.ticket = Null
      /\ c.row = x /\ c.key = Null /\ c.category = Null /\ c.status = Null
      /\ c.priority = Null /\ c.sla = Null /\ c.extra = FALSE
      /\ c.snap = Null /\ c.refs = {}
  BY DEF Blank, Keyed
<1>2. c \in Local
  BY KindFacts DEF Blank, Local, Keyed
<1> HIDE DEF c
<1>4. Params(c)
  BY <1>1, <1>2, KindFacts DEF Params, TicketOps
<1>5. Scripted(c, Script(c))
  BY <1>1, KindFacts, DeleteRowScript
<1>6. Fresh(c)
  BY <1>1, <1>4, <1>5 DEF Fresh
<1> QED BY <1>6 DEF c

\* A client sends a new request.
LEMMA ClientAsks ==
  ASSUME NEW p, Client(p)
  PROVE  todo[p] = <<>> /\ \E c : Fresh(c) /\ Receive(p, c)
<1>1. todo[p] = <<>>
  BY DEF Client
<1>2. ASSUME NEW o \in Orgs, NEW n \in Priorities, NEW m \in BOOLEAN, "create_ticket" \in Ops,
             Receive(p, [Blank EXCEPT !.op = "create_ticket", !.org = o, !.priority = n,
                                      !.extra = m])
      PROVE  \E c : Fresh(c) /\ Receive(p, c)
  BY <1>2, NewTicket
<1>3. ASSUME NEW op \in Ops \intersect {"confirm_ticket", "delete_ticket", "add_note"},
             NEW o \in Orgs, NEW t \in Tickets,
             Receive(p, [Blank EXCEPT !.op = op, !.org = o, !.ticket = t])
      PROVE  \E c : Fresh(c) /\ Receive(p, c)
  BY <1>3, OnTicket
<1>4. ASSUME "edit_ticket" \in Ops, NEW o \in Orgs, NEW t \in Tickets, NEW m \in BOOLEAN,
             NEW n \in Priorities \union {Null}, NEW s \in Statuses \union {Null},
             Receive(p, [Blank EXCEPT !.op = "edit_ticket", !.org = o, !.ticket = t,
                                      !.status = s, !.priority = n, !.extra = m])
      PROVE  \E c : Fresh(c) /\ Receive(p, c)
  BY <1>4, EditedTicket
<1>5. ASSUME NEW o \in Orgs, NEW k \in Kinds, "create_row" \in Ops, NEW key \in KeysOf(k),
             NEW cat \in CategoriesOf(k), NEW m \in IF k = "sla" THEN {FALSE} ELSE BOOLEAN,
             Receive(p, [Keyed("create_row", o, k, key, cat) EXCEPT !.extra = m])
      PROVE  \E c : Fresh(c) /\ Receive(p, c)
  <2>1. m \in BOOLEAN /\ (k = "sla" => m = FALSE)
    OBVIOUS
  <2> QED BY <1>5, <2>1, NewRow
<1>6. ASSUME NEW o \in Orgs, NEW k \in Kinds, "edit_row" \in Ops, NEW x \in IdsOf[k],
             NEW key \in KeysOf(k) \union {Null}, NEW cat \in CategoriesOf(k) \union {Null},
             Receive(p, [Keyed("edit_row", o, k, key, cat) EXCEPT !.row = x])
      PROVE  \E c : Fresh(c) /\ Receive(p, c)
  BY <1>6, EditedRow
<1>7. ASSUME NEW o \in Orgs, NEW k \in Kinds, "delete_row" \in Ops, NEW x \in IdsOf[k],
             Receive(p, [Keyed("delete_row", o, k, Null, Null) EXCEPT !.row = x])
      PROVE  \E c : Fresh(c) /\ Receive(p, c)
  BY <1>7, DeletedRow
<1> QED BY <1>1, <1>2, <1>3, <1>4, <1>5, <1>6, <1>7, Zenon DEF Client

-----------------------------------------------------------------------------
(* How what a request knows carries over.                                  *)

\* The call that is next.
LEMMA HeadOf ==
  ASSUME NEW t \in Seq(Steps), t # <<>>
  PROVE  Len(t) \in Nat /\ Len(t) >= 1 /\ 1 \in 1 .. Len(t) /\ Head(t) = t[1]
<1>1. Len(t) \in Nat /\ Len(t) # 0
  BY LenProperties, EmptySeq
<1>2. Head(t) = t[1]
  BY HeadTailProperties
<1> QED BY <1>1, <1>2

\* A call that is not among the first n is left after them.
LEMMA StillAhead ==
  ASSUME NEW t \in Seq(Steps), NEW n \in 1 .. Len(t), NEW x, Has(t, x),
         \A i \in 1 .. n : t[i] # x
  PROVE  Has(SubSeq(t, n + 1, Len(t)), x)
<1> DEFINE u == SubSeq(t, n + 1, Len(t))
<1>1. Len(t) \in Nat
  BY LenProperties
<1>2. Len(u) = Len(t) - n /\ \A i \in 1 .. Len(u) : u[i] = t[i + n]
  BY Suffix
<1> HIDE DEF u
<1>3. PICK i \in 1 .. Len(t) : t[i] = x
  BY DEF Has
<1>4. i \notin 1 .. n
  BY <1>3
<1>5. i - n \in 1 .. Len(u) /\ (i - n) + n = i
  BY <1>1, <1>2, <1>4
<1>6. u[i - n] = x
  BY <1>2, <1>3, <1>5
<1> QED BY <1>5, <1>6 DEF Has, u

\* What is left follows a commit if it begins with its log entry.
LEMMA LogFollows ==
  ASSUME NEW c, NEW t, Rest(c, t), NEW n \in 1 .. Len(t),
         SubSeq(t, n + 1, Len(t)) # <<>>, SubSeq(t, n + 1, Len(t))[1] = "log"
  PROVE  t[n] \in Commits
<1> DEFINE u == SubSeq(t, n + 1, Len(t))
<1>1. t \in Seq(Steps) /\ Len(t) \in Nat
  BY LenProperties DEF Rest
<1>2. u \in Seq(Steps) /\ Len(u) = Len(t) - n /\ \A i \in 1 .. Len(u) : u[i] = t[i + n]
  BY <1>1, Suffix
<1>3. 1 \in 1 .. Len(u)
  BY <1>2, HeadOf
<1> HIDE DEF u
<1>4. n + 1 \in 1 .. Len(t) /\ n + 1 # 1 /\ (n + 1) - 1 = n
  BY <1>1, <1>2, <1>3
<1>5. t[n + 1] = "log"
  BY <1>2, <1>3, <1>4 DEF u
<1> QED BY <1>4, <1>5 DEF Rest, Ordered

\* After the first write nothing is left to check, and no ticket to create.
LEMMA Settled ==
  ASSUME NEW c, NEW t, Rest(c, t), t # <<>>, t[1] \notin Checks, NEW x \in Early, x # t[1]
  PROVE  ~Has(t, x)
<1>1. t \in Seq(Steps) /\ Len(t) \in Nat /\ 1 \in 1 .. Len(t)
  BY HeadOf DEF Rest
<1>2. ASSUME NEW i \in 1 .. Len(t), t[i] = x PROVE FALSE
  <2>1. CASE i = 1
    BY <1>2, <2>1
  <2>2. CASE i # 1
    BY <1>1, <1>2, <2>2 DEF Rest, Ordered
  <2> QED BY <2>1, <2>2
<1> QED BY <1>2 DEF Has

\* The calls of an operation do not depend on what it looks up.
LEMMA SameShape ==
  ASSUME NEW c, NEW d, NEW t, Rest(c, t), d.op = c.op, d.kind = c.kind, d.extra = c.extra
  PROVE  Rest(d, t)
<1>1. StepsOf(d) = StepsOf(c)
  BY DEF StepsOf
<1>2. Rounds(c, t) => Rounds(d, t)
  BY DEF Rounds, Twice
<1> QED BY <1>1, <1>2 DEF Rest

\* Ids once issued stay with their organization.
Grows(h, g) == \A x \in Entities : h[x] # Null => g[x] = h[x]

\* What was true of a row when it was read stays true as ids are issued.
LEMMA SoundGrows ==
  ASSUME NEW h, NEW g, Grows(h, g), NEW x \in Refs, NEW r \in Row, Sound(x, r, h)
  PROVE  Sound(x, r, g)
<1>1. r.org \in Orgs /\ r.org # Null
  BY Apart DEF Row
<1>2. g[x] = h[x]
  BY <1>1 DEF Sound, Grows, Entities
<1>3. x \in Slas => g[r.key] = h[r.key]
  BY <1>1 DEF Sound, Grows, Entities, Refs
<1> QED BY <1>2, <1>3 DEF Sound

\* And so does what a request has found.
LEMMA FactsGrow ==
  ASSUME NEW h, NEW g, Grows(h, g), NEW c, Params(c), NEW t, Facts(c, t, h)
  PROVE  Facts(c, t, g)
<1>1. c \in Local /\ c.org \in Orgs /\ c.org # Null
  BY Apart DEF Params
<1>2. \A r \in c.refs : r[1] \in Refs /\ r[2] \in Row
  BY <1>1 DEF Local
<1>3. \A r \in c.refs : Sound(r[1], r[2], g)
  BY <1>2, SoundGrows DEF Facts
<1>4. \A x \in Entities : h[x] = c.org => g[x] = c.org
  BY <1>1 DEF Grows
<1>5. /\ c.priority # Null => c.priority \in Entities
      /\ c.status # Null => c.status \in Entities
      /\ c.sla # Null => c.sla \in Entities
      /\ c.ticket # Null => c.ticket \in Entities
      /\ c.row # Null => c.row \in Entities
  BY <1>1 DEF Local, Entities, Refs
<1>6. c.op \in {"confirm_ticket", "edit_ticket", "delete_ticket"} => c.ticket \in Entities
  BY DEF Params, Entities
<1>7. c.op \in {"edit_row", "delete_row"} => c.row \in Entities
  <2>1. c.op \in {"edit_row", "delete_row"} => c.kind \in Kinds /\ c.row \in IdsOf[c.kind]
    BY DEF Params, RowOps
  <2> QED BY <2>1, KindFacts DEF Entities
<1>8. Snapped(c, h) => Snapped(c, g)
  <2>1. \A x \in Refs : x \in Entities
    BY DEF Entities
  <2> QED BY <1>4, <2>1 DEF Snapped
<1> QED BY <1>3, <1>4, <1>5, <1>6, <1>7, <1>8 DEF Facts

\* A request makes its next call, which brings what it is for.
LEMMA Passed ==
  ASSUME NEW c, NEW t, NEW h, Knows(c, t, h), t # <<>>,
         t[1] = "check_priority" /\ c.priority # Null => h[c.priority] = c.org,
         t[1] = "check_status" /\ c.status # Null => h[c.status] = c.org,
         t[1] = "find_ticket" => h[c.ticket] = c.org /\ (c.op = "edit_ticket" => Snapped(c, h)),
         t[1] = "find_row" => h[c.row] = c.org,
         t[1] = "insert_ticket" => c.ticket \in Tickets,
         t[1] = "insert_row" => c.row \in Refs
  PROVE  LET u == SubSeq(t, 2, Len(t)) IN u # <<>> => Knows(c, u, h)
<1> DEFINE u == SubSeq(t, 2, Len(t))
<1>1. /\ Params(c) /\ Rest(c, t) /\ Facts(c, t, h) /\ t \in Seq(Steps)
      /\ Len(t) \in Nat /\ 1 \in 1 .. Len(t)
  BY HeadOf DEF Knows, Rest
<1> SUFFICES ASSUME u # <<>> PROVE Knows(c, u, h)
  OBVIOUS
<1>2. Rest(c, u)
  BY <1>1, RestOfRest
<1>3. ASSUME NEW x, Has(t, x), t[1] # x PROVE Has(u, x)
  BY <1>1, <1>3, StillAhead
<1>4. u[1] = "log" => t[1] \in Commits
  <2> SUFFICES ASSUME u[1] = "log" PROVE t[1] \in Commits
    OBVIOUS
  <2> DEFINE n == 1
  <2>1. u = SubSeq(t, n + 1, Len(t)) /\ n \in 1 .. Len(t)
    BY <1>1
  <2> HIDE DEF u, n
  <2>2. t[n] \in Commits
    BY <1>1, <2>1, LogFollows
  <2> QED BY <2>2 DEF n
<1> HIDE DEF u
<1>5. c.op = "create_row" /\ u[1] = "log" => c.row \in Refs
  <2> SUFFICES ASSUME c.op = "create_row", u[1] = "log" PROVE c.row \in Refs
    OBVIOUS
  <2>1. t[1] \in StepsOf(c)
    BY <1>1 DEF Rest
  <2>2. t[1] = "insert_row"
    BY <1>4, <2>1 DEF StepsOf, Commits
  <2> QED BY <2>2
<1>6. Facts(c, u, h)
  BY <1>1, <1>3, <1>5 DEF Facts
<1> QED BY <1>1, <1>2, <1>6 DEF Knows, u

\* A request on a ticket has looked a status up.
LEMMA GotStatus ==
  ASSUME NEW c, Params(c), c.op \in TicketOps, NEW v \in Statuses
  PROVE  LET d == [c EXCEPT !.status = v]
         IN  /\ Params(d)
             /\ d.op = c.op /\ d.org = c.org /\ d.kind = c.kind /\ d.ticket = c.ticket
             /\ d.row = c.row /\ d.key = c.key /\ d.category = c.category
             /\ d.status = v /\ d.priority = c.priority /\ d.sla = c.sla
             /\ d.extra = c.extra /\ d.snap = c.snap /\ d.refs = c.refs
<1> DEFINE d == [c EXCEPT !.status = v]
<1>1. c \in Local
  BY DEF Params
<1>2. /\ d.op = c.op /\ d.org = c.org /\ d.kind = c.kind /\ d.ticket = c.ticket
      /\ d.row = c.row /\ d.key = c.key /\ d.category = c.category
      /\ d.status = v /\ d.priority = c.priority /\ d.sla = c.sla
      /\ d.extra = c.extra /\ d.snap = c.snap /\ d.refs = c.refs
  BY <1>1 DEF Local
<1>3. d \in Local
  BY <1>1 DEF Local
<1> HIDE DEF d
<1>4. Params(d)
  BY <1>2, <1>3 DEF Params, TicketOps, RowOps
<1> QED BY <1>2, <1>4 DEF d

\* Or an SLA.
LEMMA GotSla ==
  ASSUME NEW c, Params(c), c.op \in TicketOps, NEW v \in Slas
  PROVE  LET d == [c EXCEPT !.sla = v]
         IN  /\ Params(d)
             /\ d.op = c.op /\ d.org = c.org /\ d.kind = c.kind /\ d.ticket = c.ticket
             /\ d.row = c.row /\ d.key = c.key /\ d.category = c.category
             /\ d.status = c.status /\ d.priority = c.priority /\ d.sla = v
             /\ d.extra = c.extra /\ d.snap = c.snap /\ d.refs = c.refs
<1> DEFINE d == [c EXCEPT !.sla = v]
<1>1. c \in Local
  BY DEF Params
<1>2. /\ d.op = c.op /\ d.org = c.org /\ d.kind = c.kind /\ d.ticket = c.ticket
      /\ d.row = c.row /\ d.key = c.key /\ d.category = c.category
      /\ d.status = c.status /\ d.priority = c.priority /\ d.sla = v
      /\ d.extra = c.extra /\ d.snap = c.snap /\ d.refs = c.refs
  BY <1>1 DEF Local
<1>3. d \in Local
  BY <1>1 DEF Local
<1> HIDE DEF d
<1>4. Params(d)
  BY <1>2, <1>3 DEF Params, TicketOps, RowOps
<1> QED BY <1>2, <1>4 DEF d

\* It has created a ticket.
LEMMA GotTicket ==
  ASSUME NEW c, Params(c), c.op \in TicketOps, NEW v \in Tickets
  PROVE  LET d == [c EXCEPT !.ticket = v]
         IN  /\ Params(d)
             /\ d.op = c.op /\ d.org = c.org /\ d.kind = c.kind /\ d.ticket = v
             /\ d.row = c.row /\ d.key = c.key /\ d.category = c.category
             /\ d.status = c.status /\ d.priority = c.priority /\ d.sla = c.sla
             /\ d.extra = c.extra /\ d.snap = c.snap /\ d.refs = c.refs
<1> DEFINE d == [c EXCEPT !.ticket = v]
<1>1. c \in Local
  BY DEF Params
<1>2. /\ d.op = c.op /\ d.org = c.org /\ d.kind = c.kind /\ d.ticket = v
      /\ d.row = c.row /\ d.key = c.key /\ d.category = c.category
      /\ d.status = c.status /\ d.priority = c.priority /\ d.sla = c.sla
      /\ d.extra = c.extra /\ d.snap = c.snap /\ d.refs = c.refs
  BY <1>1 DEF Local
<1>3. d \in Local
  BY <1>1 DEF Local
<1> HIDE DEF d
<1>4. Params(d)
  BY <1>2, <1>3 DEF Params, TicketOps, RowOps
<1> QED BY <1>2, <1>4 DEF d

\* It keeps a ticket.
LEMMA GotSnapshot ==
  ASSUME NEW c, Params(c), c.op \in TicketOps, NEW v \in Ticket
  PROVE  LET d == [c EXCEPT !.snap = v]
         IN  /\ Params(d)
             /\ d.op = c.op /\ d.org = c.org /\ d.kind = c.kind /\ d.ticket = c.ticket
             /\ d.row = c.row /\ d.key = c.key /\ d.category = c.category
             /\ d.status = c.status /\ d.priority = c.priority /\ d.sla = c.sla
             /\ d.extra = c.extra /\ d.snap = v /\ d.refs = c.refs
<1> DEFINE d == [c EXCEPT !.snap = v]
<1>1. c \in Local
  BY DEF Params
<1>2. /\ d.op = c.op /\ d.org = c.org /\ d.kind = c.kind /\ d.ticket = c.ticket
      /\ d.row = c.row /\ d.key = c.key /\ d.category = c.category
      /\ d.status = c.status /\ d.priority = c.priority /\ d.sla = c.sla
      /\ d.extra = c.extra /\ d.snap = v /\ d.refs = c.refs
  BY <1>1 DEF Local
<1>3. d \in Local
  BY <1>1 DEF Local
<1> HIDE DEF d
<1>4. Params(d)
  BY <1>2, <1>3 DEF Params, TicketOps, RowOps
<1> QED BY <1>2, <1>4 DEF d

\* A request on settings has chosen its next name.
LEMMA GotName ==
  ASSUME NEW c, Params(c), c.op = "create_row", c.kind # "sla", NEW v \in Names
  PROVE  LET d == [c EXCEPT !.key = v]
         IN  /\ Params(d)
             /\ d.op = c.op /\ d.org = c.org /\ d.kind = c.kind /\ d.ticket = c.ticket
             /\ d.row = c.row /\ d.key = v /\ d.category = c.category
             /\ d.status = c.status /\ d.priority = c.priority /\ d.sla = c.sla
             /\ d.extra = c.extra /\ d.snap = c.snap /\ d.refs = c.refs
<1> DEFINE d == [c EXCEPT !.key = v]
<1>1. c \in Local
  BY DEF Params
<1>2. /\ d.op = c.op /\ d.org = c.org /\ d.kind = c.kind /\ d.ticket = c.ticket
      /\ d.row = c.row /\ d.key = v /\ d.category = c.category
      /\ d.status = c.status /\ d.priority = c.priority /\ d.sla = c.sla
      /\ d.extra = c.extra /\ d.snap = c.snap /\ d.refs = c.refs
  BY <1>1 DEF Local
<1>3. d \in Local
  BY <1>1 DEF Local
<1> HIDE DEF d
<1>4. Params(d)
  BY <1>2, <1>3 DEF Params, TicketOps, RowOps
<1> QED BY <1>2, <1>4 DEF d

\* It has created a row.
LEMMA GotRow ==
  ASSUME NEW c, Params(c), c.op = "create_row", NEW v \in Refs
  PROVE  LET d == [c EXCEPT !.row = v]
         IN  /\ Params(d)
             /\ d.op = c.op /\ d.org = c.org /\ d.kind = c.kind /\ d.ticket = c.ticket
             /\ d.row = v /\ d.key = c.key /\ d.category = c.category
             /\ d.status = c.status /\ d.priority = c.priority /\ d.sla = c.sla
             /\ d.extra = c.extra /\ d.snap = c.snap /\ d.refs = c.refs
<1> DEFINE d == [c EXCEPT !.row = v]
<1>1. c \in Local
  BY DEF Params
<1>2. /\ d.op = c.op /\ d.org = c.org /\ d.kind = c.kind /\ d.ticket = c.ticket
      /\ d.row = v /\ d.key = c.key /\ d.category = c.category
      /\ d.status = c.status /\ d.priority = c.priority /\ d.sla = c.sla
      /\ d.extra = c.extra /\ d.snap = c.snap /\ d.refs = c.refs
  BY <1>1 DEF Local
<1>3. d \in Local
  BY <1>1 DEF Local
<1> HIDE DEF d
<1>4. Params(d)
  BY <1>2, <1>3 DEF Params, TicketOps, RowOps
<1> QED BY <1>2, <1>4 DEF d

\* A request keeps the rows it has found.
LEMMA GotRefs ==
  ASSUME NEW c, Params(c), NEW v \in SUBSET (Refs \X Row)
  PROVE  LET d == [c EXCEPT !.refs = v]
         IN  /\ Params(d)
             /\ d.op = c.op /\ d.org = c.org /\ d.kind = c.kind /\ d.ticket = c.ticket
             /\ d.row = c.row /\ d.key = c.key /\ d.category = c.category
             /\ d.status = c.status /\ d.priority = c.priority /\ d.sla = c.sla
             /\ d.extra = c.extra /\ d.snap = c.snap /\ d.refs = v
<1> DEFINE d == [c EXCEPT !.refs = v]
<1>1. c \in Local
  BY DEF Params
<1>2. /\ d.op = c.op /\ d.org = c.org /\ d.kind = c.kind /\ d.ticket = c.ticket
      /\ d.row = c.row /\ d.key = c.key /\ d.category = c.category
      /\ d.status = c.status /\ d.priority = c.priority /\ d.sla = c.sla
      /\ d.extra = c.extra /\ d.snap = c.snap /\ d.refs = v
  BY <1>1 DEF Local
<1>3. d \in Local
  BY <1>1 DEF Local
<1> HIDE DEF d
<1>4. Params(d)
  BY <1>2, <1>3 DEF Params, TicketOps, RowOps
<1> QED BY <1>2, <1>4 DEF d

-----------------------------------------------------------------------------
(* Requests that go on and requests that end.                              *)

\* Where a running request is.
LEMMA Here ==
  ASSUME Known, NEW p \in Procs, Running(p)
  PROVE  /\ Params(local[p]) /\ Rest(local[p], todo[p]) /\ Facts(local[p], todo[p], home)
         /\ Informed(p) /\ local[p] \in Local /\ local[p].org \in Orgs
         /\ todo[p] \in Seq(Steps) /\ Len(todo[p]) \in Nat
         /\ 1 \in 1 .. Len(todo[p]) /\ Head(todo[p]) = todo[p][1]
         /\ todo[p][1] \in StepsOf(local[p])
<1>1. Knows(local[p], todo[p], home) /\ todo[p] # <<>>
  BY DEF Known, Informed, Running
<1>2. Params(local[p]) /\ Rest(local[p], todo[p]) /\ Facts(local[p], todo[p], home)
  BY <1>1 DEF Knows
<1>3. /\ todo[p] \in Seq(Steps) /\ Len(todo[p]) \in Nat
      /\ 1 \in 1 .. Len(todo[p]) /\ Head(todo[p]) = todo[p][1]
  BY <1>1, <1>2, HeadOf DEF Rest
<1>4. todo[p][1] \in StepsOf(local[p])
  BY <1>2, <1>3 DEF Rest
<1> QED BY <1>1, <1>2, <1>3, <1>4 DEF Params, Informed

\* After n calls.
LEMMA Went ==
  ASSUME Known, NEW p \in Procs, Running(p), NEW n \in 1 .. Len(todo[p]), Done(p, n)
  PROVE  /\ todo' \in [Procs -> Seq(Steps)] /\ answer' \in [Procs -> {Null, "ok", "error"}]
         /\ todo'[p] = SubSeq(todo[p], n + 1, Len(todo[p]))
         /\ \A q \in Procs : q # p => todo'[q] = todo[q] /\ answer'[q] = answer[q]
         /\ answer'[p] = IF Len(todo[p]) = n THEN "ok" ELSE answer[p]
<1>1. todo \in [Procs -> Seq(Steps)] /\ answer \in [Procs -> {Null, "ok", "error"}]
  BY DEF Known, TypeOK
<1>2. SubSeq(todo[p], n + 1, Len(todo[p])) \in Seq(Steps)
  BY <1>1, Suffix
<1> DEFINE u == SubSeq(todo[p], n + 1, Len(todo[p]))
           a == IF Len(todo[p]) = n THEN "ok" ELSE answer[p]
<1>3. todo' = [todo EXCEPT ![p] = u] /\ answer' = [answer EXCEPT ![p] = a]
  BY DEF Done
<1>4. a \in {Null, "ok", "error"}
  BY <1>1
<1> HIDE DEF u, a
<1>5. /\ todo' \in [Procs -> Seq(Steps)] /\ answer' \in [Procs -> {Null, "ok", "error"}]
      /\ todo'[p] = u /\ answer'[p] = a
      /\ \A q \in Procs : q # p => todo'[q] = todo[q] /\ answer'[q] = answer[q]
  BY <1>1, <1>2, <1>3, <1>4 DEF u
<1> QED BY <1>5 DEF u, a

\* A request that makes its next call knows what it is to know, and so do all others.
LEMMA Carried ==
  ASSUME Known, NEW p \in Procs, Running(p), Done(p, 1), Grows(home, home'), NEW d, Params(d),
         d.op = local[p].op, d.kind = local[p].kind, d.extra = local[p].extra,
         local'[p] = d, \A q \in Procs : q # p => local'[q] = local[q],
         Facts(d, todo[p], home'),
         LET s == todo[p][1]
             h == home'
         IN  /\ s = "check_priority" /\ d.priority # Null => h[d.priority] = d.org
             /\ s = "check_status" /\ d.status # Null => h[d.status] = d.org
             /\ s = "find_ticket" =>
                  h[d.ticket] = d.org /\ (d.op = "edit_ticket" => Snapped(d, h))
             /\ s = "find_row" => h[d.row] = d.org
             /\ s = "insert_ticket" => d.ticket \in Tickets
             /\ s = "insert_row" => d.row \in Refs
  PROVE  \A q \in Procs : Running(q)' => Informed(q)'
<1>1. 1 \in 1 .. Len(todo[p]) /\ Rest(local[p], todo[p])
  BY Here
<1>2. /\ todo'[p] = SubSeq(todo[p], 2, Len(todo[p]))
      /\ \A q \in Procs : q # p => todo'[q] = todo[q]
  BY <1>1, Went
<1>3. ASSUME NEW q \in Procs, q # p, Running(q)' PROVE Informed(q)'
  <2>1. Knows(local[q], todo[q], home)
    BY <1>2, <1>3 DEF Known, Informed, Running
  <2>2. Knows(local[q], todo[q], home')
    BY <2>1, FactsGrow DEF Knows
  <2> QED BY <1>2, <1>3, <2>2 DEF Informed
<1>4. ASSUME Running(p)' PROVE Informed(p)'
  <2>1. Rest(d, todo[p])
    BY <1>1, SameShape
  <2>2. Knows(d, todo[p], home') /\ todo[p] # <<>>
    BY <2>1 DEF Knows, Running
  <2>3. SubSeq(todo[p], 2, Len(todo[p])) # <<>>
    BY <1>2, <1>4 DEF Running
  <2>4. Knows(d, SubSeq(todo[p], 2, Len(todo[p])), home')
    BY <2>2, <2>3, Passed
  <2> QED BY <1>2, <2>4 DEF Informed
<1> QED BY <1>3, <1>4

\* The tables, as long as nothing is written.
LEMMA TablesStay ==
  ASSUME Tables, UNCHANGED <<row, ticket, home>>
  PROVE  Tables'
BY DEF Tables, Live, Sound, Points

\* Nothing is written.
LEMMA Unwritten ==
  ASSUME Known, UNCHANGED <<dbVars, logs, done, mailed, wrote>>,
         todo' \in [Procs -> Seq(Steps)], answer' \in [Procs -> {Null, "ok", "error"}],
         local' \in [Procs -> Local], requests' \in Nat, faults' \in Nat,
         \A q \in Procs : Running(q)' => Informed(q)'
  PROVE  Known'
<1>1. TypeOK'
  BY DEF Known, TypeOK, dbVars
<1>2. Tables'
  BY TablesStay DEF Known, dbVars
<1> QED BY <1>1, <1>2 DEF Known

\* A request ends.
LEMMA Left ==
  ASSUME Known, NEW p \in Procs, NEW how \in {"ok", "error"}, Leave(p, how), faults' \in Nat
  PROVE  Known'
<1>1. /\ todo \in [Procs -> Seq(Steps)] /\ answer \in [Procs -> {Null, "ok", "error"}]
      /\ local \in [Procs -> Local] /\ requests \in Nat
  BY DEF Known, TypeOK
<1>2. /\ todo' = [todo EXCEPT ![p] = <<>>] /\ answer' = [answer EXCEPT ![p] = how]
      /\ UNCHANGED <<dbVars, logs, done, mailed, wrote, local, requests>>
  BY DEF Leave
<1>3. /\ todo' \in [Procs -> Seq(Steps)] /\ answer' \in [Procs -> {Null, "ok", "error"}]
      /\ local' \in [Procs -> Local] /\ requests' \in Nat
  BY <1>1, <1>2, EmptyOrdered
<1>4. ASSUME NEW q \in Procs, Running(q)' PROVE Informed(q)'
  <2>1. q # p
    BY <1>1, <1>2, <1>4 DEF Running
  <2>2. todo'[q] = todo[q] /\ local'[q] = local[q] /\ home' = home
    BY <1>1, <1>2, <2>1 DEF dbVars
  <2>3. Informed(q)
    BY <1>4, <2>2 DEF Known, Running
  <2> QED BY <2>2, <2>3 DEF Informed
<1> QED BY <1>2, <1>3, <1>4, Unwritten

\* An error is answered.
LEMMA Refused ==
  ASSUME Known, NEW p \in Procs, Refuse(p)
  PROVE  Known'
<1>1. faults' \in Nat
  BY DEF Known, TypeOK, Refuse
<1> QED BY <1>1, Left DEF Refuse

-----------------------------------------------------------------------------
(* The steps that look something up.                                       *)

\* A row of an organization has an id of that organization.
LEMMA OwnedId ==
  ASSUME Known, NEW x \in Refs, NEW o, Owned(x, o)
  PROVE  home[x] = o /\ row[x] \in Row /\ Sound(x, row[x], home)
<1>1. row[x] \in Row
  BY DEF Known, TypeOK, Owned, Live
<1> QED BY <1>1 DEF Known, Tables, Owned, Sound

\* A ticket of an organization has an id of that organization.
LEMMA VisibleId ==
  ASSUME Known, NEW t \in Tickets, NEW o, Visible(t, o)
  PROVE  home[t] = o /\ ticket[t] \in Ticket
BY DEF Known, TypeOK, Tables, Visible

\* A lookup, which leaves d in the variables of the request.
LEMMA ReadOn ==
  ASSUME Known, NEW p \in Procs, Running(p), Read(p), NEW d, Params(d),
         d.op = local[p].op, d.kind = local[p].kind, d.extra = local[p].extra,
         local' = [local EXCEPT ![p] = d], Facts(d, todo[p], home),
         LET s == todo[p][1]
         IN  /\ s = "check_priority" /\ d.priority # Null => home[d.priority] = d.org
             /\ s = "check_status" /\ d.status # Null => home[d.status] = d.org
             /\ s = "find_ticket" =>
                  home[d.ticket] = d.org /\ (d.op = "edit_ticket" => Snapped(d, home))
             /\ s = "find_row" => home[d.row] = d.org
             /\ s = "insert_ticket" => d.ticket \in Tickets
             /\ s = "insert_row" => d.row \in Refs
  PROVE  Known'
<1>1. /\ Done(p, 1) /\ requests' = requests /\ faults' = faults
      /\ UNCHANGED <<dbVars, logs, done, mailed, wrote>> /\ home' = home
  BY DEF Read, Advance, dbVars
<1>2. /\ local' \in [Procs -> Local] /\ local'[p] = d
      /\ \A q \in Procs : q # p => local'[q] = local[q]
  BY DEF Known, TypeOK, Params
<1>3. todo' \in [Procs -> Seq(Steps)] /\ answer' \in [Procs -> {Null, "ok", "error"}]
  BY <1>1, Here, Went
<1>4. requests' \in Nat /\ faults' \in Nat
  BY <1>1 DEF Known, TypeOK
<1>5. Grows(home, home')
  BY <1>1 DEF Grows
<1>6. \A q \in Procs : Running(q)' => Informed(q)'
  BY <1>1, <1>2, <1>5, Carried
<1> QED BY <1>1, <1>2, <1>3, <1>4, <1>6, Unwritten

\* A lookup that leaves the variables alone.
LEMMA ReadPast ==
  ASSUME Known, NEW p \in Procs, Running(p), Read(p), UNCHANGED local,
         LET s == todo[p][1]
             d == local[p]
         IN  /\ s = "check_priority" /\ d.priority # Null => home[d.priority] = d.org
             /\ s = "check_status" /\ d.status # Null => home[d.status] = d.org
             /\ s = "find_ticket" =>
                  home[d.ticket] = d.org /\ (d.op = "edit_ticket" => Snapped(d, home))
             /\ s = "find_row" => home[d.row] = d.org
             /\ s = "insert_ticket" => d.ticket \in Tickets
             /\ s = "insert_row" => d.row \in Refs
  PROVE  Known'
<1>1. Params(local[p]) /\ Facts(local[p], todo[p], home)
  BY Here
<1>2. local' = [local EXCEPT ![p] = local[p]]
  BY DEF Known, TypeOK
<1> QED BY <1>1, <1>2, ReadOn

\* Whose calls they are.
LEMMA Callers ==
  ASSUME NEW c, c.op \in TicketOps \union RowOps, NEW s \in StepsOf(c)
  PROVE  /\ s \in {"default_status", "insert_ticket", "mail"} => c.op = "create_ticket"
         /\ s = "default_sla" => c.op \in {"create_ticket", "edit_ticket"}
         /\ s \in {"already_opened", "open_status"} => c.op = "confirm_ticket"
         /\ s = "find_ticket" => c.op \in {"confirm_ticket", "edit_ticket", "delete_ticket"}
         /\ s = "note" => c.op \in {"create_ticket", "add_note"}
         /\ s = "update_ticket" => c.op \in {"confirm_ticket", "edit_ticket"}
         /\ s = "merge" => c.op = "edit_ticket"
         /\ s = "soft_delete" => c.op = "delete_ticket"
         /\ s \in {"same_name", "next_name"} => c.op = "create_row" /\ c.kind # "sla"
         /\ s = "insert_row" => c.op = "create_row"
         /\ s = "find_row" => c.op \in {"edit_row", "delete_row"}
         /\ s = "update_row" => c.op = "edit_row"
         /\ s \in {"tickets_using_it", "select_row", "delete_row"} => c.op = "delete_row"
         /\ s \in {"log", "mail"} => c.op # "add_note"
BY DEF StepsOf, TicketOps, RowOps

\* Which requests look a status, an SLA or a row up, and for whom.
LEMMA Who ==
  ASSUME Known, NEW p \in Procs, NEW s, At(p, s)
  PROVE  /\ Running(p) /\ todo[p][1] = s /\ s \in StepsOf(local[p])
         /\ s \notin {"find_ticket", "already_opened", "open_status", "update_ticket", "log"} =>
              Tenant(p) = local[p].org
         /\ Tenant(p) \in {local[p].org, Null} /\ local[p].op \in TicketOps \union RowOps
<1>1. Running(p)
  BY DEF At, Running
<1>2. todo[p][1] = s /\ s \in StepsOf(local[p])
  BY <1>1, Here DEF At
<1>3. local[p].op = "confirm_ticket" =>
        s \in {"find_ticket", "already_opened", "open_status", "update_ticket", "log"}
  BY <1>2 DEF StepsOf
<1>4. local[p].op \in TicketOps \union RowOps
  BY <1>1, Here, TicketDeskAssumption DEF Params
<1> QED BY <1>1, <1>2, <1>3, <1>4 DEF Tenant

\* The default status is one of the organization.
LEMMA DefaultStatusKnown ==
  ASSUME Known, NEW p \in Procs, DefaultStatus(p)
  PROVE  Known'
<1>1. At(p, "default_status")
  BY DEF DefaultStatus
<1>2. /\ Running(p) /\ todo[p][1] = "default_status" /\ Tenant(p) = local[p].org
      /\ local[p].op = "create_ticket"
  BY <1>1, Who, Callers
<1>3. ASSUME NEW s \in Statuses, Owned(s, Tenant(p)), local' = [local EXCEPT ![p].status = s],
             Read(p)
      PROVE  Known'
  <2> DEFINE d == [local[p] EXCEPT !.status = s]
  <2>1. Params(local[p]) /\ Facts(local[p], todo[p], home) /\ local[p].op \in TicketOps
    BY <1>2, Here DEF TicketOps
  <2>2. /\ Params(d) /\ d.status = s /\ d.op = local[p].op /\ d.org = local[p].org
        /\ d.kind = local[p].kind /\ d.ticket = local[p].ticket /\ d.row = local[p].row
        /\ d.priority = local[p].priority /\ d.sla = local[p].sla /\ d.extra = local[p].extra
        /\ d.snap = local[p].snap /\ d.refs = local[p].refs
    BY <2>1, GotStatus
  <2>3. local' = [local EXCEPT ![p] = d]
    BY <1>3
  <2> HIDE DEF d
  <2>4. home[s] = d.org
    BY <1>2, <1>3, <2>2, OwnedId DEF Refs
  <2>5. Facts(d, todo[p], home)
    BY <1>2, <2>1, <2>2, <2>4 DEF Facts
  <2> QED BY <1>2, <1>3, <2>2, <2>3, <2>5, ReadOn
<1> QED BY <1>3, Refused DEF DefaultStatus

\* The default SLA is one of the organization.
LEMMA DefaultSlaKnown ==
  ASSUME Known, NEW p \in Procs, DefaultSla(p)
  PROVE  Known'
<1>1. At(p, "default_sla")
  BY DEF DefaultSla
<1>2. /\ Running(p) /\ todo[p][1] = "default_sla" /\ Tenant(p) = local[p].org
      /\ local[p].op \in {"create_ticket", "edit_ticket"}
  BY <1>1, Who, Callers
<1>3. ASSUME NEW l \in Slas, Owned(l, Tenant(p)), local' = [local EXCEPT ![p].sla = l], Read(p)
      PROVE  Known'
  <2> DEFINE d == [local[p] EXCEPT !.sla = l]
  <2>1. Params(local[p]) /\ Facts(local[p], todo[p], home) /\ local[p].op \in TicketOps
    BY <1>2, Here DEF TicketOps
  <2>2. /\ Params(d) /\ d.sla = l /\ d.op = local[p].op /\ d.org = local[p].org
        /\ d.kind = local[p].kind /\ d.ticket = local[p].ticket /\ d.row = local[p].row
        /\ d.priority = local[p].priority /\ d.status = local[p].status /\ d.extra = local[p].extra
        /\ d.snap = local[p].snap /\ d.refs = local[p].refs
    BY <2>1, GotSla
  <2>3. local' = [local EXCEPT ![p] = d]
    BY <1>3
  <2> HIDE DEF d
  <2>4. home[l] = d.org
    BY <1>2, <1>3, <2>2, OwnedId DEF Refs
  <2>5. Snapped(local[p], home) => Snapped(d, home)
    BY <2>2 DEF Snapped
  <2>6. Facts(d, todo[p], home)
    BY <1>2, <2>1, <2>2, <2>4, <2>5 DEF Facts
  <2> QED BY <1>2, <1>3, <2>2, <2>3, <2>6, ReadOn
<1> QED BY <1>3, Refused DEF DefaultSla

\* The open status is looked up in the organization of the confirmation link.
LEMMA OpenStatusKnown ==
  ASSUME Known, NEW p \in Procs, OpenStatus(p)
  PROVE  Known'
<1>1. At(p, "open_status")
  BY DEF OpenStatus
<1>2. /\ Running(p) /\ todo[p][1] = "open_status" /\ local[p].op = "confirm_ticket"
  BY <1>1, Who, Callers
<1>3. ASSUME NEW s \in Statuses, Owned(s, local[p].org), local' = [local EXCEPT ![p].status = s],
             Read(p)
      PROVE  Known'
  <2> DEFINE d == [local[p] EXCEPT !.status = s]
  <2>1. Params(local[p]) /\ Facts(local[p], todo[p], home) /\ local[p].op \in TicketOps
    BY <1>2, Here DEF TicketOps
  <2>2. /\ Params(d) /\ d.status = s /\ d.op = local[p].op /\ d.org = local[p].org
        /\ d.kind = local[p].kind /\ d.ticket = local[p].ticket /\ d.row = local[p].row
        /\ d.priority = local[p].priority /\ d.sla = local[p].sla /\ d.extra = local[p].extra
        /\ d.snap = local[p].snap /\ d.refs = local[p].refs
    BY <2>1, GotStatus
  <2>3. local' = [local EXCEPT ![p] = d]
    BY <1>3
  <2> HIDE DEF d
  <2>4. home[s] = d.org
    BY <1>2, <1>3, <2>2, OwnedId DEF Refs
  <2>5. Facts(d, todo[p], home)
    BY <1>2, <2>1, <2>2, <2>4 DEF Facts
  <2> QED BY <1>2, <1>3, <2>2, <2>3, <2>5, ReadOn
<1> QED BY <1>3, Refused DEF OpenStatus

\* What TenantEntityValidator lets pass belongs to the organization.
LEMMA CheckKnown ==
  ASSUME Known, NEW p \in Procs, Check(p)
  PROVE  Known'
<1>1. PICK s \in {"check_priority", "check_status", "check_sla"} :
        /\ At(p, s)
        /\ LET id == CASE s = "check_priority" -> local[p].priority
                       [] s = "check_status"   -> local[p].status
                       [] s = "check_sla"      -> local[p].sla
           IN \/ Owned(id, Tenant(p)) /\ Read(p) /\ UNCHANGED local
              \/ ~Owned(id, Tenant(p)) /\ Refuse(p)
  BY Zenon DEF Check
<1>2. Running(p) /\ todo[p][1] = s /\ Tenant(p) = local[p].org
  BY <1>1, Who
<1>3. local[p] \in Local
  BY <1>2, Here
<1>4. ASSUME Read(p), UNCHANGED local,
             s = "check_priority" => Owned(local[p].priority, local[p].org),
             s = "check_status" => Owned(local[p].status, local[p].org)
      PROVE  Known'
  <2>1. s = "check_priority" /\ local[p].priority # Null => home[local[p].priority] = local[p].org
    <3>1. local[p].priority # Null => local[p].priority \in Refs
      BY <1>3 DEF Local, Refs
    <3> QED BY <1>4, <3>1, OwnedId
  <2>2. s = "check_status" /\ local[p].status # Null => home[local[p].status] = local[p].org
    <3>1. local[p].status # Null => local[p].status \in Refs
      BY <1>3 DEF Local, Refs
    <3> QED BY <1>4, <3>1, OwnedId
  <2> QED BY <1>1, <1>2, <1>4, <2>1, <2>2, ReadPast
<1> QED BY <1>1, <1>2, <1>4, Refused

\* A ticket found is one of the organization, and so is what it points at.
LEMMA FindTicketKnown ==
  ASSUME Known, NEW p \in Procs, FindTicket(p)
  PROVE  Known'
<1> DEFINE t == local[p].ticket
<1>1. At(p, "find_ticket")
  BY DEF FindTicket
<1>2. /\ Running(p) /\ todo[p][1] = "find_ticket"
      /\ local[p].op \in {"confirm_ticket", "edit_ticket", "delete_ticket"}
  BY <1>1, Who, Callers
<1>3. /\ Params(local[p]) /\ Facts(local[p], todo[p], home) /\ local[p].op \in TicketOps
      /\ local[p].org \in Orgs /\ t \in Tickets
  BY <1>2, Here DEF TicketOps, Params
<1>4. ASSUME Visible(t, local[p].org), Read(p), UNCHANGED local, local[p].op # "edit_ticket"
      PROVE  Known'
  <2>1. home[t] = local[p].org
    BY <1>3, <1>4, VisibleId
  <2> QED BY <1>2, <1>4, <2>1, ReadPast
<1>5. ASSUME Visible(t, local[p].org), Read(p), local[p].op = "edit_ticket",
             local' = [local EXCEPT ![p].snap = ticket[t], ![p].refs = Loaded(ticket[t])]
      PROVE  Known'
  <2>1. home[t] = local[p].org /\ ticket[t] \in Ticket /\ ticket[t] # Absent
    BY <1>3, <1>5, VisibleId DEF Visible
  <2>2. \A x \in Refs : Points(ticket[t], x) => Live(x) /\ home[x] = local[p].org
    BY <1>3, <2>1 DEF Known, Tables
  <2>3. ASSUME NEW r \in Loaded(ticket[t])
        PROVE  r \in Refs \X Row /\ Sound(r[1], r[2], home)
    <3>1. PICK x \in Refs : Points(ticket[t], x) /\ r = <<x, row[x]>>
      BY DEF Loaded
    <3>2. row[x] \in Row /\ Sound(x, row[x], home)
      BY <2>2, <3>1 DEF Known, TypeOK, Tables, Live
    <3> QED BY <3>1, <3>2
  <2>4. Loaded(ticket[t]) \in SUBSET (Refs \X Row)
    BY <2>3
  <2> DEFINE v == ticket[t]
             w == Loaded(ticket[t])
             e == [local[p] EXCEPT !.snap = v]
             d == [e EXCEPT !.refs = w]
  <2>5. /\ Params(d) /\ d.snap = v /\ d.refs = w /\ d.op = local[p].op /\ d.org = local[p].org
        /\ d.kind = local[p].kind /\ d.ticket = local[p].ticket /\ d.sla = local[p].sla
        /\ d.row = local[p].row /\ d.priority = local[p].priority
        /\ d.status = local[p].status /\ d.extra = local[p].extra
    <3>1. v \in Ticket /\ w \in SUBSET (Refs \X Row)
      BY <2>1, <2>4
    <3> HIDE DEF t, v, w
    <3>2. /\ Params(e) /\ e.snap = v /\ e.op = local[p].op /\ e.org = local[p].org
          /\ e.kind = local[p].kind /\ e.ticket = local[p].ticket /\ e.sla = local[p].sla
          /\ e.row = local[p].row /\ e.priority = local[p].priority
          /\ e.status = local[p].status /\ e.extra = local[p].extra
      BY <1>3, <3>1, GotSnapshot
    <3> HIDE DEF e
    <3> QED BY <3>1, <3>2, GotRefs
  <2>6. local' = [local EXCEPT ![p] = d]
    <3>1. local \in [Procs -> Local]
      BY DEF Known, TypeOK
    <3> QED BY <1>5, <3>1
  <2>7. \A x \in Refs : Points(v, x) => \E r \in w : r[1] = x
    <3> SUFFICES ASSUME NEW x \in Refs, Points(v, x) PROVE \E r \in w : r[1] = x
      OBVIOUS
    <3>1. <<x, row[x]>> \in w
      BY DEF Loaded
    <3> QED BY <3>1
  <2>8. v.org = local[p].org
    BY <1>5 DEF Visible
  <2>9. \A r \in w : Sound(r[1], r[2], home)
    BY <2>3
  <2> HIDE DEF d, e, w
  <2>10. Snapped(d, home)
    BY <2>1, <2>2, <2>5, <2>7, <2>8 DEF Snapped
  <2>11. Facts(d, todo[p], home)
    BY <1>3, <1>5, <2>5, <2>9, <2>10 DEF Facts
  <2> HIDE DEF t, v
  <2>12. home[d.ticket] = d.org
    BY <2>1, <2>5 DEF t
  <2> QED BY <1>2, <1>5, <2>5, <2>6, <2>10, <2>11, <2>12, ReadOn
<1> QED BY <1>4, <1>5, Refused DEF FindTicket

\* The second look of a confirmation finds nothing new.
LEMMA AlreadyOpenedKnown ==
  ASSUME Known, NEW p \in Procs, AlreadyOpened(p)
  PROVE  Known'
<1>1. At(p, "already_opened")
  BY DEF AlreadyOpened
<1>2. Running(p) /\ todo[p][1] = "already_opened"
  BY <1>1, Who
<1>3. \/ Read(p) /\ UNCHANGED local
      \/ Refuse(p)
  BY DEF AlreadyOpened
<1> QED BY <1>2, <1>3, ReadPast, Refused

\* A row found is one of the organization.
LEMMA FindRowKnown ==
  ASSUME Known, NEW p \in Procs, FindRow(p)
  PROVE  Known'
<1> DEFINE x == local[p].row
<1>1. At(p, "find_row")
  BY DEF FindRow
<1>2. /\ Running(p) /\ todo[p][1] = "find_row" /\ Tenant(p) = local[p].org
      /\ local[p].op \in {"edit_row", "delete_row"}
  BY <1>1, Who, Callers
<1>3. /\ Params(local[p]) /\ Facts(local[p], todo[p], home) /\ local[p].op \in RowOps
      /\ local[p].org \in Orgs /\ local[p].kind \in Kinds /\ x \in IdsOf[local[p].kind]
  BY <1>2, Here DEF RowOps, Params
<1>4. x \in Refs
  BY <1>3, KindFacts
<1>5. ASSUME Owned(x, Tenant(p)), local' = [local EXCEPT ![p].refs = {<<x, row[x]>>}], Read(p)
      PROVE  Known'
  <2> DEFINE v == {<<x, row[x]>>}
             d == [local[p] EXCEPT !.refs = v]
  <2>1. home[x] = local[p].org /\ row[x] \in Row /\ Sound(x, row[x], home)
    BY <1>2, <1>4, <1>5, OwnedId
  <2>2. v \in SUBSET (Refs \X Row) /\ \A r \in v : Sound(r[1], r[2], home)
    BY <1>4, <2>1
  <2>3. /\ Params(d) /\ d.op = local[p].op /\ d.org = local[p].org /\ d.kind = local[p].kind
        /\ d.row = x /\ d.priority = local[p].priority /\ d.status = local[p].status
        /\ d.sla = local[p].sla /\ d.extra = local[p].extra /\ d.refs = v
        /\ d.snap = local[p].snap
    <3> HIDE DEF v
    <3> QED BY <1>3, <2>2, GotRefs
  <2>4. local' = [local EXCEPT ![p] = d]
    BY <1>5
  <2> HIDE DEF d, v
  <2>5. Facts(d, todo[p], home)
    BY <1>2, <1>3, <2>2, <2>3 DEF Facts
  <2> HIDE DEF x
  <2>6. home[d.row] = d.org
    BY <2>1, <2>3
  <2> QED BY <1>2, <1>5, <2>3, <2>4, <2>5, <2>6, ReadOn
<1> QED BY <1>5, Refused DEF FindRow

\* The tickets that use a row are only looked for.
LEMMA TicketsUsingKnown ==
  ASSUME Known, NEW p \in Procs, TicketsUsing(p)
  PROVE  Known'
<1>1. At(p, "tickets_using_it")
  BY DEF TicketsUsing
<1>2. Running(p) /\ todo[p][1] = "tickets_using_it"
  BY <1>1, Who
<1>3. \/ Read(p) /\ UNCHANGED local
      \/ Refuse(p)
  BY DEF TicketsUsing
<1> QED BY <1>2, <1>3, ReadPast, Refused

\* The row to delete is looked at once more.
LEMMA SelectRowKnown ==
  ASSUME Known, NEW p \in Procs, SelectRow(p)
  PROVE  Known'
<1>1. At(p, "select_row")
  BY DEF SelectRow
<1>2. Running(p) /\ todo[p][1] = "select_row"
  BY <1>1, Who
<1>3. \/ Read(p) /\ UNCHANGED local
      \/ Refuse(p)
  BY DEF SelectRow
<1> QED BY <1>2, <1>3, ReadPast, Refused

\* The duplicate check goes on, skips the row with its log entry, or refuses.
LEMMA SameNameKnown ==
  ASSUME Known, NEW p \in Procs, SameName(p)
  PROVE  Known'
<1> DEFINE c == local[p]
           t == todo[p]
<1>1. At(p, "same_name") \/ At(p, "next_name")
  BY DEF SameName
<1>2. PICK s \in {"same_name", "next_name"} : At(p, s)
  BY <1>1
<1>3. /\ Running(p) /\ t[1] = s /\ Tenant(p) = c.org /\ c.op = "create_row" /\ c.kind # "sla"
  BY <1>2, Who, Callers
<1>4. /\ Params(c) /\ Rest(c, t) /\ Facts(c, t, home) /\ Rounds(c, t) /\ t \in Seq(Steps)
      /\ Len(t) \in Nat /\ 1 \in 1 .. Len(t)
  BY <1>3, Here DEF Rest, RowOps
<1>5. c.key \in Names /\ c.priority = Null /\ c.status = Null /\ c.sla = Null
  BY <1>3, <1>4 DEF Params, RowOps
<1>6. PICK name \in (IF At(p, "next_name") THEN Names ELSE {c.key}) :
        \/ Read(p) /\ local' = [local EXCEPT ![p].key = name]
        \/ Done(p, 3) /\ UNCHANGED <<dbVars, logs, done, mailed, local, wrote, requests, faults>>
        \/ Refuse(p)
  BY Zenon DEF SameName
<1>7. name \in Names
  BY <1>5
<1>8. CASE Read(p) /\ local' = [local EXCEPT ![p].key = name]
  <2> DEFINE d == [c EXCEPT !.key = name]
  <2>1. /\ Params(d) /\ d.op = c.op /\ d.org = c.org /\ d.kind = c.kind /\ d.row = c.row
        /\ d.priority = c.priority /\ d.status = c.status /\ d.sla = c.sla
        /\ d.extra = c.extra /\ d.refs = c.refs /\ d.snap = c.snap
    <3> HIDE DEF c
    <3> QED BY <1>3, <1>4, <1>7, GotName
  <2>2. local' = [local EXCEPT ![p] = d]
    BY <1>8
  <2> HIDE DEF d
  <2>3. Facts(d, t, home)
    BY <1>3, <1>4, <2>1 DEF Facts
  <2> QED BY <1>3, <1>8, <2>1, <2>2, <2>3, ReadOn
<1>9. CASE Done(p, 3) /\ UNCHANGED <<dbVars, logs, done, mailed, local, wrote, requests, faults>>
  <2>1. Len(t) \in {3, 6} /\ 3 \in 1 .. Len(t)
    <3>1. Len(t) - 1 = 2 \/ Len(t) - 1 = 5
      <4> HIDE DEF c, t
      <4> QED BY <1>3, <1>4 DEF Rounds
    <3>2. Len(t) \in Nat
      BY <1>4
    <3> HIDE DEF t
    <3> QED BY ONLY <3>1, <3>2
  <2>2. /\ todo' \in [Procs -> Seq(Steps)] /\ answer' \in [Procs -> {Null, "ok", "error"}]
        /\ todo'[p] = SubSeq(t, 4, Len(t))
        /\ \A q \in Procs : q # p => todo'[q] = todo[q]
    BY <1>3, <1>9, <2>1, Went
  <2> DEFINE u == SubSeq(t, 4, Len(t))
  <2>3. u # <<>> => t[3] \notin Commits
    <3>1. u = <<>> <=> Len(t) = 3
      <4>1. t \in Seq(Steps) /\ 3 \in 1 .. Len(t)
        BY <1>4, <2>1
      <4> HIDE DEF t
      <4>2. SubSeq(t, 3 + 1, Len(t)) = <<>> <=> 3 = Len(t)
        BY <4>1, Suffix
      <4> QED BY <4>2
    <3>2. Len(t) = 6 => t[3] \notin Commits
      <4> SUFFICES ASSUME Len(t) = 6 PROVE t[3] \notin Commits
        OBVIOUS
      <4>1. 3 \in 1 .. Len(t) /\ Len(t) - 3 = 3
        OBVIOUS
      <4> HIDE DEF c, t
      <4> QED BY <1>4, <4>1 DEF Rounds
    <3> QED BY <2>1, <3>1, <3>2
  <2>4. u # <<>> => u[1] # "log"
    BY <1>4, <2>1, <2>3, LogFollows
  <2>5. Rest(c, u)
    BY <1>4, <2>1, RestOfRest
  <2> HIDE DEF u
  <2>6. u # <<>> => Knows(c, u, home)
    BY <1>3, <1>4, <1>5, <2>4, <2>5 DEF Knows, Facts
  <2>7. home' = home /\ local' = local
    BY <1>9 DEF dbVars
  <2>8. Running(p)' => Informed(p)'
    BY <2>2, <2>6, <2>7 DEF Running, Informed, u
  <2>9. ASSUME NEW q \in Procs, q # p, Running(q)' PROVE Informed(q)'
    <3>1. Informed(q) /\ todo'[q] = todo[q]
      BY <2>2, <2>9 DEF Known, Running
    <3> QED BY <2>7, <3>1 DEF Informed
  <2>10. local' \in [Procs -> Local] /\ requests' \in Nat /\ faults' \in Nat
    BY <1>9 DEF Known, TypeOK
  <2>11. \A q \in Procs : Running(q)' => Informed(q)'
    BY <2>8, <2>9
  <2>12. UNCHANGED <<dbVars, logs, done, mailed, wrote>>
    BY <1>9
  <2> QED BY ONLY Known, <2>2, <2>10, <2>11, <2>12, Unwritten
<1>10. CASE Refuse(p)
  BY <1>10, Refused
<1> QED BY <1>6, <1>8, <1>9, <1>10

-----------------------------------------------------------------------------
(* The steps that write.                                                   *)

\* Something is written, and d is left in the variables of the request.
LEMMA Written ==
  ASSUME Known, NEW p \in Procs, Running(p), Refresh(p), NEW d, Params(d),
         d.op = local[p].op, d.kind = local[p].kind, d.extra = local[p].extra,
         local' = [local EXCEPT ![p] = d], Grows(home, home'), Facts(d, todo[p], home),
         LET s == todo[p][1]
         IN  /\ s \notin Checks
             /\ s = "insert_ticket" => d.ticket \in Tickets
             /\ s = "insert_row" => d.row \in Refs,
         row' \in [Refs -> Row \union {Absent}], ticket' \in [Tickets -> Ticket \union {Absent}],
         home' \in [Entities -> Orgs \union {Null}], Tables',
         logs' \in [Entries -> Nat], done' \in [Entries -> Nat], mailed' \in [Tickets -> Nat],
         wrote' \in [Procs -> Nat]
  PROVE  Known'
<1>1. /\ local' \in [Procs -> Local] /\ local'[p] = d
      /\ \A q \in Procs : q # p => local'[q] = local[q]
  BY DEF Known, TypeOK, Params
<1>2. requests' \in Nat /\ faults' \in Nat
  BY DEF Known, TypeOK, Refresh, Advance, Unrefreshed
<1>3. CASE Advance(p)
  <2>1. Done(p, 1)
    BY <1>3 DEF Advance
  <2>2. todo' \in [Procs -> Seq(Steps)] /\ answer' \in [Procs -> {Null, "ok", "error"}]
    BY <2>1, Here, Went
  <2>3. Facts(d, todo[p], home')
    BY FactsGrow
  <2>4. \A q \in Procs : Running(q)' => Informed(q)'
    BY <1>1, <2>1, <2>3, Carried DEF Checks
  <2>5. TypeOK'
    BY <1>1, <1>2, <2>2 DEF TypeOK
  <2> QED BY <2>4, <2>5 DEF Known
<1>4. CASE Unrefreshed(p)
  <2>1. /\ todo' \in [Procs -> Seq(Steps)] /\ answer' \in [Procs -> {Null, "ok", "error"}]
        /\ todo'[p] = <<>> /\ \A q \in Procs : q # p => todo'[q] = todo[q]
    BY <1>4, EmptyOrdered DEF Known, TypeOK, Unrefreshed
  <2>2. ASSUME NEW q \in Procs, Running(q)' PROVE Informed(q)'
    <3>1. q # p /\ todo'[q] = todo[q] /\ local'[q] = local[q]
      BY <1>1, <2>1, <2>2 DEF Running
    <3>2. Knows(local[q], todo[q], home)
      BY <2>2, <3>1 DEF Known, Informed, Running
    <3>3. Knows(local[q], todo[q], home')
      BY <3>2, FactsGrow DEF Knows
    <3> QED BY <3>1, <3>3 DEF Informed
  <2>3. TypeOK'
    BY <1>1, <1>2, <2>1 DEF TypeOK
  <2> QED BY <2>2, <2>3 DEF Known
<1> QED BY <1>3, <1>4 DEF Refresh

\* The variables of the request stay.
LEMMA WrittenPast ==
  ASSUME Known, NEW p \in Procs, Running(p), Refresh(p), UNCHANGED local,
         Grows(home, home'), todo[p][1] \notin Checks \union {"insert_ticket", "insert_row"},
         row' \in [Refs -> Row \union {Absent}], ticket' \in [Tickets -> Ticket \union {Absent}],
         home' \in [Entities -> Orgs \union {Null}], Tables',
         logs' \in [Entries -> Nat], done' \in [Entries -> Nat], mailed' \in [Tickets -> Nat],
         wrote' \in [Procs -> Nat]
  PROVE  Known'
<1>1. Params(local[p]) /\ Facts(local[p], todo[p], home)
  BY Here
<1>2. local' = [local EXCEPT ![p] = local[p]]
  BY DEF Known, TypeOK
<1> QED BY <1>1, <1>2, Written

\* A commit is counted.
LEMMA Committed ==
  ASSUME Known, NEW p \in Procs, NEW e \in Entries, Commit(p, e)
  PROVE  /\ logs' \in [Entries -> Nat] /\ done' \in [Entries -> Nat]
         /\ mailed' \in [Tickets -> Nat] /\ wrote' \in [Procs -> Nat]
BY DEF Known, TypeOK, Commit

\* Written tables: no row goes, each row that is there is sound, and each ticket is
\* as it was, or as it should be.
LEMMA TablesGrow ==
  ASSUME Known, Grows(home, home'),
         \A x \in Refs : row[x] # Absent => row'[x] # Absent,
         \A x \in Refs : row'[x] # Absent => Sound(x, row'[x], home'),
         \A l \in Slas : row'[l] # Absent => row'[row'[l].key] # Absent,
         \A t \in Tickets :
           \/ ticket'[t] = ticket[t] /\ home'[t] = home[t]
           \/ /\ ticket'[t] \in Ticket /\ ticket'[t].org = home'[t]
              /\ \A x \in Refs : Points(ticket'[t], x) => row'[x] # Absent /\ home'[x] = home'[t]
  PROVE  Tables'
<1>1. \A x \in Refs : row[x] # Absent => home'[x] = home[x]
  <2>1. \A x \in Refs : row[x] # Absent => row[x].org \in Orgs /\ row[x].org = home[x]
    BY DEF Known, TypeOK, Tables, Live, Sound, Row
  <2>2. \A x \in Refs : x \in Entities
    BY DEF Entities
  <2> QED BY <2>1, <2>2, Apart DEF Grows
<1>2. ASSUME NEW t \in Tickets
      PROVE  /\ home'[t] # Null => ticket'[t] # Absent
             /\ ticket'[t] # Absent =>
                  /\ ticket'[t].org = home'[t]
                  /\ \A x \in Refs : Points(ticket'[t], x) => row'[x] # Absent /\ home'[x] = home'[t]
  <2>1. CASE ticket'[t] = ticket[t] /\ home'[t] = home[t]
    <3>1. /\ home[t] # Null => ticket[t] # Absent
          /\ ticket[t] # Absent =>
               /\ ticket[t].org = home[t]
               /\ \A x \in Refs : Points(ticket[t], x) => row[x] # Absent /\ home[x] = home[t]
      BY DEF Known, Tables, Live
    <3> QED BY <1>1, <2>1, <3>1
  <2>2. CASE /\ ticket'[t] \in Ticket /\ ticket'[t].org = home'[t]
             /\ \A x \in Refs : Points(ticket'[t], x) => row'[x] # Absent /\ home'[x] = home'[t]
    BY <2>2, TicketDeskAssumption
  <2> QED BY <2>1, <2>2
<1>3. \A x \in Refs : Live(x)' => Sound(x, row[x], home)'
  BY DEF Live, Sound
<1>4. \A l \in Slas : Live(l)' => Live(row[l].key)'
  BY DEF Live
<1>5. \A t \in Tickets : (home[t] # Null => ticket[t] # Absent)'
  BY <1>2
<1>6. ASSUME NEW t \in Tickets, (ticket[t] # Absent)'
      PROVE  /\ (ticket[t].org = home[t])'
             /\ \A x \in Refs : (Points(ticket[t], x) => Live(x) /\ home[x] = home[t])'
  BY <1>2, <1>6 DEF Live, Points
<1> QED BY <1>3, <1>4, <1>5, <1>6 DEF Tables

\* Before it writes, a request has checked everything.
LEMMA Resolved ==
  ASSUME Known, NEW p \in Procs, Running(p), todo[p][1] \notin Checks
  PROVE  LET c == local[p]
         IN  /\ c.priority # Null => c.priority \in Priorities /\ home[c.priority] = c.org
             /\ c.status # Null => c.status \in Statuses /\ home[c.status] = c.org
             /\ c.sla # Null => c.sla \in Slas /\ home[c.sla] = c.org
             /\ c.op \in {"confirm_ticket", "edit_ticket", "delete_ticket"} =>
                  c.ticket \in Tickets /\ home[c.ticket] = c.org /\ ticket[c.ticket] \in Ticket
             /\ c.op = "edit_ticket" => Snapped(c, home)
             /\ c.op \in {"edit_row", "delete_row"} => c.row \in Refs /\ home[c.row] = c.org
             /\ \A r \in c.refs : r \in Refs \X Row /\ Sound(r[1], r[2], home)
<1> DEFINE c == local[p]
<1>1. /\ Params(c) /\ Rest(c, todo[p]) /\ Facts(c, todo[p], home) /\ c \in Local
      /\ c.org \in Orgs /\ todo[p] # <<>>
  BY Here DEF Running
<1>2. \A x \in Checks : ~Has(todo[p], x)
  BY <1>1, Settled DEF Early
<1> HIDE DEF c
<1>3. /\ c.priority # Null => home[c.priority] = c.org
      /\ c.status # Null => home[c.status] = c.org
      /\ c.sla # Null => home[c.sla] = c.org
      /\ c.op \in {"confirm_ticket", "edit_ticket", "delete_ticket"} => home[c.ticket] = c.org
      /\ c.op = "edit_ticket" => Snapped(c, home)
      /\ c.op \in {"edit_row", "delete_row"} => home[c.row] = c.org
      /\ \A r \in c.refs : Sound(r[1], r[2], home)
  BY <1>1, <1>2 DEF Facts, Checks
<1>4. /\ c.priority # Null => c.priority \in Priorities
      /\ c.status # Null => c.status \in Statuses
      /\ c.sla # Null => c.sla \in Slas
      /\ \A r \in c.refs : r \in Refs \X Row
  BY <1>1 DEF Local
<1>5. c.op \in {"confirm_ticket", "edit_ticket", "delete_ticket"} =>
        c.ticket \in Tickets /\ ticket[c.ticket] \in Ticket
  <2>1. c.op \in {"confirm_ticket", "edit_ticket", "delete_ticket"} => c.ticket \in Tickets
    BY <1>1 DEF Params
  <2>2. \A t \in Tickets : home[t] # Null => ticket[t] \in Ticket
    BY DEF Known, Tables, TypeOK
  <2> QED BY <1>1, <1>3, <2>1, <2>2, Apart
<1>6. c.op \in {"edit_row", "delete_row"} => c.row \in Refs
  <2>1. c.op \in {"edit_row", "delete_row"} => c.kind \in Kinds /\ c.row \in IdsOf[c.kind]
    BY <1>1 DEF Params, RowOps
  <2> QED BY <2>1, KindFacts
<1> QED BY <1>3, <1>4, <1>5, <1>6 DEF c

\* A new ticket points at what its request has validated.
LEMMA InsertTicketKnown ==
  ASSUME Known, NEW p \in Procs, InsertTicket(p)
  PROVE  Known'
<1> DEFINE c == local[p]
           new == [org |-> Tenant(p), status |-> c.status, priority |-> c.priority,
                   sla |-> c.sla, opened |-> FALSE, deleted |-> FALSE, notes |-> 0]
<1>1. At(p, "insert_ticket")
  BY DEF InsertTicket
<1>2. /\ Running(p) /\ todo[p][1] = "insert_ticket" /\ Tenant(p) = c.org
      /\ c.op = "create_ticket" /\ c.op \in TicketOps
  BY <1>1, Who, Callers DEF TicketOps
<1>3. /\ Params(c) /\ Facts(c, todo[p], home) /\ c \in Local /\ c.org \in Orgs
  BY <1>2, Here
<1>4. /\ c.priority # Null => c.priority \in Priorities /\ home[c.priority] = c.org
      /\ c.status # Null => c.status \in Statuses /\ home[c.status] = c.org
      /\ c.sla # Null => c.sla \in Slas /\ home[c.sla] = c.org
  BY <1>2, Resolved DEF Checks
<1>5. ASSUME NEW t \in Tickets, home[t] = Null, Anchored(new, row),
             ticket' = [ticket EXCEPT ![t] = new], home' = [home EXCEPT ![t] = Tenant(p)],
             local' = [local EXCEPT ![p].ticket = t], CommitAndRefresh(p, <<"created", t>>), UNCHANGED row
      PROVE  Known'
  <2> DEFINE d == [c EXCEPT !.ticket = t]
             e == <<"created", t>>
  <2>1. /\ Params(d) /\ d.ticket = t /\ d.op = c.op /\ d.org = c.org /\ d.kind = c.kind
        /\ d.row = c.row /\ d.status = c.status /\ d.priority = c.priority /\ d.sla = c.sla
        /\ d.extra = c.extra /\ d.snap = c.snap /\ d.refs = c.refs
    <3> HIDE DEF c
    <3> QED BY <1>2, <1>3, GotTicket
  <2>2. local' = [local EXCEPT ![p] = d]
    BY <1>5
  <2> HIDE DEF d
  <2>3. Facts(d, todo[p], home)
    BY <1>2, <1>3, <2>1 DEF Facts
  <2>4. e \in Entries
    BY DEF Entries, Entities
  <2> HIDE DEF e
  <2>5. /\ Refresh(p) /\ logs' \in [Entries -> Nat] /\ done' \in [Entries -> Nat]
        /\ mailed' \in [Tickets -> Nat] /\ wrote' \in [Procs -> Nat]
    BY <1>5, <2>4, Committed DEF e, CommitAndRefresh
  <2>6. new \in Ticket /\ new.org = c.org
    BY <1>2, <1>3, <1>4 DEF Ticket
  <2>7. \A x \in Refs : Points(new, x) => row[x] # Absent /\ home[x] = c.org
    <3> SUFFICES ASSUME NEW x \in Refs, Points(new, x) PROVE row[x] # Absent /\ home[x] = c.org
      OBVIOUS
    <3>1. row[x] # Absent
      BY <1>5 DEF Anchored
    <3>2. x # Null
      BY Apart DEF Entities
    <3>3. x \in {c.status, c.priority, c.sla}
      BY DEF Points
    <3> QED BY <1>4, <3>1, <3>2, <3>3
  <2> HIDE DEF new
  <2>8. /\ row' \in [Refs -> Row \union {Absent}] /\ ticket' \in [Tickets -> Ticket \union {Absent}]
        /\ home' \in [Entities -> Orgs \union {Null}]
    BY <1>2, <1>3, <1>5, <2>6 DEF Known, TypeOK
  <2>9. /\ home \in [Entities -> Orgs \union {Null}] /\ ticket \in [Tickets -> Ticket \union {Absent}]
        /\ t \in Entities
    BY DEF Known, TypeOK, Entities
  <2>10. home'[t] = c.org /\ \A x \in Entities : x # t => home'[x] = home[x]
    BY <1>2, <1>5, <2>9
  <2>11. Grows(home, home')
    BY <1>5, <2>10 DEF Grows
  <2>12. \A x \in Refs : x \in Entities /\ x # t
    BY TicketDeskAssumption DEF Entities
  <2>13. \A x \in Refs : row'[x] # Absent => Sound(x, row'[x], home')
    <3>1. \A x \in Refs : row[x] # Absent => row[x] \in Row /\ Sound(x, row[x], home)
      BY DEF Known, TypeOK, Tables, Live
    <3> QED BY <1>5, <2>11, <3>1, SoundGrows
  <2>14. \A l \in Slas : row'[l] # Absent => row'[row'[l].key] # Absent
    BY <1>5 DEF Known, Tables, Live
  <2>15. ASSUME NEW u \in Tickets
         PROVE  \/ ticket'[u] = ticket[u] /\ home'[u] = home[u]
                \/ /\ ticket'[u] \in Ticket /\ ticket'[u].org = home'[u]
                   /\ \A x \in Refs : Points(ticket'[u], x) => row'[x] # Absent /\ home'[x] = home'[u]
    <3>1. CASE u = t
      <4>1. ticket'[u] = new
        BY <1>5, <2>9, <3>1
      <4> QED BY <1>5, <2>6, <2>7, <2>10, <2>12, <3>1, <4>1
    <3>2. CASE u # t
      <4>1. u \in Entities
        BY DEF Entities
      <4> QED BY <1>5, <2>9, <2>10, <3>2, <4>1
    <3> QED BY <3>1, <3>2
  <2>16. Tables'
    BY <1>5, <2>11, <2>13, <2>14, <2>15, TablesGrow
  <2>17. todo[p][1] \notin Checks /\ todo[p][1] # "insert_row"
    BY <1>2 DEF Checks
  <2> QED BY <1>2, <2>1, <2>2, <2>3, <2>5, <2>8, <2>11, <2>16, <2>17, Written
<1> QED BY <1>5, Refused DEF InsertTicket

\* A ticket is written over, by one of its organization.
LEMMA TicketWritten ==
  ASSUME Known, NEW t \in Tickets, NEW new \in Ticket, ticket' = [ticket EXCEPT ![t] = new],
         new.org = home[t], \A x \in Refs : Points(new, x) => row[x] # Absent /\ home[x] = home[t],
         UNCHANGED <<row, home>>
  PROVE  /\ Tables' /\ Grows(home, home') /\ row' \in [Refs -> Row \union {Absent}]
         /\ ticket' \in [Tickets -> Ticket \union {Absent}]
         /\ home' \in [Entities -> Orgs \union {Null}]
<1>1. /\ row \in [Refs -> Row \union {Absent}] /\ ticket \in [Tickets -> Ticket \union {Absent}]
      /\ home \in [Entities -> Orgs \union {Null}]
  BY DEF Known, TypeOK
<1>2. /\ row' \in [Refs -> Row \union {Absent}] /\ ticket' \in [Tickets -> Ticket \union {Absent}]
      /\ home' \in [Entities -> Orgs \union {Null}]
  BY <1>1
<1>3. Grows(home, home')
  BY DEF Grows
<1>4. \A x \in Refs : row'[x] # Absent => Sound(x, row'[x], home')
  BY DEF Known, Tables, Live
<1>5. \A l \in Slas : row'[l] # Absent => row'[row'[l].key] # Absent
  BY DEF Known, Tables, Live
<1>6. ASSUME NEW u \in Tickets
      PROVE  \/ ticket'[u] = ticket[u] /\ home'[u] = home[u]
             \/ /\ ticket'[u] \in Ticket /\ ticket'[u].org = home'[u]
                /\ \A x \in Refs : Points(ticket'[u], x) => row'[x] # Absent /\ home'[x] = home'[u]
  <2>1. CASE u = t
    <3>1. ticket'[u] = new
      BY <1>1, <2>1
    <3> QED BY <2>1, <3>1
  <2>2. CASE u # t
    BY <1>1, <2>2
  <2> QED BY <2>1, <2>2
<1>7. Tables'
  BY <1>3, <1>4, <1>5, <1>6, TablesGrow
<1> QED BY <1>2, <1>3, <1>7

\* What a stored ticket points at.
LEMMA StoredTicket ==
  ASSUME Known, NEW t \in Tickets, ticket[t] # Absent
  PROVE  /\ ticket[t] \in Ticket /\ ticket[t].org = home[t] /\ home[t] # Null
         /\ \A x \in Refs : Points(ticket[t], x) => row[x] # Absent /\ home[x] = home[t]
<1>1. /\ ticket[t] \in Ticket /\ ticket[t].org = home[t]
      /\ \A x \in Refs : Points(ticket[t], x) => row[x] # Absent /\ home[x] = home[t]
  BY DEF Known, TypeOK, Tables, Live
<1>2. ticket[t].org \in Orgs
  BY <1>1 DEF Ticket
<1> QED BY <1>1, <1>2, Apart

\* A note is put on a ticket that is there.
LEMMA NoteKnown ==
  ASSUME Known, NEW p \in Procs, Note(p)
  PROVE  Known'
<1> DEFINE t == local[p].ticket
<1>1. At(p, "note")
  BY DEF Note
<1>2. /\ Running(p) /\ todo[p][1] = "note" /\ Tenant(p) = local[p].org
      /\ local[p].op \in {"create_ticket", "add_note"}
  BY <1>1, Who, Callers
<1>3. t \in Tickets
  <2>1. /\ Params(local[p]) /\ Rest(local[p], todo[p]) /\ Facts(local[p], todo[p], home)
        /\ todo[p] \in Seq(Steps) /\ Len(todo[p]) \in Nat /\ 1 \in 1 .. Len(todo[p])
    BY <1>2, Here
  <2>2. CASE local[p].op = "add_note"
    BY <2>1, <2>2 DEF Params
  <2>3. CASE local[p].op = "create_ticket"
    <3>1. ~Has(todo[p], "insert_ticket")
      BY <1>2, <2>1, Settled DEF Early, Checks, Running
    <3> QED BY <2>1, <2>3, <3>1 DEF Facts
  <2> QED BY <1>2, <2>2, <2>3
<1>4. ASSUME Visible(t, Tenant(p)), ticket' = [ticket EXCEPT ![t].notes = @ + 1], Refresh(p),
             wrote' = [wrote EXCEPT ![p] = @ + 1],
             UNCHANGED <<row, home, logs, done, mailed, local>>
      PROVE  Known'
  <2>1. ticket[t] # Absent
    BY <1>4 DEF Visible
  <2> HIDE DEF t
  <2>2. /\ ticket[t] \in Ticket /\ ticket[t].org = home[t]
        /\ \A x \in Refs : Points(ticket[t], x) => row[x] # Absent /\ home[x] = home[t]
    BY <1>3, <2>1, StoredTicket
  <2>3. PICK r \in Ticket : r = ticket[t]
    BY <2>2
  <2> DEFINE new == [r EXCEPT !.notes = r.notes + 1]
  <2>4. /\ new \in Ticket /\ new.org = r.org /\ new.status = r.status
        /\ new.priority = r.priority /\ new.sla = r.sla
    BY DEF Ticket
  <2>5. ticket' = [ticket EXCEPT ![t] = new]
    BY <1>4, <2>3
  <2> HIDE DEF new
  <2>6. \A x \in Refs : Points(new, x) => row[x] # Absent /\ home[x] = home[t]
    BY <2>2, <2>3, <2>4 DEF Points
  <2>7. /\ Tables' /\ Grows(home, home') /\ row' \in [Refs -> Row \union {Absent}]
        /\ ticket' \in [Tickets -> Ticket \union {Absent}]
        /\ home' \in [Entities -> Orgs \union {Null}]
    <3>1. new.org = home[t] /\ new \in Ticket
      BY <2>2, <2>3, <2>4
    <3>2. UNCHANGED <<row, home>>
      BY <1>4
    <3> QED BY <1>3, <2>5, <2>6, <3>1, <3>2, TicketWritten
  <2>8. /\ logs' \in [Entries -> Nat] /\ done' \in [Entries -> Nat]
        /\ mailed' \in [Tickets -> Nat] /\ wrote' \in [Procs -> Nat]
    BY <1>4 DEF Known, TypeOK
  <2>9. todo[p][1] \notin Checks \union {"insert_ticket", "insert_row"}
    BY <1>2 DEF Checks
  <2>10. UNCHANGED local
    BY <1>4
  <2> QED BY <1>2, <1>4, <2>7, <2>8, <2>9, <2>10, WrittenPast
<1> QED BY <1>4, Refused DEF Note

\* An edit, or a confirmation, writes what it has validated to a stored ticket.
LEMMA UpdateTicketKnown ==
  ASSUME Known, NEW p \in Procs, UpdateTicket(p)
  PROVE  Known'
<1> DEFINE c == local[p]
           t == c.ticket
           Given(a, b) == IF a = Null THEN b ELSE a
           new == [ticket[t] EXCEPT !.org = c.org,
                     !.status = Given(c.status, @), !.priority = Given(c.priority, @),
                     !.sla = Given(c.sla, @),
                     !.opened = @ \/ c.op = "confirm_ticket"]
           e == <<IF c.op = "confirm_ticket" THEN "confirmed" ELSE "updated", t>>
<1>1. At(p, "update_ticket")
  BY DEF UpdateTicket
<1>2. /\ Running(p) /\ todo[p][1] = "update_ticket"
      /\ c.op \in {"confirm_ticket", "edit_ticket"}
  BY <1>1, Who, Callers
<1>3. c.org \in Orgs
  BY <1>2, Here
<1>4. /\ c.priority # Null => c.priority \in Priorities /\ home[c.priority] = c.org
      /\ c.status # Null => c.status \in Statuses /\ home[c.status] = c.org
      /\ c.sla # Null => c.sla \in Slas /\ home[c.sla] = c.org
      /\ t \in Tickets /\ home[t] = c.org /\ ticket[t] \in Ticket
  BY <1>2, Resolved DEF Checks
<1>5. \/ /\ Anchored(new, row) /\ ticket' = [ticket EXCEPT ![t] = new] /\ CommitAndRefresh(p, e)
         /\ UNCHANGED <<row, home, local>>
      \/ Refuse(p)
  BY Zenon DEF UpdateTicket
<1>6. PICK r \in Ticket : r = ticket[t]
  BY <1>4
<1> DEFINE s1 == Given(c.status, r.status)
           n1 == Given(c.priority, r.priority)
           l1 == Given(c.sla, r.sla)
           b1 == r.opened \/ c.op = "confirm_ticket"
<1>7. /\ new \in Ticket /\ new.org = c.org /\ new.status = s1
      /\ new.priority = n1 /\ new.sla = l1
  <2>1. /\ s1 \in Statuses \union {Null} /\ n1 \in Priorities \union {Null}
        /\ l1 \in Slas \union {Null}
    BY <1>4 DEF Ticket
  <2>2. b1 \in BOOLEAN
    OBVIOUS
  <2>3. /\ c.org \in Orgs /\ r.deleted \in BOOLEAN /\ r.notes \in Nat
        /\ r = [org |-> r.org, status |-> r.status, priority |-> r.priority, sla |-> r.sla,
                opened |-> r.opened, deleted |-> r.deleted, notes |-> r.notes]
    BY <1>3 DEF Ticket
  <2> DEFINE o1 == c.org
             d1 == [r EXCEPT !.org = o1]
             d2 == [d1 EXCEPT !.status = s1]
             d3 == [d2 EXCEPT !.priority = n1]
             d4 == [d3 EXCEPT !.sla = l1]
             d5 == [d4 EXCEPT !.opened = b1]
  <2>4. new = d5
    BY <1>6
  <2> HIDE DEF s1, n1, l1, b1, new, o1
  <2>5. d1 = [org |-> o1, status |-> r.status, priority |-> r.priority, sla |-> r.sla,
              opened |-> r.opened, deleted |-> r.deleted, notes |-> r.notes]
    BY <2>3
  <2> HIDE DEF d1
  <2>6. d2 = [org |-> o1, status |-> s1, priority |-> r.priority, sla |-> r.sla,
              opened |-> r.opened, deleted |-> r.deleted, notes |-> r.notes]
    BY <2>5
  <2> HIDE DEF d2
  <2>7. d3 = [org |-> o1, status |-> s1, priority |-> n1, sla |-> r.sla,
              opened |-> r.opened, deleted |-> r.deleted, notes |-> r.notes]
    BY <2>6
  <2> HIDE DEF d3
  <2>8. d4 = [org |-> o1, status |-> s1, priority |-> n1, sla |-> l1,
              opened |-> r.opened, deleted |-> r.deleted, notes |-> r.notes]
    BY <2>7
  <2> HIDE DEF d4
  <2>9. d5 = [org |-> o1, status |-> s1, priority |-> n1, sla |-> l1,
              opened |-> b1, deleted |-> r.deleted, notes |-> r.notes]
    BY <2>8
  <2> HIDE DEF d5
  <2> QED BY <2>1, <2>2, <2>3, <2>4, <2>9 DEF Ticket, o1
<1> HIDE DEF new
<1>8. CASE /\ Anchored(new, row) /\ ticket' = [ticket EXCEPT ![t] = new] /\ CommitAndRefresh(p, e)
           /\ UNCHANGED <<row, home, local>>
  <2>1. \A x \in Refs : Points(r, x) => home[x] = c.org
    BY <1>4, <1>6, StoredTicket, TicketDeskAssumption
  <2>2. ASSUME NEW x \in Refs, Points(new, x) PROVE row[x] # Absent /\ home[x] = home[t]
    <3>1. row[x] # Absent
      BY <1>8, <2>2 DEF Anchored
    <3>2. x # Null /\ x \in {s1, n1, l1}
      BY <1>7, <2>2, Apart DEF Points, Entities
    <3>3. x \in {c.status, c.priority, c.sla} \/ Points(r, x)
      BY <3>2 DEF Points
    <3> QED BY <1>4, <2>1, <3>1, <3>2, <3>3
  <2>3. e \in Entries
    BY <1>4 DEF Entries, Entities
  <2> HIDE DEF e
  <2>4. /\ Refresh(p) /\ logs' \in [Entries -> Nat] /\ done' \in [Entries -> Nat]
        /\ mailed' \in [Tickets -> Nat] /\ wrote' \in [Procs -> Nat]
    BY <1>8, <2>3, Committed DEF CommitAndRefresh
  <2>5. /\ Tables' /\ Grows(home, home') /\ row' \in [Refs -> Row \union {Absent}]
        /\ ticket' \in [Tickets -> Ticket \union {Absent}]
        /\ home' \in [Entities -> Orgs \union {Null}]
    <3>1. new.org = home[t] /\ new \in Ticket
      BY <1>4, <1>7
    <3>2. UNCHANGED <<row, home>>
      BY <1>8
    <3> HIDE DEF t
    <3> QED BY <1>4, <1>8, <2>2, <3>1, <3>2, TicketWritten
  <2>6. todo[p][1] \notin Checks \union {"insert_ticket", "insert_row"}
    BY <1>2 DEF Checks
  <2>7. UNCHANGED local
    BY <1>8
  <2> QED BY <1>2, <2>4, <2>5, <2>6, <2>7, WrittenPast
<1> QED BY <1>5, <1>8, Refused

\* A deleted ticket keeps what it points at.
LEMMA SoftDeleteKnown ==
  ASSUME Known, NEW p \in Procs, SoftDelete(p)
  PROVE  Known'
<1> DEFINE t == local[p].ticket
           e == <<"deleted", t>>
<1>1. At(p, "soft_delete")
  BY DEF SoftDelete
<1>2. /\ Running(p) /\ todo[p][1] = "soft_delete" /\ local[p].op = "delete_ticket"
  BY <1>1, Who, Callers
<1>3. t \in Tickets /\ ticket[t] \in Ticket
  BY <1>2, Resolved DEF Checks
<1>4. /\ ticket[t].org = home[t]
      /\ \A x \in Refs : Points(ticket[t], x) => row[x] # Absent /\ home[x] = home[t]
  BY <1>3, StoredTicket, TicketDeskAssumption
<1>5. ticket' = [ticket EXCEPT ![t].deleted = TRUE] /\ CommitAndRefresh(p, e) /\ UNCHANGED <<row, home, local>>
  BY DEF SoftDelete
<1>6. PICK r \in Ticket : r = ticket[t]
  BY <1>3
<1> DEFINE new == [r EXCEPT !.deleted = TRUE]
<1>7. /\ new \in Ticket /\ new.org = r.org /\ new.status = r.status
      /\ new.priority = r.priority /\ new.sla = r.sla
  BY DEF Ticket
<1>8. ticket' = [ticket EXCEPT ![t] = new]
  BY <1>5, <1>6
<1>9. e \in Entries
  BY <1>3 DEF Entries, Entities
<1> HIDE DEF new, e, t
<1>10. \A x \in Refs : Points(new, x) => row[x] # Absent /\ home[x] = home[t]
  BY <1>4, <1>6, <1>7 DEF Points
<1>11. /\ Tables' /\ Grows(home, home') /\ row' \in [Refs -> Row \union {Absent}]
       /\ ticket' \in [Tickets -> Ticket \union {Absent}]
       /\ home' \in [Entities -> Orgs \union {Null}]
  <2>1. new.org = home[t] /\ new \in Ticket
    BY <1>4, <1>6, <1>7
  <2>2. UNCHANGED <<row, home>>
    BY <1>5
  <2> QED BY <1>3, <1>8, <1>10, <2>1, <2>2, TicketWritten
<1>12. /\ Refresh(p) /\ logs' \in [Entries -> Nat] /\ done' \in [Entries -> Nat]
       /\ mailed' \in [Tickets -> Nat] /\ wrote' \in [Procs -> Nat]
  BY <1>5, <1>9, Committed DEF CommitAndRefresh
<1>13. todo[p][1] \notin Checks \union {"insert_ticket", "insert_row"}
  BY <1>2 DEF Checks
<1>14. UNCHANGED local
  BY <1>5
<1> QED BY <1>2, <1>11, <1>12, <1>13, <1>14, WrittenPast

\* A merge stores rows and a ticket that were sound when they were read.
LEMMA MergeKnown ==
  ASSUME Known, NEW p \in Procs, Merge(p)
  PROVE  Known'
<1> DEFINE c == local[p]
           t == c.ticket
           rows == [x \in Refs |-> IF \E r \in c.refs : r[1] = x
                                   THEN (CHOOSE r \in c.refs : r[1] = x)[2] ELSE row[x]]
<1>1. At(p, "merge")
  BY DEF Merge
<1>2. Running(p) /\ todo[p][1] = "merge" /\ c.op = "edit_ticket"
  BY <1>1, Who, Callers
<1>3. /\ t \in Tickets /\ home[t] = c.org /\ ticket[t] \in Ticket /\ Snapped(c, home)
      /\ \A r \in c.refs : r \in Refs \X Row /\ Sound(r[1], r[2], home)
  BY <1>2, Resolved DEF Checks
<1>4. \/ /\ Consistent(rows) /\ row' = rows /\ ticket' = [ticket EXCEPT ![t] = c.snap]
         /\ Advance(p) /\ wrote' = [wrote EXCEPT ![p] = @ + 1]
         /\ UNCHANGED <<home, logs, done, mailed, local>>
      \/ Refuse(p)
  BY Zenon DEF Merge
<1>5. CASE /\ Consistent(rows) /\ row' = rows /\ ticket' = [ticket EXCEPT ![t] = c.snap]
           /\ Advance(p) /\ wrote' = [wrote EXCEPT ![p] = @ + 1]
           /\ UNCHANGED <<home, logs, done, mailed, local>>
  <2>1. ASSUME NEW x \in Refs
        PROVE  \/ /\ \E r \in c.refs : r[1] = x
                  /\ rows[x] \in Row /\ Sound(x, rows[x], home)
               \/ (~\E r \in c.refs : r[1] = x) /\ rows[x] = row[x]
    <3>1. CASE \E r \in c.refs : r[1] = x
      <4> DEFINE r == CHOOSE r \in c.refs : r[1] = x
      <4>1. r \in c.refs /\ r[1] = x
        BY <3>1
      <4>2. rows[x] = r[2]
        BY <3>1
      <4> HIDE DEF r
      <4> QED BY <1>3, <3>1, <4>1, <4>2
    <3>2. CASE ~\E r \in c.refs : r[1] = x
      BY <3>2
    <3> QED BY <3>1, <3>2
  <2>2. rows \in [Refs -> Row \union {Absent}]
    <3>1. \A x \in Refs : rows[x] \in Row \union {Absent}
      BY <2>1 DEF Known, TypeOK
    <3> QED BY <3>1
  <2> HIDE DEF rows
  <2>3. ticket \in [Tickets -> Ticket \union {Absent}] /\ home \in [Entities -> Orgs \union {Null}]
        /\ wrote \in [Procs -> Nat] /\ c.snap \in Ticket /\ c.snap.org = c.org
    BY <1>3 DEF Known, TypeOK, Snapped
  <2>4. /\ row' \in [Refs -> Row \union {Absent}] /\ ticket' \in [Tickets -> Ticket \union {Absent}]
        /\ home' \in [Entities -> Orgs \union {Null}] /\ wrote' \in [Procs -> Nat]
    <3>1. row' \in [Refs -> Row \union {Absent}]
      BY <1>5, <2>2
    <3>2. ticket' \in [Tickets -> Ticket \union {Absent}]
      <4> DEFINE v == c.snap
      <4>1. ticket' = [ticket EXCEPT ![t] = v] /\ v \in Ticket
        BY <1>5, <2>3
      <4> HIDE DEF t, v
      <4> QED BY <2>3, <4>1
    <3>3. home' \in [Entities -> Orgs \union {Null}]
      BY <1>5, <2>3
    <3>4. wrote' \in [Procs -> Nat]
      <4>1. wrote' = [wrote EXCEPT ![p] = @ + 1]
        BY <1>5
      <4> QED BY <2>3, <4>1
    <3> QED BY <3>1, <3>2, <3>3, <3>4
  <2>5. Grows(home, home')
    BY <1>5 DEF Grows
  <2>6. \A x \in Refs : row[x] # Absent => row'[x] # Absent
    BY <1>5, <2>1, TicketDeskAssumption
  <2>7. \A x \in Refs : row'[x] # Absent => Sound(x, row'[x], home')
    <3>1. \A x \in Refs : row[x] # Absent => Sound(x, row[x], home)
      BY DEF Known, Tables, Live
    <3> QED BY <1>5, <2>1, <3>1
  <2>8. \A l \in Slas : row'[l] # Absent => row'[row'[l].key] # Absent
    BY <1>5 DEF Consistent
  <2>9. ASSUME NEW u \in Tickets
        PROVE  \/ ticket'[u] = ticket[u] /\ home'[u] = home[u]
               \/ /\ ticket'[u] \in Ticket /\ ticket'[u].org = home'[u]
                  /\ \A x \in Refs : Points(ticket'[u], x) => row'[x] # Absent /\ home'[x] = home'[u]
    <3>1. CASE u = t
      <4>1. ticket'[u] = c.snap /\ home'[u] = c.org
        BY <1>3, <1>5, <2>3, <3>1
      <4>2. \A x \in Refs : Points(c.snap, x) => row'[x] # Absent /\ home'[x] = c.org
        BY <1>3, <1>5, <2>1, TicketDeskAssumption DEF Snapped
      <4> QED BY <2>3, <4>1, <4>2
    <3>2. CASE u # t
      BY <1>5, <2>3, <3>2
    <3> QED BY <3>1, <3>2
  <2>10. Tables'
    BY <2>5, <2>6, <2>7, <2>8, <2>9, TablesGrow
  <2>11. logs' \in [Entries -> Nat] /\ done' \in [Entries -> Nat] /\ mailed' \in [Tickets -> Nat]
    BY <1>5 DEF Known, TypeOK
  <2>12. todo[p][1] \notin Checks \union {"insert_ticket", "insert_row"}
    BY <1>2 DEF Checks
  <2>13. Refresh(p) /\ UNCHANGED local
    BY <1>5 DEF Refresh
  <2> QED BY <1>2, <2>4, <2>5, <2>10, <2>11, <2>12, <2>13, WrittenPast
<1> QED BY <1>4, <1>5, Refused

\* Rows are written, each by one sound in its organization.
LEMMA RowsWritten ==
  ASSUME Known, NEW rows \in [Refs -> Row \union {Absent}], row' = rows, Consistent(rows),
         Grows(home, home'), ticket' = ticket, \A t \in Tickets : home'[t] = home[t],
         \A x \in Refs : \/ rows[x] = row[x]
                         \/ rows[x] \in Row /\ Sound(x, rows[x], home')
  PROVE  /\ Tables' /\ row' \in [Refs -> Row \union {Absent}]
         /\ ticket' \in [Tickets -> Ticket \union {Absent}]
<1>1. \A x \in Refs : row[x] # Absent => row[x] \in Row /\ Sound(x, row[x], home')
  <2>1. \A x \in Refs : row[x] # Absent => row[x] \in Row /\ Sound(x, row[x], home)
    BY DEF Known, TypeOK, Tables, Live
  <2> QED BY <2>1, SoundGrows
<1>2. \A x \in Refs : row[x] # Absent => row'[x] # Absent
  BY TicketDeskAssumption
<1>3. \A x \in Refs : row'[x] # Absent => Sound(x, row'[x], home')
  BY <1>1
<1>4. \A l \in Slas : row'[l] # Absent => row'[row'[l].key] # Absent
  BY DEF Consistent
<1>5. Tables'
  BY <1>2, <1>3, <1>4, TablesGrow
<1> QED BY <1>5 DEF Known, TypeOK

\* A new row belongs to the organization of its request.
LEMMA InsertRowKnown ==
  ASSUME Known, NEW p \in Procs, InsertRow(p)
  PROVE  Known'
<1> DEFINE c == local[p]
           new == [org |-> Tenant(p), key |-> c.key, category |-> c.category]
           With(x) == [row EXCEPT ![x] = new]
           free == {x \in IdsOf[c.kind] : home[x] = Null}
<1>1. At(p, "insert_row")
  BY DEF InsertRow
<1>2. /\ Running(p) /\ todo[p][1] = "insert_row" /\ Tenant(p) = c.org /\ c.op = "create_row"
  BY <1>1, Who, Callers
<1>3. /\ Params(c) /\ Facts(c, todo[p], home) /\ c \in Local /\ c.org \in Orgs
      /\ c.kind \in Kinds
  BY <1>2, Here DEF Params, RowOps
<1>4. IF c.kind = "sla" THEN c.key \in Priorities /\ home[c.key] = c.org ELSE c.key \in Names
  <2>1. c.kind = "sla" => c.key \in Priorities /\ c.priority = c.key
    BY <1>2, <1>3 DEF Params
  <2>2. c.kind # "sla" => c.key \in Names
    BY <1>2, <1>3 DEF Params
  <2>3. c.priority # Null => home[c.priority] = c.org
    BY <1>2, Resolved DEF Checks
  <2> QED BY <2>1, <2>2, <2>3, Apart
<1>5. ASSUME NEW x \in free, Consistent(With(x)), row' = With(x),
             home' = [home EXCEPT ![x] = Tenant(p)], local' = [local EXCEPT ![p].row = x],
             CommitAndRefresh(p, <<"created", x>>), UNCHANGED ticket
      PROVE  Known'
  <2> DEFINE d == [c EXCEPT !.row = x]
             e == <<"created", x>>
             rows == With(x)
  <2>1. x \in Refs /\ x \in Entities /\ x \in IdsOf[c.kind] /\ home[x] = Null
    BY <1>3, KindFacts DEF Entities
  <2>2. /\ Params(d) /\ d.row = x /\ d.op = c.op /\ d.org = c.org /\ d.kind = c.kind
        /\ d.status = c.status /\ d.priority = c.priority /\ d.sla = c.sla
        /\ d.extra = c.extra /\ d.snap = c.snap /\ d.refs = c.refs
    <3> HIDE DEF c
    <3> QED BY <1>2, <1>3, <2>1, GotRow
  <2>3. local' = [local EXCEPT ![p] = d]
    BY <1>5
  <2> HIDE DEF d
  <2>4. Facts(d, todo[p], home)
    BY <1>2, <1>3, <2>1, <2>2 DEF Facts
  <2>5. e \in Entries
    BY <2>1 DEF Entries
  <2> HIDE DEF e
  <2>6. /\ Refresh(p) /\ logs' \in [Entries -> Nat] /\ done' \in [Entries -> Nat]
        /\ mailed' \in [Tickets -> Nat] /\ wrote' \in [Procs -> Nat]
    BY <1>5, <2>5, Committed DEF e, CommitAndRefresh
  <2>7. new \in Row /\ new.org = c.org /\ new.key = c.key
    BY <1>2, <1>3, <1>4 DEF Row, Local
  <2> HIDE DEF new
  <2>8. /\ row \in [Refs -> Row \union {Absent}] /\ home \in [Entities -> Orgs \union {Null}]
    BY DEF Known, TypeOK
  <2>9. /\ rows \in [Refs -> Row \union {Absent}] /\ rows[x] = new
        /\ \A y \in Refs : y # x => rows[y] = row[y]
    BY <2>1, <2>7, <2>8
  <2>10. /\ home' \in [Entities -> Orgs \union {Null}] /\ home'[x] = c.org
         /\ \A y \in Entities : y # x => home'[y] = home[y]
    BY <1>2, <1>3, <1>5, <2>1, <2>8
  <2>11. Grows(home, home')
    BY <2>1, <2>10 DEF Grows
  <2>12. \A t \in Tickets : home'[t] = home[t]
    <3>1. \A t \in Tickets : t \in Entities /\ t # x
      BY <2>1, TicketDeskAssumption DEF Entities
    <3> QED BY <2>10, <3>1
  <2>13. Sound(x, new, home')
    <3>1. x \in Slas => c.kind = "sla"
      BY <1>3, <2>1, TicketDeskAssumption DEF Kinds, IdsOf
    <3>2. x \in Slas => c.key \in Priorities /\ home[c.key] = c.org /\ c.key # x /\ c.key \in Entities
      BY <1>4, <3>1, TicketDeskAssumption DEF Entities, Refs
    <3> QED BY <2>7, <2>10, <3>2 DEF Sound
  <2>14. row' = rows /\ Consistent(rows)
    BY <1>5
  <2> HIDE DEF rows
  <2>15. /\ Tables' /\ row' \in [Refs -> Row \union {Absent}]
         /\ ticket' \in [Tickets -> Ticket \union {Absent}]
    BY <1>5, <2>7, <2>9, <2>11, <2>12, <2>13, <2>14, RowsWritten
  <2>16. todo[p][1] \notin Checks /\ todo[p][1] # "insert_ticket"
    BY <1>2 DEF Checks
  <2> HIDE DEF c
  <2> QED BY <1>2, <2>1, <2>2, <2>3, <2>4, <2>6, <2>10, <2>11, <2>15, <2>16, Written DEF c
<1>6. \/ \E x \in free :
           /\ Consistent(With(x)) /\ row' = With(x) /\ home' = [home EXCEPT ![x] = Tenant(p)]
           /\ local' = [local EXCEPT ![p].row = x] /\ CommitAndRefresh(p, <<"created", x>>)
           /\ UNCHANGED ticket
      \/ Refuse(p)
  BY Zenon DEF InsertRow
<1> HIDE DEF free, With
<1> QED BY <1>5, <1>6, Refused

\* An edited row stays with its organization, and so does what an SLA names.
LEMMA UpdateRowKnown ==
  ASSUME Known, NEW p \in Procs, UpdateRow(p)
  PROVE  Known'
<1> DEFINE c == local[p]
           Given(a, b) == IF a = Null THEN b ELSE a
           rows == [row EXCEPT ![c.row] =
                      [org |-> Tenant(p), key |-> Given(c.key, @.key),
                       category |-> Given(c.category, @.category)]]
<1>1. At(p, "update_row")
  BY DEF UpdateRow
<1>2. /\ Running(p) /\ todo[p][1] = "update_row" /\ Tenant(p) = c.org /\ c.op = "edit_row"
  BY <1>1, Who, Callers
<1>3. /\ Params(c) /\ c \in Local /\ c.org \in Orgs /\ c.kind \in Kinds /\ c.row \in IdsOf[c.kind]
  BY <1>2, Here DEF Params, RowOps
<1>4. /\ c.row \in Refs /\ home[c.row] = c.org
      /\ c.priority # Null => home[c.priority] = c.org
  BY <1>2, Resolved DEF Checks
<1>5. /\ c.kind = "sla" => c.key \in Priorities \union {Null} /\ c.priority = c.key
      /\ c.key \in Names \union Priorities \union {Null}
      /\ c.category \in Categories \union {Null}
  BY <1>2, <1>3 DEF Params, Local
<1>6. todo[p][1] \notin Checks \union {"insert_ticket", "insert_row"}
  BY <1>2 DEF Checks
<1>7. \/ Read(p) /\ UNCHANGED local
      \/ /\ Live(c.row) /\ Consistent(rows) /\ row' = rows /\ CommitAndRefresh(p, <<"updated", c.row>>)
         /\ UNCHANGED <<ticket, home, local>>
      \/ Refuse(p)
  BY Zenon DEF UpdateRow
<1>8. CASE Read(p) /\ UNCHANGED local
  BY <1>2, <1>8, ReadPast
<1>9. CASE /\ Live(c.row) /\ Consistent(rows) /\ row' = rows /\ CommitAndRefresh(p, <<"updated", c.row>>)
           /\ UNCHANGED <<ticket, home, local>>
  <2> DEFINE x == c.row
             e == <<"updated", x>>
             new == [org |-> c.org, key |-> Given(c.key, row[x].key),
                     category |-> Given(c.category, row[x].category)]
  <2>1. row[x] \in Row /\ Sound(x, row[x], home) /\ row \in [Refs -> Row \union {Absent}]
    BY <1>4, <1>9 DEF Known, TypeOK, Tables, Live
  <2>2. rows = [row EXCEPT ![x] = new]
    BY <1>2
  <2>3. new \in Row /\ new.org = c.org /\ new.key = Given(c.key, row[x].key)
    BY <1>3, <1>5, <2>1 DEF Row
  <2>4. Sound(x, new, home)
    <3>1. x \in Slas => c.kind = "sla"
      BY <1>3, TicketDeskAssumption DEF Kinds, IdsOf
    <3>2. x \in Slas => row[x].key \in Priorities /\ home[row[x].key] = row[x].org
      BY <2>1 DEF Sound
    <3>3. row[x].org = c.org
      BY <1>4, <2>1 DEF Sound
    <3>4. CASE c.key = Null
      BY <1>4, <2>3, <3>2, <3>3, <3>4 DEF Sound
    <3>5. CASE c.key # Null
      BY <1>4, <1>5, <2>3, <3>1, <3>5 DEF Sound
    <3> QED BY <3>4, <3>5
  <2> HIDE DEF new
  <2>5. rows \in [Refs -> Row \union {Absent}] /\ rows[x] = new
        /\ \A y \in Refs : y # x => rows[y] = row[y]
    BY <1>4, <2>1, <2>2, <2>3
  <2>6. e \in Entries
    BY <1>4 DEF Entries, Entities
  <2> HIDE DEF rows, e, x
  <2>7. /\ Refresh(p) /\ logs' \in [Entries -> Nat] /\ done' \in [Entries -> Nat]
        /\ mailed' \in [Tickets -> Nat] /\ wrote' \in [Procs -> Nat]
    BY <1>9, <2>6, Committed DEF e, x, CommitAndRefresh
  <2>8. /\ home' = home /\ ticket' = ticket /\ row' = rows /\ Consistent(rows) /\ UNCHANGED local
    BY <1>9
  <2>9. Grows(home, home') /\ home' \in [Entities -> Orgs \union {Null}]
        /\ \A t \in Tickets : home'[t] = home[t]
    BY <2>8 DEF Grows, Known, TypeOK
  <2>10. \A y \in Refs : rows[y] = row[y] \/ (rows[y] \in Row /\ Sound(y, rows[y], home'))
    BY <2>3, <2>4, <2>5, <2>8
  <2>11. /\ Tables' /\ row' \in [Refs -> Row \union {Absent}]
         /\ ticket' \in [Tickets -> Ticket \union {Absent}]
    BY <2>5, <2>8, <2>9, <2>10, RowsWritten
  <2> QED BY <1>2, <1>6, <2>7, <2>8, <2>9, <2>11, WrittenPast
<1>10. CASE Refuse(p)
  BY <1>10, Refused
<1> QED BY <1>7, <1>8, <1>9, <1>10

\* Nothing is left pointing at what a deletion removes.
LEMMA DeleteRowKnown ==
  ASSUME Known, NEW p \in Procs, DeleteRow(p)
  PROVE  Known'
<1> DEFINE x == local[p].row
           gone == {x} \union {l \in Slas : Live(l) /\ row[l].key = x}
           Kept(ref) == IF ref \in gone THEN Null ELSE ref
           rows == [y \in Refs |-> IF y \in gone THEN Absent ELSE row[y]]
           tickets == [t \in Tickets |->
                         IF ticket[t] = Absent THEN Absent
                         ELSE [ticket[t] EXCEPT !.status = Kept(@), !.priority = Kept(@),
                                                !.sla = Kept(@)]]
           e == <<"deleted", x>>
<1>1. At(p, "delete_row")
  BY DEF DeleteRow
<1>2. /\ Running(p) /\ todo[p][1] = "delete_row" /\ local[p].op = "delete_row"
  BY <1>1, Who, Callers
<1>3. x \in Refs
  BY <1>2, Resolved DEF Checks
<1>4. todo[p][1] \notin Checks \union {"insert_ticket", "insert_row"}
  BY <1>2 DEF Checks
<1>5. \/ /\ row' = rows /\ ticket' = tickets /\ Commit(p, e) /\ Advance(p)
         /\ UNCHANGED <<home, local>>
      \/ Read(p) /\ UNCHANGED local
  BY Zenon DEF DeleteRow
<1>6. CASE /\ row' = rows /\ ticket' = tickets /\ Commit(p, e) /\ Advance(p)
           /\ UNCHANGED <<home, local>>
  <2>1. /\ row \in [Refs -> Row \union {Absent}] /\ ticket \in [Tickets -> Ticket \union {Absent}]
        /\ home \in [Entities -> Orgs \union {Null}]
    BY DEF Known, TypeOK
  <2>2. /\ rows \in [Refs -> Row \union {Absent}]
        /\ \A y \in Refs : rows[y] = IF y \in gone THEN Absent ELSE row[y]
    BY <2>1
  <2>3. ASSUME NEW t \in Tickets, ticket[t] # Absent
        PROVE  /\ tickets[t] \in Ticket /\ tickets[t].org = ticket[t].org
               /\ \A y \in Refs : Points(tickets[t], y) => Points(ticket[t], y) /\ y \notin gone
    <3>1. PICK r \in Ticket : r = ticket[t]
      BY <2>1, <2>3
    <3> DEFINE s1 == Kept(r.status)
               n1 == Kept(r.priority)
               l1 == Kept(r.sla)
               d1 == [r EXCEPT !.status = s1]
               d2 == [d1 EXCEPT !.priority = n1]
               d3 == [d2 EXCEPT !.sla = l1]
    <3>2. tickets[t] = d3
      BY <2>3, <3>1
    <3>3. /\ s1 \in Statuses \union {Null} /\ n1 \in Priorities \union {Null}
          /\ l1 \in Slas \union {Null}
      BY DEF Ticket
    <3>4. \A y \in Refs : y \in {s1, n1, l1} => y \in {r.status, r.priority, r.sla} /\ y \notin gone
      <4>1. \A y \in Refs : y # Null
        BY Apart DEF Entities
      <4> HIDE DEF gone
      <4> QED BY <4>1
    <3> HIDE DEF s1, n1, l1, gone, tickets
    <3>5. d1 \in Ticket /\ d1.status = s1 /\ d1.org = r.org
      BY <3>3 DEF Ticket
    <3> HIDE DEF d1
    <3>6. d2 \in Ticket /\ d2.status = s1 /\ d2.priority = n1 /\ d2.org = r.org
      BY <3>3, <3>5 DEF Ticket
    <3> HIDE DEF d2
    <3>7. d3 \in Ticket /\ d3.status = s1 /\ d3.priority = n1 /\ d3.sla = l1 /\ d3.org = r.org
      BY <3>3, <3>6 DEF Ticket
    <3> HIDE DEF d3
    <3> QED BY <3>1, <3>2, <3>4, <3>7 DEF Points
  <2>4. \A t \in Tickets : ticket[t] = Absent => tickets[t] = Absent
    OBVIOUS
  <2>5. tickets \in [Tickets -> Ticket \union {Absent}]
    <3>1. \A t \in Tickets : tickets[t] \in Ticket \union {Absent}
      BY <2>3, <2>4
    <3> HIDE DEF gone
    <3> QED BY <3>1
  <2>6. \A l \in Slas : row[l] # Absent /\ row[l].key \in gone => l \in gone
    <3>1. ASSUME NEW l \in Slas, row[l] # Absent, row[l].key \in gone PROVE l \in gone
      <4>1. row[l].key \in Priorities
        BY <3>1 DEF Known, Tables, Live, Sound, Refs
      <4>2. row[l].key = x
        BY <3>1, <4>1, TicketDeskAssumption
      <4> QED BY <3>1, <4>2 DEF Live
    <3> QED BY <3>1
  <2>7. e \in Entries
    BY <1>3 DEF Entries, Entities
  <2> HIDE DEF rows, tickets, e, gone
  <2>8. /\ Refresh(p) /\ logs' \in [Entries -> Nat] /\ done' \in [Entries -> Nat]
        /\ mailed' \in [Tickets -> Nat] /\ wrote' \in [Procs -> Nat]
    BY <1>6, <2>7, Committed DEF Refresh
  <2>9. /\ row' \in [Refs -> Row \union {Absent}] /\ ticket' \in [Tickets -> Ticket \union {Absent}]
        /\ home' \in [Entities -> Orgs \union {Null}]
    BY <1>6, <2>1, <2>2, <2>5
  <2>10. /\ Grows(home, home') /\ UNCHANGED local
    BY <1>6 DEF Grows
  <2>11. \A y \in Refs : Live(y)' => Sound(y, row[y], home)'
    BY <1>6, <2>2 DEF Known, Tables, Live, Sound
  <2>12. ASSUME NEW l \in Slas, Live(l)' PROVE Live(row[l].key)'
    <3>1. row'[l] = row[l] /\ l \notin gone /\ row[l] # Absent
      BY <1>6, <2>2, <2>12 DEF Live, Refs
    <3>2. row[l].key \notin gone /\ row[l].key \in Refs /\ row[row[l].key] # Absent
      BY <2>6, <3>1 DEF Known, Tables, Live, Sound, Refs
    <3>3. row'[row[l].key] = row[row[l].key]
      BY <1>6, <2>2, <3>2
    <3> QED BY <3>1, <3>2, <3>3 DEF Live
  <2>13. ASSUME NEW t \in Tickets
         PROVE  /\ (home[t] # Null => ticket[t] # Absent)'
                /\ (ticket[t] # Absent)' =>
                     /\ (ticket[t].org = home[t])'
                     /\ \A y \in Refs : (Points(ticket[t], y) => Live(y) /\ home[y] = home[t])'
    <3>1. CASE ticket[t] = Absent
      <4>1. home[t] = Null
        BY <3>1 DEF Known, Tables
      <4> QED BY <1>6, <2>4, <3>1, <4>1
    <3>2. CASE ticket[t] # Absent
      <4>1. /\ tickets[t] \in Ticket /\ tickets[t].org = ticket[t].org
            /\ \A y \in Refs : Points(tickets[t], y) => Points(ticket[t], y) /\ y \notin gone
        BY <2>3, <3>2
      <4>2. /\ ticket[t].org = home[t]
            /\ \A y \in Refs : Points(ticket[t], y) => row[y] # Absent /\ home[y] = home[t]
        BY <3>2, StoredTicket
      <4>3. tickets[t] # Absent
        BY <4>1, TicketDeskAssumption
      <4>4. \A y \in Refs : Points(tickets[t], y) => rows[y] # Absent /\ home[y] = home[t]
        BY <2>2, <4>1, <4>2
      <4> QED BY <1>6, <4>1, <4>2, <4>3, <4>4 DEF Live, Points
    <3> QED BY <3>1, <3>2
  <2>14. Tables'
    BY <2>11, <2>12, <2>13 DEF Tables
  <2> QED BY <1>2, <1>4, <2>8, <2>9, <2>10, <2>14, WrittenPast
<1>7. CASE Read(p) /\ UNCHANGED local
  BY <1>2, <1>4, <1>7, ReadPast DEF Checks
<1> QED BY <1>5, <1>6, <1>7

-----------------------------------------------------------------------------
(* The log, the mail, failures and new requests.                           *)

\* What is logged is there to be logged.
LEMMA LogEntry ==
  ASSUME Known, NEW p \in Procs, At(p, "log")
  PROVE  /\ Entry(local[p]) \in Entries
         /\ local[p].op \in RowOps => local[p].row \in Refs
         /\ local[p].op \in TicketOps => local[p].row = Null /\ local[p].ticket \in Tickets
<1> DEFINE c == local[p]
<1>1. Running(p) /\ todo[p][1] = "log" /\ c.op \in TicketOps \union RowOps /\ c.op # "add_note"
  BY Who, Callers
<1>2. /\ Params(c) /\ Rest(c, todo[p]) /\ Facts(c, todo[p], home) /\ todo[p] # <<>>
  BY <1>1, Here DEF Running
<1>3. ~Has(todo[p], "insert_ticket")
  BY <1>1, <1>2, Settled DEF Early, Checks
<1>4. c.op \in {"edit_row", "delete_row"} => c.row \in Refs
  BY <1>1, Resolved DEF Checks
<1> HIDE DEF c
<1>5. c.op = "create_row" => c.row \in Refs
  BY <1>1, <1>2 DEF Facts
<1>6. c.op \in TicketOps => c.row = Null
  BY <1>2 DEF Params
<1>7. c.op \in TicketOps => c.ticket \in Tickets
  <2>1. c.op = "create_ticket" => c.ticket \in Tickets
    BY <1>2, <1>3 DEF Facts
  <2>2. c.op \in {"confirm_ticket", "edit_ticket", "delete_ticket"} => c.ticket \in Tickets
    BY <1>2 DEF Params
  <2> QED BY <1>1, <2>1, <2>2 DEF TicketOps
<1>8. c.op \in RowOps => c.row \in Refs
  BY <1>4, <1>5 DEF RowOps
<1>9. Verb(c) \in {"created", "updated", "deleted", "confirmed"}
  BY <1>1 DEF Verb, TicketOps, RowOps
<1>10. (IF c.row # Null THEN c.row ELSE c.ticket) \in Entities
  BY <1>1, <1>6, <1>7, <1>8, Apart DEF Entities
<1>11. Entry(c) \in Entries
  BY <1>9, <1>10 DEF Entry, Entries
<1> QED BY <1>6, <1>7, <1>8, <1>11 DEF c

\* A log entry changes no table of the desk.
LEMMA LogKnown ==
  ASSUME Known, NEW p \in Procs, Log(p)
  PROVE  Known'
<1> DEFINE e == Entry(local[p])
<1>1. At(p, "log")
  BY DEF Log
<1>2. Running(p) /\ todo[p][1] = "log"
  BY <1>1, Who
<1>3. logs' = [logs EXCEPT ![e] = @ + 1] \/ logs' = logs
  BY DEF Log, Entry
<1>4. Advance(p) /\ UNCHANGED <<dbVars, done, mailed, local, wrote>>
  BY DEF Log
<1>5. e \in Entries
  BY <1>1, LogEntry
<1> HIDE DEF e
<1>6. logs' \in [Entries -> Nat]
  BY <1>3, <1>5 DEF Known, TypeOK
<1>7. Tables'
  BY <1>4, TablesStay DEF Known, dbVars
<1>8. /\ row' \in [Refs -> Row \union {Absent}] /\ ticket' \in [Tickets -> Ticket \union {Absent}]
      /\ home' \in [Entities -> Orgs \union {Null}] /\ done' \in [Entries -> Nat]
      /\ mailed' \in [Tickets -> Nat] /\ wrote' \in [Procs -> Nat]
  BY <1>4 DEF Known, TypeOK, dbVars
<1>9. Grows(home, home') /\ UNCHANGED local
  BY <1>4 DEF dbVars, Grows
<1>10. todo[p][1] \notin Checks \union {"insert_ticket", "insert_row"}
  BY <1>2 DEF Checks
<1> QED BY <1>2, <1>4, <1>6, <1>7, <1>8, <1>9, <1>10, WrittenPast DEF Refresh

\* Whom a mail is about.
LEMMA MailTicket ==
  ASSUME Known, NEW p \in Procs, At(p, "mail")
  PROVE  /\ Running(p) /\ todo[p][1] = "mail" /\ local[p].op = "create_ticket"
         /\ local[p].ticket \in Tickets /\ Len(todo[p]) = 1
<1>1. Running(p) /\ todo[p][1] = "mail" /\ local[p].op = "create_ticket"
  BY Who, Callers
<1>2. /\ Rest(local[p], todo[p]) /\ Facts(local[p], todo[p], home) /\ todo[p] # <<>>
      /\ 1 \in 1 .. Len(todo[p])
  BY <1>1, Here DEF Running
<1>3. ~Has(todo[p], "insert_ticket")
  BY <1>1, <1>2, Settled DEF Early, Checks
<1>4. local[p].ticket \in Tickets
  BY <1>1, <1>2, <1>3 DEF Facts
<1>5. Len(todo[p]) = 1
  BY <1>1, <1>2 DEF Rest, Ordered
<1> QED BY <1>1, <1>4, <1>5

\* A mail changes no table of the desk.
LEMMA MailKnown ==
  ASSUME Known, NEW p \in Procs, Mail(p)
  PROVE  Known'
<1> DEFINE t == local[p].ticket
<1>1. At(p, "mail")
  BY DEF Mail
<1>2. Running(p) /\ todo[p][1] = "mail" /\ t \in Tickets
  BY <1>1, MailTicket
<1>3. \/ /\ mailed' = [mailed EXCEPT ![t] = @ + 1] /\ Advance(p)
         /\ UNCHANGED <<dbVars, logs, done, local, wrote>>
      \/ Refuse(p)
  BY DEF Mail
<1> HIDE DEF t
<1>4. CASE /\ mailed' = [mailed EXCEPT ![t] = @ + 1] /\ Advance(p)
           /\ UNCHANGED <<dbVars, logs, done, local, wrote>>
  <2>1. mailed' \in [Tickets -> Nat]
    BY <1>2, <1>4 DEF Known, TypeOK
  <2>2. Tables'
    BY <1>4, TablesStay DEF Known, dbVars
  <2>3. /\ row' \in [Refs -> Row \union {Absent}] /\ ticket' \in [Tickets -> Ticket \union {Absent}]
        /\ home' \in [Entities -> Orgs \union {Null}] /\ done' \in [Entries -> Nat]
        /\ logs' \in [Entries -> Nat] /\ wrote' \in [Procs -> Nat]
    BY <1>4 DEF Known, TypeOK, dbVars
  <2>4. Grows(home, home') /\ UNCHANGED local
    BY <1>4 DEF dbVars, Grows
  <2>5. todo[p][1] \notin Checks \union {"insert_ticket", "insert_row"}
    BY <1>2 DEF Checks
  <2> QED BY <1>2, <1>4, <2>1, <2>2, <2>3, <2>4, <2>5, WrittenPast DEF Refresh
<1> QED BY <1>3, <1>4, Refused

\* A failure ends a request, or is swallowed and takes one call.
LEMMA FaultKnown ==
  ASSUME Known, NEW p \in Procs, Fault(p)
  PROVE  Known'
<1>1. CASE Fail(p)
  <2>1. Leave(p, "error") /\ faults' \in Nat
    BY <1>1 DEF Known, TypeOK, Fail
  <2> QED BY <2>1, Left
<1>2. CASE Swallowed(p)
  <2>1. PICK s \in {"log", "mail", "tickets_using_it"} : At(p, s)
    BY <1>2 DEF Swallowed
  <2>2. /\ Done(p, 1) /\ faults' = faults + 1 /\ home' = home
        /\ UNCHANGED <<dbVars, logs, done, mailed, local, wrote, requests>>
    BY <1>2 DEF Swallowed, dbVars
  <2>3. Running(p) /\ todo[p][1] = s
    BY <2>1, Who
  <2>4. Params(local[p]) /\ Facts(local[p], todo[p], home)
    BY <2>3, Here
  <2>5. Grows(home, home') /\ local'[p] = local[p] /\ \A q \in Procs : local'[q] = local[q]
    BY <2>2 DEF Grows
  <2>6. Facts(local[p], todo[p], home')
    BY <2>2, <2>4
  <2>7. \A q \in Procs : Running(q)' => Informed(q)'
    BY <2>2, <2>3, <2>4, <2>5, <2>6, Carried
  <2>8. todo' \in [Procs -> Seq(Steps)] /\ answer' \in [Procs -> {Null, "ok", "error"}]
    BY <2>2, <2>3, Here, Went
  <2>9. local' \in [Procs -> Local] /\ requests' \in Nat /\ faults' \in Nat
    BY <2>2 DEF Known, TypeOK
  <2> QED BY <2>2, <2>7, <2>8, <2>9, Unwritten
<1> QED BY <1>1, <1>2 DEF Fault

\* A new request knows its parameters, and will check them.
LEMMA ClientKnown ==
  ASSUME Known, NEW p \in Procs, Client(p)
  PROVE  Known'
<1>1. PICK c : Fresh(c) /\ Receive(p, c)
  BY ClientAsks
<1>2. /\ Params(c) /\ c \in Local /\ Scripted(c, Script(c)) /\ Script(c) \in Seq(Steps)
      /\ c.refs = {} /\ c.sla = Null
  BY <1>1 DEF Fresh, Params, Scripted, Rest
<1>3. Facts(c, Script(c), home)
  BY <1>2 DEF Facts, Scripted
<1>4. Knows(c, Script(c), home)
  BY <1>2, <1>3 DEF Knows, Scripted
<1> DEFINE s == Script(c)
<1>5. /\ todo' = [todo EXCEPT ![p] = s] /\ local' = [local EXCEPT ![p] = c]
      /\ wrote' = [wrote EXCEPT ![p] = 0] /\ answer' = [answer EXCEPT ![p] = Null]
      /\ requests' = requests + 1 /\ UNCHANGED <<dbVars, logs, done, mailed, faults>>
      /\ home' = home
  BY <1>1 DEF Receive, dbVars
<1>6. s \in Seq(Steps)
  BY <1>2
<1> HIDE DEF s
<1>7. TypeOK'
  BY <1>2, <1>5, <1>6 DEF Known, TypeOK, dbVars
<1>8. Tables'
  BY <1>5, TablesStay DEF Known, dbVars
<1>9. ASSUME NEW q \in Procs, Running(q)' PROVE Informed(q)'
  <2>1. CASE q = p
    <3>1. todo'[q] = s /\ local'[q] = c
      BY <1>5, <2>1 DEF Known, TypeOK
    <3> QED BY <1>4, <1>5, <3>1 DEF Informed, s
  <2>2. CASE q # p
    <3>1. todo'[q] = todo[q] /\ local'[q] = local[q]
      BY <1>5, <2>2 DEF Known, TypeOK
    <3>2. Informed(q)
      BY <1>9, <3>1 DEF Known, Running
    <3> QED BY <1>5, <3>1, <3>2 DEF Informed
  <2> QED BY <2>1, <2>2
<1> QED BY <1>7, <1>8, <1>9 DEF Known

\* Every step of a handler keeps what is known.
LEMMA StepKnown ==
  ASSUME Known, NEW p \in Procs, Step(p)
  PROVE  Known'
<1>1. CASE \/ DefaultStatus(p) \/ DefaultSla(p) \/ OpenStatus(p) \/ Check(p)
           \/ FindTicket(p) \/ AlreadyOpened(p) \/ SameName(p) \/ FindRow(p)
           \/ TicketsUsing(p)
  BY <1>1, DefaultStatusKnown, DefaultSlaKnown, OpenStatusKnown, CheckKnown, FindTicketKnown,
     AlreadyOpenedKnown, SameNameKnown, FindRowKnown, TicketsUsingKnown
<1>2. CASE \/ InsertTicket(p) \/ Note(p) \/ UpdateTicket(p) \/ Merge(p)
           \/ SoftDelete(p) \/ InsertRow(p) \/ UpdateRow(p) \/ SelectRow(p) \/ DeleteRow(p)
           \/ Log(p) \/ Mail(p)
  BY <1>2, InsertTicketKnown, NoteKnown, UpdateTicketKnown, MergeKnown, SoftDeleteKnown,
     InsertRowKnown, UpdateRowKnown, SelectRowKnown, DeleteRowKnown, LogKnown, MailKnown
<1> QED BY <1>1, <1>2 DEF Step

\* So does every step.
LEMMA KnownStep ==
  ASSUME Known, [Next]_vars
  PROVE  Known'
<1>1. CASE Next
  BY <1>1, ClientKnown, StepKnown, FaultKnown DEF Next
<1>2. CASE UNCHANGED vars
  <2>1. TypeOK'
    BY <1>2 DEF vars, Known, TypeOK
  <2>2. Tables'
    BY <1>2, TablesStay DEF vars, Known
  <2>3. \A q \in Procs : Running(q)' => Informed(q)'
    BY <1>2 DEF vars, Known, Running, Informed
  <2> QED BY <2>1, <2>2, <2>3 DEF Known
<1> QED BY <1>1, <1>2

\* It is known of any database that earlier requests may have left.
LEMMA InitKnown == Init => Known
<1> SUFFICES ASSUME Init PROVE Known
  OBVIOUS
<1>1. /\ row \in [Refs -> Row \union {Absent}] /\ ticket \in [Tickets -> Ticket \union {Absent}]
      /\ Consistent(row)
  BY DEF Init
<1>2. \A x \in Refs : x \notin Tickets /\ x \in Entities
  BY TicketDeskAssumption DEF Entities
<1>3. /\ \A x \in Refs : home[x] = IF row[x] = Absent THEN Null ELSE row[x].org
      /\ \A t \in Tickets : home[t] = IF ticket[t] = Absent THEN Null ELSE ticket[t].org
  BY <1>2 DEF Init, Entities
<1>4. home \in [Entities -> Orgs \union {Null}]
  <2>1. \A x \in Entities :
          (IF (IF x \in Tickets THEN ticket[x] ELSE row[x]) = Absent THEN Null
           ELSE (IF x \in Tickets THEN ticket[x] ELSE row[x]).org) \in Orgs \union {Null}
    BY <1>1 DEF Entities, Row, Ticket
  <2> QED BY <2>1 DEF Init
<1>5. TypeOK
  <2>1. Blank \in Local
    BY DEF Blank, Local
  <2>2. <<>> \in Seq(Steps)
    BY EmptyOrdered
  <2> QED BY <1>1, <1>4, <2>1, <2>2 DEF Init, TypeOK
<1>6. ASSUME NEW x \in Refs, Live(x) PROVE Sound(x, row[x], home)
  <2>1. row[x].org = home[x]
    BY <1>3, <1>6 DEF Live
  <2>2. x \in Slas => /\ row[x].key \in Priorities /\ row[row[x].key].org = row[x].org
                      /\ row[row[x].key] # Absent
    <3> SUFFICES ASSUME x \in Slas
                 PROVE  /\ row[x].key \in Priorities /\ row[row[x].key].org = row[x].org
                        /\ row[row[x].key] # Absent
      OBVIOUS
    <3>1. "sla" \in Kinds /\ x \in IdsOf["sla"]
      BY DEF Kinds, IdsOf
    <3>2. row[x].key \in KeysOf("sla") /\ row[row[x].key].org = row[x].org
      BY <1>6, <3>1 DEF Init
    <3>3. row[row[x].key] # Absent
      BY <1>1, <1>6 DEF Consistent, Live
    <3> QED BY <3>2, <3>3 DEF KeysOf
  <2>3. x \in Slas => home[row[x].key] = row[x].org
    BY <1>3, <2>2 DEF Refs
  <2> QED BY <2>1, <2>2, <2>3 DEF Sound
<1>7. \A l \in Slas : Live(l) => Live(row[l].key)
  BY <1>1 DEF Consistent, Live
<1>8. ASSUME NEW t \in Tickets
      PROVE  /\ home[t] # Null => ticket[t] # Absent
             /\ ticket[t] # Absent =>
                  /\ ticket[t].org = home[t]
                  /\ \A x \in Refs : Points(ticket[t], x) => Live(x) /\ home[x] = home[t]
  <2>1. ticket[t] # Absent => \A x \in Refs : Points(ticket[t], x) => Owned(x, ticket[t].org)
    BY DEF Init
  <2> QED BY <1>3, <2>1 DEF Owned, Live
<1>9. \A p \in Procs : ~Running(p)
  BY DEF Init, Running
<1> QED BY <1>5, <1>6, <1>7, <1>8, <1>9 DEF Known, Tables

\* It stays known.
LEMMA KnownAlways == Spec => []Known
<1>1. Init => Known
  BY InitKnown
<1>2. Known /\ [Next]_vars => Known'
  BY KnownStep
<1> QED BY <1>1, <1>2, PTL DEF Spec

\* The variables of the ticket desk stay in their types, whatever the requests.
THEOREM TypeCorrect == Spec => []TypeOK
<1>1. Known => TypeOK
  BY DEF Known
<1> QED BY <1>1, KnownAlways, PTL

\* No interleaving makes a ticket, or an SLA, point at a row of another organization,
\* or at none.
THEOREM NothingShared == Spec => []SameTenant
<1>1. ASSUME Known PROVE SameTenant
  <2>1. ASSUME NEW t \in Tickets, ticket[t] # Absent, NEW x \in Refs, Points(ticket[t], x)
        PROVE  Owned(x, ticket[t].org)
    <3>1. Live(x) /\ home[x] = ticket[t].org
      BY <1>1, <2>1 DEF Known, Tables
    <3>2. row[x].org = home[x]
      BY <1>1, <3>1 DEF Known, Tables, Sound
    <3> QED BY <3>1, <3>2 DEF Owned
  <2>2. ASSUME NEW l \in Slas, Live(l) PROVE Owned(row[l].key, row[l].org)
    <3>1. Live(row[l].key) /\ row[l].key \in Refs /\ home[row[l].key] = row[l].org
      BY <1>1, <2>2 DEF Known, Tables, Sound, Refs
    <3>2. row[row[l].key].org = home[row[l].key]
      BY <1>1, <3>1 DEF Known, Tables, Sound
    <3> QED BY <3>1, <3>2 DEF Owned
  <2> QED BY <2>1, <2>2 DEF SameTenant
<1> QED BY <1>1, KnownAlways, PTL

-----------------------------------------------------------------------------
(* Changes, log entries and mails are in step.                             *)

\* One task joins a set of tasks, or leaves it.
LEMMA Counting ==
  ASSUME NEW S \in SUBSET Procs, NEW T \in SUBSET Procs, NEW p \in Procs,
         \A q \in Procs : q # p => (q \in T <=> q \in S)
  PROVE  /\ Cardinality(S) \in Nat /\ Cardinality(T) \in Nat
         /\ (p \in T <=> p \in S) => Cardinality(T) = Cardinality(S)
         /\ p \in T /\ p \notin S => Cardinality(T) = Cardinality(S) + 1
         /\ p \notin T /\ p \in S => Cardinality(S) = Cardinality(T) + 1
<1>1. IsFiniteSet(S) /\ IsFiniteSet(T)
  BY TicketDeskAssumption, FS_Subset
<1>2. Cardinality(S) \in Nat /\ Cardinality(T) \in Nat
  BY <1>1, FS_CardinalityType
<1>3. (p \in T <=> p \in S) => T = S
  OBVIOUS
<1>4. p \in T /\ p \notin S => T = S \union {p}
  OBVIOUS
<1>5. p \notin T /\ p \in S => S = T \union {p}
  OBVIOUS
<1>6. p \notin S => Cardinality(S \union {p}) = Cardinality(S) + 1
  BY <1>1, FS_AddElement
<1>7. p \notin T => Cardinality(T \union {p}) = Cardinality(T) + 1
  BY <1>1, FS_AddElement
<1> QED BY <1>2, <1>3, <1>4, <1>5, <1>6, <1>7

\* The other tasks are where they were.
Others(p) == \A q \in Procs : q # p => todo'[q] = todo[q] /\ local'[q] = local[q]

\* Only p may begin, or end, to wait for its log entry, and for its mail.
LEMMA Waiting ==
  ASSUME NEW p \in Procs, Others(p)
  PROVE  /\ \A e : /\ Pending(e) \in SUBSET Procs /\ Pending(e)' \in SUBSET Procs
                   /\ \A q \in Procs : q # p => (q \in Pending(e)' <=> q \in Pending(e))
         /\ \A t : /\ Mailing(t) \in SUBSET Procs /\ Mailing(t)' \in SUBSET Procs
                   /\ \A q \in Procs : q # p => (q \in Mailing(t)' <=> q \in Mailing(t))
<1>1. ASSUME NEW e
      PROVE  /\ Pending(e) \in SUBSET Procs /\ Pending(e)' \in SUBSET Procs
             /\ \A q \in Procs : q # p => (q \in Pending(e)' <=> q \in Pending(e))
  BY DEF Others, Pending, At, Entry, Verb
<1>2. ASSUME NEW t
      PROVE  /\ Mailing(t) \in SUBSET Procs /\ Mailing(t)' \in SUBSET Procs
             /\ \A q \in Procs : q # p => (q \in Mailing(t)' <=> q \in Mailing(t))
  BY DEF Others, Mailing, Running
<1> QED BY <1>1, <1>2

\* How many wait, before and after.
LEMMA Numbers ==
  ASSUME NEW p \in Procs, Others(p)
  PROVE  /\ \A e : /\ Cardinality(Pending(e)) \in Nat /\ Cardinality(Pending(e))' \in Nat
                   /\ (p \in Pending(e)' <=> p \in Pending(e)) =>
                        Cardinality(Pending(e))' = Cardinality(Pending(e))
                   /\ p \in Pending(e)' /\ p \notin Pending(e) =>
                        Cardinality(Pending(e))' = Cardinality(Pending(e)) + 1
                   /\ p \notin Pending(e)' /\ p \in Pending(e) =>
                        Cardinality(Pending(e)) = Cardinality(Pending(e))' + 1
         /\ \A t : /\ Cardinality(Mailing(t)) \in Nat /\ Cardinality(Mailing(t))' \in Nat
                   /\ (p \in Mailing(t)' <=> p \in Mailing(t)) =>
                        Cardinality(Mailing(t))' = Cardinality(Mailing(t))
                   /\ p \in Mailing(t)' /\ p \notin Mailing(t) =>
                        Cardinality(Mailing(t))' = Cardinality(Mailing(t)) + 1
                   /\ p \notin Mailing(t)' /\ p \in Mailing(t) =>
                        Cardinality(Mailing(t)) = Cardinality(Mailing(t))' + 1
<1>1. ASSUME NEW e
      PROVE  /\ Cardinality(Pending(e)) \in Nat /\ Cardinality(Pending(e))' \in Nat
             /\ (p \in Pending(e)' <=> p \in Pending(e)) =>
                  Cardinality(Pending(e))' = Cardinality(Pending(e))
             /\ p \in Pending(e)' /\ p \notin Pending(e) =>
                  Cardinality(Pending(e))' = Cardinality(Pending(e)) + 1
             /\ p \notin Pending(e)' /\ p \in Pending(e) =>
                  Cardinality(Pending(e)) = Cardinality(Pending(e))' + 1
  <2> DEFINE S == Pending(e)
             T == Pending(e)'
  <2>1. S \in SUBSET Procs /\ T \in SUBSET Procs /\ \A q \in Procs : q # p => (q \in T <=> q \in S)
    BY Waiting
  <2> HIDE DEF S, T
  <2>2. /\ Cardinality(S) \in Nat /\ Cardinality(T) \in Nat
        /\ (p \in T <=> p \in S) => Cardinality(T) = Cardinality(S)
        /\ p \in T /\ p \notin S => Cardinality(T) = Cardinality(S) + 1
        /\ p \notin T /\ p \in S => Cardinality(S) = Cardinality(T) + 1
    BY <2>1, Counting
  <2> QED BY <2>2 DEF S, T
<1>2. ASSUME NEW t
      PROVE  /\ Cardinality(Mailing(t)) \in Nat /\ Cardinality(Mailing(t))' \in Nat
             /\ (p \in Mailing(t)' <=> p \in Mailing(t)) =>
                  Cardinality(Mailing(t))' = Cardinality(Mailing(t))
             /\ p \in Mailing(t)' /\ p \notin Mailing(t) =>
                  Cardinality(Mailing(t))' = Cardinality(Mailing(t)) + 1
             /\ p \notin Mailing(t)' /\ p \in Mailing(t) =>
                  Cardinality(Mailing(t)) = Cardinality(Mailing(t))' + 1
  <2> DEFINE S == Mailing(t)
             T == Mailing(t)'
  <2>1. S \in SUBSET Procs /\ T \in SUBSET Procs /\ \A q \in Procs : q # p => (q \in T <=> q \in S)
    BY Waiting
  <2> HIDE DEF S, T
  <2>2. /\ Cardinality(S) \in Nat /\ Cardinality(T) \in Nat
        /\ (p \in T <=> p \in S) => Cardinality(T) = Cardinality(S)
        /\ p \in T /\ p \notin S => Cardinality(T) = Cardinality(S) + 1
        /\ p \notin T /\ p \in S => Cardinality(S) = Cardinality(T) + 1
    BY <2>1, Counting
  <2> QED BY <2>2 DEF S, T
<1> QED BY <1>1, <1>2

\* What the entries are that are counted.
LEMMA Books ==
  ASSUME Known
  PROVE  /\ logs \in [Entries -> Nat] /\ done \in [Entries -> Nat] /\ mailed \in [Tickets -> Nat]
         /\ \A t \in Tickets : <<"created", t>> \in Entries
         /\ RowEntries \subseteq Entries
         /\ \A x \in Refs : /\ <<"created", x>> \in RowEntries \ Loose
                            /\ <<"deleted", x>> \in RowEntries
BY DEF Known, TypeOK, RowEntries, Entries, Entities, Loose

\* A step that is neither a commit nor a log entry nor a mail.
LEMMA NothingDue ==
  ASSUME Known, Backed, NEW p \in Procs, Others(p), UNCHANGED <<logs, done, mailed>>,
         faults' = 0 => faults = 0, At(p, "log") => faults' # 0,
         \A e \in Entries : p \in Pending(e)' => p \in Pending(e) \/ e \in Loose,
         \A t \in Tickets : p \in Mailing(t)' => p \in Mailing(t)
  PROVE  Backed'
<1>1. \A e \in Entries : e \in Loose \/ logs'[e] + Cardinality(Pending(e))' <= done'[e]
  <2> TAKE e \in Entries
  <2> SUFFICES ASSUME e \notin Loose
               PROVE  logs'[e] + Cardinality(Pending(e))' <= done'[e]
    OBVIOUS
  <2>1. logs[e] + Cardinality(Pending(e)) <= done[e] /\ logs[e] \in Nat /\ done[e] \in Nat
    BY Books DEF Backed
  <2>2. /\ Cardinality(Pending(e)) \in Nat /\ Cardinality(Pending(e))' \in Nat
        /\ Cardinality(Pending(e))' <= Cardinality(Pending(e))
    BY Numbers
  <2> QED BY <2>1, <2>2
<1>2. ASSUME faults' = 0, NEW e \in RowEntries
      PROVE  logs'[e] + Cardinality(Pending(e))' >= done'[e]
  <2>1. /\ logs[e] + Cardinality(Pending(e)) >= done[e] /\ e \in Entries
        /\ logs[e] \in Nat /\ done[e] \in Nat
    BY <1>2, Books DEF Backed
  <2>2. p \notin Pending(e)
    BY <1>2 DEF Pending
  <2>3. /\ Cardinality(Pending(e)) \in Nat /\ Cardinality(Pending(e))' \in Nat
        /\ Cardinality(Pending(e))' >= Cardinality(Pending(e))
    BY <2>2, Numbers
  <2> QED BY <2>1, <2>3
<1>3. \A t \in Tickets : mailed'[t] + Cardinality(Mailing(t))' <= done'[<<"created", t>>]
  <2> TAKE t \in Tickets
  <2>1. /\ mailed[t] + Cardinality(Mailing(t)) <= done[<<"created", t>>]
        /\ mailed[t] \in Nat /\ done[<<"created", t>>] \in Nat
    BY Books DEF Backed
  <2>2. /\ Cardinality(Mailing(t)) \in Nat /\ Cardinality(Mailing(t))' \in Nat
        /\ Cardinality(Mailing(t))' <= Cardinality(Mailing(t))
    BY Numbers
  <2> QED BY <2>1, <2>2
<1> QED BY <1>1, <1>2, <1>3 DEF Backed

\* A commit, which p is about to log unless a call has failed.
LEMMA CommitDue ==
  ASSUME Known, Backed, NEW p \in Procs, Others(p), NEW e \in Entries,
         done' = [done EXCEPT ![e] = @ + 1], UNCHANGED <<logs, mailed>>,
         faults' = 0 => faults = 0 /\ p \in Pending(e)',
         ~At(p, "log"), \A f \in Entries : p \in Pending(f)' => f = e,
         \A t \in Tickets : p \in Mailing(t)' => p \in Mailing(t) \/ e = <<"created", t>>
  PROVE  Backed'
<1>0. done \in [Entries -> Nat]
  BY Books
<1>1. \A f \in Entries : f \in Loose \/ logs'[f] + Cardinality(Pending(f))' <= done'[f]
  <2> TAKE f \in Entries
  <2> SUFFICES ASSUME f \notin Loose
               PROVE  logs'[f] + Cardinality(Pending(f))' <= done'[f]
    OBVIOUS
  <2>1. logs[f] + Cardinality(Pending(f)) <= done[f] /\ logs[f] \in Nat /\ done[f] \in Nat
    BY Books DEF Backed
  <2>2. p \notin Pending(f)
    BY DEF Pending
  <2>3. /\ Cardinality(Pending(f)) \in Nat /\ Cardinality(Pending(f))' \in Nat
        /\ Cardinality(Pending(f))' <= Cardinality(Pending(f)) + (IF f = e THEN 1 ELSE 0)
    BY <2>2, Numbers
  <2>4. done'[f] = done[f] + (IF f = e THEN 1 ELSE 0)
    BY <1>0, <2>1
  <2> QED BY <2>1, <2>3, <2>4
<1>2. ASSUME faults' = 0, NEW f \in RowEntries
      PROVE  logs'[f] + Cardinality(Pending(f))' >= done'[f]
  <2>1. /\ logs[f] + Cardinality(Pending(f)) >= done[f] /\ f \in Entries
        /\ logs[f] \in Nat /\ done[f] \in Nat
    BY <1>2, Books DEF Backed
  <2>2. p \notin Pending(f)
    BY DEF Pending
  <2>3. /\ Cardinality(Pending(f)) \in Nat /\ Cardinality(Pending(f))' \in Nat
        /\ Cardinality(Pending(f))' = Cardinality(Pending(f)) + (IF f = e THEN 1 ELSE 0)
    BY <1>2, <2>1, <2>2, Numbers
  <2>4. done'[f] = done[f] + (IF f = e THEN 1 ELSE 0)
    BY <1>0, <2>1
  <2> QED BY <2>1, <2>3, <2>4
<1>3. \A t \in Tickets : mailed'[t] + Cardinality(Mailing(t))' <= done'[<<"created", t>>]
  <2> TAKE t \in Tickets
  <2> DEFINE f == <<"created", t>>
  <2>1. /\ mailed[t] + Cardinality(Mailing(t)) <= done[f] /\ f \in Entries
        /\ mailed[t] \in Nat /\ done[f] \in Nat
    BY Books DEF Backed
  <2>2. done'[f] = done[f] + (IF f = e THEN 1 ELSE 0)
    BY <1>0, <2>1
  <2>3. /\ Cardinality(Mailing(t)) \in Nat /\ Cardinality(Mailing(t))' \in Nat
        /\ Cardinality(Mailing(t))' <= Cardinality(Mailing(t)) + (IF f = e THEN 1 ELSE 0)
    BY Numbers
  <2> HIDE DEF f
  <2>4. mailed'[t] + Cardinality(Mailing(t))' <= done'[f]
    BY <2>1, <2>2, <2>3
  <2> QED BY <2>4 DEF f
<1> QED BY <1>1, <1>2, <1>3 DEF Backed

\* A log entry.
LEMMA EntryDue ==
  ASSUME Known, Backed, NEW p \in Procs, Others(p), NEW e \in Entries,
         \/ logs' = [logs EXCEPT ![e] = @ + 1]
         \/ logs' = logs /\ e \notin RowEntries,
         UNCHANGED <<done, mailed, faults>>,
         \A f \in Entries : p \in Pending(f) <=> f = e,
         \A f \in Entries : p \notin Pending(f)',
         \A t \in Tickets : p \in Mailing(t)' => p \in Mailing(t)
  PROVE  Backed'
<1>0. logs \in [Entries -> Nat]
  BY Books
<1>1. \A f \in Entries : f \in Loose \/ logs'[f] + Cardinality(Pending(f))' <= done'[f]
  <2> TAKE f \in Entries
  <2> SUFFICES ASSUME f \notin Loose
               PROVE  logs'[f] + Cardinality(Pending(f))' <= done'[f]
    OBVIOUS
  <2>1. logs[f] + Cardinality(Pending(f)) <= done[f] /\ logs[f] \in Nat /\ done[f] \in Nat
    BY Books DEF Backed
  <2>2. /\ Cardinality(Pending(f)) \in Nat /\ Cardinality(Pending(f))' \in Nat
        /\ Cardinality(Pending(f)) = Cardinality(Pending(f))' + (IF f = e THEN 1 ELSE 0)
    BY Numbers
  <2>3. logs'[f] \in Nat /\ logs'[f] <= logs[f] + (IF f = e THEN 1 ELSE 0)
    BY <1>0, <2>1
  <2> QED BY <2>1, <2>2, <2>3
<1>2. ASSUME faults' = 0, NEW f \in RowEntries
      PROVE  logs'[f] + Cardinality(Pending(f))' >= done'[f]
  <2>1. /\ logs[f] + Cardinality(Pending(f)) >= done[f] /\ f \in Entries
        /\ logs[f] \in Nat /\ done[f] \in Nat
    BY <1>2, Books DEF Backed
  <2>2. /\ Cardinality(Pending(f)) \in Nat /\ Cardinality(Pending(f))' \in Nat
        /\ Cardinality(Pending(f)) = Cardinality(Pending(f))' + (IF f = e THEN 1 ELSE 0)
    BY <2>1, Numbers
  <2>3. logs'[f] = logs[f] + (IF f = e THEN 1 ELSE 0)
    BY <1>0, <1>2, <2>1
  <2> QED BY <2>1, <2>2, <2>3
<1>3. \A t \in Tickets : mailed'[t] + Cardinality(Mailing(t))' <= done'[<<"created", t>>]
  <2> TAKE t \in Tickets
  <2>1. /\ mailed[t] + Cardinality(Mailing(t)) <= done[<<"created", t>>]
        /\ mailed[t] \in Nat /\ done[<<"created", t>>] \in Nat
    BY Books DEF Backed
  <2>2. /\ Cardinality(Mailing(t)) \in Nat /\ Cardinality(Mailing(t))' \in Nat
        /\ Cardinality(Mailing(t))' <= Cardinality(Mailing(t))
    BY Numbers
  <2> QED BY <2>1, <2>2
<1> QED BY <1>1, <1>2, <1>3 DEF Backed

\* A mail.
LEMMA MailDue ==
  ASSUME Known, Backed, NEW p \in Procs, Others(p), NEW m \in Tickets,
         mailed' = [mailed EXCEPT ![m] = @ + 1], UNCHANGED <<logs, done, faults>>,
         ~At(p, "log"), ~At(p, "log")', \A t \in Tickets : p \in Mailing(t) <=> t = m,
         \A t \in Tickets : p \notin Mailing(t)'
  PROVE  Backed'
<1>0. mailed \in [Tickets -> Nat]
  BY Books
<1>1. \A e : Cardinality(Pending(e))' = Cardinality(Pending(e))
  BY Numbers DEF Pending
<1>2. \A t \in Tickets : mailed'[t] + Cardinality(Mailing(t))' <= done'[<<"created", t>>]
  <2> TAKE t \in Tickets
  <2>1. /\ mailed[t] + Cardinality(Mailing(t)) <= done[<<"created", t>>]
        /\ mailed[t] \in Nat /\ done[<<"created", t>>] \in Nat
    BY Books DEF Backed
  <2>2. /\ Cardinality(Mailing(t)) \in Nat /\ Cardinality(Mailing(t))' \in Nat
        /\ Cardinality(Mailing(t)) = Cardinality(Mailing(t))' + (IF t = m THEN 1 ELSE 0)
    BY Numbers
  <2>3. mailed'[t] = mailed[t] + (IF t = m THEN 1 ELSE 0)
    BY <1>0, <2>1
  <2> QED BY <2>1, <2>2, <2>3
<1> QED BY <1>1, <1>2 DEF Backed

\* What p has been asked for, and the ticket it is about, stay.
Kept(p) ==
  /\ \A q \in Procs : q # p => local'[q] = local[q]
  /\ local'[p].op = local[p].op /\ local'[p].kind = local[p].kind
  /\ local'[p].extra = local[p].extra /\ local'[p].ticket = local[p].ticket

\* A call that is no commit, and no log entry but one that was lost.
LEMMA MovedOn ==
  ASSUME Known, Backed, NEW p \in Procs, Running(p), Done(p, 1), Kept(p),
         UNCHANGED <<logs, done, mailed>>, faults' = 0 => faults = 0,
         todo[p][1] = "log" => faults' # 0, todo[p][1] \notin Commits
  PROVE  Backed'
<1>1. /\ Rest(local[p], todo[p]) /\ 1 \in 1 .. Len(todo[p]) /\ Head(todo[p]) = todo[p][1]
  BY Here
<1>2. /\ todo'[p] = SubSeq(todo[p], 1 + 1, Len(todo[p])) /\ todo' \in [Procs -> Seq(Steps)]
      /\ \A q \in Procs : q # p => todo'[q] = todo[q]
  BY <1>1, Went
<1>3. Others(p)
  BY <1>2 DEF Others, Kept
<1>4. ~At(p, "log")'
  <2> SUFFICES ASSUME At(p, "log")' PROVE FALSE
    OBVIOUS
  <2> DEFINE u == SubSeq(todo[p], 1 + 1, Len(todo[p]))
  <2>1. todo'[p] = u /\ u # <<>> /\ Head(u) = "log" /\ u \in Seq(Steps)
    BY <1>2 DEF At
  <2>2. u[1] = "log"
    <3> HIDE DEF u
    <3> QED BY <2>1, HeadOf
  <2> QED BY <1>1, <2>1, <2>2, LogFollows
<1>5. \A e \in Entries : p \notin Pending(e)'
  BY <1>4 DEF Pending
<1>6. \A t \in Tickets : p \in Mailing(t)' => p \in Mailing(t)
  BY DEF Mailing, Kept
<1>7. At(p, "log") => faults' # 0
  BY <1>1 DEF At
<1> QED BY <1>3, <1>5, <1>6, <1>7, NothingDue

\* A request ends early.
LEMMA GaveUp ==
  ASSUME Known, Backed, NEW p \in Procs, Leave(p, "error"), faults' = 0 => faults = 0,
         ~At(p, "log")
  PROVE  Backed'
<1>1. todo' = [todo EXCEPT ![p] = <<>>] /\ UNCHANGED <<logs, done, mailed, local>>
  BY DEF Leave
<1>2. /\ todo'[p] = <<>> /\ \A q \in Procs : q # p => todo'[q] = todo[q]
  BY <1>1 DEF Known, TypeOK
<1>3. Others(p)
  BY <1>1, <1>2 DEF Others
<1>4. \A e \in Entries : p \notin Pending(e)'
  BY <1>2 DEF Pending, At
<1>5. \A t \in Tickets : p \notin Mailing(t)'
  BY <1>2 DEF Mailing, Running
<1> QED BY <1>1, <1>3, <1>4, <1>5, NothingDue

\* A commit is followed by its log entry.
LEMMA LogNext ==
  ASSUME Known, NEW p \in Procs, Running(p), todo[p][1] \in Commits, Done(p, 1)
  PROVE  At(p, "log")'
<1>1. /\ Rest(local[p], todo[p]) /\ 1 \in 1 .. Len(todo[p]) /\ todo[p] \in Seq(Steps)
  BY Here
<1> DEFINE u == SubSeq(todo[p], 1 + 1, Len(todo[p]))
<1>2. todo'[p] = u
  <2> HIDE DEF u
  <2>1. todo'[p] = SubSeq(todo[p], 1 + 1, Len(todo[p]))
    BY <1>1, Went
  <2> QED BY <2>1 DEF u
<1>3. /\ u \in Seq(Steps) /\ Len(u) = Len(todo[p]) - 1 /\ Len(todo[p]) \in Nat
      /\ \A i \in 1 .. Len(u) : u[i] = todo[p][i + 1]
  BY <1>1, Suffix, Here
<1>4. 1 < Len(todo[p]) /\ todo[p][1 + 1] = "log"
  BY <1>1 DEF Rest, Ordered
<1> HIDE DEF u
<1>5. 1 \in 1 .. Len(u) /\ u # <<>>
  BY <1>3, <1>4
<1>6. u[1] = "log" /\ Head(u) = u[1]
  BY <1>3, <1>4, <1>5, HeadOf
<1> QED BY <1>2, <1>5, <1>6 DEF At

\* A commit.
LEMMA Recorded ==
  ASSUME Known, Backed, NEW p \in Procs, Running(p), todo[p][1] \in Commits, NEW e \in Entries,
         Commit(p, e), Refresh(p), \A q \in Procs : q # p => local'[q] = local[q],
         NEW d, local'[p] = d,
         Entry(d) = e, d.op = "create_ticket" => e = <<"created", d.ticket>>
  PROVE  Backed'
<1>1. done' = [done EXCEPT ![e] = @ + 1] /\ UNCHANGED <<logs, mailed>>
  BY DEF Commit
<1>2. /\ 1 \in 1 .. Len(todo[p]) /\ Head(todo[p]) = todo[p][1]
  BY Here
<1>3. \A q \in Procs : q # p => todo'[q] = todo[q]
  <2>1. CASE Advance(p)
    BY <1>2, <2>1, Went DEF Advance
  <2>2. CASE Unrefreshed(p)
    BY <2>2 DEF Known, TypeOK, Unrefreshed
  <2> QED BY <2>1, <2>2 DEF Refresh
<1>4. Others(p)
  BY <1>3 DEF Others
<1>5. ~At(p, "log")
  BY <1>2 DEF At, Commits
<1>6. faults' = 0 => faults = 0 /\ At(p, "log")'
  <2>1. CASE Advance(p)
    BY <2>1, LogNext DEF Advance
  <2>2. CASE Unrefreshed(p)
    BY <2>2 DEF Known, TypeOK, Unrefreshed
  <2> QED BY <2>1, <2>2 DEF Refresh
<1>7. /\ \A f \in Entries : p \in Pending(f)' => f = e
      /\ At(p, "log")' => p \in Pending(e)'
  BY DEF Pending, Entry, Verb
<1>8. \A t \in Tickets : p \in Mailing(t)' => e = <<"created", t>>
  BY DEF Mailing
<1> QED BY <1>1, <1>4, <1>5, <1>6, <1>7, <1>8, CommitDue

-----------------------------------------------------------------------------
(* Commits and answers of requests on settings.                            *)

\* Only p moves, and it is in time.
LEMMA OneCounted ==
  ASSUME Counted, NEW p \in Procs,
         \A q \in Procs : q # p => /\ todo'[q] = todo[q] /\ local'[q] = local[q]
                                   /\ wrote'[q] = wrote[q] /\ answer'[q] = answer[q],
         NEW d, local'[p] = d, NEW u, todo'[p] = u, NEW w, wrote'[p] = w, NEW a, answer'[p] = a,
         faults' = 0 => faults = 0, NEW f, faults' = f,
         d.op \in RowOps => IF u # <<>> THEN OnTime(d, Len(u), w, a) ELSE Answered(d, w, a, f)
  PROVE  Counted'
<1> SUFFICES ASSUME NEW q \in Procs
             PROVE  (local[q].op \in RowOps =>
                       IF Running(q) THEN OnTime(local[q], Len(todo[q]), wrote[q], answer[q])
                                     ELSE Answered(local[q], wrote[q], answer[q], faults))'
  BY DEF Counted
<1>1. CASE q = p
  BY <1>1 DEF Running, OnTime, Answered, Due, Twice, Exact
<1>2. CASE q # p
  BY <1>2 DEF Counted, Running, OnTime, Answered, Due, Twice, Exact
<1> QED BY <1>1, <1>2

\* What is due depends on the operation alone.
LEMMA SameDue ==
  ASSUME NEW c, NEW d, d.op = c.op, d.kind = c.kind, d.extra = c.extra
  PROVE  /\ \A n : Due(d, n) = Due(c, n)
         /\ Exact(d) <=> Exact(c)
BY DEF Due, Twice, Exact

\* The calls of a request on settings: what is due changes at its commits.
LEMMA DueNext ==
  ASSUME NEW c, NEW t, Rest(c, t), t # <<>>, c.op \in RowOps
  PROVE  /\ Len(t) \in Nat /\ Len(t) >= 1
         /\ Due(c, Len(t)) \in Nat /\ Due(c, 0) \in Nat /\ Due(c, Len(t) - 1) \in Nat
         /\ t[1] \in Commits => Due(c, Len(t) - 1) = Due(c, Len(t)) + 1
         /\ t[1] \notin Commits => Due(c, Len(t) - 1) = Due(c, Len(t))
         /\ t[1] # "log" => Due(c, Len(t)) < Due(c, 0)
         /\ Len(t) >= 3 => Due(c, Len(t)) <= Due(c, Len(t) - 3) /\ Due(c, Len(t) - 3) \in Nat
<1>1. Len(t) \in Nat /\ Len(t) >= 1 /\ 1 \in 1 .. Len(t)
  BY HeadOf DEF Rest
<1>2. /\ t[1] = "log" <=> Len(t) - 1 = 0 \/ (Twice(c) /\ Len(t) - 1 = 3)
      /\ t[1] \in Commits <=> Len(t) - 1 = 1 \/ (Twice(c) /\ Len(t) - 1 = 4)
  BY <1>1 DEF Rest, Rounds
<1> DEFINE n == Len(t)
<1> HIDE DEF n
<1>3. CASE Twice(c)
  <2>1. /\ n \in Nat /\ n >= 1 /\ (t[1] = "log" <=> n = 1 \/ n = 4)
        /\ (t[1] \in Commits <=> n = 2 \/ n = 5)
    BY <1>1, <1>2, <1>3 DEF n
  <2>2. \A m : Due(c, m) = (IF m >= 5 THEN 0 ELSE IF m >= 2 THEN 1 ELSE 2)
    BY <1>3 DEF Due
  <2>3. /\ Due(c, n) \in Nat /\ Due(c, 0) = 2 /\ Due(c, n - 1) \in Nat
        /\ (t[1] \in Commits => Due(c, n - 1) = Due(c, n) + 1)
        /\ (t[1] \notin Commits => Due(c, n - 1) = Due(c, n))
        /\ (t[1] # "log" => Due(c, n) < 2)
        /\ (n >= 3 => Due(c, n) <= Due(c, n - 3) /\ Due(c, n - 3) \in Nat)
    BY <2>1, <2>2
  <2> QED BY <1>1, <2>3 DEF n
<1>4. CASE ~Twice(c)
  <2>1. /\ n \in Nat /\ n >= 1 /\ (t[1] = "log" <=> n = 1)
        /\ (t[1] \in Commits <=> n = 2)
    BY <1>1, <1>2, <1>4 DEF n
  <2>2. \A m : Due(c, m) = (IF m >= 2 THEN 0 ELSE 1)
    BY <1>4 DEF Due
  <2>3. /\ Due(c, n) \in Nat /\ Due(c, 0) = 1 /\ Due(c, n - 1) \in Nat
        /\ (t[1] \in Commits => Due(c, n - 1) = Due(c, n) + 1)
        /\ (t[1] \notin Commits => Due(c, n - 1) = Due(c, n))
        /\ (t[1] # "log" => Due(c, n) < 1)
        /\ (n >= 3 => Due(c, n) <= Due(c, n - 3) /\ Due(c, n - 3) \in Nat)
    BY <2>1, <2>2
  <2> QED BY <1>1, <2>3 DEF n
<1> QED BY <1>3, <1>4

\* A call is made, and commits when one is due.
LEMMA CountedOn ==
  ASSUME Known, Counted, NEW p \in Procs, Running(p), Done(p, 1), Kept(p),
         \A q \in Procs : q # p => wrote'[q] = wrote[q], faults' = 0 => faults = 0,
         local[p].op \in RowOps =>
           \/ todo[p][1] \notin Commits /\ wrote'[p] = wrote[p]
           \/ todo[p][1] \in Commits /\ wrote'[p] = wrote[p] + 1
           \/ todo[p][1] \in Commits /\ wrote'[p] = wrote[p] /\ ~Exact(local[p])
  PROVE  Counted'
<1> DEFINE c == local[p]
           t == todo[p]
           d == local'[p]
           u == todo'[p]
           w == wrote'[p]
           a == answer'[p]
           f == faults'
<1>1. /\ Rest(c, t) /\ 1 \in 1 .. Len(t) /\ t # <<>> /\ t \in Seq(Steps) /\ Len(t) \in Nat
  BY Here DEF Running
<1>2. /\ u = SubSeq(t, 1 + 1, Len(t)) /\ a = (IF Len(t) = 1 THEN "ok" ELSE answer[p])
      /\ \A q \in Procs : q # p => todo'[q] = todo[q] /\ answer'[q] = answer[q]
  BY <1>1, Went
<1>3. Len(u) = Len(t) - 1 /\ (u = <<>> <=> 1 = Len(t))
  <2> HIDE DEF t, u
  <2> QED BY <1>1, <1>2, Suffix
<1>4. /\ d.op = c.op /\ d.kind = c.kind /\ d.extra = c.extra
      /\ \A q \in Procs : q # p => local'[q] = local[q]
  BY DEF Kept
<1>5. wrote[p] \in Nat
  BY DEF Known, TypeOK
<1>6. c.op \in RowOps => OnTime(c, Len(t), wrote[p], answer[p])
  BY DEF Counted
<1>7. ASSUME d.op \in RowOps
      PROVE  IF u # <<>> THEN OnTime(d, Len(u), w, a) ELSE Answered(d, w, a, f)
  <2> HIDE DEF c, t, d, u, w, a, f
  <2>1. /\ \A n : Due(d, n) = Due(c, n)
        /\ Exact(d) <=> Exact(c)
    BY <1>4, SameDue
  <2>2. /\ answer[p] = Null /\ wrote[p] <= Due(c, Len(t))
        /\ (Exact(c) => wrote[p] = Due(c, Len(t)))
    BY <1>4, <1>6, <1>7 DEF OnTime
  <2>3. /\ Due(c, Len(t)) \in Nat /\ Due(c, Len(t) - 1) \in Nat
        /\ t[1] \in Commits => Due(c, Len(t) - 1) = Due(c, Len(t)) + 1
        /\ t[1] \notin Commits => Due(c, Len(t) - 1) = Due(c, Len(t))
    BY <1>1, <1>4, <1>7, DueNext
  <2>4. w <= Due(c, Len(t) - 1) /\ (Exact(c) => w = Due(c, Len(t) - 1))
    BY <1>4, <1>5, <1>7, <2>2, <2>3 DEF c, t, w
  <2>5. CASE u # <<>>
    BY <1>2, <1>3, <2>1, <2>2, <2>4, <2>5 DEF OnTime
  <2>6. CASE u = <<>>
    <3>1. Len(t) - 1 = 0 /\ a = "ok"
      BY <1>1, <1>2, <1>3, <2>6
    <3> QED BY <2>1, <2>4, <2>6, <3>1 DEF Answered
  <2> QED BY <2>5, <2>6
<1>8. \A q \in Procs : q # p => /\ todo'[q] = todo[q] /\ local'[q] = local[q]
                                 /\ wrote'[q] = wrote[q] /\ answer'[q] = answer[q]
  BY <1>2, <1>4
<1>9. d = local'[p] /\ u = todo'[p] /\ w = wrote'[p] /\ a = answer'[p]
      /\ f = faults' /\ (faults' = 0 => faults = 0)
  OBVIOUS
<1> HIDE DEF c, t, d, u, w, a, f
<1> QED BY ONLY Counted, p \in Procs, <1>7, <1>8, <1>9, OneCounted

\* A request ends early.
LEMMA CountedLeft ==
  ASSUME Known, Counted, NEW p \in Procs, Running(p), Leave(p, "error"), todo[p][1] # "log",
         faults' = 0 => faults = 0
  PROVE  Counted'
<1> DEFINE c == local[p]
           t == todo[p]
           f == faults'
<1>1. Rest(c, t) /\ t # <<>>
  BY Here DEF Running
<1>2. /\ todo' = [todo EXCEPT ![p] = <<>>] /\ answer' = [answer EXCEPT ![p] = "error"]
      /\ local' = local /\ wrote' = wrote
  BY DEF Leave
<1>3. /\ todo'[p] = <<>> /\ answer'[p] = "error" /\ local'[p] = c /\ wrote'[p] = wrote[p]
      /\ \A q \in Procs : q # p => /\ todo'[q] = todo[q] /\ local'[q] = local[q]
                                   /\ wrote'[q] = wrote[q] /\ answer'[q] = answer[q]
  BY <1>2 DEF Known, TypeOK
<1>4. wrote[p] \in Nat
  BY DEF Known, TypeOK
<1>5. c.op \in RowOps => Answered(c, wrote[p], "error", f)
  <2> SUFFICES ASSUME c.op \in RowOps PROVE Answered(c, wrote[p], "error", f)
    OBVIOUS
  <2>1. wrote[p] <= Due(c, Len(t))
    BY DEF Counted, OnTime
  <2>2. Due(c, Len(t)) < Due(c, 0) /\ Due(c, Len(t)) \in Nat /\ Due(c, 0) \in Nat
    <3>1. t[1] # "log"
      OBVIOUS
    <3> HIDE DEF c, t
    <3> QED BY <1>1, <3>1, DueNext
  <2> QED BY <1>4, <2>1, <2>2 DEF Answered
<1> HIDE DEF c, t
<1>7. faults' = f /\ (faults' = 0 => faults = 0)
  OBVIOUS
<1> HIDE DEF f
<1>8. c.op \in RowOps => IF <<>> # <<>> THEN OnTime(c, Len(<<>>), wrote[p], "error")
                                        ELSE Answered(c, wrote[p], "error", f)
  BY <1>5
<1> QED BY ONLY Counted, p \in Procs, <1>3, <1>7, <1>8, OneCounted

\* A request commits, and ends with an error because the refresh fails.
LEMMA CountedLost ==
  ASSUME Known, Counted, NEW p \in Procs, Unrefreshed(p),
         \A q \in Procs : q # p => local'[q] = local[q] /\ wrote'[q] = wrote[q],
         NEW d, local'[p] = d, d.op # "delete_row"
  PROVE  Counted'
<1> DEFINE w == wrote'[p]
           f == faults'
<1>1. /\ todo'[p] = <<>> /\ answer'[p] = "error" /\ f # 0
      /\ \A q \in Procs : q # p => todo'[q] = todo[q] /\ answer'[q] = answer[q]
  BY DEF Known, TypeOK, Unrefreshed
<1>2. wrote'[p] = w /\ faults' = f /\ (faults' = 0 => faults = 0)
  BY <1>1
<1> HIDE DEF w, f
<1>3. d.op \in RowOps => IF <<>> # <<>> THEN OnTime(d, Len(<<>>), w, "error")
                                       ELSE Answered(d, w, "error", f)
  BY <1>1 DEF Answered
<1>4. \A q \in Procs : q # p => /\ todo'[q] = todo[q] /\ local'[q] = local[q]
                                /\ wrote'[q] = wrote[q] /\ answer'[q] = answer[q]
  BY <1>1
<1>5. Counted /\ p \in Procs /\ local'[p] = d /\ todo'[p] = <<>> /\ answer'[p] = "error"
  BY <1>1
<1> QED BY ONLY <1>2, <1>3, <1>4, <1>5, OneCounted

-----------------------------------------------------------------------------
(* The steps keep the books, and the count.                                *)

Booked == Known /\ Backed /\ Counted

\* A call changes neither counter nor log, and commits nothing of settings.
LEMMA LookedUp ==
  ASSUME Booked, NEW p \in Procs, Running(p), Advance(p), Kept(p),
         UNCHANGED <<logs, done, mailed>>, todo[p][1] \notin Commits \union {"log"},
         \A q \in Procs : q # p => wrote'[q] = wrote[q],
         local[p].op \in RowOps => wrote'[p] = wrote[p]
  PROVE  Backed' /\ Counted'
<1>1. Known /\ Backed /\ Counted /\ Done(p, 1) /\ faults' = faults
  BY DEF Booked, Advance
<1>2. Backed'
  BY <1>1, MovedOn
<1>3. Counted'
  BY <1>1, CountedOn
<1> QED BY <1>2, <1>3

\* A plain read.
LEMMA ReadBooked ==
  ASSUME Booked, NEW p \in Procs, NEW s, At(p, s), s \notin Commits \union {"log"}, Read(p), Kept(p)
  PROVE  Backed' /\ Counted'
<1>1. Running(p) /\ todo[p][1] = s
  BY Who DEF Booked
<1>2. Advance(p) /\ UNCHANGED <<logs, done, mailed, wrote>>
  BY DEF Read
<1> QED BY <1>1, <1>2, LookedUp

\* A step that leaves the variables alone.
LEMMA SameLocal == ASSUME NEW p \in Procs, UNCHANGED local PROVE Kept(p)
BY DEF Kept

\* A request is refused before its log entry.
LEMMA RefusedBooked ==
  ASSUME Booked, NEW p \in Procs, NEW s, At(p, s), s # "log", Refuse(p)
  PROVE  Backed' /\ Counted'
<1>1. Running(p) /\ todo[p][1] = s /\ Known /\ Backed /\ Counted
  BY Who DEF Booked
<1>2. Leave(p, "error") /\ faults' = faults /\ ~At(p, "log")
  BY DEF Refuse, At
<1>3. Backed'
  BY <1>1, <1>2, GaveUp
<1>4. Counted'
  BY <1>1, <1>2, CountedLeft
<1> QED BY <1>3, <1>4

\* The calls that look something up, but for the duplicate check.
LEMMA LookupBooked ==
  ASSUME Booked, NEW p \in Procs,
         \/ DefaultStatus(p) \/ DefaultSla(p) \/ OpenStatus(p) \/ Check(p)
         \/ FindTicket(p) \/ AlreadyOpened(p) \/ FindRow(p) \/ TicketsUsing(p) \/ SelectRow(p)
  PROVE  Backed' /\ Counted'
<1>0. local \in [Procs -> Local] /\ local[p] \in Local
  BY DEF Booked, Known, TypeOK
<1>1. CASE DefaultStatus(p) \/ OpenStatus(p)
  <2>1. PICK s \in {"default_status", "open_status"} :
          /\ At(p, s)
          /\ \/ /\ \E v \in Statuses : local' = [local EXCEPT ![p].status = v]
                /\ Read(p)
             \/ Refuse(p)
    BY <1>1 DEF DefaultStatus, OpenStatus
  <2>2. ASSUME NEW v, local' = [local EXCEPT ![p].status = v] PROVE Kept(p)
    BY <1>0, <2>2 DEF Kept, Local
  <2> QED BY <2>1, <2>2, ReadBooked, RefusedBooked DEF Commits
<1>2. CASE DefaultSla(p)
  <2>1. /\ At(p, "default_sla")
        /\ \/ /\ \E v \in Slas : local' = [local EXCEPT ![p].sla = v]
              /\ Read(p)
           \/ Refuse(p)
    BY <1>2 DEF DefaultSla
  <2>2. ASSUME NEW v, local' = [local EXCEPT ![p].sla = v] PROVE Kept(p)
    BY <1>0, <2>2 DEF Kept, Local
  <2> QED BY <2>1, <2>2, ReadBooked, RefusedBooked DEF Commits
<1>3. CASE Check(p) \/ AlreadyOpened(p) \/ TicketsUsing(p) \/ SelectRow(p)
  <2>1. PICK s \in Checks \union {"tickets_using_it", "select_row"} :
          At(p, s) /\ ((Read(p) /\ UNCHANGED local) \/ Refuse(p))
    BY <1>3 DEF Check, AlreadyOpened, TicketsUsing, SelectRow, Checks
  <2>2. s \notin Commits \union {"log"}
    BY DEF Checks, Commits
  <2> QED BY <2>1, <2>2, SameLocal, ReadBooked, RefusedBooked
<1>4. CASE FindTicket(p)
  <2>1. /\ At(p, "find_ticket")
        /\ \/ /\ \/ \E v, w : local' = [local EXCEPT ![p].snap = v, ![p].refs = w]
                 \/ local' = local
              /\ Read(p)
           \/ Refuse(p)
    BY <1>4 DEF FindTicket
  <2>2. ASSUME NEW v, NEW w, local' = [local EXCEPT ![p].snap = v, ![p].refs = w]
        PROVE  Kept(p)
    <3> DEFINE e == [local[p] EXCEPT !.snap = v]
               d == [e EXCEPT !.refs = w]
    <3>1. local'[p] = d /\ \A q \in Procs : q # p => local'[q] = local[q]
      BY <1>0, <2>2
    <3>2. /\ e.op = local[p].op /\ e.kind = local[p].kind /\ e.extra = local[p].extra
          /\ e.ticket = local[p].ticket
      BY <1>0 DEF Local
    <3>3. d.op = e.op /\ d.kind = e.kind /\ d.extra = e.extra /\ d.ticket = e.ticket
      BY <1>0 DEF Local
    <3> HIDE DEF d, e
    <3> QED BY <3>1, <3>2, <3>3 DEF Kept
  <2> QED BY <2>1, <2>2, SameLocal, ReadBooked, RefusedBooked DEF Commits
<1>5. CASE FindRow(p)
  <2>1. /\ At(p, "find_row")
        /\ \/ /\ \E v : local' = [local EXCEPT ![p].refs = v]
              /\ Read(p)
           \/ Refuse(p)
    BY <1>5 DEF FindRow
  <2>2. ASSUME NEW v, local' = [local EXCEPT ![p].refs = v] PROVE Kept(p)
    BY <1>0, <2>2 DEF Kept, Local
  <2> QED BY <2>1, <2>2, ReadBooked, RefusedBooked DEF Commits
<1> QED BY <1>1, <1>2, <1>3, <1>4, <1>5

\* The duplicate check, which may skip the row.
LEMMA SameNameBooked ==
  ASSUME Booked, NEW p \in Procs, SameName(p)
  PROVE  Backed' /\ Counted'
<1> DEFINE c == local[p]
           t == todo[p]
<1>0. /\ local \in [Procs -> Local] /\ local[p] \in Local /\ wrote[p] \in Nat
      /\ Known /\ Backed /\ Counted
  BY DEF Booked, Known, TypeOK
<1>1. PICK s \in {"same_name", "next_name"} : At(p, s)
  BY DEF SameName
<1>2. PICK name :
        \/ Read(p) /\ local' = [local EXCEPT ![p].key = name]
        \/ /\ local[p].kind = "status" /\ Done(p, 3)
           /\ UNCHANGED <<dbVars, logs, done, mailed, local, wrote, requests, faults>>
        \/ Refuse(p)
  BY Zenon DEF SameName
<1>3. CASE Read(p) /\ local' = [local EXCEPT ![p].key = name]
  <2>1. Kept(p)
    BY <1>0, <1>3 DEF Kept, Local
  <2> QED BY <1>1, <1>3, <2>1, ReadBooked DEF Commits
<1>4. CASE Refuse(p)
  BY <1>1, <1>4, RefusedBooked
<1>5. CASE /\ local[p].kind = "status" /\ Done(p, 3)
           /\ UNCHANGED <<dbVars, logs, done, mailed, local, wrote, requests, faults>>
  <2>1. /\ Running(p) /\ t[1] = s /\ c.op = "create_row" /\ c.op \in RowOps
    BY <1>0, <1>1, Who, Callers DEF RowOps
  <2>2. /\ Rest(c, t) /\ Rounds(c, t) /\ t \in Seq(Steps) /\ t # <<>>
        /\ Len(t) \in Nat /\ 1 \in 1 .. Len(t)
    BY <1>0, <2>1, Here DEF Rest, Running
  <2>3. Len(t) \in {3, 6} /\ 3 \in 1 .. Len(t)
    <3>1. Len(t) - 1 = 2 \/ Len(t) - 1 = 5
      <4> HIDE DEF c, t
      <4> QED BY <2>1, <2>2 DEF Rounds
    <3>2. Len(t) \in Nat
      BY <2>2
    <3> HIDE DEF t
    <3> QED BY ONLY <3>1, <3>2
  <2> DEFINE u == SubSeq(t, 3 + 1, Len(t))
             a == IF Len(t) = 3 THEN "ok" ELSE answer[p]
  <2>4. /\ todo'[p] = SubSeq(t, 3 + 1, Len(t)) /\ answer'[p] = a
        /\ \A q \in Procs : q # p => todo'[q] = todo[q] /\ answer'[q] = answer[q]
    BY <1>0, <1>5, <2>1, <2>3, Went
  <2>5. u \in Seq(Steps) /\ Len(u) = Len(t) - 3 /\ (u = <<>> <=> 3 = Len(t))
    <3> HIDE DEF t
    <3> QED BY <2>2, <2>3, Suffix
  <2>6. u # <<>> => Head(u) # "log"
    <3> SUFFICES ASSUME u # <<>>, Head(u) = "log" PROVE FALSE
      OBVIOUS
    <3>1. u[1] = "log"
      <4> HIDE DEF u
      <4> QED BY <2>5, HeadOf
    <3>2. t[3] \in Commits
      <4> HIDE DEF c, t
      <4> QED BY <2>2, <2>3, <3>1, LogFollows
    <3>3. Len(t) = 6 /\ Len(t) - 3 = 3
      BY <2>3, <2>5
    <3> HIDE DEF c, t
    <3> QED BY <2>2, <2>3, <3>2, <3>3 DEF Rounds
  <2>7. Others(p)
    BY <1>5, <2>4 DEF Others
  <2>8. Backed'
    <3>1. \A e \in Entries : p \notin Pending(e)'
      BY <2>4, <2>6 DEF Pending, At
    <3>2. \A m \in Tickets : p \in Mailing(m)' => p \in Mailing(m)
      BY <1>5, <2>1 DEF Mailing
    <3>3. ~At(p, "log")
      BY <1>1 DEF At
    <3> QED BY <1>0, <1>5, <2>7, <3>1, <3>2, <3>3, NothingDue
  <2>9. c.op \in RowOps => IF u # <<>> THEN OnTime(c, Len(u), wrote[p], a)
                                       ELSE Answered(c, wrote[p], a, faults)
    <3>1. OnTime(c, Len(t), wrote[p], answer[p])
      BY <1>0, <2>1 DEF Counted
    <3>2. ~Exact(c)
      BY <1>5, <2>1 DEF Exact
    <3> HIDE DEF c, t
    <3>3. Due(c, Len(t)) \in Nat /\ Due(c, Len(t)) <= Due(c, Len(t) - 3) /\ Due(c, Len(t) - 3) \in Nat
      BY <2>1, <2>2, <2>3, DueNext
    <3>4. wrote[p] <= Due(c, Len(t) - 3)
      BY <1>0, <3>1, <3>3 DEF OnTime
    <3> HIDE DEF u
    <3>5. u # <<>> => OnTime(c, Len(u), wrote[p], a)
      BY <2>3, <2>5, <3>1, <3>2, <3>4 DEF OnTime
    <3>6. u = <<>> => a = "ok"
      BY <2>5
    <3>7. u = <<>> => Answered(c, wrote[p], a, faults)
      BY <3>2, <3>6 DEF Answered
    <3> QED BY <3>5, <3>7
  <2>10. /\ local'[p] = c /\ wrote'[p] = wrote[p] /\ todo'[p] = u
         /\ \A q \in Procs : q # p => /\ todo'[q] = todo[q] /\ local'[q] = local[q]
                                      /\ wrote'[q] = wrote[q] /\ answer'[q] = answer[q]
    BY <1>5, <2>4
  <2>11. Counted'
    <3> HIDE DEF c, t, u, a
    <3>1. Counted /\ p \in Procs /\ answer'[p] = a /\ faults' = faults
      BY <1>0, <1>5, <2>4
    <3> QED BY ONLY <2>9, <2>10, <3>1, OneCounted
  <2> QED BY <2>8, <2>11
<1> QED BY <1>2, <1>3, <1>4, <1>5

\* A commit, and what it leaves in the variables of the request.
LEMMA CommitBooked ==
  ASSUME Booked, NEW p \in Procs, NEW s \in Commits, At(p, s), NEW e \in Entries,
         Commit(p, e), Refresh(p),
         Kept(p) \/ (s = "insert_ticket" /\ \A q \in Procs : q # p => local'[q] = local[q]),
         NEW d, local'[p] = d, Entry(d) = e, d.op = local[p].op,
         d.op = "create_ticket" => e = <<"created", d.ticket>>,
         d.op = "delete_row" => Advance(p)
  PROVE  Backed' /\ Counted'
<1>1. Running(p) /\ todo[p][1] = s /\ Known /\ Backed /\ Counted /\ s \in StepsOf(local[p])
      /\ local[p].op \in TicketOps \union RowOps
  BY Who DEF Booked
<1>2. wrote' = [wrote EXCEPT ![p] = @ + 1]
  BY DEF Commit
<1>3. \A q \in Procs : q # p => local'[q] = local[q]
  BY DEF Kept
<1>4. Backed'
  BY <1>1, <1>3, Recorded
<1>5. wrote'[p] = wrote[p] + 1 /\ \A q \in Procs : q # p => wrote'[q] = wrote[q]
  BY <1>1, <1>2 DEF Known, TypeOK
<1>6. CASE Advance(p) /\ Kept(p)
  <2>1. Done(p, 1) /\ faults' = faults
    BY <1>6 DEF Advance
  <2> QED BY <1>1, <1>4, <1>5, <1>6, <2>1, CountedOn
<1>7. CASE Advance(p) /\ s = "insert_ticket"
  <2>1. d.op \notin RowOps
    BY <1>1, <1>7, Callers DEF RowOps
  <2>2. faults' = faults /\ \A q \in Procs : q # p => todo'[q] = todo[q] /\ answer'[q] = answer[q]
    <3>1. 1 \in 1 .. Len(todo[p])
      BY <1>1, Here
    <3> QED BY <1>1, <1>7, <3>1, Went DEF Advance
  <2>3. \A q \in Procs : q # p => /\ todo'[q] = todo[q] /\ local'[q] = local[q]
                                  /\ wrote'[q] = wrote[q] /\ answer'[q] = answer[q]
    BY <1>3, <1>5, <2>2
  <2>4. Counted'
    BY ONLY <1>1, p \in Procs, local'[p] = d, <2>1, <2>2, <2>3, OneCounted
  <2> QED BY <1>4, <2>4
<1>8. CASE Unrefreshed(p) /\ ~Advance(p)
  <2>1. Counted'
    BY <1>1, <1>3, <1>5, <1>8, CountedLost
  <2> QED BY <1>4, <2>1
<1> QED BY <1>6, <1>7, <1>8 DEF Refresh

\* A new ticket is about to be logged, and a mail about to be sent.
LEMMA InsertTicketBooked ==
  ASSUME Booked, NEW p \in Procs, InsertTicket(p)
  PROVE  Backed' /\ Counted'
<1>0. local \in [Procs -> Local] /\ local[p] \in Local /\ Known
  BY DEF Booked, Known, TypeOK
<1>1. At(p, "insert_ticket") /\ "insert_ticket" \in Commits
  BY DEF InsertTicket, Commits
<1>2. \/ Refuse(p)
      \/ \E t \in Tickets : /\ local' = [local EXCEPT ![p].ticket = t]
                            /\ CommitAndRefresh(p, <<"created", t>>)
  BY DEF InsertTicket
<1>3. ASSUME NEW t \in Tickets, local' = [local EXCEPT ![p].ticket = t],
             CommitAndRefresh(p, <<"created", t>>)
      PROVE  Backed' /\ Counted'
  <2> DEFINE d == [local[p] EXCEPT !.ticket = t]
             e == <<"created", t>>
  <2>1. /\ Running(p) /\ local[p].op = "create_ticket" /\ local[p].op \in TicketOps
        /\ Params(local[p])
    BY <1>0, <1>1, Who, Callers, Here DEF TicketOps
  <2>2. local'[p] = d /\ \A q \in Procs : q # p => local'[q] = local[q]
    BY <1>0, <1>3
  <2>3. d.ticket = t /\ d.op = local[p].op /\ d.row = local[p].row
    BY <1>0 DEF Local
  <2> HIDE DEF d
  <2>4. local[p].row = Null
    BY <2>1 DEF Params
  <2>5. Entry(d) = e
    BY <2>1, <2>3, <2>4 DEF Entry, Verb
  <2>6. e \in Entries
    BY DEF Entries, Entities
  <2>7. /\ Commit(p, e) /\ Refresh(p) /\ d.op # "delete_row"
        /\ d.op = "create_ticket" => e = <<"created", d.ticket>>
    BY <1>3, <2>1, <2>3 DEF CommitAndRefresh
  <2> HIDE DEF e
  <2> QED BY <1>1, <2>2, <2>3, <2>5, <2>6, <2>7, CommitBooked
<1> QED BY <1>1, <1>2, <1>3, RefusedBooked

\* Notes and merges are not logged.
LEMMA NoteBooked ==
  ASSUME Booked, NEW p \in Procs, Note(p) \/ Merge(p)
  PROVE  Backed' /\ Counted'
<1>1. PICK s \in {"note", "merge"} :
        /\ At(p, s)
        /\ \/ /\ Refresh(p) /\ wrote' = [wrote EXCEPT ![p] = @ + 1]
              /\ UNCHANGED <<logs, done, mailed, local>>
           \/ Refuse(p)
  BY DEF Note, Merge, Refresh
<1>2. CASE Refuse(p)
  BY <1>1, <1>2, RefusedBooked
<1>3. CASE /\ Refresh(p) /\ wrote' = [wrote EXCEPT ![p] = @ + 1]
           /\ UNCHANGED <<logs, done, mailed, local>>
  <2>1. /\ Running(p) /\ todo[p][1] = s /\ local[p].op \notin RowOps
        /\ Known /\ Backed /\ Counted
    BY <1>1, Who, Callers DEF Booked, RowOps
  <2>2. \A q \in Procs : q # p => wrote'[q] = wrote[q]
    BY <1>3 DEF Booked, Known, TypeOK
  <2>3. Kept(p)
    BY <1>3, SameLocal
  <2>4. todo[p][1] \notin Commits \union {"log"}
    BY <2>1 DEF Commits
  <2>5. CASE Advance(p)
    BY <1>3, <2>1, <2>2, <2>3, <2>4, <2>5, LookedUp
  <2>6. CASE Unrefreshed(p)
    <3>1. todo'[p] = <<>> /\ faults' # 0 /\ \A q \in Procs : q # p => todo'[q] = todo[q]
      BY <2>1, <2>6 DEF Known, TypeOK, Unrefreshed
    <3>2. Others(p)
      BY <1>3, <3>1 DEF Others
    <3>3. /\ \A e \in Entries : p \notin Pending(e)'
          /\ \A t \in Tickets : p \notin Mailing(t)'
      BY <3>1 DEF Pending, At, Mailing, Running
    <3>4. Backed'
      BY <1>3, <2>1, <3>1, <3>2, <3>3, NothingDue
    <3>5. local[p].op # "delete_row" /\ local'[p] = local[p]
      BY <1>3, <2>1 DEF RowOps
    <3>6. Counted'
      BY <1>3, <2>1, <2>2, <2>6, <3>5, CountedLost
    <3> QED BY <3>4, <3>6
  <2> QED BY <1>3, <2>5, <2>6 DEF Refresh
<1> QED BY <1>1, <1>2, <1>3

\* The writes to a ticket that is there.
LEMMA UpdateTicketBooked ==
  ASSUME Booked, NEW p \in Procs, UpdateTicket(p) \/ SoftDelete(p)
  PROVE  Backed' /\ Counted'
<1> DEFINE c == local[p]
           verb == IF c.op = "confirm_ticket" THEN "confirmed"
                   ELSE IF c.op = "delete_ticket" THEN "deleted" ELSE "updated"
           e == <<verb, c.ticket>>
<1>1. PICK s \in {"update_ticket", "soft_delete"} :
        At(p, s) /\ (UpdateTicket(p) <=> s = "update_ticket")
  BY DEF UpdateTicket, SoftDelete, At
<1>2. /\ Known /\ Running(p) /\ todo[p][1] = s
      /\ c.op \in {"confirm_ticket", "edit_ticket", "delete_ticket"}
      /\ (s = "update_ticket" => c.op # "delete_ticket")
      /\ (s = "soft_delete" => c.op = "delete_ticket")
  BY <1>1, Who, Callers DEF Booked
<1>3. Params(c)
  BY <1>2, Here
<1>4. \/ CommitAndRefresh(p, e) /\ UNCHANGED local
      \/ Refuse(p)
  <2>1. CASE s = "update_ticket"
    BY <1>1, <1>2, <2>1 DEF UpdateTicket
  <2>2. CASE s = "soft_delete"
    BY <1>1, <1>2, <2>2 DEF SoftDelete
  <2> QED BY <2>1, <2>2
<1>5. /\ c.row = Null /\ c.ticket \in Tickets
  <2> HIDE DEF c
  <2> QED BY <1>2, <1>3 DEF Params, TicketOps
<1>6. Entry(c) = e /\ e \in Entries
  <2> HIDE DEF c
  <2> QED BY <1>2, <1>5 DEF Entry, Verb, Entries, Entities
<1>7. s \in Commits /\ s # "log" /\ c.op # "create_ticket"
  BY <1>2 DEF Commits
<1>8. CASE CommitAndRefresh(p, e) /\ UNCHANGED local
  <2>1. local'[p] = c /\ Kept(p) /\ Commit(p, e) /\ Refresh(p) /\ c.op # "delete_row"
    BY <1>2, <1>8, SameLocal DEF CommitAndRefresh
  <2> HIDE DEF e
  <2> QED BY <1>1, <1>6, <1>7, <1>8, <2>1, CommitBooked
<1> QED BY <1>1, <1>4, <1>7, <1>8, RefusedBooked

\* A new row is about to be logged.
LEMMA InsertRowBooked ==
  ASSUME Booked, NEW p \in Procs, InsertRow(p)
  PROVE  Backed' /\ Counted'
<1>0. local \in [Procs -> Local] /\ local[p] \in Local /\ Known
  BY DEF Booked, Known, TypeOK
<1>1. At(p, "insert_row") /\ "insert_row" \in Commits
  BY DEF InsertRow, Commits
<1>2. \/ Refuse(p)
      \/ \E x \in IdsOf[local[p].kind] : /\ local' = [local EXCEPT ![p].row = x]
                                         /\ CommitAndRefresh(p, <<"created", x>>)
  BY DEF InsertRow
<1>3. /\ Running(p) /\ local[p].op = "create_row" /\ Params(local[p])
  BY <1>0, <1>1, Who, Callers, Here
<1>4. local[p].kind \in Kinds
  BY <1>3 DEF Params, RowOps
<1>5. ASSUME NEW x \in IdsOf[local[p].kind], local' = [local EXCEPT ![p].row = x],
             CommitAndRefresh(p, <<"created", x>>)
      PROVE  Backed' /\ Counted'
  <2> DEFINE d == [local[p] EXCEPT !.row = x]
             e == <<"created", x>>
  <2>1. x \in Refs /\ x # Null
    BY <1>4, KindFacts, Apart DEF Entities
  <2>2. local'[p] = d /\ \A q \in Procs : q # p => local'[q] = local[q]
    BY <1>0, <1>5
  <2>3. /\ d.row = x /\ d.op = local[p].op /\ d.kind = local[p].kind
        /\ d.extra = local[p].extra /\ d.ticket = local[p].ticket
    BY <1>0 DEF Local
  <2> HIDE DEF d
  <2>4. Kept(p)
    BY <2>2, <2>3 DEF Kept
  <2>5. Entry(d) = e /\ e \in Entries
    BY <1>3, <2>1, <2>3 DEF Entry, Verb, Entries, Entities
  <2>6. Commit(p, e) /\ Refresh(p) /\ d.op # "delete_row" /\ d.op # "create_ticket"
    BY <1>3, <1>5, <2>3 DEF CommitAndRefresh
  <2> HIDE DEF e
  <2> QED BY <1>1, <1>3, <2>2, <2>3, <2>4, <2>5, <2>6, CommitBooked
<1> QED BY <1>1, <1>2, <1>5, RefusedBooked

\* The entry of an update, or of a deletion.
LEMMA RowEntry ==
  ASSUME Known, NEW p \in Procs, NEW s \in {"update_row", "delete_row"}, At(p, s)
  PROVE  LET c == local[p]
         IN  /\ Running(p) /\ todo[p][1] = s /\ s \in Commits /\ 1 \in 1 .. Len(todo[p])
             /\ c.op = IF s = "update_row" THEN "edit_row" ELSE "delete_row"
             /\ c.row \in Refs /\ Entry(c) \in Entries /\ Entry(c) \in Loose
             /\ Entry(c) = <<IF s = "update_row" THEN "updated" ELSE "deleted", c.row>>
<1> DEFINE c == local[p]
<1>1. /\ Running(p) /\ todo[p][1] = s /\ s \in Commits /\ 1 \in 1 .. Len(todo[p]) /\ Params(c)
      /\ c.op = IF s = "update_row" THEN "edit_row" ELSE "delete_row"
  BY Who, Callers, Here DEF Commits
<1> HIDE DEF c
<1>2. c.row \in Refs /\ c.row # Null
  BY <1>1, KindFacts, Apart DEF Params, RowOps, Entities
<1>3. /\ Entry(c) \in Entries /\ Entry(c) \in Loose
      /\ Entry(c) = <<IF s = "update_row" THEN "updated" ELSE "deleted", c.row>>
  BY <1>1, <1>2 DEF Entry, Verb, Entries, Entities, Loose
<1> QED BY <1>1, <1>2, <1>3 DEF c

\* An update or a deletion that finds the row gone is logged all the same.
LEMMA MissedBooked ==
  ASSUME Booked, NEW p \in Procs, NEW s \in {"update_row", "delete_row"}, At(p, s),
         Read(p), UNCHANGED local
  PROVE  Backed' /\ Counted'
<1>0. Known /\ Backed /\ Counted
  BY DEF Booked
<1>1. /\ Running(p) /\ todo[p][1] = s /\ s \in Commits /\ 1 \in 1 .. Len(todo[p])
      /\ local[p].op \in {"edit_row", "delete_row"} /\ Entry(local[p]) \in Loose
  BY <1>0, RowEntry
<1>2. /\ Done(p, 1) /\ UNCHANGED <<logs, done, mailed, wrote, local, faults>>
  BY DEF Read, Advance
<1>3. \A q \in Procs : q # p => todo'[q] = todo[q]
  BY <1>0, <1>1, <1>2, Went
<1>4. Others(p) /\ Kept(p)
  BY <1>2, <1>3 DEF Others, Kept
<1>5. \A f \in Entries : p \in Pending(f)' => f \in Loose
  <2> SUFFICES ASSUME NEW f \in Entries, p \in Pending(f)' PROVE f \in Loose
    OBVIOUS
  <2>1. f = Entry(local[p])
    BY <1>2 DEF Pending, Entry, Verb
  <2> QED BY <1>1, <2>1
<1>6. \A t \in Tickets : p \in Mailing(t)' => p \in Mailing(t)
  BY <1>1, <1>2 DEF Mailing
<1>7. ~At(p, "log")
  BY DEF At
<1>8. Backed'
  BY <1>0, <1>2, <1>4, <1>5, <1>6, <1>7, NothingDue
<1>9. ~Exact(local[p])
  BY <1>1 DEF Exact
<1>10. Counted'
  BY <1>0, <1>1, <1>2, <1>4, <1>9, CountedOn
<1> QED BY <1>8, <1>10

\* An update.
LEMMA UpdateRowBooked ==
  ASSUME Booked, NEW p \in Procs, UpdateRow(p)
  PROVE  Backed' /\ Counted'
<1> DEFINE c == local[p]
           e == <<"updated", c.row>>
<1>1. At(p, "update_row") /\ Known
  BY DEF UpdateRow, Booked
<1>2. \/ Refuse(p)
      \/ Read(p) /\ UNCHANGED local
      \/ CommitAndRefresh(p, e) /\ UNCHANGED local
  BY DEF UpdateRow
<1>3. "update_row" \in Commits /\ c.op = "edit_row" /\ Entry(c) = e /\ e \in Entries
  BY <1>1, RowEntry
<1>4. CASE CommitAndRefresh(p, e) /\ UNCHANGED local
  <2>1. /\ local'[p] = c /\ Kept(p) /\ c.op # "create_ticket" /\ c.op # "delete_row"
        /\ Commit(p, e) /\ Refresh(p)
    BY <1>3, <1>4, SameLocal DEF CommitAndRefresh
  <2> HIDE DEF e
  <2> QED BY <1>1, <1>3, <2>1, CommitBooked
<1> QED BY <1>1, <1>2, <1>4, RefusedBooked, MissedBooked

\* A deletion.
LEMMA DeleteRowBooked ==
  ASSUME Booked, NEW p \in Procs, DeleteRow(p)
  PROVE  Backed' /\ Counted'
<1> DEFINE c == local[p]
           e == <<"deleted", c.row>>
<1>1. At(p, "delete_row") /\ Known
  BY DEF DeleteRow, Booked
<1>2. \/ Read(p) /\ UNCHANGED local
      \/ Commit(p, e) /\ Advance(p) /\ UNCHANGED local
  BY DEF DeleteRow
<1>3. "delete_row" \in Commits /\ c.op = "delete_row" /\ Entry(c) = e /\ e \in Entries
  BY <1>1, RowEntry
<1>4. CASE Commit(p, e) /\ Advance(p) /\ UNCHANGED local
  <2>1. /\ local'[p] = c /\ Kept(p) /\ c.op # "create_ticket" /\ Refresh(p)
        /\ Commit(p, e) /\ Advance(p)
    BY <1>3, <1>4, SameLocal DEF Refresh
  <2> HIDE DEF e
  <2> QED BY <1>1, <1>3, <2>1, CommitBooked
<1> QED BY <1>1, <1>2, <1>4, MissedBooked

\* What is logged was about to be.
LEMMA LogBooked ==
  ASSUME Booked, NEW p \in Procs, Log(p)
  PROVE  Backed' /\ Counted'
<1> DEFINE c == local[p]
           e == Entry(c)
<1>1. /\ At(p, "log") /\ Known /\ Backed /\ Counted /\ Advance(p)
      /\ UNCHANGED <<done, mailed, local, wrote>>
  BY DEF Log, Booked
<1>2. /\ Running(p) /\ todo[p][1] = "log" /\ 1 \in 1 .. Len(todo[p]) /\ Rest(c, todo[p])
  BY <1>1, Who, Here
<1>3. /\ e \in Entries /\ (c.op \in RowOps => c.row \in Refs) /\ c.op \in TicketOps \union RowOps
      /\ (c.op \in TicketOps => c.row = Null /\ c.ticket \in Tickets)
  BY <1>1, LogEntry, Who
<1>4. c.row # Null => logs' = [logs EXCEPT ![e] = @ + 1]
  BY DEF Log, Entry
<1>5. \/ logs' = [logs EXCEPT ![e] = @ + 1]
      \/ logs' = logs
  BY DEF Log, Entry
<1>6. c.row = Null => e \notin RowEntries
  <2> HIDE DEF c
  <2>1. c.row = Null => c.ticket \in Tickets /\ c.ticket \notin Refs
    BY <1>3, Apart, TicketDeskAssumption DEF Entities
  <2> QED BY <2>1 DEF RowEntries, Entry
<1>7. Done(p, 1) /\ faults' = faults /\ UNCHANGED <<done, mailed, faults>>
  BY <1>1 DEF Advance
<1>8. /\ todo'[p] = SubSeq(todo[p], 1 + 1, Len(todo[p]))
      /\ \A q \in Procs : q # p => todo'[q] = todo[q]
  BY <1>1, <1>2, <1>7, Went
<1>9. Others(p) /\ Kept(p)
  BY <1>1, <1>8 DEF Others, Kept
<1>10. ~At(p, "log")'
  <2> SUFFICES ASSUME At(p, "log")' PROVE FALSE
    OBVIOUS
  <2> DEFINE u == SubSeq(todo[p], 1 + 1, Len(todo[p]))
  <2>1. u # <<>> /\ Head(u) = "log"
    BY <1>8 DEF At
  <2>2. u \in Seq(Steps)
    BY <1>2, Suffix DEF Rest
  <2>3. u[1] = "log"
    <3> HIDE DEF u
    <3> QED BY <2>1, <2>2, HeadOf
  <2>4. todo[p][1] \in Commits
    BY <1>2, <2>1, <2>3, LogFollows
  <2> QED BY <1>2, <2>4 DEF Commits
<1>11. \A f \in Entries : p \notin Pending(f)'
  BY <1>10 DEF Pending
<1>12. \A f \in Entries : p \in Pending(f) <=> f = e
  BY <1>1 DEF Pending
<1>13. \A t \in Tickets : p \in Mailing(t)' => p \in Mailing(t)
  BY <1>1, <1>2 DEF Mailing
<1>14. Backed'
  <2> HIDE DEF e
  <2> QED BY <1>1, <1>3, <1>4, <1>5, <1>6, <1>7, <1>9, <1>11, <1>12, <1>13, EntryDue
<1>15. Counted'
  <2>1. todo[p][1] \notin Commits
    BY <1>2 DEF Commits
  <2> QED BY <1>1, <1>2, <1>7, <1>9, <2>1, CountedOn
<1> QED BY <1>14, <1>15

\* The mail is the last call of its request.
LEMMA MailBooked ==
  ASSUME Booked, NEW p \in Procs, Mail(p)
  PROVE  Backed' /\ Counted'
<1> DEFINE m == local[p].ticket
<1>1. At(p, "mail") /\ Known /\ Backed /\ Counted
  BY DEF Mail, Booked
<1>2. /\ Running(p) /\ todo[p][1] = "mail" /\ local[p].op = "create_ticket"
      /\ m \in Tickets /\ Len(todo[p]) = 1 /\ 1 \in 1 .. Len(todo[p]) /\ todo[p] \in Seq(Steps)
  BY <1>1, MailTicket, Here
<1>3. \/ /\ mailed' = [mailed EXCEPT ![m] = @ + 1] /\ Advance(p)
         /\ UNCHANGED <<logs, done, local, wrote>>
      \/ Refuse(p)
  BY DEF Mail
<1>4. CASE /\ mailed' = [mailed EXCEPT ![m] = @ + 1] /\ Advance(p)
           /\ UNCHANGED <<logs, done, local, wrote>>
  <2>1. Done(p, 1) /\ UNCHANGED <<logs, done, faults>>
    BY <1>4 DEF Advance
  <2>2. /\ todo'[p] = SubSeq(todo[p], 1 + 1, Len(todo[p]))
        /\ \A q \in Procs : q # p => todo'[q] = todo[q]
    BY <1>1, <1>2, <2>1, Went
  <2>3. todo'[p] = <<>>
    BY <1>2, <2>2, Suffix
  <2>4. Others(p) /\ Kept(p)
    BY <1>4, <2>2 DEF Others, Kept
  <2>5. ~At(p, "log") /\ ~At(p, "log")'
    BY <1>1, <2>3 DEF At
  <2>6. \A t \in Tickets : (p \in Mailing(t) <=> t = m) /\ p \notin Mailing(t)'
    BY <1>2, <2>3 DEF Mailing, Running
  <2>7. Backed'
    <3> HIDE DEF m
    <3> QED BY <1>1, <1>2, <1>4, <2>1, <2>4, <2>5, <2>6, MailDue
  <2>8. Counted'
    <3>1. todo[p][1] \notin Commits
      BY <1>2 DEF Commits
    <3> QED BY <1>1, <1>2, <1>4, <2>1, <2>4, <3>1, CountedOn
  <2> QED BY <2>7, <2>8
<1> QED BY <1>1, <1>3, <1>4, RefusedBooked

\* A failure: only that of the log itself leaves a change unlogged.
LEMMA FaultBooked ==
  ASSUME Booked, NEW p \in Procs, Fault(p)
  PROVE  Backed' /\ Counted'
<1>0. Known /\ Backed /\ Counted /\ faults \in Nat
  BY DEF Booked, Known, TypeOK
<1>1. CASE Fail(p)
  <2>1. /\ Running(p) /\ ~At(p, "log") /\ Leave(p, "error") /\ faults' # 0
    BY <1>0, <1>1 DEF Fail, Running
  <2>2. todo[p][1] # "log"
    BY <1>0, <2>1, Here DEF At, Running
  <2>3. Backed'
    BY <1>0, <2>1, GaveUp
  <2>4. Counted'
    BY <1>0, <2>1, <2>2, CountedLeft
  <2> QED BY <2>3, <2>4
<1>2. CASE Swallowed(p)
  <2>1. PICK s \in {"log", "mail", "tickets_using_it"} : At(p, s)
    BY <1>2 DEF Swallowed
  <2>2. /\ Done(p, 1) /\ faults' # 0 /\ UNCHANGED <<logs, done, mailed, local, wrote>>
    BY <1>0, <1>2 DEF Swallowed
  <2>3. Running(p) /\ todo[p][1] = s /\ todo[p][1] \notin Commits
    BY <1>0, <2>1, Who DEF Commits
  <2>4. Kept(p)
    BY <2>2, SameLocal
  <2>5. Backed'
    BY <1>0, <2>2, <2>3, <2>4, MovedOn
  <2>6. Counted'
    BY <1>0, <2>2, <2>3, <2>4, CountedOn
  <2> QED BY <2>5, <2>6
<1> QED BY <1>1, <1>2 DEF Fault

\* A new request has committed nothing, and has nothing to log.
LEMMA ClientBooked ==
  ASSUME Booked, NEW p \in Procs, Client(p)
  PROVE  Backed' /\ Counted'
<1>1. PICK c : Fresh(c) /\ Receive(p, c)
  BY ClientAsks
<1>2. todo[p] = <<>> /\ Known /\ Backed /\ Counted
  BY ClientAsks DEF Booked
<1> DEFINE s == Script(c)
<1>3. /\ todo' = [todo EXCEPT ![p] = s] /\ local' = [local EXCEPT ![p] = c]
      /\ wrote' = [wrote EXCEPT ![p] = 0] /\ answer' = [answer EXCEPT ![p] = Null]
      /\ UNCHANGED <<logs, done, mailed, faults>>
  BY <1>1 DEF Receive
<1>4. /\ Scripted(c, s) /\ Rest(c, s) /\ s # <<>> /\ s[1] # "log" /\ s \in Seq(Steps)
      /\ (c.op = "create_ticket" => c.ticket = Null) /\ (Twice(c) => Len(s) = 6)
  BY <1>1 DEF Fresh, Scripted, Rest
<1> HIDE DEF s
<1>5. /\ todo'[p] = s /\ local'[p] = c /\ wrote'[p] = 0 /\ answer'[p] = Null
      /\ \A q \in Procs : q # p => /\ todo'[q] = todo[q] /\ local'[q] = local[q]
                                   /\ wrote'[q] = wrote[q] /\ answer'[q] = answer[q]
  BY <1>2, <1>3 DEF Known, TypeOK
<1>6. Len(s) \in Nat /\ Len(s) >= 1 /\ 1 \in 1 .. Len(s) /\ Head(s) = s[1]
  BY <1>4, HeadOf
<1>7. Others(p) /\ ~At(p, "log") /\ ~At(p, "log")'
  BY <1>2, <1>4, <1>5, <1>6 DEF Others, At
<1>8. \A t \in Tickets : p \notin Mailing(t)'
  BY <1>4, <1>5, Apart DEF Mailing
<1>9. \A e \in Entries : p \notin Pending(e)'
  BY <1>7 DEF Pending
<1>10. Backed'
  BY <1>2, <1>3, <1>7, <1>8, <1>9, NothingDue
<1>11. c.op \in RowOps => IF s # <<>> THEN OnTime(c, Len(s), 0, Null) ELSE Answered(c, 0, Null, faults)
  <2> SUFFICES ASSUME c.op \in RowOps PROVE OnTime(c, Len(s), 0, Null)
    BY <1>4
  <2>1. Len(s) # 1
    BY <1>4, <1>6 DEF Rest, Rounds
  <2>2. Due(c, Len(s)) = 0
    <3> DEFINE n == Len(s)
    <3>1. Twice(c) => n = 6
      BY <1>4
    <3>2. n \in Nat /\ n >= 1 /\ n # 1
      BY <1>6, <2>1
    <3> HIDE DEF n
    <3>3. Due(c, n) = 0
      BY <3>1, <3>2 DEF Due
    <3> QED BY <3>3 DEF n
  <2> QED BY <2>2 DEF OnTime
<1>12. Counted'
  <2>1. faults' = faults
    BY <1>3
  <2> QED BY ONLY <1>2, p \in Procs, <1>5, <1>11, <2>1, OneCounted
<1> QED BY <1>10, <1>12

\* Every step keeps the books and the count.
LEMMA StepBooked ==
  ASSUME Booked, [Next]_vars
  PROVE  Booked'
<1>1. Known'
  BY KnownStep DEF Booked
<1>2. ASSUME NEW p \in Procs, Step(p) PROVE Backed' /\ Counted'
  <2>1. CASE \/ DefaultStatus(p) \/ DefaultSla(p) \/ OpenStatus(p) \/ Check(p)
             \/ FindTicket(p) \/ AlreadyOpened(p) \/ FindRow(p) \/ TicketsUsing(p)
             \/ SelectRow(p)
    BY <2>1, LookupBooked
  <2>2. CASE SameName(p) \/ InsertTicket(p) \/ Note(p) \/ Merge(p) \/ UpdateTicket(p) \/ SoftDelete(p)
    BY <2>2, SameNameBooked, InsertTicketBooked, NoteBooked, UpdateTicketBooked
  <2>3. CASE InsertRow(p) \/ UpdateRow(p) \/ DeleteRow(p) \/ Log(p) \/ Mail(p)
    BY <2>3, InsertRowBooked, UpdateRowBooked, DeleteRowBooked, LogBooked, MailBooked
  <2> QED BY <1>2, <2>1, <2>2, <2>3 DEF Step
<1>3. CASE Next
  <2>1. PICK p \in Procs : Client(p) \/ Step(p) \/ Fault(p)
    BY <1>3 DEF Next
  <2>2. Backed' /\ Counted'
    BY <1>2, <2>1, ClientBooked, FaultBooked
  <2> QED BY <1>1, <2>2 DEF Booked
<1>4. CASE UNCHANGED vars
  <2>1. Backed'
    BY <1>4 DEF vars, Booked, Backed, Pending, Mailing, At, Running, Entry, Verb
  <2>2. Counted'
    BY <1>4 DEF vars, Booked, Counted, Running, OnTime, Answered, Due, Twice, Exact
  <2> QED BY <1>1, <2>1, <2>2 DEF Booked
<1> QED BY <1>3, <1>4

\* Both begin empty.
LEMMA InitBooked == Init => Booked
<1> SUFFICES ASSUME Init PROVE Booked
  OBVIOUS
<1>1. /\ logs = [e \in Entries |-> 0] /\ done = [e \in Entries |-> 0]
      /\ mailed = [t \in Tickets |-> 0] /\ todo = [p \in Procs |-> <<>>]
      /\ answer = [p \in Procs |-> Null]
  BY DEF Init
<1>2. \A e : Pending(e) = {}
  BY <1>1 DEF Pending, At
<1>3. \A t : Mailing(t) = {}
  BY <1>1 DEF Mailing, Running
<1>4. Cardinality({}) = 0
  BY FS_EmptySet
<1>5. RowEntries \subseteq Entries /\ \A t \in Tickets : <<"created", t>> \in Entries
  BY DEF RowEntries, Entries, Entities
<1>6. Backed
  <2>1. \A e \in Entries : Cardinality(Pending(e)) = 0 /\ logs[e] = 0 /\ done[e] = 0
    <3> TAKE e \in Entries
    <3>1. Pending(e) = {}
      BY <1>2
    <3>2. logs[e] = 0 /\ done[e] = 0
      BY <1>1
    <3> QED BY <1>4, <3>1, <3>2
  <2>2. \A t \in Tickets : /\ Cardinality(Mailing(t)) = 0 /\ mailed[t] = 0
                           /\ done[<<"created", t>>] = 0
    <3> TAKE t \in Tickets
    <3>1. Mailing(t) = {}
      BY <1>3
    <3>2. mailed[t] = 0 /\ done[<<"created", t>>] = 0
      BY <1>1, <1>5
    <3> QED BY <1>4, <3>1, <3>2
  <2> QED BY <1>5, <2>1, <2>2 DEF Backed
<1>7. Counted
  <2>1. \A p \in Procs : todo[p] = <<>> /\ answer[p] = Null
    BY <1>1
  <2>2. Null # "ok" /\ Null # "error"
    BY TicketDeskAssumption
  <2> QED BY <2>1, <2>2 DEF Counted, Answered, Running
<1> QED BY <1>6, <1>7, InitKnown DEF Booked

\* They stay so.
LEMMA BookedAlways == Spec => []Booked
<1>1. Init => Booked
  BY InitBooked
<1>2. Booked /\ [Next]_vars => Booked'
  BY StepBooked
<1> QED BY <1>1, <1>2, PTL DEF Spec

-----------------------------------------------------------------------------
(* Rows that are gone were deleted.                                        *)

\* One entry may be committed.
Grown == done' = done \/ \E e : done' = [done EXCEPT ![e] = @ + 1]

\* What was deleted once stays so.
LEMMA OnceDeleted ==
  ASSUME Known, Grown, NEW x \in Refs, DeletedOnce(x)
  PROVE  DeletedOnce(x)'
<1>1. done \in [Entries -> Nat]
  BY DEF Known, TypeOK
<1>2. \A e \in Entries : done[e] > 0 => done'[e] > 0
  BY <1>1 DEF Grown
<1>3. <<"deleted", x>> \in Entries /\ \A n \in Priorities : <<"deleted", n>> \in Entries
  BY DEF Entries, Entities, Refs
<1> QED BY <1>2, <1>3 DEF DeletedOnce

\* The other tasks do not move.
Elsewhere(p) ==
  \A q \in Procs : q # p => todo'[q] = todo[q] /\ local'[q] = local[q] /\ answer'[q] = answer[q]

\* A step of p.
LEMMA OneGone ==
  ASSUME Known, Gone, NEW p \in Procs, Elsewhere(p), Grown,
         \A x \in Refs : home'[x] # Null /\ ~Live(x)' =>
           (home[x] # Null /\ ~Live(x)) \/ DeletedOnce(x)',
         \A x \in Refs : logs'[<<"deleted", x>>] > 0 =>
           logs[<<"deleted", x>>] > 0 \/ DeletedOnce(x)',
         NEW d, local'[p] = d,
         d.op = "delete_row" /\ (At(p, "log")' \/ answer'[p] = "ok") =>
           d.row \in Refs /\ DeletedOnce(d.row)'
  PROVE  Gone'
<1>1. \A x \in Refs : DeletedOnce(x) => DeletedOnce(x)'
  BY OnceDeleted
<1>2. ASSUME NEW q \in Procs
      PROVE  (local[q].op = "delete_row" /\ (At(q, "log") \/ answer[q] = "ok") =>
                local[q].row \in Refs /\ DeletedOnce(local[q].row))'
  <2>1. CASE q = p
    BY <2>1 DEF DeletedOnce
  <2>2. CASE q # p
    <3>1. PICK c : c = local[q]
      OBVIOUS
    <3>2. todo'[q] = todo[q] /\ local'[q] = c /\ answer'[q] = answer[q]
      BY <2>2, <3>1 DEF Elsewhere
    <3>3. At(q, "log")' <=> At(q, "log")
      BY <3>2 DEF At
    <3>4. c.op = "delete_row" /\ (At(q, "log") \/ answer[q] = "ok") =>
            c.row \in Refs /\ DeletedOnce(c.row)
      BY <3>1 DEF Gone
    <3>5. c.op = "delete_row" /\ (At(q, "log")' \/ answer'[q] = "ok") =>
            c.row \in Refs /\ DeletedOnce(c.row)'
      BY <1>1, <3>2, <3>3, <3>4
    <3> QED BY <3>2, <3>5 DEF DeletedOnce
  <2> QED BY <2>1, <2>2
<1>3. \A x \in Refs : home'[x] # Null /\ ~Live(x)' => DeletedOnce(x)'
  BY <1>1 DEF Gone
<1>4. \A x \in Refs : logs'[<<"deleted", x>>] > 0 => DeletedOnce(x)'
  BY <1>1 DEF Gone
<1> QED BY <1>2, <1>3, <1>4 DEF Gone

\* How a task moves.
LEMMA Moves ==
  ASSUME Known, NEW p \in Procs
  PROVE  /\ \A n : Done(p, n) =>
              \A q \in Procs : q # p => todo'[q] = todo[q] /\ answer'[q] = answer[q]
         /\ \A how : Leave(p, how) => Elsewhere(p) /\ todo'[p] = <<>> /\ answer'[p] = how
         /\ Unrefreshed(p) =>
              /\ \A q \in Procs : q # p => todo'[q] = todo[q] /\ answer'[q] = answer[q]
              /\ todo'[p] = <<>> /\ answer'[p] = "error"
<1>1. /\ todo \in [Procs -> Seq(Steps)] /\ answer \in [Procs -> {Null, "ok", "error"}]
      /\ local \in [Procs -> Local]
  BY DEF Known, TypeOK
<1>2. ASSUME NEW n, Done(p, n)
      PROVE  \A q \in Procs : q # p => todo'[q] = todo[q] /\ answer'[q] = answer[q]
  BY <1>1, <1>2 DEF Done
<1>3. ASSUME NEW how, Leave(p, how)
      PROVE  Elsewhere(p) /\ todo'[p] = <<>> /\ answer'[p] = how
  BY <1>1, <1>3 DEF Leave, Elsewhere
<1>4. ASSUME Unrefreshed(p)
      PROVE  /\ \A q \in Procs : q # p => todo'[q] = todo[q] /\ answer'[q] = answer[q]
             /\ todo'[p] = <<>> /\ answer'[p] = "error"
  BY <1>1, <1>4 DEF Unrefreshed
<1> QED BY <1>2, <1>3, <1>4

\* A request that leaves with an error.
LEMMA LeftGone ==
  ASSUME Booked, Gone, NEW p \in Procs, Leave(p, "error")
  PROVE  Gone'
<1>1. Known /\ Elsewhere(p) /\ todo'[p] = <<>> /\ answer'[p] = "error"
  BY Moves DEF Booked
<1>2. UNCHANGED <<row, home, logs, done>> /\ Grown
  BY DEF Leave, dbVars, Grown
<1>3. ~At(p, "log")' /\ answer'[p] # "ok"
  BY <1>1 DEF At
<1>4. \A x \in Refs : home'[x] # Null /\ ~Live(x)' => home[x] # Null /\ ~Live(x)
  BY <1>2 DEF Live
<1> QED BY <1>1, <1>2, <1>3, <1>4, OneGone

\* A request that is no deletion of a row.
LEMMA UndeletedGone ==
  ASSUME Booked, Gone, NEW p \in Procs, Elsewhere(p), Grown, local'[p].op # "delete_row",
         \A x \in Refs : home'[x] # Null /\ ~Live(x)' => home[x] # Null /\ ~Live(x),
         \A x \in Refs : logs'[<<"deleted", x>>] > 0 => logs[<<"deleted", x>>] > 0
  PROVE  Gone'
BY OneGone DEF Booked

\* A deletion makes its next call, which is no DELETE.
LEMMA DeletionGoesOn ==
  ASSUME Booked, Gone, NEW p \in Procs, NEW s, At(p, s), s # "delete_row", Done(p, 1), Kept(p),
         local'[p].row = local[p].row, UNCHANGED <<row, home, done>>,
         \A x \in Refs : logs'[<<"deleted", x>>] > 0 =>
           \/ logs[<<"deleted", x>>] > 0
           \/ s = "log" /\ local[p].op = "delete_row" /\ x = local[p].row
  PROVE  Gone'
<1>0. Known /\ Grown
  BY DEF Booked, Grown
<1>1. /\ Running(p) /\ todo[p][1] = s /\ Rest(local[p], todo[p]) /\ 1 \in 1 .. Len(todo[p])
      /\ todo[p] \in Seq(Steps)
  BY <1>0, Who, Here
<1>2. Elsewhere(p)
  BY <1>0, Moves DEF Elsewhere, Kept
<1>3. local[p].op = "delete_row" /\ At(p, "log")' => FALSE
  <2> SUFFICES ASSUME local[p].op = "delete_row", At(p, "log")' PROVE FALSE
    OBVIOUS
  <2> DEFINE u == SubSeq(todo[p], 1 + 1, Len(todo[p]))
  <2>1. todo'[p] = u
    BY <1>0, <1>1, Went
  <2>2. u # <<>> /\ u[1] = "log"
    <3>1. u \in Seq(Steps)
      BY <1>1, Suffix
    <3>2. u # <<>> /\ Head(u) = "log"
      BY <2>1 DEF At
    <3> HIDE DEF u
    <3> QED BY <3>1, <3>2, HeadOf
  <2>3. todo[p][1] \in Commits
    BY <1>1, <2>2, LogFollows
  <2>4. s \in StepsOf(local[p])
    BY <1>0, Who
  <2>5. s \notin Commits
    BY <2>4 DEF StepsOf, Commits
  <2> QED BY <1>1, <2>3, <2>5
<1>4. local[p].op = "delete_row" /\ answer'[p] = "ok" => s = "log"
  <2> SUFFICES ASSUME local[p].op = "delete_row", answer'[p] = "ok" PROVE s = "log"
    OBVIOUS
  <2>1. answer[p] = Null /\ Null # "ok"
    BY <1>1, TicketDeskAssumption DEF Booked, Counted, OnTime, RowOps
  <2>2. answer'[p] = IF Len(todo[p]) = 1 THEN "ok" ELSE answer[p]
    BY <1>0, <1>1, Went
  <2>3. Len(todo[p]) = 1
    BY <2>1, <2>2
  <2>4. Rounds(local[p], todo[p])
    BY <1>1 DEF Rest, RowOps
  <2>5. todo[p][1] = "log"
    BY <1>1, <2>3, <2>4 DEF Rounds
  <2> QED BY <1>1, <2>5
<1>5. PICK c : c = local[p]
  OBVIOUS
<1>6. c.op = "delete_row" /\ s = "log" => c.row \in Refs /\ DeletedOnce(c.row)'
  <2> SUFFICES ASSUME c.op = "delete_row", s = "log"
               PROVE  c.row \in Refs /\ DeletedOnce(c.row)'
    OBVIOUS
  <2>1. c.row \in Refs /\ DeletedOnce(c.row)
    BY <1>5 DEF Gone
  <2>2. PICK x \in Refs : x = c.row
    BY <2>1
  <2>3. DeletedOnce(x)'
    BY <1>0, <2>1, <2>2, OnceDeleted
  <2> QED BY <2>1, <2>2, <2>3
<1>7. PICK d : d = local'[p]
  OBVIOUS
<1>8. d.op = c.op /\ d.row = c.row
  BY <1>5, <1>7 DEF Kept
<1>9. d.op = "delete_row" /\ (At(p, "log")' \/ answer'[p] = "ok") =>
        d.row \in Refs /\ DeletedOnce(d.row)'
  BY <1>3, <1>4, <1>5, <1>6, <1>8
<1>10. \A x \in Refs : logs'[<<"deleted", x>>] > 0 =>
         logs[<<"deleted", x>>] > 0 \/ DeletedOnce(x)'
  BY <1>5, <1>6
<1>11. \A x \in Refs : home'[x] # Null /\ ~Live(x)' => home[x] # Null /\ ~Live(x)
  BY DEF Live
<1> QED BY <1>0, <1>2, <1>7, <1>9, <1>10, <1>11, OneGone

\* A request that leaves rows, logs and deletions alone makes its next call.
LEMMA ReadGone ==
  ASSUME Booked, Gone, NEW p \in Procs, NEW s, At(p, s), s \notin Commits \union {"log"},
         Read(p), Kept(p), local'[p].row = local[p].row
  PROVE  Gone'
<1>1. Done(p, 1) /\ UNCHANGED <<row, home, done, logs>> /\ s # "delete_row"
  BY DEF Read, Advance, dbVars, Commits
<1> QED BY <1>1, DeletionGoesOn

\* A request that is no deletion changes a table, or passes over that.
LEMMA WriteGone ==
  ASSUME Booked, Gone, NEW p \in Procs, Refresh(p), Grown, local'[p].op # "delete_row",
         \A q \in Procs : q # p => local'[q] = local[q],
         \A x \in Refs : home'[x] # Null /\ ~Live(x)' => home[x] # Null /\ ~Live(x),
         UNCHANGED logs
  PROVE  Gone'
<1>1. Elsewhere(p)
  BY Moves DEF Refresh, Advance, Elsewhere, Booked
<1> QED BY <1>1, UndeletedGone

\* The calls that look something up.
LEMMA LookupGone ==
  ASSUME Booked, Gone, NEW p \in Procs,
         \/ DefaultStatus(p) \/ DefaultSla(p) \/ OpenStatus(p) \/ Check(p)
         \/ FindTicket(p) \/ AlreadyOpened(p) \/ FindRow(p) \/ TicketsUsing(p) \/ SelectRow(p)
  PROVE  Gone'
<1>0. local \in [Procs -> Local] /\ local[p] \in Local
  BY DEF Booked, Known, TypeOK
<1>1. ASSUME Refuse(p) PROVE Gone'
  BY <1>1, LeftGone DEF Refuse
<1>2. CASE DefaultStatus(p) \/ OpenStatus(p)
  <2>1. PICK s \in {"default_status", "open_status"} :
          /\ At(p, s)
          /\ \/ /\ \E v \in Statuses : local' = [local EXCEPT ![p].status = v]
                /\ Read(p)
             \/ Refuse(p)
    BY <1>2 DEF DefaultStatus, OpenStatus
  <2>2. ASSUME NEW v, local' = [local EXCEPT ![p].status = v]
        PROVE  Kept(p) /\ local'[p].row = local[p].row
    BY <1>0, <2>2 DEF Kept, Local
  <2> QED BY <1>1, <2>1, <2>2, ReadGone DEF Commits
<1>3. CASE DefaultSla(p)
  <2>1. /\ At(p, "default_sla")
        /\ \/ /\ \E v \in Slas : local' = [local EXCEPT ![p].sla = v]
              /\ Read(p)
           \/ Refuse(p)
    BY <1>3 DEF DefaultSla
  <2>2. ASSUME NEW v, local' = [local EXCEPT ![p].sla = v]
        PROVE  Kept(p) /\ local'[p].row = local[p].row
    BY <1>0, <2>2 DEF Kept, Local
  <2> QED BY <1>1, <2>1, <2>2, ReadGone DEF Commits
<1>4. CASE Check(p) \/ AlreadyOpened(p) \/ TicketsUsing(p) \/ SelectRow(p)
  <2>1. PICK s \in Checks \union {"tickets_using_it", "select_row"} :
          At(p, s) /\ ((Read(p) /\ UNCHANGED local) \/ Refuse(p))
    BY <1>4 DEF Check, AlreadyOpened, TicketsUsing, SelectRow, Checks
  <2>2. s \notin Commits \union {"log"}
    BY DEF Checks, Commits
  <2> QED BY <1>1, <2>1, <2>2, SameLocal, ReadGone
<1>5. CASE FindTicket(p)
  <2>1. /\ At(p, "find_ticket")
        /\ \/ /\ \/ \E v, w : local' = [local EXCEPT ![p].snap = v, ![p].refs = w]
                 \/ local' = local
              /\ Read(p)
           \/ Refuse(p)
    BY <1>5 DEF FindTicket
  <2>2. ASSUME NEW v, NEW w, local' = [local EXCEPT ![p].snap = v, ![p].refs = w]
        PROVE  Kept(p) /\ local'[p].row = local[p].row
    <3> DEFINE e == [local[p] EXCEPT !.snap = v]
               d == [e EXCEPT !.refs = w]
    <3>1. local'[p] = d /\ \A q \in Procs : q # p => local'[q] = local[q]
      BY <1>0, <2>2
    <3>2. /\ e.op = local[p].op /\ e.kind = local[p].kind /\ e.extra = local[p].extra
          /\ e.ticket = local[p].ticket /\ e.row = local[p].row
      BY <1>0 DEF Local
    <3>3. /\ d.op = e.op /\ d.kind = e.kind /\ d.extra = e.extra /\ d.ticket = e.ticket
          /\ d.row = e.row
      BY <1>0 DEF Local
    <3> HIDE DEF d, e
    <3> QED BY <3>1, <3>2, <3>3 DEF Kept
  <2> QED BY <1>1, <2>1, <2>2, SameLocal, ReadGone DEF Commits
<1>6. CASE FindRow(p)
  <2>1. /\ At(p, "find_row")
        /\ \/ /\ \E v : local' = [local EXCEPT ![p].refs = v]
              /\ Read(p)
           \/ Refuse(p)
    BY <1>6 DEF FindRow
  <2>2. ASSUME NEW v, local' = [local EXCEPT ![p].refs = v]
        PROVE  Kept(p) /\ local'[p].row = local[p].row
    BY <1>0, <2>2 DEF Kept, Local
  <2> QED BY <1>1, <2>1, <2>2, ReadGone DEF Commits
<1> QED BY <1>2, <1>3, <1>4, <1>5, <1>6

\* The duplicate check, which may skip the row.
LEMMA SameNameGone ==
  ASSUME Booked, Gone, NEW p \in Procs, SameName(p)
  PROVE  Gone'
<1>0. local \in [Procs -> Local] /\ local[p] \in Local /\ Known
  BY DEF Booked, Known, TypeOK
<1>1. PICK s \in {"same_name", "next_name"} : At(p, s)
  BY DEF SameName
<1>2. PICK name :
        \/ Read(p) /\ local' = [local EXCEPT ![p].key = name]
        \/ /\ local[p].kind = "status" /\ Done(p, 3)
           /\ UNCHANGED <<dbVars, logs, done, mailed, local, wrote, requests, faults>>
        \/ Refuse(p)
  BY Zenon DEF SameName
<1>3. CASE Read(p) /\ local' = [local EXCEPT ![p].key = name]
  <2>1. Kept(p) /\ local'[p].row = local[p].row
    BY <1>0, <1>3 DEF Kept, Local
  <2> QED BY <1>1, <1>3, <2>1, ReadGone DEF Commits
<1>4. CASE Refuse(p)
  BY <1>4, LeftGone DEF Refuse
<1>5. CASE Done(p, 3) /\ UNCHANGED <<dbVars, logs, done, local>>
  <2>1. local[p].op = "create_row"
    BY <1>0, <1>1, Who, Callers
  <2>2. Elsewhere(p) /\ Grown
    BY <1>0, <1>5, Moves DEF Elsewhere, Grown
  <2> QED BY <1>5, <2>1, <2>2, UndeletedGone DEF dbVars, Live
<1> QED BY <1>2, <1>3, <1>4, <1>5

\* The writes to a ticket.
LEMMA TicketGone ==
  ASSUME Booked, Gone, NEW p \in Procs,
         InsertTicket(p) \/ Note(p) \/ UpdateTicket(p) \/ SoftDelete(p) \/ Merge(p)
  PROVE  Gone'
<1>0. /\ local \in [Procs -> Local] /\ local[p] \in Local /\ Known
      /\ row \in [Refs -> Row \union {Absent}] /\ home \in [Entities -> Orgs \union {Null}]
  BY DEF Booked, Known, TypeOK
<1>1. PICK s \in {"insert_ticket", "note", "update_ticket", "soft_delete", "merge"} : At(p, s)
  BY DEF InsertTicket, Note, UpdateTicket, SoftDelete, Merge
<1>2. local[p].op # "delete_row" /\ Running(p)
  BY <1>0, <1>1, Who, Callers
<1>3. CASE InsertTicket(p)
  <2>1. \/ Refuse(p)
        \/ \E t \in Tickets :
             /\ home' = [home EXCEPT ![t] = Tenant(p)]
             /\ local' = [local EXCEPT ![p].ticket = t]
             /\ CommitAndRefresh(p, <<"created", t>>) /\ UNCHANGED row
    BY <1>3 DEF InsertTicket
  <2>2. ASSUME NEW t \in Tickets, home' = [home EXCEPT ![t] = Tenant(p)],
               local' = [local EXCEPT ![p].ticket = t],
               CommitAndRefresh(p, <<"created", t>>), UNCHANGED row
        PROVE  Gone'
    <3>1. local'[p].op # "delete_row" /\ \A q \in Procs : q # p => local'[q] = local[q]
      BY <1>0, <1>2, <2>2 DEF Local
    <3>2. \A x \in Refs : home'[x] = home[x] /\ (Live(x)' <=> Live(x))
      BY <1>0, <2>2, TicketDeskAssumption DEF Live, Entities
    <3>3. Refresh(p) /\ Grown /\ UNCHANGED logs
      BY <2>2 DEF CommitAndRefresh, Commit, Grown
    <3> QED BY <3>1, <3>2, <3>3, WriteGone
  <2> QED BY <2>1, <2>2, LeftGone DEF Refuse
<1>4. CASE Note(p) \/ UpdateTicket(p) \/ SoftDelete(p)
  <2>1. \/ Refuse(p)
        \/ Refresh(p) /\ Grown /\ UNCHANGED <<row, home, logs, local>>
    BY <1>4 DEF Note, UpdateTicket, SoftDelete, CommitAndRefresh, Commit, Grown
  <2>2. CASE Refresh(p) /\ Grown /\ UNCHANGED <<row, home, logs, local>>
    BY <1>2, <2>2, WriteGone DEF Live
  <2> QED BY <2>1, <2>2, LeftGone DEF Refuse
<1>5. CASE Merge(p)
  <2> DEFINE c == local[p]
             rows == [x \in Refs |-> IF \E r \in c.refs : r[1] = x
                                     THEN (CHOOSE r \in c.refs : r[1] = x)[2] ELSE row[x]]
  <2>1. \/ Refuse(p)
        \/ row' = rows /\ Advance(p) /\ UNCHANGED <<home, logs, done, local>>
    BY <1>5 DEF Merge
  <2>2. CASE row' = rows /\ Advance(p) /\ UNCHANGED <<home, logs, done, local>>
    <3>1. c.refs \subseteq Refs \X Row /\ Absent \notin Row
      BY <1>0, TicketDeskAssumption DEF Local
    <3>2. ASSUME NEW x \in Refs, Live(x) PROVE Live(x)'
      <4>1. CASE \E r \in c.refs : r[1] = x
        <5>1. PICK w : w \in c.refs /\ w = CHOOSE r \in c.refs : r[1] = x
          BY <4>1
        <5>2. row'[x] = w[2] /\ w[2] \in Row
          BY <2>2, <3>1, <4>1, <5>1
        <5> QED BY <3>1, <5>2 DEF Live
      <4>2. CASE ~\E r \in c.refs : r[1] = x
        BY <2>2, <3>2, <4>2 DEF Live
      <4> QED BY <4>1, <4>2
    <3>3. Refresh(p) /\ Grown
      BY <2>2 DEF Refresh, Grown
    <3> QED BY <1>2, <2>2, <3>2, <3>3, WriteGone
  <2> QED BY <2>1, <2>2, LeftGone DEF Refuse
<1> QED BY <1>3, <1>4, <1>5

\* New rows, and changed ones.
LEMMA RowGone ==
  ASSUME Booked, Gone, NEW p \in Procs, InsertRow(p) \/ UpdateRow(p)
  PROVE  Gone'
<1>0. /\ local \in [Procs -> Local] /\ local[p] \in Local /\ Known
      /\ row \in [Refs -> Row \union {Absent}] /\ home \in [Entities -> Orgs \union {Null}]
  BY DEF Booked, Known, TypeOK
<1>1. PICK s \in {"insert_row", "update_row"} : At(p, s)
  BY DEF InsertRow, UpdateRow
<1>2. /\ local[p].op \in {"create_row", "edit_row"} /\ Running(p) /\ Params(local[p])
      /\ Tenant(p) = local[p].org /\ local[p].org \in Orgs
      /\ local[p].op = "create_row" <=> s = "insert_row"
  BY <1>0, <1>1, Who, Callers, Here
<1>3. local[p].kind \in Kinds
  BY <1>2 DEF Params, RowOps
<1>4. \A x \in Refs : \A r : row' = [row EXCEPT ![x] = r] /\ r # Absent =>
        \A y \in Refs : Live(y)' <=> Live(y) \/ y = x
  BY <1>0 DEF Live
<1>5. \A o, k, c : Absent # [org |-> o, key |-> k, category |-> c]
                   \/ ~(o \in Orgs /\ k \in Names \union Priorities /\ c \in Categories \union {Null})
  BY TicketDeskAssumption DEF Row
<1>6. CASE InsertRow(p)
  <2> DEFINE new == [org |-> Tenant(p), key |-> local[p].key, category |-> local[p].category]
  <2>1. \/ Refuse(p)
        \/ \E x \in IdsOf[local[p].kind] :
             /\ row' = [row EXCEPT ![x] = new]
             /\ home' = [home EXCEPT ![x] = Tenant(p)]
             /\ local' = [local EXCEPT ![p].row = x]
             /\ CommitAndRefresh(p, <<"created", x>>)
    BY <1>6 DEF InsertRow
  <2>2. local[p].op = "create_row"
    BY <1>0, <1>2, <1>6, Who, Callers DEF InsertRow
  <2>3. new # Absent
    <3>1. local[p].key \in Names \union Priorities
      <4> DEFINE c == local[p]
      <4> HIDE DEF c
      <4>1. c.op = "create_row" /\ Params(c) => c.key \in Names \union Priorities
        BY DEF Params
      <4> QED BY <1>2, <2>2, <4>1 DEF c
    <3>2. local[p].category \in Categories \union {Null}
      BY <1>0 DEF Local
    <3> QED BY <1>2, <1>5, <3>1, <3>2
  <2> HIDE DEF new
  <2>4. ASSUME NEW x \in IdsOf[local[p].kind], row' = [row EXCEPT ![x] = new],
               home' = [home EXCEPT ![x] = Tenant(p)], local' = [local EXCEPT ![p].row = x],
               CommitAndRefresh(p, <<"created", x>>)
        PROVE  Gone'
    <3>0. x \in Refs
      BY <1>3, KindFacts
    <3>1. local'[p].op # "delete_row" /\ \A q \in Procs : q # p => local'[q] = local[q]
      BY <1>0, <2>2, <2>4 DEF Local
    <3>2. \A y \in Refs : home'[y] # Null /\ ~Live(y)' => home[y] # Null /\ ~Live(y)
      BY <1>0, <1>4, <2>3, <2>4, <3>0 DEF Entities
    <3>3. Refresh(p) /\ Grown /\ UNCHANGED logs
      BY <2>4 DEF CommitAndRefresh, Commit, Grown
    <3> QED BY <3>1, <3>2, <3>3, WriteGone
  <2> QED BY <2>1, <2>4, LeftGone DEF Refuse
<1>7. CASE UpdateRow(p)
  <2> DEFINE x == local[p].row
             Given(new, old) == IF new = Null THEN old ELSE new
             r == [org |-> Tenant(p), key |-> Given(local[p].key, row[x].key),
                   category |-> Given(local[p].category, row[x].category)]
  <2>1. \/ Refuse(p)
        \/ Read(p) /\ UNCHANGED local
        \/ /\ Live(x) /\ row' = [row EXCEPT ![x] = r]
           /\ CommitAndRefresh(p, <<"updated", x>>) /\ UNCHANGED <<home, local>>
    BY <1>7 DEF UpdateRow
  <2>2. CASE Read(p) /\ UNCHANGED local
    BY <1>2, <2>2, WriteGone DEF Read, dbVars, Refresh, Grown, Live
  <2>3. CASE /\ Live(x) /\ row' = [row EXCEPT ![x] = r]
             /\ CommitAndRefresh(p, <<"updated", x>>) /\ UNCHANGED <<home, local>>
    <3>1. x \in Refs
      BY <1>0, <1>7, RowEntry DEF UpdateRow
    <3>2. row[x] \in Row
      BY <1>0, <2>3, <3>1 DEF Live
    <3>3. r # Absent
      <4>1. local[p].key \in Names \union Priorities \union {Null}
            /\ local[p].category \in Categories \union {Null}
        BY <1>0 DEF Local
      <4> QED BY <1>2, <1>5, <3>2, <4>1 DEF Row
    <3> HIDE DEF r, x
    <3>4. \A y \in Refs : Live(y)' <=> Live(y) \/ y = x
      BY <1>4, <2>3, <3>1, <3>3
    <3>5. Refresh(p) /\ Grown /\ UNCHANGED logs
      BY <2>3 DEF CommitAndRefresh, Commit, Grown
    <3> QED BY <1>2, <2>3, <3>4, <3>5, WriteGone
  <2> QED BY <2>1, <2>2, <2>3, LeftGone DEF Refuse
<1> QED BY <1>6, <1>7

\* A deletion: the row goes, and the SLA of a priority with it, or it had gone.
LEMMA DeleteGone ==
  ASSUME Booked, Gone, NEW p \in Procs, DeleteRow(p)
  PROVE  Gone'
<1>0. /\ row \in [Refs -> Row \union {Absent}] /\ done \in [Entries -> Nat]
      /\ Known /\ Tables
  BY DEF Booked, Known, TypeOK
<1>1. At(p, "delete_row")
  BY DEF DeleteRow
<1>2. PICK c : c = local[p]
  OBVIOUS
<1>3. PICK x : x = c.row
  OBVIOUS
<1>4. /\ Running(p) /\ todo[p][1] = "delete_row" /\ c.op = "delete_row" /\ x \in Refs
      /\ c.org \in Orgs /\ home[x] = c.org
  BY <1>0, <1>1, <1>2, <1>3, Who, Callers, Here, Resolved DEF Checks
<1> DEFINE gone == {x} \union {l \in Slas : Live(l) /\ row[l].key = x}
<1>5. \/ /\ row' = [y \in Refs |-> IF y \in gone THEN Absent ELSE row[y]]
         /\ Commit(p, <<"deleted", x>>) /\ Advance(p) /\ UNCHANGED <<home, local>>
      \/ ~Live(x) /\ Read(p) /\ UNCHANGED local
  BY <1>2, <1>3, Zenon DEF DeleteRow
<1>6. Elsewhere(p)
  BY <1>0, <1>5, Moves DEF Read, Advance, Elsewhere
<1>7. local'[p] = c
  BY <1>2, <1>5
<1>8. CASE /\ row' = [y \in Refs |-> IF y \in gone THEN Absent ELSE row[y]]
           /\ Commit(p, <<"deleted", x>>) /\ Advance(p) /\ UNCHANGED <<home, local>>
  <2>1. done' = [done EXCEPT ![<<"deleted", x>>] = @ + 1] /\ UNCHANGED <<logs, home>>
    BY <1>8 DEF Commit
  <2>2. done'[<<"deleted", x>>] > 0
    <3>1. <<"deleted", x>> \in Entries
      BY <1>4 DEF Entries, Entities
    <3> QED BY <1>0, <2>1, <3>1
  <2>3. DeletedOnce(x)' /\ Grown
    BY <2>1, <2>2 DEF DeletedOnce, Grown
  <2>4. ASSUME NEW y \in Refs, ~Live(y)' PROVE ~Live(y) \/ DeletedOnce(y)'
    <3>1. CASE y = x
      BY <2>3, <3>1
    <3>2. CASE y \in Slas /\ Live(y) /\ row[y].key = x
      <4>1. x \in Priorities
        BY <1>0, <3>2 DEF Tables, Sound, Refs
      <4> QED BY <2>2, <3>2, <4>1 DEF DeletedOnce
    <3>3. CASE y \notin gone
      BY <1>8, <2>4, <3>3 DEF Live
    <3> QED BY <3>1, <3>2, <3>3
  <2> QED BY <1>0, <1>3, <1>4, <1>6, <1>7, <2>1, <2>3, <2>4, OneGone
<1>9. CASE ~Live(x) /\ Read(p) /\ UNCHANGED local
  <2>1. UNCHANGED <<row, home, done, logs>> /\ Grown
    BY <1>9 DEF Read, dbVars, Grown
  <2>2. home[x] # Null
    BY <1>4, Apart
  <2>3. DeletedOnce(x)
    BY <1>4, <1>9, <2>2 DEF Gone
  <2>4. DeletedOnce(x)'
    BY <1>0, <1>4, <2>1, <2>3, OnceDeleted
  <2>5. \A y \in Refs : home'[y] # Null /\ ~Live(y)' => home[y] # Null /\ ~Live(y)
    BY <2>1 DEF Live
  <2> QED BY <1>0, <1>3, <1>4, <1>6, <1>7, <2>1, <2>4, <2>5, OneGone
<1> QED BY <1>5, <1>8, <1>9

\* The log, the mail and failures.
LEMMA LogGone ==
  ASSUME Booked, Gone, NEW p \in Procs, Log(p) \/ Mail(p) \/ Fault(p)
  PROVE  Gone'
<1>0. Known /\ logs \in [Entries -> Nat]
  BY DEF Booked, Known, TypeOK
<1>1. CASE Log(p)
  <2> DEFINE e == Entry(local[p])
  <2>1. /\ At(p, "log") /\ Done(p, 1) /\ UNCHANGED <<row, home, done, local>>
        /\ (logs' = [logs EXCEPT ![e] = @ + 1] \/ logs' = logs)
    BY <1>1 DEF Log, Advance, dbVars, Entry
  <2>2. Kept(p) /\ local'[p].row = local[p].row
    BY <2>1, SameLocal
  <2>3. local[p].op \in (TicketOps \union RowOps) \ {"add_note"}
    BY <1>0, <2>1, Who, Callers
  <2>4. /\ e \in Entries /\ (local[p].op \in RowOps => local[p].row \in Refs)
        /\ (local[p].op \in TicketOps => local[p].row = Null /\ local[p].ticket \in Tickets)
    BY <1>0, <2>1, LogEntry
  <2>5. ASSUME NEW x \in Refs, e = <<"deleted", x>>
        PROVE  local[p].op = "delete_row" /\ x = local[p].row
    <3>1. PICK c : c = local[p]
      OBVIOUS
    <3>2. Verb(c) = "deleted" /\ x = IF c.row # Null THEN c.row ELSE c.ticket
      BY <2>5, <3>1 DEF Entry
    <3>3. c.op \in {"delete_ticket", "delete_row"}
      <4>1. c.op \in (TicketOps \union RowOps) \ {"add_note"}
        BY <2>3, <3>1
      <4> QED BY ONLY <3>2, <4>1 DEF Verb, TicketOps, RowOps
    <3>4. c.op \in TicketOps => x \in Tickets
      BY <2>4, <3>1, <3>2
    <3>5. x \notin Tickets
      BY TicketDeskAssumption
    <3>6. c.op = "delete_row"
      BY <3>3, <3>4, <3>5 DEF TicketOps
    <3>7. c.row \in Refs /\ c.row # Null
      BY <2>4, <3>1, <3>6, Apart DEF RowOps, Entities
    <3> QED BY <3>1, <3>2, <3>6, <3>7
  <2>6. \A x \in Refs : logs'[<<"deleted", x>>] > 0 =>
          logs[<<"deleted", x>>] > 0 \/ (local[p].op = "delete_row" /\ x = local[p].row)
    <3> SUFFICES ASSUME NEW x \in Refs, logs'[<<"deleted", x>>] > 0,
                        e # <<"deleted", x>>
                 PROVE  logs[<<"deleted", x>>] > 0
      BY <2>5
    <3>1. <<"deleted", x>> \in Entries
      BY DEF Entries, Entities
    <3> HIDE DEF e
    <3> QED BY <1>0, <2>1, <2>4, <3>1
  <2> QED BY <2>1, <2>2, <2>6, DeletionGoesOn
<1>2. CASE Mail(p)
  <2>1. /\ At(p, "mail")
        /\ \/ Advance(p) /\ UNCHANGED <<dbVars, logs, done, local>>
           \/ Refuse(p)
    BY <1>2 DEF Mail
  <2>2. CASE Advance(p) /\ UNCHANGED <<dbVars, logs, done, local>>
    <3>1. Done(p, 1) /\ Kept(p) /\ local'[p].row = local[p].row
      BY <2>2, SameLocal DEF Advance
    <3> QED BY <2>1, <2>2, <3>1, DeletionGoesOn DEF dbVars
  <2> QED BY <2>1, <2>2, LeftGone DEF Refuse
<1>3. CASE Fail(p)
  BY <1>3, LeftGone DEF Fail
<1>4. CASE Swallowed(p)
  <2>1. PICK s \in {"log", "mail", "tickets_using_it"} : At(p, s)
    BY <1>4 DEF Swallowed
  <2>2. Done(p, 1) /\ UNCHANGED <<row, home, done, logs, local>>
    BY <1>4 DEF Swallowed, dbVars
  <2>3. Kept(p) /\ local'[p].row = local[p].row
    BY <2>2, SameLocal
  <2> QED BY <2>1, <2>2, <2>3, DeletionGoesOn
<1> QED BY <1>1, <1>2, <1>3, <1>4 DEF Fault

\* A new request has nothing to log yet, and no answer.
LEMMA ClientGone ==
  ASSUME Booked, Gone, NEW p \in Procs, Client(p)
  PROVE  Gone'
<1>1. PICK c : Fresh(c) /\ Receive(p, c)
  BY ClientAsks
<1>2. Known
  BY DEF Booked
<1> DEFINE s == Script(c)
<1>3. /\ todo' = [todo EXCEPT ![p] = s] /\ local' = [local EXCEPT ![p] = c]
      /\ answer' = [answer EXCEPT ![p] = Null] /\ UNCHANGED <<row, home, logs, done>>
  BY <1>1 DEF Receive, dbVars
<1>4. s # <<>> /\ s[1] # "log" /\ s \in Seq(Steps)
  BY <1>1 DEF Fresh, Scripted, Rest
<1> HIDE DEF s
<1>5. Elsewhere(p) /\ todo'[p] = s /\ local'[p] = c /\ answer'[p] = Null
  BY <1>2, <1>3 DEF Known, TypeOK, Elsewhere
<1>6. ~At(p, "log")' /\ answer'[p] # "ok"
  BY <1>4, <1>5, HeadOf, TicketDeskAssumption DEF At
<1>7. \A x \in Refs : home'[x] # Null /\ ~Live(x)' => home[x] # Null /\ ~Live(x)
  BY <1>3 DEF Live
<1> QED BY <1>2, <1>3, <1>5, <1>6, <1>7, OneGone DEF Grown

\* What is gone was deleted, after every step.
LEMMA StepGone ==
  ASSUME Booked, Gone, [Next]_vars
  PROVE  Gone'
<1>1. ASSUME NEW p \in Procs, Step(p) PROVE Gone'
  <2>1. CASE \/ DefaultStatus(p) \/ DefaultSla(p) \/ OpenStatus(p) \/ Check(p)
             \/ FindTicket(p) \/ AlreadyOpened(p) \/ FindRow(p) \/ TicketsUsing(p)
             \/ SelectRow(p)
    BY <2>1, LookupGone
  <2>2. CASE SameName(p) \/ InsertTicket(p) \/ Note(p) \/ Merge(p) \/ UpdateTicket(p) \/ SoftDelete(p)
    BY <2>2, SameNameGone, TicketGone
  <2>3. CASE InsertRow(p) \/ UpdateRow(p) \/ DeleteRow(p) \/ Log(p) \/ Mail(p)
    BY <2>3, RowGone, DeleteGone, LogGone
  <2> QED BY <1>1, <2>1, <2>2, <2>3 DEF Step
<1>2. CASE Next
  <2>1. PICK p \in Procs : Client(p) \/ Step(p) \/ Fault(p)
    BY <1>2 DEF Next
  <2> QED BY <1>1, <2>1, ClientGone, LogGone
<1>3. CASE UNCHANGED vars
  BY <1>3 DEF vars, Gone, DeletedOnce, Live, At
<1> QED BY <1>2, <1>3

\* Nothing is gone in the beginning.
LEMMA InitGone == Init => Gone
<1> SUFFICES ASSUME Init PROVE Gone
  OBVIOUS
<1>1. /\ logs = [e \in Entries |-> 0] /\ todo = [p \in Procs |-> <<>>]
      /\ answer = [p \in Procs |-> Null]
      /\ home = [x \in Entities |->
                   LET r == IF x \in Tickets THEN ticket[x] ELSE row[x]
                   IN  IF r = Absent THEN Null ELSE r.org]
  BY DEF Init
<1>2. \A x \in Refs : x \in Entities /\ x \notin Tickets /\ <<"deleted", x>> \in Entries
  BY TicketDeskAssumption DEF Entities, Entries
<1>3. \A x \in Refs : home[x] # Null => Live(x)
  BY <1>1, <1>2 DEF Live
<1>4. \A x \in Refs : logs[<<"deleted", x>>] = 0
  BY <1>1, <1>2
<1>5. \A p \in Procs : ~At(p, "log") /\ answer[p] # "ok"
  BY <1>1, TicketDeskAssumption DEF At
<1> QED BY <1>3, <1>4, <1>5 DEF Gone

\* It stays so.
LEMMA GoneAlways == Spec => [](Booked /\ Gone)
<1>1. Init => Booked /\ Gone
  BY InitBooked, InitGone
<1>2. Booked /\ Gone /\ [Next]_vars => (Booked /\ Gone)'
  BY StepBooked, StepGone
<1> QED BY <1>1, <1>2, PTL DEF Spec

\* The log claims no more than was committed, but for updates and deletions that another
\* request was faster with, and of those deletions only of rows that were deleted; it
\* misses no creation or deletion of a setting unless a call failed, and no mail is about
\* a ticket that was not stored, however the requests interleave.
THEOREM LogBacked == Spec => []AuditBacked
<1>1. ASSUME Booked, Gone PROVE AuditBacked
  <2>0. Known /\ Backed
    BY <1>1 DEF Booked
  <2>1. \A e : Pending(e) \in SUBSET Procs
    BY DEF Pending
  <2>2. \A t : Mailing(t) \in SUBSET Procs
    BY DEF Mailing
  <2>3. \A S \in SUBSET Procs : Cardinality(S) \in Nat
    BY TicketDeskAssumption, FS_Subset, FS_CardinalityType
  <2>4. \A e \in Entries : e \in {"updated", "deleted"} \X Refs \/ logs[e] <= done[e]
    <3> TAKE e \in Entries
    <3>1. /\ Cardinality(Pending(e)) \in Nat /\ logs[e] \in Nat /\ done[e] \in Nat
      BY <2>0, <2>1, <2>3, Books
    <3> QED BY <2>0, <3>1 DEF Backed, Loose
  <2>5. ASSUME Idle, faults = 0, NEW e \in RowEntries
        PROVE  logs[e] >= done[e] /\ (e \in Loose \/ logs[e] = done[e])
    <3>1. Pending(e) = {}
      BY <2>5 DEF Idle, Pending, At
    <3>2. Cardinality({}) = 0
      BY FS_EmptySet
    <3>3. e \in Entries /\ logs[e] \in Nat /\ done[e] \in Nat
      BY <2>0, <2>5, Books DEF RowEntries, Entries, Entities
    <3>4. logs[e] + 0 >= done[e] /\ (e \in Loose \/ logs[e] + 0 <= done[e])
      BY <2>0, <2>5, <3>1, <3>2, <3>3 DEF Backed
    <3> QED BY <3>3, <3>4
  <2>6. ASSUME Idle, faults = 0, NEW x \in Refs
        PROVE  /\ logs[<<"created", x>>] = done[<<"created", x>>]
               /\ logs[<<"deleted", x>>] >= done[<<"deleted", x>>]
    <3>1. /\ <<"created", x>> \in RowEntries /\ <<"created", x>> \notin Loose
          /\ <<"deleted", x>> \in RowEntries
      BY DEF RowEntries, Loose
    <3> QED BY <2>5, <2>6, <3>1
  <2>7. \A t \in Tickets : mailed[t] <= done[<<"created", t>>]
    <3> TAKE t \in Tickets
    <3>1. /\ Cardinality(Mailing(t)) \in Nat /\ mailed[t] \in Nat
          /\ done[<<"created", t>>] \in Nat
      BY <2>0, <2>2, <2>3, Books
    <3> QED BY <2>0, <3>1 DEF Backed
  <2>8. \A x \in Refs : logs[<<"deleted", x>>] > 0 => DeletedOnce(x)
    BY <1>1 DEF Gone
  <2> QED BY <2>4, <2>6, <2>7, <2>8 DEF AuditBacked
<1> QED BY <1>1, GoneAlways, PTL

\* The answer to a request on settings tells what became of it, however many requests
\* run, whatever rows they find gone and whatever call fails after a commit.
THEOREM AnswersHonest == Spec => []AnswerHonest
<1>1. ASSUME Booked, Gone PROVE AnswerHonest
  <2> SUFFICES ASSUME NEW p \in Procs, local[p].op \in RowOps
               PROVE  LET c == local[p]
                          asked == IF c.op = "create_row" /\ c.extra THEN 2 ELSE 1
                      IN  /\ answer[p] = "error" /\ (c.op = "delete_row" \/ faults = 0)
                             => wrote[p] < asked
                          /\ answer[p] = "ok" /\ c.op = "create_row" /\ c.kind # "status"
                             => wrote[p] = asked
                          /\ answer[p] = "ok" /\ c.op = "delete_row" => DeletedOnce(c.row)
    BY DEF AnswerHonest
  <2>1. local[p].extra \in BOOLEAN
    BY <1>1 DEF Booked, Known, TypeOK, Local
  <2>2. Due(local[p], 0) = IF local[p].op = "create_row" /\ local[p].extra THEN 2 ELSE 1
    BY <2>1 DEF Due, Twice
  <2>3. Null # "ok" /\ Null # "error"
    BY TicketDeskAssumption
  <2>4. Answered(local[p], wrote[p], answer[p], faults)
    <3>1. CASE Running(p)
      BY <1>1, <2>3, <3>1 DEF Booked, Counted, OnTime, Answered
    <3>2. CASE ~Running(p)
      BY <1>1, <3>2 DEF Booked, Counted
    <3> QED BY <3>1, <3>2
  <2>5. answer[p] = "ok" /\ local[p].op = "delete_row" => DeletedOnce(local[p].row)
    BY <1>1 DEF Gone
  <2> QED BY <2>2, <2>4, <2>5 DEF Answered, Exact
<1> QED BY <1>1, GoneAlways, PTL

=============================================================================
