-------------------------- MODULE ChatMessagesProofs --------------------------
(***************************************************************************)
(* Proofs about conversations and their messages: types, customers who     *)
(* reopen a conversation, its last message, who hears of a message, and    *)
(* the memberships of agents; for any number of tasks, conversations and   *)
(* messages and any choice of operations.                                  *)
(***************************************************************************)
EXTENDS ChatMessagesProps, SequenceTheorems, FiniteSetTheorems, TLAPS

-----------------------------------------------------------------------------
(* Where a request is.                                                     *)

Is1(t, a) == Len(t) = 1 /\ t[1] = a
Is2(t, a, b) == Len(t) = 2 /\ t[1] = a /\ t[2] = b
Is3(t, a, b, c) == Len(t) = 3 /\ t[1] = a /\ t[2] = b /\ t[3] = c
Is4(t, a, b, c, d) == Len(t) = 4 /\ t[1] = a /\ t[2] = b /\ t[3] = c /\ t[4] = d
Is5(t, a, b, c, d, e) ==
  Len(t) = 5 /\ t[1] = a /\ t[2] = b /\ t[3] = c /\ t[4] = d /\ t[5] = e
Is6(t, a, b, c, d, e, f) ==
  /\ Len(t) = 6 /\ t[1] = a /\ t[2] = b /\ t[3] = c /\ t[4] = d /\ t[5] = e
  /\ t[6] = f
Is7(t, a, b, c, d, e, f, g) ==
  /\ Len(t) = 7 /\ t[1] = a /\ t[2] = b /\ t[3] = c /\ t[4] = d /\ t[5] = e
  /\ t[6] = f /\ t[7] = g

\* What may be left of a request.
RestOfSaying(l, t) ==
  IF l.user
  THEN \/ Is3(t, "Find", "Insert", "Publish") \/ Is2(t, "Insert", "Publish")
       \/ Is1(t, "Publish")
  ELSE \/ Is5(t, "Find", "Insert", "Reopen", "TellReopened", "Publish")
       \/ Is4(t, "Insert", "Reopen", "TellReopened", "Publish")
       \/ Is3(t, "Reopen", "TellReopened", "Publish")
       \/ Is2(t, "TellReopened", "Publish") \/ Is1(t, "Publish")

RestOfOpening(l, t) ==
  IF l.agent
  THEN \/ Is7(t, "Create", "Seat", "Find", "Insert", "Reopen", "TellReopened", "Publish")
       \/ Is6(t, "Seat", "Find", "Insert", "Reopen", "TellReopened", "Publish")
       \/ Is5(t, "Find", "Insert", "Reopen", "TellReopened", "Publish")
       \/ Is4(t, "Insert", "Reopen", "TellReopened", "Publish")
       \/ Is3(t, "Reopen", "TellReopened", "Publish")
       \/ Is2(t, "TellReopened", "Publish") \/ Is1(t, "Publish")
  ELSE \/ Is7(t, "Create", "Find", "Insert", "Reopen", "TellReopened", "Publish", "Seat")
       \/ Is6(t, "Find", "Insert", "Reopen", "TellReopened", "Publish", "Seat")
       \/ Is5(t, "Insert", "Reopen", "TellReopened", "Publish", "Seat")
       \/ Is4(t, "Reopen", "TellReopened", "Publish", "Seat")
       \/ Is3(t, "TellReopened", "Publish", "Seat")
       \/ Is2(t, "Publish", "Seat") \/ Is1(t, "Seat")

RestOfOther(l, t) ==
  \/ /\ l.op = "edit"
     /\ \/ Is3(t, "FindMessage", "Rewrite", "PublishEdit")
        \/ Is2(t, "Rewrite", "PublishEdit") \/ Is1(t, "PublishEdit")
  \/ /\ l.op = "see"
     /\ \/ Is3(t, "MarkSeen", "SaveLast", "PublishSeen")
        \/ Is2(t, "SaveLast", "PublishSeen") \/ Is1(t, "PublishSeen")
  \/ l.op = "resolve" /\ (Is2(t, "Find", "Resolve") \/ Is1(t, "Resolve"))
  \/ l.op = "join" /\ (Is2(t, "FindMember", "AddMember") \/ Is1(t, "AddMember"))

Rest(l, t) ==
  \/ l.op = "say" /\ RestOfSaying(l, t)
  \/ l.op = "open" /\ ~l.user /\ RestOfOpening(l, t)
  \/ RestOfOther(l, t)

\* The step after another.
After(l, x) ==
  CASE x = "Create" -> IF l.agent THEN "Seat" ELSE "Find"
    [] x = "Seat" -> IF l.agent THEN "Find" ELSE "end"
    [] x = "Find" -> IF l.op = "resolve" THEN "Resolve" ELSE "Insert"
    [] x = "Insert" -> IF l.user THEN "Publish" ELSE "Reopen"
    [] x = "Reopen" -> "TellReopened"
    [] x = "TellReopened" -> "Publish"
    [] x = "Publish" -> IF l.op = "open" /\ ~l.agent THEN "Seat" ELSE "end"
    [] x = "FindMessage" -> "Rewrite"
    [] x = "Rewrite" -> "PublishEdit"
    [] x = "MarkSeen" -> "SaveLast"
    [] x = "SaveLast" -> "PublishSeen"
    [] x = "FindMember" -> "AddMember"
    [] x \in {"Resolve", "PublishEdit", "PublishSeen", "AddMember"} -> "end"

\* Who comes to a step.
Comes(l, x) ==
  /\ x \in {"Create", "Seat"} => l.op = "open"
  /\ x = "Find" => l.op \in {"say", "open", "resolve"}
  /\ x \in {"Insert", "Publish"} => l.op \in {"say", "open"}
  /\ x \in {"Reopen", "TellReopened"} => l.op \in {"say", "open"} /\ ~l.user
  /\ x = "Resolve" => l.op = "resolve"
  /\ x \in {"FindMessage", "Rewrite", "PublishEdit"} => l.op = "edit"
  /\ x \in {"MarkSeen", "SaveLast", "PublishSeen"} => l.op = "see"
  /\ x \in {"FindMember", "AddMember"} => l.op = "join"

\* After a step the rest begins with the next one.
LEMMA RestNext ==
  ASSUME NEW l, NEW t \in Seq(Steps), Rest(l, t)
  PROVE  /\ t # <<>> /\ Tail(t) \in Seq(Steps)
         /\ Head(t) \in Steps /\ Comes(l, Head(t))
         /\ Len(t) = 1 <=> After(l, Head(t)) = "end"
         /\ Len(t) = 1 <=> Tail(t) = <<>>
         /\ Tail(t) # <<>> => Rest(l, Tail(t)) /\ Head(Tail(t)) = After(l, Head(t))
<1>1. Len(t) # 0
  BY DEF Rest, RestOfSaying, RestOfOpening, RestOfOther, Is1, Is2, Is3, Is4, Is5, Is6, Is7
<1>2. t # <<>>
  BY <1>1, EmptySeq
<1>3. /\ Tail(t) \in Seq(Steps) /\ Len(t) \in Nat
      /\ Len(Tail(t)) = Len(t) - 1 /\ Head(t) = t[1] /\ Head(t) \in Steps
      /\ \A i \in 1 .. Len(Tail(t)) : Tail(t)[i] = t[i + 1]
  BY <1>2, HeadTailProperties, LenProperties
<1>4. Len(Tail(t)) = 0 <=> Tail(t) = <<>>
  BY <1>3, EmptySeq
<1>5. Len(t) = 1 <=> Len(Tail(t)) = 0
  BY <1>3
<1>6. Tail(t) # <<>> => Head(Tail(t)) = t[2]
  <2>1. Tail(t) # <<>> => Head(Tail(t)) = Tail(t)[1] /\ Len(Tail(t)) # 0
    BY <1>3, <1>4
  <2>2. Len(Tail(t)) # 0 => Tail(t)[1] = t[2]
    BY <1>3
  <2> QED BY <2>1, <2>2
<1>7. CASE l.op = "say" /\ RestOfSaying(l, t)
  <2> USE <1>7 DEF RestOfSaying, Is1, Is2, Is3, Is4, Is5
  <2>1. Comes(l, t[1])
    BY DEF Comes
  <2>2. Len(t) = 1 <=> After(l, t[1]) = "end"
    BY DEF After
  <2>3. Len(Tail(t)) = 0 \/ RestOfSaying(l, Tail(t))
    BY <1>3
  <2>4. Len(t) # 1 => t[2] = After(l, t[1])
    BY DEF After
  <2> QED BY <1>2, <1>3, <1>4, <1>5, <1>6, <2>1, <2>2, <2>3, <2>4 DEF Rest
<1>8. CASE l.op = "open" /\ ~l.user /\ RestOfOpening(l, t)
  <2> USE <1>8 DEF RestOfOpening, Is1, Is2, Is3, Is4, Is5, Is6, Is7
  <2>1. Comes(l, t[1])
    BY DEF Comes
  <2>2. Len(t) = 1 <=> After(l, t[1]) = "end"
    BY DEF After
  <2>3. Len(Tail(t)) = 0 \/ RestOfOpening(l, Tail(t))
    BY <1>3
  <2>4. Len(t) # 1 => t[2] = After(l, t[1])
    BY DEF After
  <2> QED BY <1>2, <1>3, <1>4, <1>5, <1>6, <2>1, <2>2, <2>3, <2>4 DEF Rest
<1>9. CASE RestOfOther(l, t)
  <2> USE <1>9 DEF RestOfOther, Is1, Is2, Is3
  <2>1. Comes(l, t[1])
    BY DEF Comes
  <2>2. Len(t) = 1 <=> After(l, t[1]) = "end"
    BY DEF After
  <2>3. Len(Tail(t)) = 0 \/ RestOfOther(l, Tail(t))
    BY <1>3
  <2>4. Len(t) # 1 => t[2] = After(l, t[1])
    BY DEF After
  <2> QED BY <1>2, <1>3, <1>4, <1>5, <1>6, <2>1, <2>2, <2>3, <2>4 DEF Rest
<1> QED BY <1>7, <1>8, <1>9 DEF Rest

\* The first step of a request.
First(op) ==
  CASE op \in {"say", "resolve"} -> "Find"
    [] op = "open" -> "Create"
    [] op = "edit" -> "FindMessage"
    [] op = "see" -> "MarkSeen"
    [] op = "join" -> "FindMember"

LEMMA ScriptRest ==
  ASSUME NEW l, l.op \in {"say", "edit", "see", "resolve", "join", "open"},
         l.op = "open" => ~l.user
  PROVE  /\ Script(l) \in Seq(Steps) /\ Script(l) # <<>>
         /\ Rest(l, Script(l)) /\ Head(Script(l)) = First(l.op)
<1> USE EmptySeq DEF Steps, First
<1>1. CASE l.op = "edit"
  <2>1. Script(l) = <<"FindMessage", "Rewrite", "PublishEdit">>
    BY <1>1 DEF Script
  <2> QED BY <1>1, <2>1 DEF Rest, RestOfOther, Is3
<1>2. CASE l.op = "see"
  <2>1. Script(l) = <<"MarkSeen", "SaveLast", "PublishSeen">>
    BY <1>2 DEF Script
  <2> QED BY <1>2, <2>1 DEF Rest, RestOfOther, Is3
<1>3. CASE l.op = "resolve"
  <2>1. Script(l) = <<"Find", "Resolve">>
    BY <1>3 DEF Script
  <2> QED BY <1>3, <2>1 DEF Rest, RestOfOther, Is2
<1>4. CASE l.op = "join"
  <2>1. Script(l) = <<"FindMember", "AddMember">>
    BY <1>4 DEF Script
  <2> QED BY <1>4, <2>1 DEF Rest, RestOfOther, Is2
<1>5. CASE l.op = "say" /\ l.user
  <2>1. Script(l) = <<"Find", "Insert", "Publish">>
    BY <1>5 DEF Script
  <2> QED BY <1>5, <2>1 DEF Rest, RestOfSaying, Is3
<1>6. CASE l.op = "say" /\ ~l.user
  <2>1. Script(l) = <<"Find", "Insert", "Reopen", "TellReopened", "Publish">>
    BY <1>6 DEF Script, Saying
  <2> QED BY <1>6, <2>1 DEF Rest, RestOfSaying, Is5
<1>7. CASE l.op = "open"
  <2>0. /\ Saying \in Seq(Steps) /\ Len(Saying) = 5
        /\ Saying[1] = "Find" /\ Saying[2] = "Insert" /\ Saying[3] = "Reopen"
        /\ Saying[4] = "TellReopened" /\ Saying[5] = "Publish"
    BY DEF Saying
  <2>c. ASSUME NEW a \in Seq(Steps), NEW b \in Seq(Steps)
        PROVE  /\ a \o b \in Seq(Steps) /\ Len(a \o b) = Len(a) + Len(b)
               /\ \A i \in 1 .. Len(a) + Len(b) :
                    (a \o b)[i] = IF i <= Len(a) THEN a[i] ELSE b[i - Len(a)]
    BY ConcatProperties
  <2>d. ASSUME NEW s \in Seq(Steps), Len(s) = 7
        PROVE  s # <<>> /\ Head(s) = s[1]
    <3>1. s # <<>>
      BY <2>d, EmptySeq
    <3> QED BY <3>1, HeadTailProperties
  <2>1. CASE l.agent
    <3>1. PICK a : a = <<"Create", "Seat">>
      OBVIOUS
    <3>2. a \in Seq(Steps) /\ Len(a) = 2 /\ a[1] = "Create" /\ a[2] = "Seat"
      BY <3>1
    <3>3. PICK s : s = a \o Saying
      OBVIOUS
    <3>4. /\ s \in Seq(Steps) /\ Len(s) = Len(a) + Len(Saying)
          /\ \A i \in 1 .. Len(a) + Len(Saying) :
               s[i] = IF i <= Len(a) THEN a[i] ELSE Saying[i - Len(a)]
      BY <2>0, <2>c, <3>2, <3>3
    <3>5. Len(s) = 7 /\ \A i \in 1 .. 7 : s[i] = IF i <= 2 THEN a[i] ELSE Saying[i - 2]
      BY <2>0, <3>2, <3>4
    <3>6. Is7(s, "Create", "Seat", "Find", "Insert", "Reopen", "TellReopened", "Publish")
      BY <2>0, <3>2, <3>5 DEF Is7
    <3>7. Script(l) = s
      BY <1>7, <2>1, <3>1, <3>3 DEF Script
    <3>8. Rest(l, s)
      BY <1>7, <2>1, <3>6 DEF Rest, RestOfOpening
    <3>9. s # <<>> /\ Head(s) = "Create"
      BY <2>d, <3>4, <3>6 DEF Is7
    <3> QED BY <1>7, <3>4, <3>7, <3>8, <3>9
  <2>2. CASE ~l.agent
    <3>1. PICK a, b : a = <<"Create">> /\ b = <<"Seat">>
      OBVIOUS
    <3>2. /\ a \in Seq(Steps) /\ Len(a) = 1 /\ a[1] = "Create"
          /\ b \in Seq(Steps) /\ Len(b) = 1 /\ b[1] = "Seat"
      BY <3>1
    <3>3. PICK c : c = a \o Saying
      OBVIOUS
    <3>4. /\ c \in Seq(Steps) /\ Len(c) = Len(a) + Len(Saying)
          /\ \A i \in 1 .. Len(a) + Len(Saying) :
               c[i] = IF i <= Len(a) THEN a[i] ELSE Saying[i - Len(a)]
      BY <2>0, <2>c, <3>2, <3>3
    <3>5. Len(c) = 6 /\ \A i \in 1 .. 6 : c[i] = IF i <= 1 THEN a[i] ELSE Saying[i - 1]
      BY <2>0, <3>2, <3>4
    <3>6. PICK s : s = c \o b
      OBVIOUS
    <3>7. /\ s \in Seq(Steps) /\ Len(s) = Len(c) + Len(b)
          /\ \A i \in 1 .. Len(c) + Len(b) :
               s[i] = IF i <= Len(c) THEN c[i] ELSE b[i - Len(c)]
      BY <2>c, <3>2, <3>4, <3>6
    <3>8. Len(s) = 7 /\ \A i \in 1 .. 7 : s[i] = IF i <= 6 THEN c[i] ELSE b[i - 6]
      BY <3>2, <3>5, <3>7
    <3>9. Is7(s, "Create", "Find", "Insert", "Reopen", "TellReopened", "Publish", "Seat")
      BY <2>0, <3>2, <3>5, <3>8 DEF Is7
    <3>10. Script(l) = s
      BY <1>7, <2>2, <3>1, <3>3, <3>6 DEF Script
    <3>11. Rest(l, s)
      BY <1>7, <2>2, <3>9 DEF Rest, RestOfOpening
    <3>12. s # <<>> /\ Head(s) = "Create"
      BY <2>d, <3>7, <3>9 DEF Is7
    <3> QED BY <1>7, <3>7, <3>10, <3>11, <3>12
  <2> QED BY <2>1, <2>2
<1> QED BY <1>1, <1>2, <1>3, <1>4, <1>5, <1>6, <1>7

\* What a task does next; "end": it waits for a request.
Pc(p) == IF Running(p) THEN Head(todo[p]) ELSE "end"

Follows == \A p \in Procs : Running(p) => Rest(local[p], todo[p])

\* What the steps of a request never change in its parameters.
Same(l, n) ==
  /\ n.op = l.op /\ n.agent = l.agent /\ n.user = l.user
  /\ n.org = l.org /\ n.conv = l.conv

LEMMA RestSame ==
  ASSUME NEW l, NEW n, Same(l, n), NEW t, Rest(l, t)
  PROVE  Rest(n, t)
<1>1. CASE l.op = "say" /\ RestOfSaying(l, t)
  BY <1>1 DEF Same, Rest, RestOfSaying
<1>2. CASE l.op = "open" /\ ~l.user /\ RestOfOpening(l, t)
  BY <1>2 DEF Same, Rest, RestOfOpening
<1>3. CASE RestOfOther(l, t)
  BY <1>3 DEF Same, Rest, RestOfOther
<1> QED BY <1>1, <1>2, <1>3 DEF Rest

\* Where a task is, and who comes there.
LEMMA Where ==
  ASSUME TypeOK, Follows, NEW p \in Procs
  PROVE  /\ Running(p) <=> Pc(p) # "end"
         /\ Running(p) => Pc(p) \in Steps /\ Comes(local[p], Pc(p))
<1>1. "end" \notin Steps
  BY DEF Steps
<1>2. ASSUME Running(p) PROVE Pc(p) \in Steps /\ Comes(local[p], Pc(p))
  <2>1. todo[p] \in Seq(Steps) /\ Rest(local[p], todo[p])
    BY <1>2 DEF TypeOK, Follows
  <2> QED BY <1>2, <2>1, RestNext DEF Pc
<1> QED BY <1>1, <1>2 DEF Pc

\* A local variable gets a value.
LEMMA Kept ==
  ASSUME TypeOK, NEW p \in Procs, NEW f \in {"resolved", "id", "old", "text"}, NEW v,
         Keep(p, f, v),
         f = "resolved" => v \in BOOLEAN, f = "id" => v \in Ids,
         f = "old" => v \in Nat, f = "text" => v \in Nat
  PROVE  /\ local' \in [Procs -> Local]
         /\ \A q \in Procs \ {p} : local'[q] = local[q]
         /\ Same(local[p], local'[p]) /\ local'[p][f] = v
         /\ f # "resolved" => local'[p].resolved = local[p].resolved
         /\ f # "id" => local'[p].id = local[p].id
         /\ f # "text" => local'[p].text = local[p].text
<1>1. local \in [Procs -> Local]
  BY DEF TypeOK
<1>2. PICK l \in Local : l = local[p]
  BY <1>1
<1>3. PICK n : n = [l EXCEPT ![f] = v]
  OBVIOUS
<1>4. n \in Local
  <2>1. CASE f = "resolved"
    BY <1>3, <2>1 DEF Local
  <2>2. CASE f = "id"
    BY <1>3, <2>2 DEF Local
  <2>3. CASE f = "old"
    BY <1>3, <2>3 DEF Local
  <2>4. CASE f = "text"
    BY <1>3, <2>4 DEF Local
  <2> QED BY <2>1, <2>2, <2>3, <2>4
<1>5. /\ Same(l, n) /\ n[f] = v
      /\ f # "resolved" => n.resolved = l.resolved
      /\ f # "id" => n.id = l.id
      /\ f # "text" => n.text = l.text
  BY <1>3 DEF Local, Same
<1>6. local' = [local EXCEPT ![p] = n]
  BY <1>2, <1>3 DEF Keep
<1>7. local'[p] = n
  BY <1>1, <1>6
<1> QED BY <1>1, <1>2, <1>4, <1>5, <1>6, <1>7

\* A task took its step and comes to the next one, or has answered.
Advanced(p) ==
  /\ Pc(p)' = After(local[p], Pc(p))
  /\ answer'[p] = IF Pc(p)' = "end" THEN "ok" ELSE None

Left(p) ==
  /\ Pc(p)' = "end"
  /\ Pc(p) = "FindMember" \/ answer'[p] = "error"

Skipped(p) == Pc(p) = "Reopen" /\ Pc(p)' = "Publish" /\ ~local[p].resolved

\* What becomes of the requests when a task takes a step.
Moved(p) ==
  /\ todo' \in [Procs -> Seq(Steps)] /\ answer' \in [Procs -> {None, "ok", "error"}]
  /\ \A q \in Procs \ {p} : todo'[q] = todo[q] /\ answer'[q] = answer[q]
  /\ Running(p)' => Rest(local[p], todo'[p])

LEMMA Goes ==
  ASSUME TypeOK, Follows, NEW p \in Procs, Running(p), Advance(p)
  PROVE  Moved(p) /\ Advanced(p)
<1> DEFINE l == local[p]
           t == todo[p]
<1>1. t \in Seq(Steps) /\ t # <<>> /\ Rest(l, t)
  BY DEF TypeOK, Follows, Running
<1>2. /\ Tail(t) \in Seq(Steps)
      /\ Len(t) = 1 <=> After(l, Head(t)) = "end"
      /\ Len(t) = 1 <=> Tail(t) = <<>>
      /\ Tail(t) # <<>> => Rest(l, Tail(t)) /\ Head(Tail(t)) = After(l, Head(t))
  BY <1>1, RestNext
<1>3. todo \in [Procs -> Seq(Steps)] /\ answer \in [Procs -> {None, "ok", "error"}]
  BY DEF TypeOK
<1>4. /\ todo' = [todo EXCEPT ![p] = Tail(t)]
      /\ answer' = [answer EXCEPT ![p] = IF Len(t) = 1 THEN "ok" ELSE None]
  BY DEF Advance
<1> HIDE DEF l, t
<1>5. todo'[p] = Tail(t) /\ answer'[p] = IF Len(t) = 1 THEN "ok" ELSE None
  BY <1>3, <1>4
<1>6. Moved(p)
  BY <1>2, <1>3, <1>4, <1>5 DEF Moved, Running, l
<1>7. Pc(p) = Head(t)
  BY <1>1 DEF Pc, Running, t
<1>8. Pc(p)' = After(l, Head(t))
  BY <1>2, <1>5 DEF Pc, Running
<1>9. Advanced(p)
  BY <1>2, <1>5, <1>7, <1>8 DEF Advanced, l
<1> QED BY <1>6, <1>9

LEMMA Leaves ==
  ASSUME TypeOK, NEW p \in Procs, NEW r \in {"ok", "error"}, Leave(p, r),
         r = "error" \/ Pc(p) = "FindMember"
  PROVE  Moved(p) /\ Left(p)
<1>1. todo \in [Procs -> Seq(Steps)] /\ answer \in [Procs -> {None, "ok", "error"}]
  BY DEF TypeOK
<1>2. <<>> \in Seq(Steps)
  BY EmptySeq
<1>3. todo' = [todo EXCEPT ![p] = <<>>] /\ answer' = [answer EXCEPT ![p] = r]
  BY DEF Leave
<1>4. todo'[p] = <<>> /\ answer'[p] = r
  BY <1>1, <1>3
<1> QED BY <1>1, <1>2, <1>3, <1>4 DEF Moved, Left, Running, Pc

LEMMA Skips ==
  ASSUME TypeOK, Follows, NEW p \in Procs, NotResolved(p)
  PROVE  Moved(p) /\ Skipped(p)
<1> DEFINE l == local[p]
           t == todo[p]
<1>1. t \in Seq(Steps) /\ t # <<>> /\ Rest(l, t) /\ Head(t) = "Reopen"
  BY DEF TypeOK, Follows, Running, NotResolved, At
<1>2. todo \in [Procs -> Seq(Steps)] /\ answer \in [Procs -> {None, "ok", "error"}]
  BY DEF TypeOK
<1>3. todo' = [todo EXCEPT ![p] = Tail(Tail(t))] /\ answer' = answer
  BY DEF NotResolved
<1> HIDE DEF l, t
<1>4. /\ Tail(t) \in Seq(Steps) /\ Tail(t) # <<>> /\ Rest(l, Tail(t))
      /\ Head(Tail(t)) = "TellReopened"
  BY <1>1, RestNext DEF After
<1>5. /\ Tail(Tail(t)) \in Seq(Steps) /\ Tail(Tail(t)) # <<>> /\ Rest(l, Tail(Tail(t)))
      /\ Head(Tail(Tail(t))) = "Publish"
  BY <1>4, RestNext DEF After
<1>6. todo'[p] = Tail(Tail(t))
  BY <1>2, <1>3
<1>7. Pc(p) = "Reopen" /\ Pc(p)' = "Publish"
  BY <1>1, <1>5, <1>6 DEF Pc, Running, t
<1>8. ~local[p].resolved
  BY DEF NotResolved
<1> QED BY <1>2, <1>3, <1>5, <1>6, <1>7, <1>8 DEF Moved, Skipped, l

-----------------------------------------------------------------------------
(* What a request knows.                                                   *)

\* The request is under way, or was answered with success.
Alive(p) == Running(p) \/ answer[p] = "ok"

ToFind(p) == Pc(p) \in {"Create", "Find"} \/ (Pc(p) = "Seat" /\ local[p].agent)
ToInsert(p) == ToFind(p) \/ Pc(p) = "Insert"
ToPublish(p) == ToInsert(p) \/ Pc(p) \in {"Reopen", "TellReopened", "Publish"}

\* The conversation and the message a request is about.
Informed(p) ==
  LET l == local[p]
  IN  Alive(p) =>
        /\ l.op \in Ops /\ l.conv \in Convs /\ l.org \in Orgs
        /\ l.op = "open" => ~l.user
        /\ Pc(p) # "Create" => Stored(conv, l.conv)
        /\ l.op = "open" /\ Pc(p) # "Create" => conv[l.conv].org = l.org
        /\ l.op = "say" /\ Pc(p) # "Find" => conv[l.conv].org = l.org
        /\ l.op \in {"say", "open"} /\ ~ToInsert(p) =>
             l.id \in Ids /\ Stored(msg, l.id) /\ msg[l.id].conv = l.conv
        /\ l.op \in {"edit", "see"} =>
             l.id \in Ids /\ Stored(msg, l.id) /\ msg[l.id].conv = l.conv

Touched ==
  \A k \in Convs : touched[k] # None =>
    Stored(msg, touched[k]) /\ msg[touched[k]].conv = k

Known == TypeOK /\ Follows /\ Touched /\ \A p \in Procs : Informed(p)

\* Conversations and messages stay, and where they belong.
Grown ==
  /\ \A k \in Convs : Stored(conv, k) =>
       Stored(conv', k) /\ conv'[k].org = conv[k].org /\ conv'[k].guest = conv[k].guest
  /\ \A m \in Ids : Stored(msg, m) => Stored(msg', m) /\ msg'[m].conv = msg[m].conv

\* A row that is there.
LEMMA Rows ==
  ASSUME TypeOK
  PROVE  /\ \A k \in Convs : Stored(conv, k) => conv[k] \in Conv
         /\ \A m \in Ids : Stored(msg, m) => msg[m] \in Message
         /\ \A c \in Conv : c # Absent /\ c.org \in Orgs /\ c.guest \in Guests
                            /\ c.resolved \in BOOLEAN
         /\ \A x \in Message : x # Absent /\ x.conv \in Convs /\ x.text \in Nat
                               /\ x.seen \in BOOLEAN
<1>1. \A c \in Conv : c # Absent
  BY ChatAssumption
<1>2. \A x \in Message : x # Absent
  BY ChatAssumption
<1>3. \A k \in Convs : Stored(conv, k) => conv[k] \in Conv
  BY DEF TypeOK, Stored
<1>4. \A m \in Ids : Stored(msg, m) => msg[m] \in Message
  BY DEF TypeOK, Stored
<1>5. \A c \in Conv : c.org \in Orgs /\ c.guest \in Guests /\ c.resolved \in BOOLEAN
  BY DEF Conv
<1>6. \A x \in Message : x.conv \in Convs /\ x.text \in Nat /\ x.seen \in BOOLEAN
  BY DEF Message
<1> QED BY <1>1, <1>2, <1>3, <1>4, <1>5, <1>6

\* What the steps do to the tables.
Quiet == UNCHANGED <<conv, msg, last, tasks, touched>>

Flags(k, b) ==
  /\ conv' \in [Convs -> Conv \union {Absent}]
  /\ \A j \in Convs \ {k} : conv'[j] = conv[j]
  /\ Stored(conv, k) /\ Stored(conv', k) /\ conv'[k].resolved = b
  /\ conv'[k].org = conv[k].org /\ conv'[k].guest = conv[k].guest
  /\ UNCHANGED <<msg, last, tasks, touched>>

Founds(k, o) ==
  /\ conv' \in [Convs -> Conv \union {Absent}]
  /\ \A j \in Convs \ {k} : conv'[j] = conv[j]
  /\ ~Stored(conv, k) /\ Stored(conv', k) /\ conv'[k].resolved = FALSE
  /\ conv'[k].org = o
  /\ UNCHANGED <<msg, last, tasks, touched>>

Stores(k, m, x) ==
  /\ m \in Ids /\ x \in Message /\ x.conv = k
  /\ Stored(msg, m) => msg[m].conv = k
  /\ Store(k, m, x)
  /\ UNCHANGED <<conv, last>>

LEMMA Flagging ==
  ASSUME TypeOK, NEW k \in Convs, Stored(conv, k), NEW b \in BOOLEAN,
         conv' = [conv EXCEPT ![k].resolved = b], UNCHANGED <<msg, last, tasks, touched>>
  PROVE  Flags(k, b)
<1>1. PICK c \in Conv : c = conv[k]
  BY Rows
<1>2. PICK d : d = [c EXCEPT !.resolved = b]
  OBVIOUS
<1>3. d \in Conv
  BY <1>2 DEF Conv
<1>4. d.resolved = b /\ d.org = c.org /\ d.guest = c.guest
  BY <1>2 DEF Conv
<1>5. conv \in [Convs -> Conv \union {Absent}] /\ conv' = [conv EXCEPT ![k] = d]
  BY <1>1, <1>2 DEF TypeOK
<1>6. conv'[k] = d /\ d # Absent
  BY <1>3, <1>5, Rows
<1> QED BY <1>1, <1>3, <1>4, <1>5, <1>6 DEF Flags, Stored

\* Every step of a task: what it leaves to do, and what it writes.
LEMMA Acts ==
  ASSUME Known, NEW p \in Procs, Step(p) \/ Fail(p) \/ LosePublication(p)
  PROVE  /\ Running(p) /\ Moved(p)
         /\ Advanced(p) \/ Left(p) \/ Skipped(p)
         /\ Running(p)' <=> Pc(p)' # "end"
         /\ UNCHANGED disturbed
<1>0. TypeOK /\ Follows
  BY DEF Known
<1>1. Running(p) /\ UNCHANGED disturbed
  BY DEF Step, Fail, LosePublication, FindConversation, NotFound, InsertMessage, Reopen,
         TellReopened, NotResolved, PublishMessage, ResolveConversation, CreateConversation,
         TakeSeat, MissSeat, FindMessage, Rewrite, PublishEdit, MarkSeen, SaveLastMessage,
         PublishSeen, FindMember, AddMember, At, history
<1>2. Advance(p) \/ Leave(p, "error") \/ NotResolved(p)
      \/ (At(p, "FindMember") /\ Leave(p, "ok"))
  BY DEF Step, Fail, LosePublication, FindConversation, NotFound, InsertMessage, Reopen,
         TellReopened, NotResolved, PublishMessage, ResolveConversation, CreateConversation,
         TakeSeat, MissSeat, FindMessage, Rewrite, PublishEdit, MarkSeen, SaveLastMessage,
         PublishSeen, FindMember, AddMember
<1>3. ASSUME At(p, "FindMember") PROVE Pc(p) = "FindMember"
  BY <1>3 DEF At, Pc
<1>4. Moved(p) /\ (Advanced(p) \/ Left(p) \/ Skipped(p))
  BY <1>0, <1>1, <1>2, <1>3, Goes, Leaves, Skips
<1>5. Running(p)' <=> Pc(p)' # "end"
  <2>1. CASE todo'[p] = <<>>
    BY <2>1 DEF Pc, Running
  <2>2. CASE todo'[p] # <<>>
    <3>1. Rest(local[p], todo'[p]) /\ todo'[p] \in Seq(Steps)
      BY <1>4, <2>2 DEF Moved, Running
    <3>2. Head(todo'[p]) \in Steps
      BY <3>1, RestNext
    <3> QED BY <2>2, <3>2 DEF Pc, Running, Steps
  <2> QED BY <2>1, <2>2
<1> QED BY <1>1, <1>4, <1>5

\* The parameters of the request.
Held(p) ==
  /\ local' \in [Procs -> Local]
  /\ \A q \in Procs \ {p} : local'[q] = local[q]
  /\ Same(local[p], local'[p])

LEMMA Holds ==
  ASSUME Known, NEW p \in Procs, Step(p) \/ Fail(p) \/ LosePublication(p)
  PROVE  /\ Held(p)
         /\ Pc(p) # "Find" => local'[p].resolved = local[p].resolved
         /\ Pc(p) # "Insert" => local'[p].id = local[p].id
         /\ Pc(p) # "MarkSeen" => local'[p].text = local[p].text
         /\ FindConversation(p) => local'[p].resolved = conv[local[p].conv].resolved
<1>0. TypeOK /\ Informed(p)
  BY DEF Known
<1>1. CASE local' = local /\ ~FindConversation(p)
  BY <1>0, <1>1 DEF Held, Same, TypeOK
<1>2. CASE FindConversation(p)
  <2>1. Pc(p) = "Find" /\ Running(p)
    BY <1>2 DEF FindConversation, At, Pc
  <2>2. conv[local[p].conv].resolved \in BOOLEAN
    BY <1>0, <1>2, <2>1, Rows DEF Informed, Alive, FindConversation
  <2>3. Keep(p, "resolved", conv[local[p].conv].resolved)
    BY <1>2 DEF FindConversation
  <2> HIDE DEF Keep
  <2>4. PICK b \in BOOLEAN : b = conv[local[p].conv].resolved /\ Keep(p, "resolved", b)
    BY <2>2, <2>3
  <2>5. /\ Held(p) /\ local'[p].resolved = b /\ local'[p].id = local[p].id
        /\ local'[p].text = local[p].text
    BY <1>0, <2>4, Kept DEF Held
  <2> QED BY <2>1, <2>4, <2>5
<1>3. CASE InsertMessage(p)
  <2>1. Pc(p) = "Insert"
    BY <1>3 DEF InsertMessage, At, Pc
  <2>2. PICK m \in Ids : Keep(p, "id", m)
    BY <1>3 DEF InsertMessage
  <2>3. Held(p) /\ local'[p].resolved = local[p].resolved /\ local'[p].text = local[p].text
    BY <1>0, <2>2, Kept DEF Held
  <2> QED BY <1>3, <2>1, <2>3 DEF InsertMessage, FindConversation, At
<1>4. CASE FindMessage(p) \/ MarkSeen(p)
  <2>1. Pc(p) \in {"FindMessage", "MarkSeen"} /\ Running(p) /\ ~FindConversation(p)
        /\ (FindMessage(p) => Pc(p) = "FindMessage")
    BY <1>4 DEF FindMessage, MarkSeen, At, Pc, FindConversation
  <2>2. local[p].op \in {"edit", "see"}
    BY <2>1, Where DEF Known, Comes
  <2>3. msg[local[p].id].text \in Nat
    BY <1>0, <2>1, <2>2, Rows DEF Informed, Alive
  <2>4. PICK v \in Nat : v = msg[local[p].id].text
    BY <2>3
  <2>5. CASE FindMessage(p)
    <3>1. Keep(p, "old", v)
      BY <2>4, <2>5 DEF FindMessage
    <3>2. /\ Held(p) /\ local'[p].resolved = local[p].resolved
          /\ local'[p].text = local[p].text /\ local'[p].id = local[p].id
      BY <1>0, <3>1, Kept DEF Held
    <3> QED BY <2>1, <2>5, <3>2
  <2>6. CASE MarkSeen(p)
    <3>1. Keep(p, "text", v) /\ Pc(p) = "MarkSeen"
      BY <2>4, <2>6 DEF MarkSeen, At, Pc
    <3>2. Held(p) /\ local'[p].resolved = local[p].resolved /\ local'[p].id = local[p].id
      BY <1>0, <3>1, Kept DEF Held
    <3> QED BY <2>1, <3>1, <3>2
  <2> QED BY <1>4, <2>5, <2>6
<1> QED BY <1>1, <1>2, <1>3, <1>4
        DEF Step, Fail, LosePublication, NotFound, Reopen, TellReopened, NotResolved,
            PublishMessage, ResolveConversation, CreateConversation, TakeSeat, MissSeat, Rewrite,
            PublishEdit, SaveLastMessage, PublishSeen, FindMember, AddMember

\* What a step writes, and who writes it.
Effect(p) ==
  LET l == local[p]
  IN  \/ /\ Quiet
         /\ Pc(p) \notin {"Resolve", "Reopen"} \/ Left(p) \/ Skipped(p)
         /\ Pc(p) = "Create" => Left(p)
         /\ Pc(p) \notin {"Insert", "Rewrite", "MarkSeen", "SaveLast"} \/ Left(p)
      \/ /\ Pc(p) = "Reopen" /\ Flags(l.conv, FALSE) /\ Advanced(p)
      \/ /\ Pc(p) = "Resolve" /\ Flags(l.conv, TRUE) /\ Advanced(p)
         /\ fresh' = {q \in fresh : local[q].conv # l.conv}
      \/ Pc(p) = "Create" /\ Founds(l.conv, l.org) /\ Advanced(p)
      \/ \E m \in Ids, x \in Message :
           /\ Stores(l.conv, m, x) /\ local'[p].id = m /\ Advanced(p)
           /\ Pc(p) \in {"Insert", "Rewrite", "MarkSeen"}
           /\ Pc(p) = "MarkSeen" => x.seen /\ x.text = local'[p].text
      \/ /\ Pc(p) = "SaveLast" /\ UNCHANGED <<conv, msg, tasks, touched>> /\ Advanced(p)
         /\ last' = [last EXCEPT ![l.conv] = [id |-> l.id, text |-> l.text, seen |-> TRUE]]

LEMMA Effects ==
  ASSUME Known, NEW p \in Procs, Step(p) \/ Fail(p) \/ LosePublication(p)
  PROVE  Effect(p)
<1>0. /\ TypeOK /\ Follows /\ Informed(p) /\ Running(p)
      /\ Comes(local[p], Pc(p)) /\ (Advanced(p) \/ Left(p) \/ Skipped(p))
  BY Acts, Where DEF Known
<1> DEFINE l == local[p]
<1>1. /\ l.conv \in Convs /\ l.org \in Orgs
      /\ Pc(p) # "Create" => Stored(conv, l.conv)
      /\ l.op \in {"edit", "see"} =>
           l.id \in Ids /\ Stored(msg, l.id) /\ msg[l.id].conv = l.conv
  BY <1>0 DEF Informed, Alive
<1>2. ASSUME NEW s, At(p, s) PROVE Pc(p) = s
  BY <1>2 DEF At, Pc
<1>3. ASSUME Advance(p) PROVE Advanced(p)
  BY <1>0, <1>3, Goes
<1>4. CASE Fail(p)
  <2>1. Left(p) /\ Quiet
    BY <1>0, <1>4, Leaves DEF Fail, Quiet, tables, history
  <2> QED BY <2>1 DEF Effect
<1>5. CASE LosePublication(p)
  <2>1. Pc(p) \in {"Publish", "PublishEdit", "PublishSeen", "TellReopened"} /\ Quiet
    BY <1>2, <1>5 DEF LosePublication, Quiet, tables
  <2> QED BY <2>1 DEF Effect
<1>6. CASE NotFound(p)
  <2>1. Pc(p) = "Find" /\ Quiet
    BY <1>2, <1>6 DEF NotFound, Quiet, tables, history
  <2> QED BY <2>1 DEF Effect
<1>7. CASE NotResolved(p)
  <2>1. Pc(p) = "Reopen" /\ Skipped(p) /\ Quiet
    BY <1>0, <1>2, <1>7, Skips DEF NotResolved, Quiet, tables, history
  <2> QED BY <2>1 DEF Effect
<1>8. CASE FindMember(p) \/ AddMember(p)
  <2>1. Pc(p) \in {"FindMember", "AddMember"} /\ Quiet
    BY <1>2, <1>8 DEF FindMember, AddMember, Quiet, tables, history
  <2> QED BY <2>1 DEF Effect
<1>9. CASE TellReopened(p) \/ PublishMessage(p) \/ PublishEdit(p) \/ PublishSeen(p) \/ TakeSeat(p)
           \/ MissSeat(p)
  <2>1. Pc(p) \in {"TellReopened", "Publish", "PublishEdit", "PublishSeen", "Seat"} /\ Quiet
    BY <1>2, <1>9 DEF TellReopened, PublishMessage, PublishEdit, PublishSeen, TakeSeat, MissSeat,
                      Quiet, tables, history
  <2> QED BY <2>1 DEF Effect
<1>10. CASE FindConversation(p) \/ FindMessage(p)
  <2>1. Pc(p) \in {"Find", "FindMessage"} /\ Quiet
    BY <1>2, <1>10 DEF FindConversation, FindMessage, Quiet, tables, history
  <2> QED BY <2>1 DEF Effect
<1>11. CASE Reopen(p)
  <2>1. /\ Pc(p) = "Reopen" /\ Advanced(p) /\ UNCHANGED <<msg, last, tasks, touched>>
        /\ conv' = [conv EXCEPT ![l.conv].resolved = FALSE]
    BY <1>2, <1>3, <1>11 DEF Reopen, history
  <2>2. Flags(l.conv, FALSE)
    BY <1>0, <1>1, <2>1, Flagging
  <2> QED BY <2>1, <2>2 DEF Effect
<1>12. CASE ResolveConversation(p)
  <2>1. /\ Pc(p) = "Resolve" /\ Advanced(p) /\ UNCHANGED <<msg, last, tasks, touched>>
        /\ conv' = [conv EXCEPT ![l.conv].resolved = TRUE]
        /\ fresh' = {q \in fresh : local[q].conv # l.conv}
    BY <1>2, <1>3, <1>12 DEF ResolveConversation
  <2>2. Flags(l.conv, TRUE)
    BY <1>0, <1>1, <2>1, Flagging
  <2> QED BY <2>1, <2>2 DEF Effect
<1>13. CASE CreateConversation(p)
  <2>1. /\ Pc(p) = "Create" /\ Advanced(p) /\ UNCHANGED <<msg, last, tasks, touched>>
        /\ ~Stored(conv, l.conv)
    BY <1>2, <1>3, <1>13 DEF CreateConversation, history
  <2>2. PICK g \in Guests :
          conv' = [conv EXCEPT ![l.conv] = [org |-> l.org, guest |-> g, resolved |-> FALSE]]
    BY <1>13 DEF CreateConversation
  <2>3. PICK c : c = [org |-> l.org, guest |-> g, resolved |-> FALSE]
    OBVIOUS
  <2>4. c \in Conv /\ c.org = l.org /\ c.guest = g /\ c.resolved = FALSE
    BY <1>1, <2>3 DEF Conv
  <2>5. conv \in [Convs -> Conv \union {Absent}] /\ conv' = [conv EXCEPT ![l.conv] = c]
    BY <1>0, <2>2, <2>3 DEF TypeOK
  <2>6. conv'[l.conv] = c /\ c # Absent
    BY <1>0, <1>1, <2>4, <2>5, Rows
  <2>7. Founds(l.conv, l.org)
    <3>0. conv'[l.conv].resolved = c.resolved /\ c.resolved = FALSE
      BY <2>4, <2>6
    <3>1. Stored(conv', l.conv) /\ conv'[l.conv].resolved = FALSE
      <4>1. Stored(conv', l.conv)
        BY <2>6 DEF Stored
      <4> QED BY <3>0, <4>1
    <3>2. conv'[l.conv].org = l.org
      BY <2>4, <2>6
    <3>3. /\ conv' \in [Convs -> Conv \union {Absent}]
          /\ \A j \in Convs \ {l.conv} : conv'[j] = conv[j]
      BY <2>4, <2>5
    <3> QED BY <2>1, <3>1, <3>2, <3>3 DEF Founds
  <2> QED BY <2>1, <2>7 DEF Effect
<1>14. CASE InsertMessage(p)
  <2>1. Pc(p) = "Insert" /\ Advanced(p) /\ UNCHANGED <<conv, last>>
    BY <1>2, <1>3, <1>14 DEF InsertMessage
  <2>2. PICK m \in Ids :
          /\ ~Stored(msg, m) /\ Keep(p, "id", m)
          /\ Store(l.conv, m, [conv |-> l.conv, user |-> l.user, text |-> l.text,
                               prev |-> None, seen |-> FALSE])
    BY <1>14 DEF InsertMessage
  <2>3. PICK x : x = [conv |-> l.conv, user |-> l.user, text |-> l.text,
                      prev |-> None, seen |-> FALSE]
    OBVIOUS
  <2>4. l.user \in BOOLEAN /\ l.text \in Nat
    BY <1>0 DEF TypeOK, Local
  <2>5. x \in Message /\ x.conv = l.conv
    BY <1>1, <2>3, <2>4 DEF Message
  <2>6. local'[p]["id"] = m
    BY <1>0, <2>2, Kept
  <2>7. Stores(l.conv, m, x)
    BY <2>1, <2>2, <2>3, <2>5 DEF Stores
  <2> QED BY <2>1, <2>5, <2>6, <2>7 DEF Effect
<1>15. CASE Rewrite(p)
  <2>1. /\ Pc(p) = "Rewrite" /\ Advanced(p) /\ UNCHANGED <<conv, last>> /\ local' = local
        /\ Store(msg[l.id].conv, l.id, [msg[l.id] EXCEPT !.text = l.text, !.prev = l.old])
    BY <1>2, <1>3, <1>15 DEF Rewrite
  <2>0. Pc(p) = "Rewrite"
    BY <2>1
  <2>2. l.op = "edit"
    BY <1>0, <2>0 DEF Comes
  <2>3. PICK y \in Message : y = msg[l.id]
    BY <1>0, <1>1, <2>2, Rows
  <2>4. PICK x : x = [y EXCEPT !.text = l.text, !.prev = l.old]
    OBVIOUS
  <2>5. l.text \in Nat /\ l.old \in Nat \union {None}
    BY <1>0 DEF TypeOK, Local
  <2>6. x \in Message /\ x.conv = y.conv
    BY <2>4, <2>5 DEF Message
  <2>7. Stores(l.conv, l.id, x)
    BY <1>1, <2>1, <2>2, <2>3, <2>4, <2>6 DEF Stores
  <2> QED BY <1>1, <2>1, <2>2, <2>6, <2>7 DEF Effect
<1>16. CASE MarkSeen(p)
  <2>1. /\ Pc(p) = "MarkSeen" /\ Advanced(p) /\ UNCHANGED <<conv, last>>
        /\ Keep(p, "text", msg[l.id].text)
        /\ Store(msg[l.id].conv, l.id, [msg[l.id] EXCEPT !.seen = TRUE])
    BY <1>2, <1>3, <1>16 DEF MarkSeen
  <2>0. Pc(p) = "MarkSeen"
    BY <2>1
  <2>2. l.op = "see"
    BY <1>0, <2>0 DEF Comes
  <2>3. PICK y \in Message : y = msg[l.id]
    BY <1>0, <1>1, <2>2, Rows
  <2>4. PICK x : x = [y EXCEPT !.seen = TRUE]
    OBVIOUS
  <2>6. x \in Message /\ x.conv = y.conv /\ x.seen /\ x.text = y.text /\ y.text \in Nat
    BY <2>4 DEF Message
  <2>5. local'[p]["text"] = y.text /\ local'[p].id = l.id
    BY <1>0, <2>1, <2>3, <2>6, Kept
  <2>7. Stores(l.conv, l.id, x)
    BY <1>1, <2>1, <2>2, <2>3, <2>4, <2>6 DEF Stores
  <2> QED BY <1>1, <2>1, <2>2, <2>5, <2>6, <2>7 DEF Effect
<1>17. CASE SaveLastMessage(p)
  <2>1. /\ Pc(p) = "SaveLast" /\ Advanced(p) /\ UNCHANGED <<conv, msg, tasks, touched>>
        /\ last' = [last EXCEPT ![msg[l.id].conv] = [id |-> l.id, text |-> l.text, seen |-> TRUE]]
    BY <1>2, <1>3, <1>17 DEF SaveLastMessage, history
  <2>0. Pc(p) = "SaveLast"
    BY <2>1
  <2>2. l.op = "see"
    BY <1>0, <2>0 DEF Comes
  <2>3. msg[l.id].conv = l.conv
    BY <1>1, <2>2
  <2> QED BY <2>1, <2>3 DEF Effect
<1> QED BY <1>4, <1>5, <1>6, <1>7, <1>8, <1>9, <1>10, <1>11, <1>12, <1>13, <1>14, <1>15, <1>16,
           <1>17 DEF Step

\* What a store leaves.
LEMMA Storing ==
  ASSUME TypeOK, NEW k \in Convs, NEW m, NEW x, Stores(k, m, x)
  PROVE  /\ msg' \in [Ids -> Message \union {Absent}]
         /\ tasks' \subseteq [conv : Convs, snap : Snapshot]
         /\ touched' \in [Convs -> Ids \union {None}]
         /\ msg'[m] = x /\ Stored(msg', m) /\ touched'[k] = m
         /\ \A n \in Ids \ {m} : msg'[n] = msg[n]
         /\ \A j \in Convs \ {k} : touched'[j] = touched[j]
         /\ tasks' = tasks \union
              {[conv |-> k, snap |-> [id |-> m, text |-> x.text, seen |-> x.seen]]}
<1>1. /\ m \in Ids /\ x \in Message /\ x # Absent /\ x.text \in Nat /\ x.seen \in BOOLEAN
  BY Rows DEF Stores
<1>2. /\ msg' = [msg EXCEPT ![m] = x] /\ touched' = [touched EXCEPT ![k] = m]
      /\ tasks' = tasks \union
           {[conv |-> k, snap |-> [id |-> m, text |-> x.text, seen |-> x.seen]]}
  BY DEF Stores, Store
<1>3. [id |-> m, text |-> x.text, seen |-> x.seen] \in Snapshot
  BY <1>1 DEF Snapshot
<1>4. [conv |-> k, snap |-> [id |-> m, text |-> x.text, seen |-> x.seen]]
      \in [conv : Convs, snap : Snapshot]
  BY <1>3
<1>5. /\ msg \in [Ids -> Message \union {Absent}] /\ touched \in [Convs -> Ids \union {None}]
      /\ tasks \subseteq [conv : Convs, snap : Snapshot]
  BY DEF TypeOK
<1>6. tasks' \subseteq [conv : Convs, snap : Snapshot]
  BY <1>2, <1>4, <1>5
<1> QED BY <1>1, <1>2, <1>5, <1>6 DEF Stored

\* What a task leaves in the tables.
LEMMA Tables ==
  ASSUME Known, NEW p \in Procs, Step(p) \/ Fail(p) \/ LosePublication(p)
  PROVE  /\ conv' \in [Convs -> Conv \union {Absent}]
         /\ msg' \in [Ids -> Message \union {Absent}]
         /\ last' \in [Convs -> Snapshot \union {None}]
         /\ tasks' \subseteq [conv : Convs, snap : Snapshot]
         /\ touched' \in [Convs -> Ids \union {None}]
         /\ Grown /\ Touched'
<1>1. TypeOK /\ Running(p) /\ Informed(p) /\ Touched /\ Effect(p)
  BY Acts, Effects DEF Known
<1> DEFINE l == local[p]
<1>2. l.conv \in Convs
  BY <1>1 DEF Informed, Alive
<1>3. /\ conv \in [Convs -> Conv \union {Absent}]
      /\ msg \in [Ids -> Message \union {Absent}]
      /\ last \in [Convs -> Snapshot \union {None}]
      /\ tasks \subseteq [conv : Convs, snap : Snapshot]
      /\ touched \in [Convs -> Ids \union {None}]
  BY <1>1 DEF TypeOK
<1>4. CASE Quiet
  BY <1>1, <1>3, <1>4 DEF Quiet, Grown, Touched, Stored
<1>5. CASE \E b : Flags(l.conv, b)
  <2>1. /\ UNCHANGED <<msg, last, tasks, touched>>
        /\ conv' \in [Convs -> Conv \union {Absent}]
    BY <1>5 DEF Flags
  <2>2. Grown
    BY <1>2, <1>5 DEF Flags, Grown, Stored
  <2>3. Touched'
    BY <1>1, <2>1 DEF Touched, Stored
  <2> QED BY <1>3, <2>1, <2>2, <2>3
<1>6. CASE Founds(l.conv, l.org)
  <2>1. /\ UNCHANGED <<msg, last, tasks, touched>>
        /\ conv' \in [Convs -> Conv \union {Absent}]
    BY <1>6 DEF Founds
  <2>2. Grown
    BY <1>2, <1>6 DEF Founds, Grown, Stored
  <2>3. Touched'
    BY <1>1, <2>1 DEF Touched, Stored
  <2> QED BY <1>3, <2>1, <2>2, <2>3
<1>7. ASSUME NEW m \in Ids, NEW x \in Message, Stores(l.conv, m, x)
      PROVE  /\ UNCHANGED <<conv, last>>
             /\ msg' \in [Ids -> Message \union {Absent}]
             /\ tasks' \subseteq [conv : Convs, snap : Snapshot]
             /\ touched' \in [Convs -> Ids \union {None}]
             /\ Grown /\ Touched'
  <2>1. /\ UNCHANGED <<conv, last>> /\ x.conv = l.conv
        /\ Stored(msg, m) => msg[m].conv = l.conv
    BY <1>7 DEF Stores
  <2> HIDE DEF l
  <2>2. /\ msg' \in [Ids -> Message \union {Absent}]
        /\ tasks' \subseteq [conv : Convs, snap : Snapshot]
        /\ touched' \in [Convs -> Ids \union {None}]
        /\ msg'[m] = x /\ Stored(msg', m) /\ touched'[l.conv] = m
        /\ \A n \in Ids \ {m} : msg'[n] = msg[n]
        /\ \A j \in Convs \ {l.conv} : touched'[j] = touched[j]
    BY <1>1, <1>2, <1>7, Storing
  <2>3. Grown
    BY <1>3, <2>1, <2>2 DEF Grown, Stored
  <2>4. ASSUME NEW j \in Convs, touched'[j] # None
        PROVE  Stored(msg', touched'[j]) /\ msg'[touched'[j]].conv = j
    <3>1. CASE j = l.conv
      BY <2>1, <2>2, <3>1
    <3>2. CASE j # l.conv
      <4>1. touched'[j] = touched[j] /\ touched[j] \in Ids /\ Stored(msg, touched[j])
            /\ msg[touched[j]].conv = j
        BY <1>1, <1>3, <2>2, <2>4, <3>2 DEF Touched
      <4> QED BY <2>3, <4>1 DEF Grown
    <3> QED BY <3>1, <3>2
  <2> QED BY <2>1, <2>2, <2>3, <2>4 DEF Touched
<1>8. CASE Pc(p) = "SaveLast" /\ UNCHANGED <<conv, msg, tasks, touched>>
           /\ last' = [last EXCEPT ![l.conv] = [id |-> l.id, text |-> l.text, seen |-> TRUE]]
  <2>1. l.op = "see"
    BY <1>1, <1>8, Where DEF Known, Comes
  <2>2. l.id \in Ids /\ l.text \in Nat
    <3>1. l.id \in Ids
      BY <1>1, <2>1 DEF Informed, Alive
    <3> QED BY <1>1, <3>1 DEF TypeOK, Local
  <2>3. [id |-> l.id, text |-> l.text, seen |-> TRUE] \in Snapshot
    BY <2>2 DEF Snapshot
  <2>4. last' \in [Convs -> Snapshot \union {None}]
    BY <1>2, <1>3, <1>8, <2>3
  <2> QED BY <1>1, <1>3, <1>8, <2>4 DEF Grown, Touched, Stored
<1> QED BY <1>1, <1>3, <1>4, <1>5, <1>6, <1>7, <1>8 DEF Effect

\* A request that did not move knows what it knew.
LEMMA InformedStill ==
  ASSUME Known, NEW q \in Procs, Grown,
         UNCHANGED <<todo[q], local[q], answer[q]>>
  PROVE  Informed(q)'
<1>0. /\ Informed(q)
      /\ Pc(q) = "Create" => local[q].op = "open"
  BY Where DEF Known, Comes
<1>1. Pc(q)' = Pc(q) /\ (Alive(q)' <=> Alive(q)) /\ (ToInsert(q)' <=> ToInsert(q))
  BY DEF Pc, Alive, Running, ToInsert, ToFind
<1>2. SUFFICES ASSUME Alive(q)
               PROVE  Informed(q)'
  BY <1>1 DEF Informed
<1> DEFINE l == local[q]
<1>3. /\ l.op \in Ops /\ l.conv \in Convs /\ l.org \in Orgs
      /\ l.op = "open" => ~l.user
  BY <1>0, <1>2 DEF Informed
<1>4. /\ Pc(q) # "Create" => Stored(conv', l.conv)
      /\ l.op = "open" /\ Pc(q) # "Create" => conv'[l.conv].org = l.org
      /\ l.op = "say" /\ Pc(q) # "Find" => conv'[l.conv].org = l.org
  BY <1>0, <1>2, <1>3 DEF Informed, Grown
<1>5. l.op \in {"say", "open"} /\ ~ToInsert(q) =>
        l.id \in Ids /\ Stored(msg', l.id) /\ msg'[l.id].conv = l.conv
  BY <1>0, <1>2 DEF Informed, Grown
<1>6. l.op \in {"edit", "see"} =>
        l.id \in Ids /\ Stored(msg', l.id) /\ msg'[l.id].conv = l.conv
  BY <1>0, <1>2, <1>3 DEF Informed, Grown
<1> HIDE DEF l
<1>7. local'[q] = l
  BY DEF l
<1> QED BY <1>1, <1>3, <1>4, <1>5, <1>6, <1>7 DEF Informed

\* One that took its step.
LEMMA InformedStep ==
  ASSUME Known, NEW p \in Procs, Step(p) \/ Fail(p) \/ LosePublication(p)
  PROVE  Informed(p)'
<1>1. /\ TypeOK /\ Running(p) /\ Informed(p) /\ Effect(p) /\ Grown /\ Comes(local[p], Pc(p))
      /\ Pc(p) \in Steps /\ Moved(p) /\ (Advanced(p) \/ Left(p) \/ Skipped(p)) /\ Follows
  BY Acts, Effects, Tables, Where DEF Known
<1>2. Held(p) /\ (Pc(p) # "Insert" => local'[p].id = local[p].id)
  BY Holds
<1> DEFINE l == local[p]
           n == local'[p]
<1>3. /\ Same(l, n)
      /\ Alive(p)' => Running(p)' \/ answer'[p] = "ok"
      /\ (ToInsert(p)' <=> \/ Pc(p)' \in {"Create", "Find", "Insert"}
                           \/ (Pc(p)' = "Seat" /\ l.agent))
  BY <1>2 DEF Held, Same, Alive, ToInsert, ToFind
<1>4. Pc(p)' # "Create" /\ (Pc(p)' = "Find" => Pc(p) \in {"Create", "Seat"})
  BY <1>1 DEF Advanced, Left, Skipped, After, Steps
<1>5. /\ l.op \in Ops /\ l.conv \in Convs /\ l.org \in Orgs
      /\ l.op = "open" => ~l.user
      /\ Pc(p) # "Create" => Stored(conv, l.conv)
      /\ l.op = "open" /\ Pc(p) # "Create" => conv[l.conv].org = l.org
      /\ l.op = "say" /\ Pc(p) # "Find" => conv[l.conv].org = l.org
      /\ l.op \in {"say", "open"} /\ ~ToInsert(p) =>
           l.id \in Ids /\ Stored(msg, l.id) /\ msg[l.id].conv = l.conv
      /\ l.op \in {"edit", "see"} =>
           l.id \in Ids /\ Stored(msg, l.id) /\ msg[l.id].conv = l.conv
  BY <1>1 DEF Informed, Alive
<1>6. SUFFICES ASSUME Alive(p)'
               PROVE  Informed(p)'
  BY DEF Informed
<1>7. Advanced(p) \/ Pc(p) = "FindMember" \/ Skipped(p)
  BY <1>1, <1>3, <1>6, Acts DEF Left
<1>8. Stored(conv', l.conv) /\ (l.op = "open" => conv'[l.conv].org = l.org)
  <2>1. CASE Pc(p) # "Create"
    BY <1>1, <1>5, <2>1 DEF Grown
  <2>2. CASE Pc(p) = "Create"
    <3>1. Founds(l.conv, l.org)
      <4>1. ~Left(p)
        BY <1>3, <1>6, <2>2, Acts DEF Left
      <4> QED BY <1>1, <2>2, <4>1 DEF Effect
    <3> QED BY <3>1 DEF Founds
  <2> QED BY <2>1, <2>2
<1>9. l.op = "say" /\ Pc(p)' # "Find" => conv'[l.conv].org = l.org
  <2>1. CASE Pc(p) = "Find" /\ l.op = "say"
    <3>1. FindConversation(p)
      <4>1. ~NotFound(p) /\ ~Fail(p)
        <5>1. ~Leave(p, "error")
          BY <1>1, <1>3, <1>6, <2>1, Acts, Leaves DEF Left
        <5> QED BY <5>1 DEF NotFound, Fail
      <4>2. At(p, "Find")
        BY <1>1, <2>1 DEF At, Pc
      <4> QED BY <4>1, <4>2 DEF Step, LosePublication, At, InsertMessage, Reopen,
             TellReopened, NotResolved, PublishMessage, ResolveConversation, CreateConversation,
             TakeSeat, MissSeat, FindMessage, Rewrite, PublishEdit, MarkSeen, SaveLastMessage,
             PublishSeen, FindMember, AddMember
    <3>2. conv[l.conv].org = l.org
      BY <3>1 DEF FindConversation
    <3> QED BY <1>1, <1>5, <2>1, <3>2 DEF Grown
  <2>2. CASE Pc(p) # "Find" /\ l.op = "say"
    <3>1. Pc(p) # "Create"
      BY <1>1, <2>2 DEF Comes
    <3> QED BY <1>1, <1>5, <2>2, <3>1 DEF Grown
  <2> QED BY <2>1, <2>2
<1>10. l.op \in {"edit", "see"} =>
         /\ l.id \in Ids /\ Stored(msg', l.id) /\ msg'[l.id].conv = l.conv
         /\ n.id = l.id
  <2> SUFFICES ASSUME l.op \in {"edit", "see"}
               PROVE  /\ Stored(msg', l.id) /\ msg'[l.id].conv = l.conv
                      /\ n.id = l.id
    BY <1>5
  <2>1. Pc(p) \notin {"Create", "Insert"}
    BY <1>1 DEF Comes
  <2>2. Stored(conv, l.conv) /\ n.id = l.id
    BY <1>2, <1>5, <2>1
  <2> QED BY <1>1, <1>5, <2>2 DEF Grown
<1>11. l.op \in {"say", "open"} /\ ~ToInsert(p)' =>
         n.id \in Ids /\ Stored(msg', n.id) /\ msg'[n.id].conv = l.conv
  <2> SUFFICES ASSUME l.op \in {"say", "open"}, ~ToInsert(p)'
               PROVE  n.id \in Ids /\ Stored(msg', n.id) /\ msg'[n.id].conv = l.conv
    OBVIOUS
  <2>1. Pc(p) \notin {"Create", "Find"} /\ ~(Pc(p) = "Seat" /\ l.agent)
    BY <1>1, <1>3, <1>7 DEF Advanced, Skipped, After
  <2>2. CASE Pc(p) # "Insert"
    <3>1. ~ToInsert(p)
      BY <2>1, <2>2 DEF ToInsert, ToFind
    <3> QED BY <1>1, <1>2, <1>5, <2>2, <3>1 DEF Grown
  <2>3. CASE Pc(p) = "Insert"
    <3>1. PICK m \in Ids, x \in Message : Stores(l.conv, m, x) /\ n.id = m
      <4>1. ~Left(p) /\ ~Skipped(p)
        BY <1>3, <1>6, <2>3, Acts DEF Left, Skipped
      <4> QED BY <1>1, <2>3, <4>1 DEF Effect
    <3>2. x.conv = l.conv
      BY <3>1 DEF Stores
    <3>3. msg'[m] = x /\ Stored(msg', m)
      BY <1>1, <1>5, <3>1, Storing
    <3> QED BY <3>1, <3>2, <3>3
  <2> QED BY <2>2, <2>3
<1> HIDE DEF l
<1>12. /\ n.op = l.op /\ n.user = l.user /\ n.org = l.org /\ n.conv = l.conv
  BY <1>3 DEF Same
<1> HIDE DEF n
<1>13. n = local'[p]
  BY DEF n
<1> QED BY <1>4, <1>5, <1>8, <1>9, <1>10, <1>11, <1>12, <1>13 DEF Informed

\* A request arrives.
Starts(p, l) ==
  /\ l \in Local /\ l.op \in Ops /\ l.conv \in Convs /\ l.org \in Orgs /\ Asks(l)
  /\ l.op = "open" => ~l.user
  /\ l.op \in {"edit", "see"} => l.id \in Ids
  /\ ~Running(p) /\ Running(p)' /\ Pc(p)' = First(l.op)
  /\ todo' \in [Procs -> Seq(Steps)] /\ Rest(l, todo'[p])
  /\ local' \in [Procs -> Local] /\ local'[p] = l
  /\ answer' \in [Procs -> {None, "ok", "error"}]
  /\ \A q \in Procs \ {p} : UNCHANGED <<todo[q], local[q], answer[q]>>
  /\ disturbed' = IF l.op \notin {"resolve", "join"} /\ Busy(l.conv)
                  THEN disturbed \union {l.conv} ELSE disturbed
  /\ crowd' = IF l.op = "join" /\ Cardinality(Joins(l.conv)) >= crowd[l.conv]
              THEN [crowd EXCEPT ![l.conv] = Cardinality(Joins(l.conv)) + 1]
              ELSE crowd
  /\ fresh' = fresh \ {p} /\ seated' = seated \ {p}
  /\ UNCHANGED <<tables, tasks, sockets, touched, lost, faults>>

LEMMA Received ==
  ASSUME TypeOK, NEW p \in Procs, Receive(p)
  PROVE  \E l : Starts(p, l)
<1>1. PICK op \in Ops, agent \in BOOLEAN, o \in Orgs, k \in Convs,
           m \in Ids \union {None} : Begin(p, Request(op, agent, o, k, m))
  BY DEF Receive
<1> DEFINE l == Request(op, agent, o, k, m)
<1>2. /\ l.op = op /\ l.conv = k /\ l.org = o /\ l.id = m
      /\ op = "open" => ~l.user
  BY DEF Request
<1>3. l \in Local
  <2>1. (IF op = "edit" THEN requests + 1 ELSE 0) \in Nat
    BY DEF TypeOK
  <2>2. (agent /\ op # "open") \in BOOLEAN
    OBVIOUS
  <2> QED BY <2>1, <2>2 DEF Request, Local
<1> HIDE DEF l
<1>4. /\ Asks(l)
      /\ local' = [local EXCEPT ![p] = l]
      /\ todo' = [todo EXCEPT ![p] = Script(l)]
      /\ disturbed' = IF l.op \notin {"resolve", "join"} /\ Busy(l.conv)
                      THEN disturbed \union {l.conv} ELSE disturbed
      /\ crowd' = IF l.op = "join" /\ Cardinality(Joins(l.conv)) >= crowd[l.conv]
                  THEN [crowd EXCEPT ![l.conv] = Cardinality(Joins(l.conv)) + 1]
                  ELSE crowd
  BY <1>1 DEF Begin, l
<1>5. /\ Script(l) \in Seq(Steps) /\ Script(l) # <<>>
      /\ Rest(l, Script(l)) /\ Head(Script(l)) = First(l.op)
  BY <1>2, ScriptRest, ChatAssumption
<1>6. l.op \in {"edit", "see"} => l.id \in Ids
  BY <1>2, <1>4 DEF Asks
<1>7. /\ todo \in [Procs -> Seq(Steps)] /\ local \in [Procs -> Local]
      /\ answer \in [Procs -> {None, "ok", "error"}]
  BY DEF TypeOK
<1>8. /\ ~Running(p) /\ answer' = [answer EXCEPT ![p] = None]
      /\ fresh' = fresh \ {p} /\ seated' = seated \ {p}
      /\ UNCHANGED <<tables, tasks, sockets, touched, lost, faults>>
  BY DEF Receive
<1>9. /\ todo'[p] = Script(l) /\ local'[p] = l
      /\ todo' \in [Procs -> Seq(Steps)] /\ local' \in [Procs -> Local]
      /\ answer' \in [Procs -> {None, "ok", "error"}]
      /\ \A q \in Procs \ {p} : UNCHANGED <<todo[q], local[q], answer[q]>>
  BY <1>3, <1>4, <1>5, <1>7, <1>8
<1>10. Running(p)' /\ Pc(p)' = First(l.op)
  BY <1>5, <1>9 DEF Running, Pc
<1>11. Starts(p, l)
  BY <1>2, <1>3, <1>4, <1>5, <1>6, <1>8, <1>9, <1>10 DEF Starts
<1> QED BY <1>11

LEMMA InformedStart ==
  ASSUME Known, NEW p \in Procs, NEW l, Starts(p, l)
  PROVE  Informed(p)'
<1>1. TypeOK /\ UNCHANGED <<conv, msg>> /\ local'[p] = l
  BY DEF Known, Starts, tables
<1>2. l.op \in Ops /\ l.conv \in Convs /\ l.org \in Orgs
      /\ (l.op = "open" => ~l.user)
  BY DEF Starts
<1>3. /\ Pc(p)' = First(l.op)
      /\ l.op \in {"say", "edit", "see", "resolve", "join", "open"}
  BY <1>2, ChatAssumption DEF Starts
<1>4. Pc(p)' # "Create" => l.op # "open" /\ Stored(conv, l.conv)
  BY <1>3 DEF First, Starts, Asks
<1>5. /\ l.op = "open" => Pc(p)' = "Create"
      /\ l.op = "say" => Pc(p)' = "Find"
  BY <1>3 DEF First
<1>6. l.op \in {"say", "open"} => ToInsert(p)'
  BY <1>5 DEF ToInsert, ToFind
<1>7. l.op \in {"edit", "see"} =>
        l.id \in Ids /\ Stored(msg, l.id) /\ msg[l.id].conv = l.conv
  BY DEF Starts, Asks
<1>8. UNCHANGED <<conv, msg>>
  BY <1>1
<1> QED BY <1>1, <1>2, <1>4, <1>5, <1>6, <1>7, <1>8 DEF Informed, Stored

LEMMA KnownBeside ==
  ASSUME Known, TypeOK', Grown, UNCHANGED touched, UNCHANGED <<todo, local, answer>>
  PROVE  Known'
<1>1. Follows'
  BY DEF Known, Follows, Running
<1>2. Touched'
  BY DEF Known, Touched, Grown, TypeOK
<1>3. ASSUME NEW p \in Procs PROVE Informed(p)'
  BY InformedStill
<1> QED BY <1>1, <1>2, <1>3 DEF Known

LEMMA TypeStep ==
  ASSUME Known, NEW p \in Procs, Step(p) \/ Fail(p) \/ LosePublication(p)
  PROVE  TypeOK'
<1>1. TypeOK /\ Running(p) /\ Informed(p) /\ Moved(p) /\ Held(p) /\ Comes(local[p], Pc(p))
  BY Acts, Holds, Where DEF Known
<1>2. /\ conv' \in [Convs -> Conv \union {Absent}]
      /\ msg' \in [Ids -> Message \union {Absent}]
      /\ last' \in [Convs -> Snapshot \union {None}]
      /\ tasks' \subseteq [conv : Convs, snap : Snapshot]
      /\ touched' \in [Convs -> Ids \union {None}]
  BY Tables
<1> DEFINE l == local[p]
<1>3. /\ l.conv \in Convs /\ l.org \in Orgs
      /\ Pc(p) # "Create" => Stored(conv, l.conv)
      /\ l.op \in {"edit", "see"} => l.id \in Ids /\ Stored(msg, l.id)
  BY <1>1 DEF Informed, Alive
<1>4. ASSUME NEW s, At(p, s) PROVE Pc(p) = s
  BY <1>4 DEF At, Pc
<1>5. members' \in [Convs -> Nat]
  <2>1. CASE UNCHANGED members
    BY <1>1, <2>1 DEF TypeOK
  <2>2. CASE AddMember(p)
    BY <1>1, <1>3, <2>2 DEF AddMember, TypeOK
  <2> QED BY <2>1, <2>2 DEF Step, Fail, LosePublication, FindConversation, NotFound,
         InsertMessage, Reopen, TellReopened, NotResolved, PublishMessage, ResolveConversation,
         CreateConversation, TakeSeat, MissSeat, FindMessage, Rewrite, PublishEdit, MarkSeen,
         SaveLastMessage, PublishSeen, FindMember, tables
<1>6. ASSUME NEW e, Publish(e), e \in Event
      PROVE  bus' \in Seq(Event)
  BY <1>1, <1>6, AppendProperties DEF Publish, TypeOK
<1>7. bus' \in Seq(Event)
  <2>1. CASE UNCHANGED bus
    BY <1>1, <2>1 DEF TypeOK
  <2>2. CASE TellReopened(p) \/ TakeSeat(p)
    <3>1. Pc(p) \in {"TellReopened", "Seat"}
      BY <1>4, <2>2 DEF TellReopened, TakeSeat
    <3>2. conv[l.conv].org \in Orgs
      BY <1>1, <1>3, <3>1, Rows
    <3>3. \A kind \in {"unresolved", "joined"} :
            [kind |-> kind, conv |-> l.conv, id |-> None, customer |-> FALSE,
             org |-> conv[l.conv].org] \in Event
      BY <1>3, <3>2 DEF Event
    <3> QED BY <1>6, <2>2, <3>3 DEF TellReopened, TakeSeat
  <2>3. CASE PublishMessage(p)
    <3>1. l.id \in Ids \union {None} /\ (~l.user) \in BOOLEAN
      BY <1>1 DEF TypeOK, Local
    <3>2. [kind |-> "message", conv |-> l.conv, id |-> l.id, customer |-> ~l.user,
           org |-> l.org] \in Event
      BY <1>3, <3>1 DEF Event
    <3> QED BY <1>6, <2>3, <3>2 DEF PublishMessage
  <2>4. CASE PublishEdit(p) \/ PublishSeen(p)
    <3>1. Pc(p) \in {"PublishEdit", "PublishSeen"}
      BY <1>4, <2>4 DEF PublishEdit, PublishSeen
    <3>2. l.op \in {"edit", "see"}
      BY <1>1, <3>1 DEF Comes
    <3>3. l.id \in Ids /\ msg[l.id].conv \in Convs
      BY <1>1, <1>3, <3>2, Rows
    <3>4. (~l.user) \in BOOLEAN /\ (~l.agent) \in BOOLEAN
      OBVIOUS
    <3>5. \A kind \in {"edit", "seen"}, b \in BOOLEAN, o \in {None, l.org} :
            [kind |-> kind, conv |-> msg[l.id].conv, id |-> l.id, customer |-> b, org |-> o]
            \in Event
      BY <1>3, <3>3 DEF Event
    <3> QED BY <1>6, <2>4, <3>4, <3>5 DEF PublishEdit, PublishSeen
  <2> QED BY <2>1, <2>2, <2>3, <2>4 DEF Step, Fail, LosePublication, FindConversation, NotFound,
         InsertMessage, Reopen, NotResolved, ResolveConversation,
         CreateConversation, MissSeat, FindMessage, Rewrite, MarkSeen,
         SaveLastMessage, FindMember, AddMember, sockets
<1>8. seats' \subseteq Guests \X Convs
  <2>1. CASE UNCHANGED seats
    BY <1>1, <2>1 DEF TypeOK
  <2>2. CASE TakeSeat(p) \/ MissSeat(p)
    <3>1. Pc(p) = "Seat"
      BY <1>4, <2>2 DEF TakeSeat, MissSeat
    <3>2. conv[l.conv].guest \in Guests
      BY <1>1, <1>3, <3>1, Rows
    <3> QED BY <1>1, <1>3, <2>2, <3>2 DEF TakeSeat, MissSeat, TypeOK
  <2> QED BY <2>1, <2>2 DEF Step, Fail, LosePublication, FindConversation, NotFound,
         InsertMessage, Reopen, TellReopened, NotResolved, PublishMessage, ResolveConversation,
         CreateConversation, MissSeat, FindMessage, Rewrite, PublishEdit, MarkSeen,
         SaveLastMessage, PublishSeen, FindMember, AddMember, sockets
<1>9. inbox' \in [Staff \union Guests -> SUBSET Event] /\ UNCHANGED <<crowd, requests>>
  <2>1. UNCHANGED <<inbox, crowd, requests>>
    BY DEF Step, Fail, LosePublication, FindConversation, NotFound,
         InsertMessage, Reopen, TellReopened, NotResolved, PublishMessage, ResolveConversation,
         CreateConversation, TakeSeat, MissSeat, FindMessage, Rewrite, PublishEdit, MarkSeen,
         SaveLastMessage, PublishSeen, FindMember, AddMember, sockets, history, bounds
  <2> QED BY <1>1, <2>1 DEF TypeOK
<1>10. fresh' \subseteq Procs /\ seated' \subseteq Procs
  <2>1. fresh' \subseteq fresh \union {p} /\ seated' \subseteq seated \union {p}
    BY DEF Step, Fail, LosePublication, FindConversation, NotFound,
         InsertMessage, Reopen, TellReopened, NotResolved, PublishMessage, ResolveConversation,
         CreateConversation, TakeSeat, MissSeat, FindMessage, Rewrite, PublishEdit, MarkSeen,
         SaveLastMessage, PublishSeen, FindMember, AddMember, history
  <2> QED BY <1>1, <2>1 DEF TypeOK
<1>11. lost' \subseteq Ids
  <2>1. CASE UNCHANGED lost
    BY <1>1, <2>1 DEF TypeOK
  <2>2. CASE LosePublication(p)
    <3>1. At(p, "Publish") => local[p].id \in Ids
      <4>1. SUFFICES ASSUME At(p, "Publish") PROVE local[p].id \in Ids
        OBVIOUS
      <4>2. Pc(p) = "Publish"
        BY <1>4, <4>1
      <4>3. ~ToInsert(p) /\ l.op \in {"say", "open"}
        BY <1>1, <4>2 DEF ToInsert, ToFind, Comes
      <4> QED BY <1>1, <4>3 DEF Informed, Alive
    <3> QED BY <1>1, <2>2, <3>1 DEF LosePublication, TypeOK
  <2> QED BY <2>1, <2>2 DEF Step, Fail, FindConversation, NotFound,
         InsertMessage, Reopen, TellReopened, NotResolved, PublishMessage, ResolveConversation,
         CreateConversation, TakeSeat, MissSeat, FindMessage, Rewrite, PublishEdit, MarkSeen,
         SaveLastMessage, PublishSeen, FindMember, AddMember, history
<1>12. faults' \in Nat
  <2>1. faults' = faults \/ faults' = faults + 1
    BY DEF Step, Fail, LosePublication, FindConversation, NotFound,
         InsertMessage, Reopen, TellReopened, NotResolved, PublishMessage, ResolveConversation,
         CreateConversation, TakeSeat, MissSeat, FindMessage, Rewrite, PublishEdit, MarkSeen,
         SaveLastMessage, PublishSeen, FindMember, AddMember, bounds
  <2> QED BY <1>1, <2>1 DEF TypeOK
<1>13. disturbed' \subseteq Convs
  BY <1>1, Acts DEF TypeOK
<1> QED BY <1>1, <1>2, <1>5, <1>7, <1>8, <1>9, <1>10, <1>11, <1>12, <1>13
        DEF TypeOK, Moved, Held

LEMMA TypeStart ==
  ASSUME Known, NEW p \in Procs, Receive(p)
  PROVE  TypeOK'
<1>1. PICK l : Starts(p, l)
  BY Received DEF Known
<1>2. TypeOK
  BY DEF Known
<1>3. crowd' \in [Convs -> Nat] /\ disturbed' \subseteq Convs
  <2>1. Cardinality(Joins(l.conv)) \in Nat
    <3>1. IsFiniteSet(Joins(l.conv))
      BY ChatAssumption, FS_Subset DEF Joins
    <3> QED BY <3>1, FS_CardinalityType
  <2> QED BY <1>1, <1>2, <2>1 DEF Starts, TypeOK
<1>4. requests' \in Nat
  BY <1>2 DEF Receive, TypeOK
<1>5. fresh' \subseteq Procs /\ seated' \subseteq Procs
  BY <1>1, <1>2 DEF Starts, TypeOK
<1>6. UNCHANGED <<conv, msg, last, members, seats, tasks, bus, inbox, touched, lost, faults>>
  BY <1>1 DEF Starts, tables, sockets
<1>7. /\ todo' \in [Procs -> Seq(Steps)] /\ local' \in [Procs -> Local]
      /\ answer' \in [Procs -> {None, "ok", "error"}]
  BY <1>1 DEF Starts
<1> QED BY <1>2, <1>3, <1>4, <1>5, <1>6, <1>7 DEF TypeOK

LEMMA TypeBeside ==
  ASSUME Known, UpdateLastMessage \/ LoseTask \/ Emit
  PROVE  TypeOK' /\ Grown /\ UNCHANGED <<touched, todo, local, answer>>
<1>1. TypeOK
  BY DEF Known
<1>2. CASE UpdateLastMessage
  <2>1. PICK t \in tasks : last' = [last EXCEPT ![t.conv] = t.snap] /\ tasks' = tasks \ {t}
    BY <1>2 DEF UpdateLastMessage
  <2>2. t.conv \in Convs /\ t.snap \in Snapshot
    BY <1>1 DEF TypeOK
  <2>3. last' \in [Convs -> Snapshot \union {None}]
        /\ tasks' \subseteq [conv : Convs, snap : Snapshot]
    BY <1>1, <2>1, <2>2 DEF TypeOK
  <2>4. UNCHANGED <<conv, msg, members, todo, local, answer, sockets, history, bounds>>
    BY <1>2 DEF UpdateLastMessage
  <2> QED BY <1>1, <2>3, <2>4 DEF TypeOK, Grown, Stored, sockets, history, bounds
<1>3. CASE LoseTask
  <2>1. PICK t \in tasks : tasks' = tasks \ {t} /\ disturbed' = disturbed \union {t.conv}
    BY <1>3 DEF LoseTask
  <2>2. disturbed' \subseteq Convs /\ tasks' \subseteq [conv : Convs, snap : Snapshot]
    BY <1>1, <2>1 DEF TypeOK
  <2>3. faults' \in Nat
    BY <1>1, <1>3 DEF LoseTask, TypeOK
  <2>4. UNCHANGED <<tables, todo, local, answer, sockets, fresh, seated, touched,
                    lost, crowd, requests>>
    BY <1>3 DEF LoseTask
  <2> QED BY <1>1, <2>2, <2>3, <2>4 DEF TypeOK, Grown, Stored, tables, sockets
<1>4. CASE Emit
  <2>1. /\ bus # <<>> /\ bus' = Tail(bus)
        /\ inbox' = [s \in Staff \union Guests |->
                       IF s \in Receivers(Head(bus)) THEN inbox[s] \union {Head(bus)}
                       ELSE inbox[s]]
        /\ UNCHANGED <<tables, tasks, todo, local, answer, seats, history, bounds>>
    BY <1>4 DEF Emit
  <2>2. Head(bus) \in Event /\ Tail(bus) \in Seq(Event)
    BY <1>1, <2>1, HeadTailProperties DEF TypeOK
  <2>3. inbox' \in [Staff \union Guests -> SUBSET Event]
    BY <1>1, <2>1, <2>2 DEF TypeOK
  <2> QED BY <1>1, <2>1, <2>2, <2>3 DEF TypeOK, Grown, Stored, tables, history, bounds
<1> QED BY <1>2, <1>3, <1>4

LEMMA KnownNext ==
  ASSUME Known, [Next]_vars
  PROVE  Known'
<1>1. ASSUME NEW p \in Procs, Step(p) \/ Fail(p) \/ LosePublication(p)
      PROVE  Known'
  <2>1. TypeOK' /\ Grown /\ Touched' /\ Informed(p)' /\ Moved(p) /\ Held(p)
    BY <1>1, TypeStep, Tables, InformedStep, Acts, Holds
  <2>2. ASSUME NEW q \in Procs, q # p PROVE Informed(q)'
    BY <2>1, <2>2, InformedStill DEF Moved, Held
  <2>3. ASSUME NEW q \in Procs, Running(q)' PROVE Rest(local'[q], todo'[q])
    <3>1. CASE q = p
      BY <2>1, <2>3, <3>1, RestSame DEF Moved, Held
    <3>2. CASE q # p
      BY <2>1, <2>3, <3>2 DEF Moved, Held, Known, Follows, Running
    <3> QED BY <3>1, <3>2
  <2> QED BY <2>1, <2>2, <2>3 DEF Known, Follows
<1>2. ASSUME NEW p \in Procs, Receive(p)
      PROVE  Known'
  <2>1. PICK l : Starts(p, l)
    BY <1>2, Received DEF Known
  <2>2. TypeOK' /\ Informed(p)' /\ UNCHANGED <<conv, msg, touched>>
    BY <1>2, <2>1, TypeStart, InformedStart DEF Starts, tables
  <2>3. Grown /\ Touched'
    BY <2>2 DEF Grown, Known, Touched, Stored
  <2>4. ASSUME NEW q \in Procs, q # p PROVE Informed(q)'
    BY <2>1, <2>3, <2>4, InformedStill DEF Starts
  <2>5. ASSUME NEW q \in Procs, Running(q)' PROVE Rest(local'[q], todo'[q])
    BY <2>1, <2>5 DEF Starts, Known, Follows, Running
  <2> QED BY <2>2, <2>3, <2>4, <2>5 DEF Known, Follows
<1>3. CASE UpdateLastMessage \/ LoseTask \/ Emit
  BY <1>3, TypeBeside, KnownBeside
<1>4. CASE UNCHANGED vars
  <2>1. TypeOK'
    BY <1>4 DEF Known, TypeOK, vars, tables, sockets, history, bounds
  <2>2. Grown /\ UNCHANGED touched /\ UNCHANGED <<todo, local, answer>>
    BY <1>4 DEF Grown, Stored, vars, tables, history
  <2> QED BY <2>1, <2>2, KnownBeside
<1> QED BY <1>1, <1>2, <1>3, <1>4 DEF Next

-----------------------------------------------------------------------------
(* Resolutions and messages of customers.                                  *)

\* A request that looked its conversation up after it was resolved last finds
\* it open, or has yet to open it and remembers that it was resolved.
FreshInv ==
  \A p \in fresh :
    Alive(p) /\ local[p].op \in {"say", "open"} /\ ~local[p].user =>
      /\ ~ToFind(p)
      /\ \/ Pc(p) \in {"Insert", "Reopen"} /\ local[p].resolved = TRUE
         \/ conv[local[p].conv].resolved = FALSE

\* What a step does to the tasks that looked up.
LEMMA Looks ==
  ASSUME Known, NEW p \in Procs, Step(p) \/ Fail(p) \/ LosePublication(p)
  PROVE  /\ fresh' \subseteq fresh \union {p}
         /\ Pc(p) # "Find" => fresh' \subseteq fresh
         /\ Pc(p) = "Find" /\ Alive(p)' => FindConversation(p)
<1>1. /\ FindConversation(p) => Pc(p) = "Find"
      /\ FindConversation(p) \/ fresh' \subseteq fresh
  BY DEF Step, Fail, LosePublication, FindConversation, NotFound, InsertMessage, Reopen,
         TellReopened, NotResolved, PublishMessage, ResolveConversation, CreateConversation,
         TakeSeat, MissSeat, FindMessage, Rewrite, PublishEdit, MarkSeen, SaveLastMessage,
         PublishSeen, FindMember, AddMember, history, At, Pc
<1>2. FindConversation(p) => fresh' = fresh \union {p}
  BY DEF FindConversation
<1>3. ASSUME Pc(p) = "Find", Alive(p)'
      PROVE  FindConversation(p)
  <2>1. ~NotFound(p) /\ ~Fail(p)
    <3>1. ~Leave(p, "error")
      BY <1>3, Acts, Leaves DEF Left, Alive, Known
    <3> QED BY <3>1 DEF NotFound, Fail
  <2>2. At(p, "Find")
    BY <1>3, Acts DEF At, Pc
  <2> QED BY <2>1, <2>2 DEF Step, LosePublication, At, InsertMessage, Reopen,
         TellReopened, NotResolved, PublishMessage, ResolveConversation, CreateConversation,
         TakeSeat, MissSeat, FindMessage, Rewrite, PublishEdit, MarkSeen, SaveLastMessage,
         PublishSeen, FindMember, AddMember
<1> QED BY <1>1, <1>2, <1>3

\* A customer's request beside the one that takes a step.
LEMMA FreshOther ==
  ASSUME Known, FreshInv, NEW p \in Procs, Step(p) \/ Fail(p) \/ LosePublication(p),
         NEW q \in fresh', q # p,
         Alive(q)', local'[q].op \in {"say", "open"}, ~local'[q].user
  PROVE  /\ ~ToFind(q)'
         /\ \/ Pc(q)' \in {"Insert", "Reopen"} /\ local'[q].resolved = TRUE
            \/ conv'[local'[q].conv].resolved = FALSE
<1>1. /\ q \in fresh /\ q \in Procs /\ Effect(p) /\ UNCHANGED <<todo[q], local[q], answer[q]>>
      /\ Running(p) /\ Informed(p) /\ Informed(q)
  BY Looks, Acts, Holds, Effects DEF Moved, Held, Known, TypeOK
<1>2. Pc(q)' = Pc(q) /\ (Alive(q)' <=> Alive(q)) /\ (ToFind(q)' <=> ToFind(q))
  BY <1>1 DEF Pc, Alive, Running, ToFind
<1>3. /\ ~ToFind(q)
      /\ \/ Pc(q) \in {"Insert", "Reopen"} /\ local[q].resolved = TRUE
         \/ conv[local[q].conv].resolved = FALSE
  BY <1>1, <1>2 DEF FreshInv
<1>4. local[q].conv \in Convs /\ local[p].conv \in Convs /\ Stored(conv, local[q].conv)
  BY <1>1, <1>2, <1>3 DEF Informed, ToFind, Alive
<1>5. conv[local[q].conv].resolved = FALSE => conv'[local[q].conv].resolved = FALSE
  <2>1. CASE Quiet
    BY <2>1 DEF Quiet
  <2>2. CASE Flags(local[p].conv, FALSE)
    BY <1>4, <2>2 DEF Flags
  <2>3. CASE /\ Flags(local[p].conv, TRUE)
             /\ fresh' = {r \in fresh : local[r].conv # local[p].conv}
    BY <1>4, <2>3 DEF Flags
  <2>4. CASE Founds(local[p].conv, local[p].org)
    BY <1>4, <2>4 DEF Founds
  <2>5. CASE UNCHANGED conv
    BY <2>5
  <2> QED BY <1>1, <2>1, <2>2, <2>3, <2>4, <2>5 DEF Effect, Stores
<1> QED BY <1>1, <1>2, <1>3, <1>5

LEMMA FreshSelf ==
  ASSUME Known, FreshInv, NEW p \in Procs, Step(p) \/ Fail(p) \/ LosePublication(p),
         p \in fresh', Alive(p)', local'[p].op \in {"say", "open"}, ~local'[p].user
  PROVE  /\ ~ToFind(p)'
         /\ \/ Pc(p)' \in {"Insert", "Reopen"} /\ local'[p].resolved = TRUE
            \/ conv'[local'[p].conv].resolved = FALSE
<1> DEFINE l == local[p]
<1>1. /\ Effect(p) /\ Running(p) /\ Informed(p) /\ Same(l, local'[p]) /\ TypeOK
      /\ Comes(l, Pc(p)) /\ Pc(p) \in Steps
  BY Acts, Holds, Effects, Where DEF Held, Known
<1>2. /\ l.op \in {"say", "open"} /\ ~l.user /\ local'[p].conv = l.conv
      /\ local'[p].agent = l.agent
  BY <1>1 DEF Same
<1>3. Advanced(p) \/ Skipped(p)
  BY <1>1, <1>2, Acts DEF Left, Comes, Alive
<1>4. l.conv \in Convs /\ (Pc(p) # "Create" => Stored(conv, l.conv))
  BY <1>1 DEF Informed, Alive
<1>5. CASE Pc(p) = "Find"
  <2>1. /\ FindConversation(p) /\ Pc(p)' = "Insert"
        /\ local'[p].resolved = conv[l.conv].resolved
    BY <1>2, <1>3, <1>5, Looks, Holds DEF Advanced, Skipped, After
  <2>2. UNCHANGED conv
    BY <2>1 DEF FindConversation, tables
  <2>3. conv[l.conv].resolved \in BOOLEAN
    BY <1>1, <1>4, <1>5, Rows
  <2> QED BY <1>2, <2>1, <2>2, <2>3 DEF ToFind
<1>6. CASE Pc(p) # "Find"
  <2>1. /\ ~ToFind(p)
        /\ \/ Pc(p) \in {"Insert", "Reopen"} /\ l.resolved = TRUE
           \/ conv[l.conv].resolved = FALSE
    <3>1. p \in fresh
      BY <1>6, Looks
    <3> QED BY <1>1, <1>2, <3>1 DEF FreshInv, Alive
  <2>2. Pc(p) \notin {"Create", "Find", "Resolve"} /\ ~(Pc(p) = "Seat" /\ l.agent)
    BY <1>1, <1>2, <2>1 DEF ToFind, Comes
  <2>3. ~ToFind(p)'
    <3>1. Pc(p) \in {"Insert", "Reopen", "TellReopened", "Publish"} \/ (Pc(p) = "Seat" /\ ~l.agent)
      BY <1>1, <1>2, <2>2 DEF Comes, Steps
    <3>2. Pc(p)' \in {"Reopen", "TellReopened", "Publish", "end"} \/ (Pc(p)' = "Seat" /\ ~l.agent)
      BY <1>2, <1>3, <3>1 DEF Advanced, Skipped, After
    <3> QED BY <1>2, <3>2 DEF ToFind
  <2>4. local'[p].resolved = l.resolved
    BY <1>6, Holds
  <2>5. conv[l.conv].resolved = FALSE => conv'[l.conv].resolved = FALSE
    <3>1. CASE Quiet
      BY <3>1 DEF Quiet
    <3>2. CASE Flags(l.conv, FALSE)
      BY <3>2 DEF Flags
    <3>3. CASE UNCHANGED conv
      BY <3>3
    <3> QED BY <1>1, <2>2, <3>1, <3>2, <3>3 DEF Effect, Stores
  <2>6. CASE conv[l.conv].resolved = FALSE
    BY <1>2, <2>3, <2>5, <2>6
  <2>7. CASE Pc(p) = "Insert" /\ l.resolved = TRUE
    <3>1. Pc(p)' = "Reopen"
      BY <1>2, <1>3, <2>7 DEF Advanced, Skipped, After
    <3> QED BY <2>3, <2>4, <2>7, <3>1
  <2>8. CASE Pc(p) = "Reopen" /\ l.resolved = TRUE
    <3>1. Advanced(p) /\ ~Skipped(p) /\ ~Left(p)
      BY <1>1, <1>3, <2>8, Acts DEF Skipped, Left, Advanced, After
    <3>2. Flags(l.conv, FALSE)
      BY <1>1, <2>8, <3>1 DEF Effect
    <3>3. conv'[l.conv].resolved = FALSE
      BY <3>2 DEF Flags
    <3> QED BY <1>2, <2>3, <3>3
  <2> QED BY <2>1, <2>6, <2>7, <2>8
<1> QED BY <1>5, <1>6

LEMMA FreshNext ==
  ASSUME Known, FreshInv, [Next]_vars
  PROVE  FreshInv'
<1>1. ASSUME NEW p \in Procs, Step(p) \/ Fail(p) \/ LosePublication(p)
      PROVE  FreshInv'
  BY <1>1, FreshOther, FreshSelf DEF FreshInv
<1>2. ASSUME UNCHANGED conv, fresh' \subseteq fresh,
             \A q \in fresh' : UNCHANGED <<todo[q], local[q], answer[q]>>
      PROVE  FreshInv'
  BY <1>2 DEF FreshInv, Alive, ToFind, Pc, Running
<1>3. ASSUME NEW p \in Procs, Receive(p)
      PROVE  FreshInv'
  <2>1. PICK l : Starts(p, l)
    BY <1>3, Received DEF Known
  <2>2. UNCHANGED conv /\ fresh' = fresh \ {p}
        /\ \A q \in Procs \ {p} : UNCHANGED <<todo[q], local[q], answer[q]>>
    BY <2>1 DEF Starts, tables
  <2>3. fresh \subseteq Procs
    BY DEF Known, TypeOK
  <2> QED BY <1>2, <2>2, <2>3
<1> QED BY <1>1, <1>2, <1>3
        DEF Next, vars, tables, history, UpdateLastMessage, LoseTask, Emit

LEMMA KnownInit == Init => Known
<1> SUFFICES ASSUME Init
             PROVE  Known
  OBVIOUS
<1>1. <<>> \in Seq(Steps) /\ <<>> \in Seq(Event)
  BY EmptySeq
<1>2. Blank \in Local /\ \A p \in Procs : local[p] = Blank
  BY DEF Blank, Local, Init
<1>3. \A p \in Procs : ~Running(p) /\ answer[p] = None
  BY DEF Init, Running
<1>4. seats \subseteq Guests \X Convs
  <2>1. \A k \in Convs : Stored(conv, k) => conv[k] \in Conv
    BY DEF Init, Stored
  <2>2. \A k \in Convs : Stored(conv, k) => conv[k].guest \in Guests
    BY <2>1 DEF Conv
  <2> QED BY <2>2 DEF Init
<1>5. TypeOK
  BY <1>1, <1>2, <1>4 DEF Init, TypeOK
<1>6. None # "ok"
  BY ChatAssumption
<1> QED BY <1>3, <1>5, <1>6 DEF Known, Follows, Touched, Informed, Alive, Init

-----------------------------------------------------------------------------
(* The last message.                                                       *)

Snap(m) == [id |-> m, text |-> msg[m].text, seen |-> msg[m].seen]

Idle(k) == \A t \in tasks : t.conv # k

\* The request has yet to store its message or its change.
ToStore(p) ==
  \/ local[p].op \in {"say", "open"} /\ ToInsert(p)
  \/ local[p].op = "edit" /\ Pc(p) \in {"FindMessage", "Rewrite"}
  \/ local[p].op = "see" /\ Pc(p) = "MarkSeen"

Single(k) == \A p \in Procs, q \in Procs : p # q => ~(Writes(p, k) /\ Writes(q, k))

Copies(k) ==
  \A t \in tasks : t.conv = k => touched[k] # None /\ t.snap = Snap(touched[k])

Waits(k) == \A p \in Procs : Writes(p, k) /\ ToStore(p) => Idle(k)

Marks(k) ==
  \A p \in Procs : Writes(p, k) /\ Pc(p) = "SaveLast" =>
    /\ touched[k] = local[p].id
    /\ msg[local[p].id].text = local[p].text /\ msg[local[p].id].seen = TRUE

Saved(k) == touched[k] # None /\ Idle(k) => last[k] = Snap(touched[k])

\* As long as nobody overlapped, whoever writes a conversation does so alone,
\* when the copies of earlier writers are through.
LastInv ==
  \A k \in Convs \ disturbed :
    Single(k) /\ Copies(k) /\ Waits(k) /\ Marks(k) /\ Saved(k)

\* Who writes after a step wrote before it.
LEMMA WritesStep ==
  ASSUME Known, NEW p \in Procs, Step(p) \/ Fail(p) \/ LosePublication(p)
  PROVE  /\ \A k, q : q \in Procs /\ Writes(q, k)' => Writes(q, k)
         /\ \A q \in Procs \ {p} : /\ Pc(q)' = Pc(q) /\ (ToStore(q)' <=> ToStore(q))
                                  /\ local'[q] = local[q]
         /\ Running(p)' /\ ToStore(p)' => ToStore(p)
         /\ Pc(p)' = "SaveLast" => Pc(p) = "MarkSeen" /\ Advanced(p)
         /\ Pc(p) \in {"Insert", "Rewrite", "MarkSeen", "SaveLast"} /\ Running(p)' =>
              ~ToStore(p)'
         /\ Pc(p) = "Insert" => ToStore(p) /\ Writes(p, local[p].conv)
         /\ Pc(p) = "Rewrite" => ToStore(p) /\ Writes(p, local[p].conv)
         /\ Pc(p) = "MarkSeen" => ToStore(p) /\ Writes(p, local[p].conv)
         /\ Pc(p) = "SaveLast" => Writes(p, local[p].conv)
<1>1. /\ Running(p) /\ Moved(p) /\ Held(p) /\ (Advanced(p) \/ Left(p) \/ Skipped(p))
      /\ Running(p)' <=> Pc(p)' # "end"
      /\ Comes(local[p], Pc(p)) /\ Pc(p) \in Steps
  BY Acts, Holds, Where DEF Known
<1>2. \A q \in Procs : Same(local[q], local'[q])
  BY <1>1 DEF Held, Same
<1>3. \A q \in Procs \ {p} : UNCHANGED <<todo[q], local[q], answer[q]>>
  BY <1>1 DEF Moved, Held
<1>4. \A k, q : q \in Procs /\ Writes(q, k)' => Writes(q, k)
  BY <1>1, <1>2, <1>3 DEF Writes, Running, Same
<1>5. \A q \in Procs \ {p} : /\ Pc(q)' = Pc(q) /\ (ToStore(q)' <=> ToStore(q))
                            /\ local'[q] = local[q]
  BY <1>3 DEF Pc, Running, ToStore, ToInsert, ToFind
<1>6. /\ local'[p].op = local[p].op /\ local'[p].agent = local[p].agent
      /\ local'[p].user = local[p].user
  BY <1>2 DEF Same
<1>7. Pc(p)' = "SaveLast" => Pc(p) = "MarkSeen" /\ Advanced(p)
  BY <1>1 DEF Advanced, Left, Skipped, After, Steps
<1>8. ASSUME Running(p)', ToStore(p)'
      PROVE  ToStore(p) /\ Pc(p) \notin {"Insert", "Rewrite", "MarkSeen", "SaveLast"}
  <2>1. Advanced(p) \/ Skipped(p)
    BY <1>1, <1>8 DEF Left
  <2>2. CASE local[p].op \in {"say", "open"}
    <3>1. Pc(p)' \in {"Create", "Find", "Insert"} \/ (Pc(p)' = "Seat" /\ local[p].agent)
      BY <1>6, <1>8, <2>2 DEF ToStore, ToInsert, ToFind
    <3>2. Pc(p) \in {"Create", "Find"} \/ (Pc(p) = "Seat" /\ local[p].agent)
      BY <1>1, <2>1, <2>2, <3>1 DEF Advanced, Skipped, After, Steps
    <3> QED BY <2>2, <3>2 DEF ToStore, ToInsert, ToFind
  <2>3. CASE local[p].op \notin {"say", "open"}
    <3>1. Pc(p)' \in {"FindMessage", "Rewrite", "MarkSeen"} /\ local[p].op \in {"edit", "see"}
      BY <1>6, <1>8, <2>3 DEF ToStore
    <3>2. Pc(p) = "FindMessage" /\ local[p].op = "edit"
      BY <1>1, <2>1, <3>1 DEF Advanced, Skipped, After, Steps, Comes
    <3> QED BY <3>2 DEF ToStore
  <2> QED BY <2>2, <2>3
<1>9. /\ Pc(p) = "Insert" => ToStore(p) /\ Writes(p, local[p].conv)
      /\ Pc(p) = "Rewrite" => ToStore(p) /\ Writes(p, local[p].conv)
      /\ Pc(p) = "MarkSeen" => ToStore(p) /\ Writes(p, local[p].conv)
      /\ Pc(p) = "SaveLast" => Writes(p, local[p].conv)
  BY <1>1 DEF Comes, ToStore, ToInsert, Writes
<1> QED BY <1>4, <1>5, <1>7, <1>8, <1>9

\* Steps that do not store.
LEMMA LastQuiet ==
  ASSUME Known, NEW p \in Procs, Step(p) \/ Fail(p) \/ LosePublication(p),
         UNCHANGED <<msg, last, tasks, touched>>, Pc(p) # "MarkSeen" \/ Left(p),
         NEW k \in Convs, Single(k) /\ Copies(k) /\ Waits(k) /\ Marks(k) /\ Saved(k)
  PROVE  Single(k)' /\ Copies(k)' /\ Waits(k)' /\ Marks(k)' /\ Saved(k)'
<1>1. /\ \A q \in Procs : Writes(q, k)' => Writes(q, k)
      /\ \A q \in Procs \ {p} : /\ Pc(q)' = Pc(q) /\ (ToStore(q)' <=> ToStore(q))
                               /\ local'[q] = local[q]
      /\ Running(p)' /\ ToStore(p)' => ToStore(p)
      /\ Pc(p)' = "SaveLast" => Pc(p) = "MarkSeen" /\ Advanced(p)
  BY WritesStep
<1>2. Single(k)'
  BY <1>1 DEF Single
<1>3. Copies(k)' /\ Saved(k)' /\ (Idle(k)' <=> Idle(k))
  BY DEF Copies, Saved, Idle, Snap
<1>4. Waits(k)'
  <2>1. \A q \in Procs : Writes(q, k)' /\ ToStore(q)' => ToStore(q)
    BY <1>1 DEF Writes
  <2> QED BY <1>1, <1>3, <2>1 DEF Waits
<1>5. Pc(p)' # "SaveLast"
  BY <1>1 DEF Left
<1>6. Marks(k)'
  BY <1>1, <1>5 DEF Marks
<1> QED BY <1>2, <1>3, <1>4, <1>6

\* A message is stored or changed.
LEMMA LastStores ==
  ASSUME Known, NEW p \in Procs, Step(p) \/ Fail(p) \/ LosePublication(p),
         Pc(p) \in {"Insert", "Rewrite", "MarkSeen"}, Advanced(p),
         NEW m \in Ids, NEW x \in Message, Stores(local[p].conv, m, x), local'[p].id = m,
         Pc(p) = "MarkSeen" => x.seen /\ x.text = local'[p].text,
         NEW k \in Convs, Single(k) /\ Copies(k) /\ Waits(k) /\ Marks(k) /\ Saved(k)
  PROVE  Single(k)' /\ Copies(k)' /\ Waits(k)' /\ Marks(k)' /\ Saved(k)'
<1> DEFINE c == local[p].conv
<1>1. /\ \A q \in Procs : Writes(q, k)' => Writes(q, k)
      /\ \A q \in Procs \ {p} : /\ Pc(q)' = Pc(q) /\ (ToStore(q)' <=> ToStore(q))
                               /\ local'[q] = local[q]
      /\ Running(p)' => ~ToStore(p)'
      /\ Pc(p)' = "SaveLast" => Pc(p) = "MarkSeen"
      /\ ToStore(p) /\ Writes(p, c)
  BY WritesStep
<1>2. TypeOK /\ Informed(p) /\ Running(p) /\ Touched /\ Same(local[p], local'[p])
  BY Acts, Holds DEF Known, Held
<1>3. c \in Convs
  BY <1>2 DEF Informed, Alive
<1> HIDE DEF c
<1>4. /\ msg'[m] = x /\ touched'[c] = m
      /\ \A n \in Ids \ {m} : msg'[n] = msg[n]
      /\ \A j \in Convs \ {c} : touched'[j] = touched[j]
      /\ tasks' = tasks \union
           {[conv |-> c, snap |-> [id |-> m, text |-> x.text, seen |-> x.seen]]}
      /\ Stored(msg, m) => msg[m].conv = c
      /\ UNCHANGED last
  BY <1>2, <1>3, Storing DEF c, Stores
<1>5. Single(k)'
  BY <1>1 DEF Single
<1>6. None \notin Ids /\ x.seen \in BOOLEAN
  BY <1>2, Rows, ChatAssumption
<1>7. CASE k = c
  <2>0. /\ touched'[k] = m
        /\ tasks' = tasks \union
             {[conv |-> k, snap |-> [id |-> m, text |-> x.text, seen |-> x.seen]]}
    BY <1>4, <1>7
  <2>1. Idle(k)
    BY <1>1, <1>7 DEF Waits
  <2>2. \A q \in Procs \ {p} : ~Writes(q, k)'
    <3>1. \A q \in Procs \ {p} : ~Writes(q, k)
      BY <1>1, <1>7 DEF Single
    <3> QED BY <1>1, <3>1
  <2>3. Snap(m)' = [id |-> m, text |-> x.text, seen |-> x.seen] /\ m # None
    BY <1>4, <1>6 DEF Snap
  <2>4. Copies(k)'
    <3>1. \A t \in tasks' : t.conv = k => t.snap = [id |-> m, text |-> x.text, seen |-> x.seen]
      BY <2>0, <2>1 DEF Idle
    <3>2. Snap(touched[k])' = Snap(m)'
      BY <2>0 DEF Snap
    <3> QED BY <2>0, <2>3, <3>1, <3>2 DEF Copies
  <2>5. Waits(k)'
    BY <1>1, <2>2 DEF Waits, Writes
  <2>6. Marks(k)'
    <3> SUFFICES ASSUME NEW q \in Procs, Writes(q, k)', Pc(q)' = "SaveLast"
                 PROVE  /\ touched'[k] = local'[q].id
                        /\ msg'[local'[q].id].text = local'[q].text
                        /\ msg'[local'[q].id].seen = TRUE
      BY DEF Marks
    <3>1. q = p /\ Pc(p) = "MarkSeen"
      BY <1>1, <2>2
    <3> QED BY <1>4, <1>6, <2>0, <3>1
  <2>7. Saved(k)'
    <3>1. PICK t : t = [conv |-> k, snap |-> [id |-> m, text |-> x.text, seen |-> x.seen]]
      OBVIOUS
    <3>2. t \in tasks' /\ t.conv = k
      BY <2>0, <3>1
    <3>3. ~Idle(k)'
      BY <3>2 DEF Idle
    <3> QED BY <3>3 DEF Saved
  <2> QED BY <1>5, <2>4, <2>5, <2>6, <2>7
<1>8. CASE k # c
  <2>1. touched'[k] = touched[k] /\ touched[k] \in Ids \union {None}
    BY <1>2, <1>4, <1>8 DEF TypeOK
  <2>2. touched[k] # None => touched[k] # m /\ msg'[touched[k]] = msg[touched[k]]
    BY <1>2, <1>4, <1>8, <2>1 DEF Touched
  <2>3. touched[k] # None => Snap(touched[k])' = Snap(touched[k])
    BY <2>1, <2>2 DEF Snap
  <2>4. \A t \in tasks' : t.conv = k => t \in tasks
    BY <1>4, <1>8
  <2>5. Idle(k)' <=> Idle(k)
    BY <1>4, <2>4 DEF Idle
  <2>6. Copies(k)'
    BY <2>1, <2>3, <2>4 DEF Copies
  <2>7. Saved(k)'
    BY <1>4, <2>1, <2>3, <2>5 DEF Saved
  <2>8. ~Writes(p, k)'
    BY <1>1, <1>8 DEF Writes, c
  <2>9. Waits(k)'
    BY <1>1, <2>5, <2>8 DEF Waits
  <2>10. Marks(k)'
    <3> SUFFICES ASSUME NEW q \in Procs, Writes(q, k)', Pc(q)' = "SaveLast"
                 PROVE  /\ touched'[k] = local'[q].id
                        /\ msg'[local'[q].id].text = local'[q].text
                        /\ msg'[local'[q].id].seen = TRUE
      BY DEF Marks
    <3>1. q # p /\ local'[q] = local[q] /\ Pc(q) = "SaveLast" /\ Writes(q, k)
      BY <1>1, <2>8
    <3>2. /\ touched[k] = local[q].id /\ msg[local[q].id].text = local[q].text
          /\ msg[local[q].id].seen = TRUE
      BY <3>1 DEF Marks
    <3>3. touched[k] # None
      <4>1. local[q].op = "see" /\ Running(q) /\ Informed(q)
        BY <3>1, Where DEF Known, Comes, Writes
      <4>2. local[q].id \in Ids
        BY <4>1 DEF Informed, Alive
      <4> QED BY <1>6, <3>2, <4>2
    <3> QED BY <2>1, <2>2, <3>1, <3>2, <3>3
  <2> QED BY <1>5, <2>6, <2>7, <2>9, <2>10
<1> QED BY <1>7, <1>8

\* The second half of a seen mark.
LEMMA LastSaves ==
  ASSUME Known, NEW p \in Procs, Step(p) \/ Fail(p) \/ LosePublication(p),
         Pc(p) = "SaveLast", UNCHANGED <<msg, tasks, touched>>,
         last' = [last EXCEPT ![local[p].conv] = [id |-> local[p].id, text |-> local[p].text,
                                                  seen |-> TRUE]],
         NEW k \in Convs, Single(k) /\ Copies(k) /\ Waits(k) /\ Marks(k) /\ Saved(k)
  PROVE  Single(k)' /\ Copies(k)' /\ Waits(k)' /\ Marks(k)' /\ Saved(k)'
<1>1. /\ \A q \in Procs : Writes(q, k)' => Writes(q, k)
      /\ \A q \in Procs \ {p} : /\ Pc(q)' = Pc(q) /\ (ToStore(q)' <=> ToStore(q))
                               /\ local'[q] = local[q]
      /\ Running(p)' /\ ToStore(p)' => ToStore(p)
      /\ Pc(p)' # "SaveLast"
      /\ Writes(p, local[p].conv)
  BY WritesStep
<1>2. Single(k)' /\ Copies(k)' /\ (Idle(k)' <=> Idle(k))
  BY <1>1 DEF Single, Copies, Idle, Snap
<1>3. Waits(k)'
  <2>1. \A q \in Procs : Writes(q, k)' /\ ToStore(q)' => ToStore(q)
    BY <1>1 DEF Writes
  <2> QED BY <1>1, <1>2, <2>1 DEF Waits
<1>4. Marks(k)'
  BY <1>1 DEF Marks
<1>5. Saved(k)'
  <2>1. last \in [Convs -> Snapshot \union {None}]
    BY DEF Known, TypeOK
  <2>2. CASE k # local[p].conv
    BY <1>2, <2>1, <2>2 DEF Saved, Snap
  <2>3. CASE k = local[p].conv
    <3>1. /\ touched[k] = local[p].id
          /\ msg[local[p].id].text = local[p].text /\ msg[local[p].id].seen = TRUE
      BY <1>1, <2>3 DEF Marks
    <3>2. last'[k] = [id |-> local[p].id, text |-> local[p].text, seen |-> TRUE]
      BY <2>1, <2>3
    <3>3. Snap(touched[k])' = [id |-> local[p].id, text |-> local[p].text, seen |-> TRUE]
      BY <3>1 DEF Snap
    <3> QED BY <3>2, <3>3 DEF Saved
  <2> QED BY <2>2, <2>3
<1> QED BY <1>2, <1>3, <1>4, <1>5

LEMMA LastNext ==
  ASSUME Known, LastInv, [Next]_vars
  PROVE  LastInv'
<1>1. ASSUME NEW p \in Procs, Step(p) \/ Fail(p) \/ LosePublication(p)
      PROVE  LastInv'
  <2>1. Effect(p) /\ UNCHANGED disturbed
    BY <1>1, Effects, Acts
  <2> SUFFICES ASSUME NEW k \in Convs, k \notin disturbed
               PROVE  Single(k)' /\ Copies(k)' /\ Waits(k)' /\ Marks(k)' /\ Saved(k)'
    BY <2>1 DEF LastInv
  <2>2. Single(k) /\ Copies(k) /\ Waits(k) /\ Marks(k) /\ Saved(k)
    BY DEF LastInv
  <2>3. CASE UNCHANGED <<msg, last, tasks, touched>> /\ (Pc(p) # "MarkSeen" \/ Left(p))
    BY <1>1, <2>2, <2>3, LastQuiet
  <2> QED BY <1>1, <2>1, <2>2, <2>3, LastStores, LastSaves DEF Effect, Quiet, Flags, Founds
<1>2. ASSUME NEW p \in Procs, Receive(p)
      PROVE  LastInv'
  <2>1. PICK l : Starts(p, l)
    BY <1>2, Received DEF Known
  <2>2. /\ UNCHANGED <<msg, last, tasks, touched>> /\ local'[p] = l /\ ~Running(p)
        /\ \A q \in Procs \ {p} : UNCHANGED <<todo[q], local[q], answer[q]>>
        /\ disturbed' = IF l.op \notin {"resolve", "join"} /\ Busy(l.conv)
                        THEN disturbed \union {l.conv} ELSE disturbed
        /\ Pc(p)' = First(l.op) /\ l.op \in Ops
    BY <2>1 DEF Starts, tables
  <2> SUFFICES ASSUME NEW k \in Convs, k \notin disturbed'
               PROVE  Single(k)' /\ Copies(k)' /\ Waits(k)' /\ Marks(k)' /\ Saved(k)'
    BY DEF LastInv
  <2>3. Single(k) /\ Copies(k) /\ Waits(k) /\ Marks(k) /\ Saved(k)
    BY <2>2 DEF LastInv
  <2>4. ASSUME NEW q \in Procs, q # p
        PROVE  /\ Writes(q, k)' => Writes(q, k)
               /\ ToStore(q)' => ToStore(q)
               /\ Pc(q)' = Pc(q) /\ local'[q] = local[q]
    BY <2>2, <2>4 DEF Writes, Running, ToStore, ToInsert, ToFind, Pc
  <2>5. Writes(p, k)' => Idle(k) /\ \A q \in Procs : ~Writes(q, k)
    <3>1. Writes(p, k)' => l.conv = k /\ l.op \notin {"resolve", "join"}
      BY <2>2 DEF Writes
    <3>2. Writes(p, k)' => ~Busy(k)
      BY <2>2, <3>1
    <3> QED BY <3>2 DEF Busy, Idle
  <2>6. Copies(k)' /\ Saved(k)' /\ (Idle(k)' <=> Idle(k))
    BY <2>2, <2>3 DEF Copies, Saved, Idle, Snap
  <2>7. Single(k)'
    <3> SUFFICES ASSUME NEW q \in Procs, NEW r \in Procs, q # r, Writes(q, k)', Writes(r, k)'
                 PROVE  FALSE
      BY DEF Single
    <3>1. CASE q = p
      BY <2>4, <2>5, <3>1
    <3>2. CASE r = p
      BY <2>4, <2>5, <3>2
    <3>3. CASE q # p /\ r # p
      BY <2>3, <2>4, <3>3 DEF Single
    <3> QED BY <3>1, <3>2, <3>3
  <2>8. Waits(k)'
    <3> SUFFICES ASSUME NEW q \in Procs, Writes(q, k)', ToStore(q)'
                 PROVE  Idle(k)
      BY <2>6 DEF Waits
    <3>1. CASE q = p
      BY <2>5, <3>1
    <3>2. CASE q # p
      BY <2>3, <2>4, <3>2 DEF Waits
    <3> QED BY <3>1, <3>2
  <2>9. Pc(p)' # "SaveLast"
    BY <2>2, ChatAssumption DEF First
  <2>10. Marks(k)'
    <3> SUFFICES ASSUME NEW q \in Procs, Writes(q, k)', Pc(q)' = "SaveLast"
                 PROVE  /\ touched[k] = local'[q].id
                        /\ msg[local'[q].id].text = local'[q].text
                        /\ msg[local'[q].id].seen = TRUE
      BY <2>2 DEF Marks
    <3>1. q # p
      BY <2>9
    <3> QED BY <2>3, <2>4, <3>1 DEF Marks
  <2> QED BY <2>6, <2>7, <2>8, <2>10
<1>3. ASSUME UNCHANGED <<todo, local>>, NEW k \in Convs
      PROVE  /\ Single(k) => Single(k)'
             /\ Marks(k) /\ UNCHANGED <<msg, touched>> => Marks(k)'
             /\ Waits(k) /\ (Idle(k) => Idle(k)') => Waits(k)'
  <2>1. ASSUME NEW q \in Procs
        PROVE  /\ Writes(q, k)' => Writes(q, k)
               /\ ToStore(q)' => ToStore(q)
               /\ Pc(q)' = Pc(q) /\ local'[q] = local[q]
    BY <1>3 DEF Writes, Running, ToStore, ToInsert, ToFind, Pc
  <2>2. Single(k) => Single(k)'
    BY <2>1 DEF Single
  <2>3. Marks(k) /\ UNCHANGED <<msg, touched>> => Marks(k)'
    BY <2>1 DEF Marks
  <2>4. Waits(k) /\ (Idle(k) => Idle(k)') => Waits(k)'
    BY <2>1 DEF Waits
  <2> QED BY <2>2, <2>3, <2>4
<1>4. CASE UpdateLastMessage
  <2>1. PICK t \in tasks : last' = [last EXCEPT ![t.conv] = t.snap] /\ tasks' = tasks \ {t}
    BY <1>4 DEF UpdateLastMessage
  <2>2. UNCHANGED <<msg, touched, todo, local, answer, disturbed>>
    BY <1>4 DEF UpdateLastMessage, history
  <2> SUFFICES ASSUME NEW k \in Convs, k \notin disturbed
               PROVE  Single(k)' /\ Copies(k)' /\ Waits(k)' /\ Marks(k)' /\ Saved(k)'
    BY <2>2 DEF LastInv
  <2>3. Single(k) /\ Copies(k) /\ Waits(k) /\ Marks(k) /\ Saved(k)
    BY DEF LastInv
  <2>4. Single(k)' /\ Copies(k)' /\ Waits(k)' /\ Marks(k)'
    <3>1. Idle(k) => Idle(k)'
      BY <2>1 DEF Idle
    <3>2. Single(k)' /\ Waits(k)' /\ Marks(k)'
      BY <1>3, <2>2, <2>3, <3>1
    <3> QED BY <2>1, <2>2, <2>3, <3>2 DEF Copies, Snap
  <2>5. Saved(k)'
    <3>1. last \in [Convs -> Snapshot \union {None}]
      BY DEF Known, TypeOK
    <3>2. CASE t.conv = k
      <4>1. last'[k] = t.snap /\ t.snap = Snap(touched[k])
        BY <2>1, <2>3, <3>1, <3>2 DEF Copies
      <4>2. Snap(touched[k])' = Snap(touched[k])
        BY <2>2 DEF Snap
      <4> QED BY <4>1, <4>2 DEF Saved
    <3>3. CASE t.conv # k
      <4>1. last'[k] = last[k] /\ (Idle(k)' => Idle(k))
        BY <2>1, <3>1, <3>3 DEF Idle
      <4> QED BY <2>2, <2>3, <4>1 DEF Saved, Snap
    <3> QED BY <3>2, <3>3
  <2> QED BY <2>4, <2>5
<1>5. CASE LoseTask
  <2>1. PICK t \in tasks : tasks' = tasks \ {t} /\ disturbed' = disturbed \union {t.conv}
    BY <1>5 DEF LoseTask
  <2>2. UNCHANGED <<msg, last, touched, todo, local, answer>>
    BY <1>5 DEF LoseTask, tables
  <2> SUFFICES ASSUME NEW k \in Convs, k \notin disturbed'
               PROVE  Single(k)' /\ Copies(k)' /\ Waits(k)' /\ Marks(k)' /\ Saved(k)'
    BY DEF LastInv
  <2>3. Single(k) /\ Copies(k) /\ Waits(k) /\ Marks(k) /\ Saved(k) /\ t.conv # k
    BY <2>1 DEF LastInv
  <2>4. Idle(k)' <=> Idle(k)
    BY <2>1, <2>3 DEF Idle
  <2>5. Single(k)' /\ Copies(k)' /\ Waits(k)' /\ Marks(k)'
    <3>1. Single(k)' /\ Waits(k)' /\ Marks(k)'
      BY <1>3, <2>2, <2>3, <2>4
    <3> QED BY <2>1, <2>2, <2>3, <3>1 DEF Copies, Snap
  <2> QED BY <2>2, <2>3, <2>4, <2>5 DEF Saved, Snap
<1>6. CASE UNCHANGED <<msg, last, tasks, touched, todo, local, answer, disturbed>>
  <2> SUFFICES ASSUME NEW k \in Convs, k \notin disturbed
               PROVE  Single(k)' /\ Copies(k)' /\ Waits(k)' /\ Marks(k)' /\ Saved(k)'
    BY <1>6 DEF LastInv
  <2>1. Single(k) /\ Copies(k) /\ Waits(k) /\ Marks(k) /\ Saved(k)
    BY DEF LastInv
  <2>2. Idle(k)' <=> Idle(k)
    BY <1>6 DEF Idle
  <2>3. Single(k)' /\ Waits(k)' /\ Marks(k)'
    BY <1>3, <1>6, <2>1, <2>2
  <2> QED BY <1>6, <2>1, <2>2, <2>3 DEF Copies, Saved, Snap
<1> QED BY <1>1, <1>2, <1>4, <1>5, <1>6 DEF Next, vars, tables, history, Emit

-----------------------------------------------------------------------------
(* Who hears of a message.                                                 *)

Fits(e) ==
  Stored(conv, e.conv) /\ (e.kind # "seen" => e.org \in {None, conv[e.conv].org})

\* Events belong to the organization and the room of their conversation.
Homes ==
  /\ \A i \in 1 .. Len(bus) : Fits(bus[i])
  /\ \A s \in Staff \union Guests : \A e \in inbox[s] :
       /\ Stored(conv, e.conv)
       /\ s \in Staff /\ e.kind # "seen" => OrgOf[s] = conv[e.conv].org
       /\ s \in Guests => <<s, e.conv>> \in seats /\ ~e.customer

\* The event of a message.
Told(p) ==
  [kind |-> "message", conv |-> local[p].conv, id |-> local[p].id,
   customer |-> ~local[p].user, org |-> local[p].org]

OnBus(p) == \E i \in 1 .. Len(bus) : bus[i] = Told(p)

Arrived(p) ==
  /\ \A s \in Staff : OrgOf[s] = conv[local[p].conv].org => Told(p) \in inbox[s]
  /\ local[p].user /\ p \in seated => Told(p) \in inbox[conv[local[p].conv].guest]

\* The event of a message that was published is on its way or has arrived, and
\* the seat a customer had when the handler began is still his.
HeardInv ==
  \A p \in Procs : Alive(p) /\ local[p].op \in {"say", "open"} =>
    /\ p \in seated => /\ ~ToFind(p)
                       /\ <<conv[local[p].conv].guest, local[p].conv>> \in seats
    /\ ~ToPublish(p) /\ local[p].id \notin lost => OnBus(p) \/ Arrived(p)

\* What a step says, and to whom.
LEMMA Says ==
  ASSUME Known, NEW p \in Procs, Step(p) \/ Fail(p) \/ LosePublication(p)
  PROVE  /\ UNCHANGED inbox /\ lost \subseteq lost' /\ seats \subseteq seats'
         /\ \/ UNCHANGED bus
            \/ \E e \in Event : bus' = Append(bus, e) /\ Fits(e) /\ UNCHANGED conv
         /\ \/ UNCHANGED seats
            \/ /\ seats' = seats \union {<<conv[local[p].conv].guest, local[p].conv>>}
               /\ local[p].conv \in Convs /\ Stored(conv, local[p].conv) /\ UNCHANGED conv
         /\ \A q \in seated' \ seated :
              /\ q = p /\ Pc(p) = "Find" /\ UNCHANGED conv
              /\ <<conv[local[p].conv].guest, local[p].conv>> \in seats
         /\ Pc(p) = "Publish" /\ Alive(p)' =>
              bus' = Append(bus, Told(p)) \/ local[p].id \in lost'
<1>1. /\ TypeOK /\ Running(p) /\ Informed(p) /\ Comes(local[p], Pc(p)) /\ TypeOK'
  BY Acts, Where, TypeStep DEF Known
<1> DEFINE l == local[p]
<1>2. /\ l.conv \in Convs /\ l.org \in Orgs
      /\ Pc(p) # "Create" => Stored(conv, l.conv)
      /\ l.op = "open" /\ Pc(p) # "Create" => conv[l.conv].org = l.org
      /\ l.op = "say" /\ Pc(p) # "Find" => conv[l.conv].org = l.org
      /\ l.op \in {"edit", "see"} => /\ l.id \in Ids /\ Stored(msg, l.id)
                                     /\ msg[l.id].conv = l.conv
  BY <1>1 DEF Informed, Alive
<1>3. ASSUME NEW s, At(p, s) PROVE Pc(p) = s
  BY <1>3 DEF At, Pc
<1>4. UNCHANGED inbox /\ lost \subseteq lost'
  BY DEF Step, Fail, LosePublication, FindConversation, NotFound, InsertMessage, Reopen,
         TellReopened, NotResolved, PublishMessage, ResolveConversation, CreateConversation,
         TakeSeat, MissSeat, FindMessage, Rewrite, PublishEdit, MarkSeen, SaveLastMessage,
         PublishSeen, FindMember, AddMember, history, sockets
<1>5. \/ UNCHANGED seats
      \/ /\ seats' = seats \union {<<conv[l.conv].guest, l.conv>>}
         /\ l.conv \in Convs /\ Stored(conv, l.conv) /\ UNCHANGED conv
  <2>1. CASE TakeSeat(p) \/ MissSeat(p)
    <3>1. Pc(p) = "Seat"
      BY <1>3, <2>1 DEF TakeSeat, MissSeat
    <3> QED BY <1>2, <2>1, <3>1 DEF TakeSeat, MissSeat, tables
  <2> QED BY <2>1 DEF Step, Fail, LosePublication, FindConversation, NotFound,
         InsertMessage, Reopen, TellReopened, NotResolved, PublishMessage, ResolveConversation,
         CreateConversation, MissSeat, FindMessage, Rewrite, PublishEdit, MarkSeen,
         SaveLastMessage, PublishSeen, FindMember, AddMember, sockets
<1>6. \A q \in seated' \ seated :
        /\ q = p /\ Pc(p) = "Find" /\ UNCHANGED conv
        /\ <<conv[l.conv].guest, l.conv>> \in seats
  <2>1. CASE FindConversation(p)
    <3>1. Pc(p) = "Find"
      BY <1>3, <2>1 DEF FindConversation
    <3> QED BY <2>1, <3>1 DEF FindConversation, tables
  <2>2. CASE UNCHANGED seated
    BY <2>2
  <2> QED BY <2>1, <2>2 DEF Step, Fail, LosePublication, NotFound,
         InsertMessage, Reopen, TellReopened, NotResolved, PublishMessage, ResolveConversation,
         CreateConversation, TakeSeat, MissSeat, FindMessage, Rewrite, PublishEdit, MarkSeen,
         SaveLastMessage, PublishSeen, FindMember, AddMember, history
<1>7. \/ UNCHANGED bus
      \/ \E e \in Event : bus' = Append(bus, e) /\ Fits(e) /\ UNCHANGED conv
  <2>1. CASE TellReopened(p) \/ TakeSeat(p)
    <3>1. Pc(p) \in {"TellReopened", "Seat"}
      BY <1>3, <2>1 DEF TellReopened, TakeSeat
    <3>2. conv[l.conv].org \in Orgs /\ Stored(conv, l.conv)
      BY <1>1, <1>2, <3>1, Rows
    <3>3. PICK kind \in {"unresolved", "joined"} :
            Publish([kind |-> kind, conv |-> l.conv, id |-> None, customer |-> FALSE,
                     org |-> conv[l.conv].org])
      BY <2>1 DEF TellReopened, TakeSeat
    <3>4. PICK e : e = [kind |-> kind, conv |-> l.conv, id |-> None, customer |-> FALSE,
                        org |-> conv[l.conv].org]
      OBVIOUS
    <3>5. e \in Event /\ e.conv = l.conv /\ e.org = conv[l.conv].org
      BY <1>2, <3>2, <3>4 DEF Event
    <3>6. bus' = Append(bus, e) /\ UNCHANGED conv
      BY <2>1, <3>3, <3>4 DEF TellReopened, TakeSeat, Publish, tables
    <3> QED BY <3>2, <3>5, <3>6 DEF Fits
  <2>2. CASE PublishMessage(p)
    <3>1. Pc(p) = "Publish"
      BY <1>3, <2>2 DEF PublishMessage
    <3>2. conv[l.conv].org = l.org /\ Stored(conv, l.conv)
      BY <1>1, <1>2, <3>1 DEF Comes
    <3>3. l.id \in Ids \union {None} /\ (~l.user) \in BOOLEAN
      BY <1>1 DEF TypeOK, Local
    <3>4. PICK e : e = [kind |-> "message", conv |-> l.conv, id |-> l.id, customer |-> ~l.user,
                        org |-> l.org]
      OBVIOUS
    <3>5. e \in Event /\ e.conv = l.conv /\ e.org = l.org
      BY <1>2, <3>3, <3>4 DEF Event
    <3>6. bus' = Append(bus, e) /\ UNCHANGED conv
      BY <2>2, <3>4 DEF PublishMessage, Publish, tables
    <3> QED BY <3>2, <3>5, <3>6 DEF Fits
  <2>3. CASE PublishEdit(p) \/ PublishSeen(p)
    <3>1. Pc(p) \in {"PublishEdit", "PublishSeen"}
      BY <1>3, <2>3 DEF PublishEdit, PublishSeen
    <3>2. l.op \in {"edit", "see"}
      BY <1>1, <3>1 DEF Comes
    <3>3. l.id \in Ids /\ msg[l.id].conv = l.conv /\ Stored(conv, l.conv)
      BY <1>2, <3>1, <3>2
    <3>4. PICK kind \in {"edit", "seen"}, b \in BOOLEAN, o \in {None, l.org} :
            /\ Publish([kind |-> kind, conv |-> msg[l.id].conv, id |-> l.id, customer |-> b,
                        org |-> o])
            /\ kind = "seen" \/ o = None
      <4>1. (~l.user) \in BOOLEAN /\ (~l.agent) \in BOOLEAN
        OBVIOUS
      <4> QED BY <2>3, <4>1 DEF PublishEdit, PublishSeen
    <3>5. PICK e : e = [kind |-> kind, conv |-> msg[l.id].conv, id |-> l.id, customer |-> b,
                        org |-> o]
      OBVIOUS
    <3>6. e \in Event /\ e.conv = l.conv /\ e.org = o /\ e.kind = kind
      BY <1>2, <3>3, <3>5 DEF Event
    <3>7. bus' = Append(bus, e) /\ UNCHANGED conv
      BY <2>3, <3>4, <3>5 DEF PublishEdit, PublishSeen, Publish, tables
    <3> QED BY <3>3, <3>4, <3>6, <3>7 DEF Fits
  <2> QED BY <2>1, <2>2, <2>3 DEF Step, Fail, LosePublication, FindConversation, NotFound,
         InsertMessage, Reopen, NotResolved, ResolveConversation,
         CreateConversation, MissSeat, FindMessage, Rewrite, MarkSeen,
         SaveLastMessage, FindMember, AddMember, sockets
<1>8. ASSUME Pc(p) = "Publish", Alive(p)'
      PROVE  bus' = Append(bus, Told(p)) \/ l.id \in lost'
  <2>1. ~Fail(p)
    BY <1>8, Acts, Leaves DEF Fail, Left, Alive, Known
  <2>2. At(p, "Publish")
    BY <1>1, <1>8 DEF At, Pc
  <2>3. PublishMessage(p) \/ LosePublication(p)
    BY <2>1, <2>2 DEF Step, At, FindConversation, NotFound, InsertMessage, Reopen,
         TellReopened, NotResolved, ResolveConversation, CreateConversation,
         TakeSeat, MissSeat, FindMessage, Rewrite, PublishEdit, MarkSeen, SaveLastMessage,
         PublishSeen, FindMember, AddMember
  <2> QED BY <2>2, <2>3 DEF PublishMessage, Publish, Told, LosePublication
<1> QED BY <1>4, <1>5, <1>6, <1>7, <1>8

\* An event more.
LEMMA Appended ==
  ASSUME NEW s \in Seq(Event), NEW e \in Event
  PROVE  /\ \A i \in 1 .. Len(s) : i \in 1 .. Len(Append(s, e)) /\ Append(s, e)[i] = s[i]
         /\ \E i \in 1 .. Len(Append(s, e)) : Append(s, e)[i] = e
         /\ \A i \in 1 .. Len(Append(s, e)) : Append(s, e)[i] = e \/
              (i \in 1 .. Len(s) /\ Append(s, e)[i] = s[i])
<1>1. Len(s) \in Nat
  BY LenProperties
<1>2. /\ Len(Append(s, e)) = Len(s) + 1
      /\ \A i \in 1 .. Len(s) : Append(s, e)[i] = s[i]
      /\ Append(s, e)[Len(s) + 1] = e
  BY AppendProperties
<1>3. \A i \in 1 .. Len(s) + 1 : i \in 1 .. Len(s) \/ i = Len(s) + 1
  BY <1>1
<1>4. Len(s) + 1 \in 1 .. Len(s) + 1 /\ \A i \in 1 .. Len(s) : i \in 1 .. Len(s) + 1
  BY <1>1
<1> QED BY <1>2, <1>3, <1>4

\* One event less.
LEMMA Taken ==
  ASSUME NEW s \in Seq(Event), s # <<>>
  PROVE  /\ Head(s) \in Event /\ Tail(s) \in Seq(Event)
         /\ \E i \in 1 .. Len(s) : s[i] = Head(s)
         /\ \A i \in 1 .. Len(s) : s[i] = Head(s) \/
              \E j \in 1 .. Len(Tail(s)) : Tail(s)[j] = s[i]
         /\ \A j \in 1 .. Len(Tail(s)) : \E i \in 1 .. Len(s) : s[i] = Tail(s)[j]
<1>1. Len(s) \in Nat /\ Len(s) # 0
  BY LenProperties, EmptySeq
<1>2. /\ Head(s) \in Event /\ Tail(s) \in Seq(Event) /\ Head(s) = s[1]
      /\ Len(Tail(s)) = Len(s) - 1
      /\ \A i \in 1 .. Len(Tail(s)) : Tail(s)[i] = s[i + 1]
  BY HeadTailProperties
<1>3. 1 \in 1 .. Len(s)
  BY <1>1
<1>4. \A j \in 1 .. Len(s) - 1 : j + 1 \in 1 .. Len(s)
  BY <1>1
<1>5. \A i \in 1 .. Len(s) : i = 1 \/ (i - 1 \in 1 .. Len(s) - 1 /\ (i - 1) + 1 = i)
  BY <1>1
<1> QED BY <1>2, <1>3, <1>4, <1>5

LEMMA HomesStep ==
  ASSUME Known, Homes, NEW p \in Procs, Step(p) \/ Fail(p) \/ LosePublication(p)
  PROVE  Homes'
<1>1. TypeOK /\ TypeOK' /\ Grown
  BY Tables, TypeStep DEF Known
<1>5. \A e \in Event : Fits(e) =>
        /\ Stored(conv', e.conv)
        /\ e.kind # "seen" => e.org \in {None, conv'[e.conv].org}
  <2>1. \A e \in Event : e.conv \in Convs
    BY DEF Event
  <2> QED BY <1>1, <2>1 DEF Fits, Grown
<1>6. \A i \in 1 .. Len(bus') :
        /\ Stored(conv', bus'[i].conv)
        /\ bus'[i].kind # "seen" => bus'[i].org \in {None, conv'[bus'[i].conv].org}
  <2>1. bus \in Seq(Event) /\ bus' \in Seq(Event)
    BY <1>1 DEF TypeOK
  <2>2. \A i \in 1 .. Len(bus') : bus'[i] \in Event /\ Fits(bus'[i])
    <3>1. \A i \in 1 .. Len(bus') : bus'[i] \in Event
      BY <2>1, ElementOfSeq
    <3>2. CASE UNCHANGED bus
      BY <3>1, <3>2 DEF Homes
    <3>3. ASSUME NEW e \in Event, bus' = Append(bus, e), Fits(e)
          PROVE  \A i \in 1 .. Len(bus') : Fits(bus'[i])
      BY <2>1, <3>3, Appended DEF Homes
    <3> QED BY <3>1, <3>2, <3>3, Says
  <2> QED BY <1>5, <2>2
<1>7. \A s \in Staff \union Guests : \A e \in inbox'[s] :
        /\ Stored(conv', e.conv)
        /\ s \in Staff /\ e.kind # "seen" => OrgOf[s] = conv'[e.conv].org
        /\ s \in Guests => <<s, e.conv>> \in seats' /\ ~e.customer
  <2>1. \A s \in Staff \union Guests : \A e \in inbox[s] : e.conv \in Convs
    BY <1>1 DEF TypeOK, Event
  <2> QED BY <1>1, <2>1, Says DEF Homes, Grown
<1> QED BY <1>6, <1>7 DEF Homes, Stored, Fits

\* The listener.
LEMMA Emits ==
  ASSUME Known, Homes, Emit
  PROVE  /\ Homes'
         /\ \A s \in Staff \union Guests : inbox[s] \subseteq inbox'[s]
         /\ \A s \in Staff : OrgOf[s] = Head(bus).org /\ Head(bus).kind = "message"
              => Head(bus) \in inbox'[s]
         /\ \A g \in Guests : /\ <<g, Head(bus).conv>> \in seats /\ ~Head(bus).customer
                              /\ Head(bus).kind = "message"
              => Head(bus) \in inbox'[g]
         /\ \A i \in 1 .. Len(bus) : bus[i] = Head(bus) \/
              \E j \in 1 .. Len(bus') : bus'[j] = bus[i]
         /\ UNCHANGED <<conv, todo, local, answer, seats, seated, lost>>
<1> DEFINE e == Head(bus)
<1>1. /\ bus # <<>> /\ bus' = Tail(bus)
      /\ inbox' = [s \in Staff \union Guests |->
                     IF s \in Receivers(e) THEN inbox[s] \union {e} ELSE inbox[s]]
      /\ UNCHANGED <<conv, todo, local, answer, seats, seated, lost>>
  BY DEF Emit, tables, history
<1>2. TypeOK /\ bus \in Seq(Event)
  BY DEF Known, TypeOK
<1>3. /\ e \in Event
      /\ \E i \in 1 .. Len(bus) : bus[i] = e
      /\ \A i \in 1 .. Len(bus) : bus[i] = e \/ \E j \in 1 .. Len(bus') : bus'[j] = bus[i]
      /\ \A j \in 1 .. Len(bus') : \E i \in 1 .. Len(bus) : bus[i] = bus'[j]
  BY <1>1, <1>2, Taken
<1> HIDE DEF e
<1>4. Fits(e)
  BY <1>3 DEF Homes
<1>5. /\ e.kind # "seen" => e.org \in {None, conv[e.conv].org}
      /\ Stored(conv, e.conv) /\ e.conv \in Convs
  BY <1>3, <1>4 DEF Fits, Event
<1>6. \A s \in Staff : OrgOf[s] \in Orgs /\ OrgOf[s] # None /\ s \notin Guests
  BY ChatAssumption
<1>7. ASSUME NEW s \in Receivers(e)
      PROVE  /\ s \in Staff /\ e.kind # "seen" => OrgOf[s] = conv[e.conv].org
             /\ s \in Guests => <<s, e.conv>> \in seats /\ ~e.customer
  <2>1. CASE s \in ToStaff(e)
    BY <1>5, <1>6, <2>1 DEF ToStaff
  <2>2. CASE s \in ToGuests(e)
    <3>1. <<s, e.conv>> \in seats /\ ~e.customer /\ s \in Guests
      BY <2>2 DEF ToGuests
    <3> QED BY <1>6, <3>1
  <2> QED BY <2>1, <2>2 DEF Receivers
<1>8. \A s \in Staff \union Guests : \A x \in inbox'[s] :
        /\ Stored(conv, x.conv)
        /\ s \in Staff /\ x.kind # "seen" => OrgOf[s] = conv[x.conv].org
        /\ s \in Guests => <<s, x.conv>> \in seats /\ ~x.customer
  <2> SUFFICES ASSUME NEW s \in Staff \union Guests, NEW x \in inbox'[s]
               PROVE  /\ Stored(conv, x.conv)
                      /\ s \in Staff /\ x.kind # "seen" => OrgOf[s] = conv[x.conv].org
                      /\ s \in Guests => <<s, x.conv>> \in seats /\ ~x.customer
    OBVIOUS
  <2>1. x \in inbox[s] \/ (x = e /\ s \in Receivers(e))
    BY <1>1
  <2> QED BY <1>5, <1>7, <2>1 DEF Homes
<1>9. \A i \in 1 .. Len(bus') : Fits(bus'[i])
  BY <1>3 DEF Homes
<1>10. Homes'
  BY <1>1, <1>8, <1>9 DEF Homes, Stored, Fits
<1>11. \A s \in Staff \union Guests : inbox[s] \subseteq inbox'[s]
  BY <1>1
<1>12. \A s \in Staff : OrgOf[s] = e.org /\ e.kind = "message" => e \in inbox'[s]
  BY <1>1 DEF Receivers, ToStaff
<1>13. \A g \in Guests : <<g, e.conv>> \in seats /\ ~e.customer /\ e.kind = "message"
         => e \in inbox'[g]
  BY <1>1 DEF Receivers, ToGuests
<1> QED BY <1>1, <1>3, <1>10, <1>11, <1>12, <1>13 DEF e

LEMMA HomesNext ==
  ASSUME Known, Homes, [Next]_vars
  PROVE  Homes'
<1>1. CASE UNCHANGED <<conv, seats, bus, inbox>>
  BY <1>1 DEF Homes, Fits, Stored
<1>2. ASSUME NEW p \in Procs, Receive(p)
      PROVE  UNCHANGED <<conv, seats, bus, inbox>>
  BY <1>2 DEF Receive, tables, sockets
<1> QED BY <1>1, <1>2, HomesStep, Emits
        DEF Next, vars, tables, sockets, UpdateLastMessage, LoseTask

\* What was heard, when neither the request nor its conversation moves away.
LEMMA ArrivedStill ==
  ASSUME Known, NEW q \in Procs, Alive(q), Pc(q) \notin {"Create", "Find"}, Grown,
         UNCHANGED local[q],
         \A s \in Staff \union Guests : inbox[s] \subseteq inbox'[s],
         q \in seated' => q \in seated, Arrived(q)
  PROVE  Arrived(q)'
<1>1. local[q].conv \in Convs /\ Stored(conv, local[q].conv) /\ TypeOK
  BY DEF Known, Informed
<1>2. /\ conv'[local[q].conv].org = conv[local[q].conv].org
      /\ conv'[local[q].conv].guest = conv[local[q].conv].guest
      /\ conv[local[q].conv].guest \in Guests
  BY <1>1, Rows DEF Grown
<1>3. Told(q)' = Told(q)
  BY DEF Told
<1>4. \A s \in Staff : OrgOf[s] = conv'[local[q].conv].org => Told(q) \in inbox'[s]
  BY <1>2 DEF Arrived
<1>5. local[q].user /\ q \in seated' => Told(q) \in inbox'[conv'[local[q].conv].guest]
  BY <1>2 DEF Arrived
<1> QED BY <1>3, <1>4, <1>5 DEF Arrived

LEMMA OnBusStill ==
  ASSUME TypeOK, NEW q \in Procs, UNCHANGED local[q], OnBus(q),
         bus' = bus \/ \E e \in Event : bus' = Append(bus, e)
  PROVE  OnBus(q)'
<1>1. Told(q)' = Told(q)
  BY DEF Told
<1>2. bus \in Seq(Event)
  BY DEF TypeOK
<1>3. \E i \in 1 .. Len(bus') : bus'[i] = Told(q)
  BY <1>2, Appended DEF OnBus
<1> QED BY <1>1, <1>3 DEF OnBus

Heard(q) ==
  Alive(q) /\ local[q].op \in {"say", "open"} =>
    /\ q \in seated => /\ ~ToFind(q)
                       /\ <<conv[local[q].conv].guest, local[q].conv>> \in seats
    /\ ~ToPublish(q) /\ local[q].id \notin lost => OnBus(q) \/ Arrived(q)

\* A request beside the one that takes a step.
LEMMA HeardOther ==
  ASSUME Known, NEW q \in Procs, Heard(q), UNCHANGED <<todo[q], local[q], answer[q]>>, Grown,
         seats \subseteq seats', lost \subseteq lost', q \in seated' => q \in seated,
         \A s \in Staff \union Guests : inbox[s] \subseteq inbox'[s],
         bus' = bus \/ \E e \in Event : bus' = Append(bus, e)
  PROVE  Heard(q)'
<1>1. /\ Pc(q)' = Pc(q) /\ (Alive(q)' <=> Alive(q)) /\ (ToFind(q)' <=> ToFind(q))
      /\ ToPublish(q)' <=> ToPublish(q)
  BY DEF Pc, Alive, Running, ToFind, ToInsert, ToPublish
<1> SUFFICES ASSUME Alive(q), local[q].op \in {"say", "open"}
             PROVE  /\ q \in seated' => /\ ~ToFind(q)
                                        /\ <<conv'[local[q].conv].guest, local[q].conv>> \in seats'
                    /\ ~ToPublish(q) /\ local[q].id \notin lost' => OnBus(q)' \/ Arrived(q)'
  BY <1>1 DEF Heard
<1>2. ASSUME ~ToFind(q)
      PROVE  conv'[local[q].conv].guest = conv[local[q].conv].guest
  BY <1>2 DEF Known, Informed, ToFind, Grown
<1>3. ASSUME ~ToPublish(q), local[q].id \notin lost'
      PROVE  OnBus(q)' \/ Arrived(q)'
  <2>1. OnBus(q) \/ Arrived(q)
    BY <1>3 DEF Heard
  <2>2. Pc(q) \notin {"Create", "Find"} /\ TypeOK
    BY <1>3 DEF ToPublish, ToInsert, ToFind, Known
  <2> QED BY <2>1, <2>2, ArrivedStill, OnBusStill
<1> QED BY <1>2, <1>3 DEF Heard

LEMMA HeardSelf ==
  ASSUME Known, NEW p \in Procs, Heard(p), Step(p) \/ Fail(p) \/ LosePublication(p)
  PROVE  Heard(p)'
<1> DEFINE l == local[p]
<1>1. /\ TypeOK /\ Running(p) /\ Informed(p) /\ Comes(l, Pc(p)) /\ Pc(p) \in Steps
      /\ Grown /\ Same(l, local'[p]) /\ (Advanced(p) \/ Left(p) \/ Skipped(p)) /\ Informed(p)'
  BY Acts, Where, Holds, Tables, InformedStep DEF Known, Held
<1> SUFFICES ASSUME Alive(p)', l.op \in {"say", "open"}
             PROVE  /\ p \in seated' =>
                         /\ ~ToFind(p)'
                         /\ <<conv'[l.conv].guest, l.conv>> \in seats'
                    /\ ~ToPublish(p)' /\ local'[p].id \notin lost' => OnBus(p)' \/ Arrived(p)'
  BY <1>1 DEF Heard, Same
<1>2. Advanced(p) \/ Skipped(p)
  BY <1>1, Acts DEF Left, Comes, Alive
<1>3. local'[p].agent = l.agent /\ local'[p].conv = l.conv
  BY <1>1 DEF Same
<1>4. p \in seated' => ~ToFind(p)' /\ <<conv'[l.conv].guest, l.conv>> \in seats'
  <2> SUFFICES ASSUME p \in seated'
               PROVE  ~ToFind(p)' /\ <<conv'[l.conv].guest, l.conv>> \in seats'
    OBVIOUS
  <2>1. CASE p \in seated
    <3>1. ~ToFind(p) /\ <<conv[l.conv].guest, l.conv>> \in seats
      BY <1>1, <2>1 DEF Heard, Alive
    <3>2. Pc(p) \in {"Insert", "Reopen", "TellReopened", "Publish"} \/ (Pc(p) = "Seat" /\ ~l.agent)
      BY <1>1, <3>1 DEF Comes, Steps, ToFind
    <3>3. Pc(p)' \in {"Reopen", "TellReopened", "Publish", "end"} \/ (Pc(p)' = "Seat" /\ ~l.agent)
      BY <1>2, <3>2 DEF Advanced, Skipped, After
    <3>4. conv'[l.conv].guest = conv[l.conv].guest
      BY <1>1, <3>2 DEF Informed, Alive, Grown
    <3> QED BY <1>3, <3>1, <3>3, <3>4, Says DEF ToFind
  <2>2. CASE p \notin seated
    <3>1. Pc(p) = "Find" /\ UNCHANGED conv /\ <<conv[l.conv].guest, l.conv>> \in seats
      BY <2>2, Says
    <3>2. Pc(p)' = "Insert"
      BY <1>1, <1>2, <3>1 DEF Advanced, Skipped, After
    <3> QED BY <3>1, <3>2, Says DEF ToFind
  <2> QED BY <2>1, <2>2
<1>5. ~ToPublish(p)' /\ local'[p].id \notin lost' => OnBus(p)' \/ Arrived(p)'
  <2> SUFFICES ASSUME ~ToPublish(p)', local'[p].id \notin lost'
               PROVE  OnBus(p)' \/ Arrived(p)'
    OBVIOUS
  <2>1. Pc(p) = "Publish" \/ (Pc(p) = "Seat" /\ ~l.agent)
    <3>1. Pc(p) # "Find" /\ Pc(p) # "Create" /\ Pc(p) # "Insert" /\ Pc(p) # "Reopen"
          /\ Pc(p) # "TellReopened" /\ ~(Pc(p) = "Seat" /\ l.agent)
      BY <1>1, <1>2, <1>3 DEF Advanced, Skipped, After, ToPublish, ToInsert, ToFind
    <3> QED BY <1>1, <3>1 DEF Comes, Steps
  <2>2. local'[p].id = l.id /\ Told(p)' = Told(p)
    <3>1. local'[p].id = l.id
      BY <2>1, Holds
    <3> QED BY <1>1, <3>1 DEF Told, Same
  <2>3. bus \in Seq(Event) /\ (bus' = bus \/ \E e \in Event : bus' = Append(bus, e))
    BY <1>1, Says DEF TypeOK
  <2>4. CASE Pc(p) = "Publish"
    <3>1. bus' = Append(bus, Told(p))
      BY <2>2, <2>4, Says
    <3>2. Told(p) \in Event
      <4>1. l.id \in Ids \union {None} /\ (~l.user) \in BOOLEAN /\ l.conv \in Convs /\ l.org \in Orgs
        BY <1>1 DEF TypeOK, Local, Informed, Alive
      <4> QED BY <4>1 DEF Told, Event
    <3>3. \E i \in 1 .. Len(bus') : bus'[i] = Told(p)
      BY <2>3, <3>1, <3>2, Appended
    <3> QED BY <2>2, <3>3 DEF OnBus
  <2>5. CASE Pc(p) = "Seat" /\ ~l.agent
    <3>1. ~ToPublish(p) /\ l.id \notin lost
      BY <2>2, <2>5, Says DEF ToPublish, ToInsert, ToFind
    <3>2. OnBus(p) \/ Arrived(p)
      BY <1>1, <3>1 DEF Heard, Alive
    <3>3. UNCHANGED local[p]
      <4>1. TakeSeat(p) \/ MissSeat(p) \/ Fail(p)
        <5>1. \A s : At(p, s) => s = "Seat"
          BY <2>5 DEF At, Pc
        <5> QED BY <5>1 DEF Step, LosePublication, FindConversation, NotFound, InsertMessage, Reopen,
         TellReopened, NotResolved, PublishMessage, ResolveConversation, CreateConversation,
         MissSeat, FindMessage, Rewrite, PublishEdit, MarkSeen, SaveLastMessage, PublishSeen,
         FindMember, AddMember
      <4> QED BY <4>1 DEF TakeSeat, MissSeat, Fail
    <3>4. p \in seated' => p \in seated
      BY <2>5, Says
    <3>5. \A s \in Staff \union Guests : inbox[s] \subseteq inbox'[s]
      BY Says
    <3>6. Alive(p) /\ Pc(p) \notin {"Create", "Find"}
      BY <1>1, <2>5 DEF Alive
    <3> QED BY <1>1, <2>3, <3>2, <3>3, <3>4, <3>5, <3>6, ArrivedStill, OnBusStill
  <2> QED BY <2>1, <2>4, <2>5
<1> QED BY <1>4, <1>5

LEMMA HeardEmit ==
  ASSUME Known, Homes, NEW q \in Procs, Heard(q), Emit
  PROVE  Heard(q)'
<1> DEFINE l == local[q]
<1>1. /\ UNCHANGED <<conv, todo, local, answer, seats, seated, lost>> /\ TypeOK
      /\ \A s \in Staff \union Guests : inbox[s] \subseteq inbox'[s]
  BY Emits DEF Known
<1>2. /\ Pc(q)' = Pc(q) /\ (Alive(q)' <=> Alive(q)) /\ (ToFind(q)' <=> ToFind(q))
      /\ ToPublish(q)' <=> ToPublish(q)
  BY <1>1 DEF Pc, Alive, Running, ToFind, ToInsert, ToPublish
<1>3. SUFFICES ASSUME Alive(q), l.op \in {"say", "open"}, ~ToPublish(q), l.id \notin lost
               PROVE  OnBus(q)' \/ Arrived(q)'
  BY <1>1, <1>2 DEF Heard
<1>4. Pc(q) \notin {"Create", "Find"} /\ ~ToFind(q) /\ Pc(q) # "Insert"
  BY <1>3 DEF ToPublish, ToInsert, ToFind
<1>5. l.conv \in Convs /\ Stored(conv, l.conv) /\ conv[l.conv].org = l.org
  BY <1>3, <1>4 DEF Known, Informed
<1>6. conv[l.conv].guest \in Guests
  BY <1>1, <1>5, Rows
<1>7. Told(q)' = Told(q)
  BY <1>1 DEF Told
<1>8. CASE Arrived(q)
  <2>1. Grown
    BY <1>1, TypeBeside
  <2> QED BY <1>1, <1>3, <1>4, <1>8, <2>1, ArrivedStill
<1>9. CASE OnBus(q)
  <2>1. PICK i \in 1 .. Len(bus) : bus[i] = Told(q)
    BY <1>9 DEF OnBus
  <2>2. CASE bus[i] = Head(bus)
    <3> DEFINE e == Head(bus)
    <3>2. e = Told(q)
      BY <2>1, <2>2
    <3> HIDE DEF e
    <3>5. e.kind = "message" /\ e.org = l.org /\ e.conv = l.conv /\ e.customer = ~l.user
      BY <3>2 DEF Told
    <3>1. /\ e.kind = "message" /\ e.org = l.org /\ e.conv = l.conv
          /\ l.user => ~e.customer
      BY <3>5
    <3>3. \A s \in Staff : OrgOf[s] = conv[l.conv].org => e \in inbox'[s]
      BY <1>5, <3>1, Emits DEF e
    <3>4. l.user /\ q \in seated => e \in inbox'[conv[l.conv].guest]
      <4>1. q \in seated => <<conv[l.conv].guest, l.conv>> \in seats
        BY <1>3 DEF Heard
      <4> QED BY <1>6, <3>1, <4>1, Emits DEF e
    <3> QED BY <1>1, <1>7, <3>2, <3>3, <3>4 DEF Arrived
  <2>3. CASE bus[i] # Head(bus)
    <3>1. \E j \in 1 .. Len(bus') : bus'[j] = Told(q)
      BY <2>1, <2>3, Emits
    <3> QED BY <1>7, <3>1 DEF OnBus
  <2> QED BY <2>2, <2>3
<1>10. OnBus(q) \/ Arrived(q)
  BY <1>3 DEF Heard
<1> QED BY <1>8, <1>9, <1>10

LEMMA HeardNext ==
  ASSUME Known, Homes, HeardInv, [Next]_vars
  PROVE  HeardInv'
<1>1. ASSUME NEW q \in Procs PROVE Heard(q)
  BY DEF HeardInv, Heard
<1> SUFFICES ASSUME NEW q \in Procs PROVE Heard(q)'
  BY DEF HeardInv, Heard
<1>2. ASSUME NEW p \in Procs, Step(p) \/ Fail(p) \/ LosePublication(p)
      PROVE  Heard(q)'
  <2>1. CASE q = p
    BY <1>1, <1>2, <2>1, HeardSelf
  <2>2. CASE q # p
    <3>1. UNCHANGED <<todo[q], local[q], answer[q]>> /\ Grown
      BY <1>2, <2>2, Acts, Holds, Tables DEF Moved, Held
    <3>2. /\ seats \subseteq seats' /\ lost \subseteq lost' /\ (q \in seated' => q \in seated)
          /\ \A s \in Staff \union Guests : inbox[s] \subseteq inbox'[s]
          /\ bus' = bus \/ \E e \in Event : bus' = Append(bus, e)
      BY <1>2, <2>2, Says
    <3> QED BY <1>1, <3>1, <3>2, HeardOther
  <2> QED BY <2>1, <2>2
<1>3. ASSUME NEW p \in Procs, Receive(p)
      PROVE  Heard(q)'
  <2>1. PICK l : Starts(p, l)
    BY <1>3, Received DEF Known
  <2>2. /\ UNCHANGED <<conv, msg, seats, bus, inbox, lost>> /\ seated' = seated \ {p}
        /\ \A r \in Procs \ {p} : UNCHANGED <<todo[r], local[r], answer[r]>>
    BY <2>1 DEF Starts, tables, sockets
  <2>3. Grown
    BY <2>2 DEF Grown, Stored
  <2>4. CASE q # p
    BY <1>1, <2>2, <2>3, <2>4, HeardOther
  <2>5. CASE q = p
    <3>1. local'[p] = l /\ l.op \in Ops /\ Pc(p)' = First(l.op)
      BY <2>1 DEF Starts
    <3>2. l.op \in {"say", "open"} => Pc(p)' \in {"Create", "Find"}
      BY <3>1 DEF First
    <3>3. local'[p].op \in {"say", "open"} => ToPublish(p)'
      BY <3>1, <3>2 DEF ToPublish, ToInsert, ToFind
    <3> QED BY <2>2, <2>5, <3>3 DEF Heard
  <2> QED BY <2>4, <2>5
<1>4. CASE UNCHANGED <<conv, msg, seats, bus, inbox, lost, seated, todo, local, answer>>
  <2>1. Grown
    BY <1>4 DEF Grown, Stored
  <2> QED BY <1>1, <1>4, <2>1, HeardOther
<1>5. CASE Emit
  BY <1>1, <1>5, HeardEmit
<1> QED BY <1>2, <1>3, <1>4, <1>5
        DEF Next, vars, tables, sockets, history, UpdateLastMessage, LoseTask

-----------------------------------------------------------------------------
(* Memberships.                                                            *)

\* Joins that found no membership and have yet to add theirs.
Adders(k) == {p \in Joins(k) : Pc(p) = "AddMember"}

Counts ==
  /\ members \in [Convs -> Nat] /\ crowd \in [Convs -> Nat]
  /\ \A k \in Convs : /\ Cardinality(Joins(k)) <= crowd[k]
                      /\ members[k] + Cardinality(Adders(k)) <= crowd[k]

LEMMA Finite ==
  ASSUME NEW k
  PROVE  /\ IsFiniteSet(Joins(k)) /\ Cardinality(Joins(k)) \in Nat
         /\ IsFiniteSet(Adders(k)) /\ Cardinality(Adders(k)) \in Nat
         /\ Cardinality(Adders(k)) <= Cardinality(Joins(k))
<1>1. IsFiniteSet(Joins(k))
  BY ChatAssumption, FS_Subset DEF Joins
<1>2. Adders(k) \subseteq Joins(k)
  BY DEF Adders
<1> QED BY <1>1, <1>2, FS_Subset, FS_CardinalityType

\* Fewer joins, and as many or fewer memberships about to be added.
LEMMA Fewer ==
  ASSUME Counts, UNCHANGED <<members, crowd>>,
         \A k \in Convs : Joins(k)' \subseteq Joins(k) /\ Adders(k)' \subseteq Adders(k)
  PROVE  Counts'
<1>1. ASSUME NEW k \in Convs
      PROVE  /\ Cardinality(Joins(k)') <= crowd[k]
             /\ members[k] + Cardinality(Adders(k)') <= crowd[k]
  <2>1. /\ IsFiniteSet(Joins(k)) /\ Cardinality(Joins(k)) \in Nat
        /\ IsFiniteSet(Adders(k)) /\ Cardinality(Adders(k)) \in Nat
    BY Finite
  <2>2. Cardinality(Joins(k)') <= Cardinality(Joins(k)) /\ Cardinality(Joins(k)') \in Nat
    BY <2>1, FS_Subset, FS_CardinalityType
  <2>3. Cardinality(Adders(k)') <= Cardinality(Adders(k)) /\ Cardinality(Adders(k)') \in Nat
    BY <2>1, FS_Subset, FS_CardinalityType
  <2> QED BY <2>1, <2>2, <2>3 DEF Counts
<1> QED BY <1>1 DEF Counts

\* A step of a task that does not join changes no membership.
LEMMA OtherStep ==
  ASSUME Known, NEW p \in Procs, Step(p) \/ Fail(p) \/ LosePublication(p),
         local[p].op # "join"
  PROVE  UNCHANGED <<members, crowd>>
<1>1. Pc(p) \notin {"FindMember", "AddMember"}
  BY Acts, Where DEF Known, Comes
<1>2. ~FindMember(p) /\ ~AddMember(p)
  BY <1>1 DEF FindMember, AddMember, At, Pc
<1> QED BY <1>2 DEF Step, Fail, LosePublication, FindConversation, NotFound, InsertMessage, Reopen,
         TellReopened, NotResolved, PublishMessage, ResolveConversation, CreateConversation,
         TakeSeat, MissSeat, FindMessage, Rewrite, PublishEdit, MarkSeen, SaveLastMessage,
         PublishSeen, tables, history

\* A join ends, goes on to add a membership where there is none, or adds it.
LEMMA JoinStep ==
  ASSUME Known, NEW p \in Procs, Step(p) \/ Fail(p) \/ LosePublication(p),
         local[p].op = "join"
  PROVE  /\ UNCHANGED crowd
         /\ \/ Pc(p)' = "end" /\ UNCHANGED members
            \/ Pc(p)' = "AddMember" /\ members[local[p].conv] = 0 /\ UNCHANGED members
            \/ /\ Pc(p) = "AddMember" /\ Pc(p)' = "end"
               /\ members' = [members EXCEPT ![local[p].conv] = @ + 1]
<1>1. /\ TypeOK /\ Running(p) /\ Follows
      /\ Pc(p) \in {"FindMember", "AddMember"}
  BY Acts, Where DEF Known, Comes, Steps
<1>2. FindMember(p) \/ AddMember(p) \/ Fail(p)
  <2>1. \A s : At(p, s) => s \in {"FindMember", "AddMember"}
    BY <1>1 DEF At, Pc
  <2> QED BY <2>1 DEF Step, LosePublication, FindConversation, NotFound, InsertMessage, Reopen,
         TellReopened, NotResolved, PublishMessage, ResolveConversation, CreateConversation,
         TakeSeat, MissSeat, FindMessage, Rewrite, PublishEdit, MarkSeen, SaveLastMessage, PublishSeen
<1>3. ASSUME \E r \in {"ok", "error"} : Leave(p, r)
      PROVE  Pc(p)' = "end"
  <2>1. todo' = [todo EXCEPT ![p] = <<>>]
    BY <1>3 DEF Leave
  <2>2. todo'[p] = <<>>
    BY <1>1, <2>1 DEF TypeOK
  <2> QED BY <2>2 DEF Pc, Running
<1>4. CASE FindMember(p)
  <2>1. Pc(p) = "FindMember" /\ UNCHANGED <<members, crowd>>
    BY <1>4 DEF FindMember, At, Pc, tables, history
  <2>2. CASE members[local[p].conv] = 0
    <3>1. Advanced(p)
      BY <1>1, <1>4, <2>2, Goes DEF FindMember
    <3> QED BY <2>1, <2>2, <3>1 DEF Advanced, After
  <2>3. CASE members[local[p].conv] # 0
    BY <1>3, <1>4, <2>1, <2>3 DEF FindMember
  <2> QED BY <2>2, <2>3
<1>5. CASE AddMember(p)
  <2>1. Pc(p) = "AddMember" /\ UNCHANGED crowd
    BY <1>5 DEF AddMember, At, Pc, history
  <2>2. Advanced(p)
    BY <1>1, <1>5, Goes DEF AddMember
  <2>3. Pc(p)' = "end"
    BY <2>1, <2>2 DEF Advanced, After
  <2> QED BY <1>5, <2>1, <2>3 DEF AddMember
<1>6. CASE Fail(p)
  BY <1>3, <1>6 DEF Fail, tables, history
<1> QED BY <1>2, <1>4, <1>5, <1>6

LEMMA CountsTask ==
  ASSUME Known, Counts, NEW p \in Procs, Step(p) \/ Fail(p) \/ LosePublication(p)
  PROVE  Counts'
<1>0. /\ Running(p) /\ local[p].conv \in Convs
      /\ \A q \in Procs \ {p} : todo'[q] = todo[q] /\ local'[q] = local[q]
      /\ local'[p].op = local[p].op /\ local'[p].conv = local[p].conv
      /\ Running(p)' <=> Pc(p)' # "end"
  <2>1. Running(p) /\ Informed(p)
    BY Acts DEF Known
  <2> QED BY <2>1, Acts, Holds DEF Informed, Alive, Moved, Held, Same
<1>3. /\ \A k \in Convs : Joins(k)' \subseteq Joins(k)
      /\ \A k \in Convs : Adders(k)' \ {p} = Adders(k) \ {p}
  BY <1>0 DEF Joins, Adders, Running, Pc
<1>1. CASE local[p].op # "join"
  <2>1. UNCHANGED <<members, crowd>>
    BY <1>1, OtherStep
  <2>2. \A k \in Convs : p \notin Joins(k)'
    BY <1>0, <1>1 DEF Joins
  <2>3. \A k \in Convs : Adders(k)' \subseteq Adders(k)
    BY <1>3, <2>2 DEF Adders
  <2> QED BY <1>3, <2>1, <2>3, Fewer
<1>2. CASE local[p].op = "join"
  <2> DEFINE c == local[p].conv
  <2>1. /\ UNCHANGED crowd
        /\ \/ Pc(p)' = "end" /\ UNCHANGED members
           \/ Pc(p)' = "AddMember" /\ members[c] = 0 /\ UNCHANGED members
           \/ /\ Pc(p) = "AddMember" /\ Pc(p)' = "end"
              /\ members' = [members EXCEPT ![c] = @ + 1]
    BY <1>2, JoinStep
  <2>2. c \in Convs /\ p \in Joins(c) /\ \A k \in Convs \ {c} : p \notin Joins(k)
    BY <1>0, <1>2 DEF Joins
  <2>3. \A k \in Convs : Joins(k)' \subseteq Joins(k)
    BY <1>3
  <2>4. \A k \in Convs : Adders(k)' \ {p} = Adders(k) \ {p}
    BY <1>3
  <2>5. \A k \in Convs \ {c} : p \notin Adders(k) /\ p \notin Adders(k)'
    BY <2>2, <2>3 DEF Adders
  <2>6. Pc(p)' = "end" => \A k \in Convs : p \notin Adders(k)'
    BY DEF Adders
  <2>7. CASE Pc(p)' = "end" /\ UNCHANGED members
    BY <2>1, <2>3, <2>4, <2>6, <2>7, Fewer
  <2>8. CASE Pc(p)' = "AddMember" /\ members[c] = 0 /\ UNCHANGED members
    <3>1. ASSUME NEW k \in Convs
          PROVE  /\ Cardinality(Joins(k)') <= crowd[k]
                 /\ members[k] + Cardinality(Adders(k)') <= crowd[k]
      <4>1. /\ IsFiniteSet(Joins(k)) /\ Cardinality(Joins(k)) \in Nat
            /\ IsFiniteSet(Adders(k)) /\ Cardinality(Adders(k)) \in Nat
        BY Finite
      <4>2. /\ IsFiniteSet(Joins(k)') /\ Cardinality(Joins(k)') \in Nat
            /\ Cardinality(Joins(k)') <= Cardinality(Joins(k))
        BY <2>3, <4>1, FS_Subset, FS_CardinalityType
      <4>3. Adders(k)' \subseteq Joins(k)'
        BY DEF Adders
      <4>4. Cardinality(Adders(k)') \in Nat /\ Cardinality(Adders(k)') <= Cardinality(Joins(k)')
        BY <4>2, <4>3, FS_Subset, FS_CardinalityType
      <4>5. CASE k = c
        BY <2>8, <4>1, <4>2, <4>4, <4>5 DEF Counts
      <4>6. CASE k # c
        <5>1. Adders(k)' = Adders(k)
          BY <2>4, <2>5, <4>6
        <5> QED BY <4>1, <4>2, <5>1 DEF Counts
      <4> QED BY <4>5, <4>6
    <3> QED BY <2>1, <2>8, <3>1 DEF Counts
  <2>9. CASE /\ Pc(p) = "AddMember" /\ Pc(p)' = "end"
             /\ members' = [members EXCEPT ![c] = @ + 1]
    <3>1. \A k \in Convs : Adders(k)' = Adders(k) \ {p}
      <4>1. \A k \in Convs : p \notin Adders(k)'
        BY <2>6, <2>9 DEF Adders
      <4> QED BY <2>4, <4>1
    <3>2. p \in Adders(c)
      BY <2>2, <2>9 DEF Adders
    <3>3. members' \in [Convs -> Nat] /\ crowd' \in [Convs -> Nat]
      BY <2>1, <2>2, <2>9 DEF Counts
    <3>4. ASSUME NEW k \in Convs
          PROVE  /\ Cardinality(Joins(k)') <= crowd[k]
                 /\ members'[k] + Cardinality(Adders(k)') <= crowd[k]
      <4>1. /\ IsFiniteSet(Joins(k)) /\ Cardinality(Joins(k)) \in Nat
            /\ IsFiniteSet(Adders(k)) /\ Cardinality(Adders(k)) \in Nat
        BY Finite
      <4>2. /\ Cardinality(Joins(k)') \in Nat
            /\ Cardinality(Joins(k)') <= Cardinality(Joins(k))
        BY <2>3, <4>1, FS_Subset, FS_CardinalityType
      <4>3. Cardinality(Adders(k)') = IF p \in Adders(k) THEN Cardinality(Adders(k)) - 1
                                      ELSE Cardinality(Adders(k))
        BY <3>1, <4>1, FS_RemoveElement
      <4>4. CASE k = c
        BY <2>9, <3>2, <4>1, <4>2, <4>3, <4>4 DEF Counts
      <4>5. CASE k # c
        BY <2>5, <2>9, <4>1, <4>2, <4>3, <4>5 DEF Counts
      <4> QED BY <4>4, <4>5
    <3> QED BY <2>1, <3>3, <3>4 DEF Counts
  <2> QED BY <2>1, <2>7, <2>8, <2>9
<1> QED BY <1>1, <1>2

LEMMA CountsReceive ==
  ASSUME Known, Counts, NEW p \in Procs, Receive(p)
  PROVE  Counts'
<1>1. PICK l : Starts(p, l)
  BY Received DEF Known
<1>2. PICK k \in Convs : k = l.conv
  BY <1>1 DEF Starts
<1>3. crowd' = IF l.op = "join" /\ Cardinality(Joins(k)) >= crowd[k]
               THEN [crowd EXCEPT ![k] = Cardinality(Joins(k)) + 1]
               ELSE crowd
  BY <1>1, <1>2 DEF Starts
<1>4. members' = members /\ ~Running(p)
  BY <1>1 DEF Starts, tables
<1>5. Pc(p)' # "AddMember"
  BY <1>1, ChatAssumption DEF Starts, First
<1>6. /\ local'[p] = l
      /\ \A q \in Procs \ {p} : todo'[q] = todo[q] /\ local'[q] = local[q]
  BY <1>1 DEF Starts
<1>7. \A c \in Convs : Adders(c)' = Adders(c)
  <2>1. \A c \in Convs : p \notin Adders(c) /\ p \notin Adders(c)'
    BY <1>4, <1>5 DEF Adders, Joins
  <2>2. \A c \in Convs : \A q \in Procs \ {p} : q \in Adders(c)' <=> q \in Adders(c)
    BY <1>6 DEF Adders, Joins, Running, Pc
  <2>3. \A c \in Convs : Adders(c) \subseteq Procs /\ Adders(c)' \subseteq Procs
    BY DEF Adders, Joins
  <2> QED BY <2>1, <2>2, <2>3
<1>8. \A c \in Convs : Joins(c)' \subseteq Joins(c) \union (IF l.op = "join" /\ c = k THEN {p} ELSE {})
  BY <1>2, <1>6 DEF Joins, Running
<1>9. crowd' \in [Convs -> Nat] /\ \A c \in Convs : crowd'[c] >= crowd[c]
  BY <1>3, Finite DEF Counts
<1>10. ASSUME NEW c \in Convs
       PROVE  /\ Cardinality(Joins(c)') <= crowd'[c]
              /\ members[c] + Cardinality(Adders(c)) <= crowd'[c]
  <2>1. /\ IsFiniteSet(Joins(c)) /\ Cardinality(Joins(c)) \in Nat
        /\ Cardinality(Adders(c)) \in Nat
    BY Finite
  <2>2. CASE l.op = "join" /\ c = k
    <3>1. /\ IsFiniteSet(Joins(c) \union {p})
          /\ Cardinality(Joins(c) \union {p}) \in Nat
          /\ Cardinality(Joins(c) \union {p}) <= Cardinality(Joins(c)) + 1
      BY <2>1, FS_AddElement
    <3>2. Cardinality(Joins(c)') \in Nat /\ Cardinality(Joins(c)') <= Cardinality(Joins(c)) + 1
      BY <1>8, <2>1, <2>2, <3>1, FS_Subset, FS_CardinalityType
    <3>3. crowd'[c] >= Cardinality(Joins(c)) + 1
      BY <1>3, <2>1, <2>2 DEF Counts
    <3> QED BY <1>9, <2>1, <3>2, <3>3 DEF Counts
  <2>3. CASE ~(l.op = "join" /\ c = k)
    <3>1. Joins(c)' \subseteq Joins(c)
      BY <1>8, <2>3
    <3>2. Cardinality(Joins(c)') \in Nat /\ Cardinality(Joins(c)') <= Cardinality(Joins(c))
      BY <2>1, <3>1, FS_Subset, FS_CardinalityType
    <3> QED BY <1>9, <2>1, <3>2 DEF Counts
  <2> QED BY <2>2, <2>3
<1> QED BY <1>4, <1>7, <1>9, <1>10 DEF Counts

LEMMA CountsNext ==
  ASSUME Known, Counts, [Next]_vars
  PROVE  Counts'
<1>1. CASE UNCHANGED <<todo, local, members, crowd>>
  <2>1. \A k \in Convs : Joins(k)' = Joins(k) /\ Adders(k)' = Adders(k)
    BY <1>1 DEF Joins, Adders, Running, Pc
  <2> QED BY <1>1, <2>1, Fewer
<1> QED BY <1>1, CountsTask, CountsReceive
        DEF Next, vars, tables, history, UpdateLastMessage, LoseTask, Emit

LEMMA CountsInit == Init => Counts
<1> SUFFICES ASSUME Init
             PROVE  Counts
  OBVIOUS
<1>1. \A k \in Convs : Joins(k) = {} /\ Adders(k) = {}
  <2>1. \A p \in Procs : ~Running(p)
    BY DEF Init, Running
  <2> QED BY <2>1 DEF Joins, Adders
<1>2. members \in [Convs -> Nat] /\ crowd \in [Convs -> Nat]
      /\ \A k \in Convs : members[k] = 0 /\ crowd[k] = 0
  BY DEF Init
<1>3. \A k \in Convs : Cardinality(Joins(k)) = 0 /\ Cardinality(Adders(k)) = 0
  BY <1>1, FS_EmptySet
<1> QED BY <1>2, <1>3 DEF Counts

-----------------------------------------------------------------------------
(* The theorems.                                                           *)

LEMMA KnownAlways == Spec => []Known
<1>1. Known /\ [Next]_vars => Known'
  BY KnownNext
<1> QED BY KnownInit, <1>1, PTL DEF Spec

LEMMA HomesAlways == Spec => []Homes
<1>1. Init => Homes
  <2> SUFFICES ASSUME Init
               PROVE  Homes
    OBVIOUS
  <2>1. Len(bus) = 0 /\ \A s \in Staff \union Guests : inbox[s] = {}
    BY DEF Init
  <2> QED BY <2>1 DEF Homes
<1>2. Known /\ Homes /\ [Next]_vars => Homes'
  BY HomesNext
<1> QED BY <1>1, <1>2, KnownAlways, PTL DEF Spec

\* Whatever requests arrive, interleave and fail: rows, events and what a
\* request has left are well-formed.
THEOREM TypeCorrect == Spec => []TypeOK
<1>1. Known => TypeOK
  BY DEF Known
<1> QED BY <1>1, KnownAlways, PTL

\* A customer's message that was answered has opened the conversation again, or
\* a resolution came after it was looked up.
THEOREM CustomersReopen == Spec => []ReopenedByCustomer
<1>1. Init => FreshInv
  BY DEF Init, FreshInv
<1>2. Known /\ FreshInv /\ [Next]_vars => FreshInv'
  BY FreshNext
<1>3. Known /\ FreshInv => ReopenedByCustomer
  <2> SUFFICES ASSUME Known, FreshInv, NEW p \in fresh, Answered(p, {"say", "open"}),
                      ~local[p].user
               PROVE  ~conv[local[p].conv].resolved
    BY DEF ReopenedByCustomer
  <2>1. Alive(p) /\ Pc(p) = "end" /\ local[p].op \in {"say", "open"}
    BY DEF Answered, Alive, Pc
  <2> QED BY <2>1 DEF FreshInv
<1> QED BY <1>1, <1>2, <1>3, KnownAlways, PTL DEF Spec

\* Background copies and seen marks leave the last message as it is, as long as
\* writers of a conversation did not overlap.
THEOREM LastMessageKept == Spec => []LastMessageCurrent
<1>1. Init => LastInv
  <2> SUFFICES ASSUME Init
               PROVE  LastInv
    OBVIOUS
  <2>1. \A p \in Procs : ~Running(p)
    BY DEF Init, Running
  <2>2. tasks = {} /\ \A k \in Convs : touched[k] = None
    BY DEF Init
  <2> QED BY <2>1, <2>2 DEF LastInv, Single, Copies, Waits, Marks, Saved, Writes
<1>2. Known /\ LastInv /\ [Next]_vars => LastInv'
  BY LastNext
<1>3. LastInv => LastMessageCurrent
  <2> SUFFICES ASSUME LastInv, NEW k \in Convs \ disturbed, ~Busy(k), touched[k] # None
               PROVE  last[k] = [id |-> touched[k], text |-> msg[touched[k]].text,
                                 seen |-> msg[touched[k]].seen]
    BY DEF LastMessageCurrent
  <2>1. Idle(k) /\ Saved(k)
    BY DEF Busy, Idle, LastInv
  <2> QED BY <2>1 DEF Saved, Snap
<1> QED BY <1>1, <1>2, <1>3, KnownAlways, PTL DEF Spec

\* A message that was answered is heard by the agents of the organization and
\* the customer in the room, and what else is heard of a conversation, by those
\* in its room and agents of its organization.
THEOREM AudienceHears == Spec => []HeardByItsAudience
<1>1. Init => HeardInv
  <2> SUFFICES ASSUME Init
               PROVE  HeardInv
    OBVIOUS
  <2>1. \A p \in Procs : ~Running(p) /\ answer[p] = None
    BY DEF Init, Running
  <2> QED BY <2>1, ChatAssumption DEF HeardInv, Alive
<1>2. Known /\ Homes /\ HeardInv /\ [Next]_vars => HeardInv'
  BY HeardNext
<1>3. Homes /\ HeardInv => HeardByItsAudience
  <2> SUFFICES ASSUME Homes, HeardInv
               PROVE  HeardByItsAudience
    OBVIOUS
  <2>1. ASSUME bus = <<>>, NEW p \in Procs, Answered(p, {"say", "open"}),
               local[p].id \notin lost
        PROVE  Arrived(p)
    <3>1. Alive(p) /\ Pc(p) = "end" /\ local[p].op \in {"say", "open"}
      BY <2>1 DEF Answered, Alive, Pc
    <3>2. ~ToPublish(p)
      BY <3>1 DEF ToPublish, ToInsert, ToFind
    <3>3. ~OnBus(p)
      BY <2>1 DEF OnBus
    <3> QED BY <2>1, <3>1, <3>2, <3>3 DEF HeardInv
  <2>2. ASSUME NEW p \in Procs, Arrived(p),
               NEW s \in {x \in Staff : OrgOf[x] = conv[local[p].conv].org} \union
                         (IF local[p].user /\ p \in seated
                          THEN {conv[local[p].conv].guest} ELSE {})
        PROVE  \E e \in inbox[s] : e.kind = "message" /\ e.id = local[p].id
    <3>1. Told(p) \in inbox[s]
      BY <2>2 DEF Arrived
    <3>2. Told(p).kind = "message" /\ Told(p).id = local[p].id
      BY DEF Told
    <3> QED BY <3>1, <3>2
  <2>3. \A s \in Staff \union Guests : \A e \in inbox[s] :
          /\ s \in Guests => <<s, e.conv>> \in seats /\ ~e.customer
          /\ s \in Staff /\ e.kind # "seen" => OrgOf[s] = conv[e.conv].org
    BY DEF Homes
  <2> QED BY <2>1, <2>2, <2>3 DEF HeardByItsAudience
<1> QED BY <1>1, <1>2, <1>3, KnownAlways, HomesAlways, PTL DEF Spec

\* An agent has no more memberships of a conversation than joins of it were ever
\* under way at once.
THEOREM MembershipsBounded == Spec => []MembersBounded
<1>1. Known /\ Counts /\ [Next]_vars => Counts'
  BY CountsNext
<1>2. Counts => MembersBounded
  BY Finite DEF Counts, MembersBounded
<1> QED BY CountsInit, <1>1, <1>2, KnownAlways, PTL DEF Spec
==============================================================================
