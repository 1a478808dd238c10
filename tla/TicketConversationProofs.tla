---------------------- MODULE TicketConversationProofs ----------------------
(***************************************************************************)
(* Proofs about the conversation on a ticket, for any requests, tickets,   *)
(* number of workers and bound on faults.  Three invariants are inductive  *)
(* together with TypeOK: Control says where requests, tasks and messages   *)
(* can be, History how the versions of a message grow while its writers    *)
(* interleave, Mailed what the log knows of each mail.                     *)
(***************************************************************************)
EXTENDS TicketConversationProps, SequenceTheorems, FiniteSetTheorems, TLAPS

-----------------------------------------------------------------------------
(* How far requests and tasks have come.                                   *)

\* What a request is about at each of its calls.
Placed(r) ==
  LET c == req[r]
  IN /\ c.at = "new" => c.op = "none"
     /\ c.at = "insert" => c.op \in {"send", "reply"} /\ c.message = r
     /\ c.at \in {"insert", "update", "check"} => c.base = 0
     /\ c.at \in {"update", "check"} => c.op = "edit"
     /\ c.at = "version" => c.op \in {"send", "edit"}
     /\ c.at = "queue" => c.op \in {"send", "reply", "confirm"}
     /\ c.op = "edit" => c.message \in Messages
     /\ c.op = "send" /\ c.at \in {"version", "queue"} => r \in Messages
     /\ c.op = "reply" /\ c.at = "queue" => r \in Messages

\* A message and the request that stored it.
Stored(m) ==
  /\ req[m].op \in {"send", "reply"} /\ req[m].message = m
  /\ req[m].at \notin {"new", "insert"}
  /\ texts[m] # <<>>

\* Only a request that was answered has a task, and each call of it is one
\* its actor makes.
Tasked(x) ==
  LET t == task[x]
  IN /\ t.at # "none" => /\ req[x].at = "ok" /\ req[x].op \in {"send", "reply", "confirm"}
                         /\ req[x].op \in {"send", "reply"} => x \in Messages
     /\ t.at \in {"ticket", "history"} => req[x].op = "send"
     /\ t.at \in {"hand", "sent", "failed"} => IsMail(x)
     /\ t.at = "emit" => req[x].op = "reply"

\* Requests, tasks and messages are where they can be.
Control ==
  /\ \A r \in Requests : Placed(r) /\ Tasked(r)
  /\ \A m \in Messages : Stored(m)

-----------------------------------------------------------------------------
(* The versions of a message.                                              *)

\* The version numbers a message has.
Numbers(m) == {v[1] : v \in versions[m]}

\* The first n of the texts s, numbered.
Numbered(s, n) == {<<i, s[i]>> : i \in 1 .. n}

\* A writer's text is stored; the number it found is not beyond the last.
Writing(r, m) ==
  /\ r \in ToSet(texts[m])
  /\ req[r].at = "version" => req[r].base = 0 \/ req[r].base \in Numbers(m)

\* While nothing has overlapped or failed, the only writer there may be brings
\* the last text, and its version is the one that is missing.
InOrder(m) ==
  LET s == Audited(m)
  IN /\ Writers(m) = {} => versions[m] = Numbered(s, Len(s))
     /\ \A r \in Writers(m) :
          /\ Writers(m) = {r}
          /\ s # <<>> /\ s[Len(s)] = r
          /\ versions[m] = Numbered(s, Len(s) - 1)
          /\ req[r].at = "version" => req[r].base = Len(s) - 1

\* The versions of one message: no gap in the numbers, no text it never had.
Versioned(m) ==
  /\ \E n \in Nat : Numbers(m) = 1 .. n
  /\ \A v \in versions[m] : v[2] \in ToSet(texts[m])
  /\ \A r \in Writers(m) : Writing(r, m)
  /\ m \notin rough => InOrder(m)

\* Only stored messages have versions.
History ==
  /\ \A m \in Requests \ Messages : versions[m] = {}
  /\ \A m \in Messages : Versioned(m)

-----------------------------------------------------------------------------
(* What became of a mail.                                                  *)

\* The mail has its message in it, or the ticket has more than a mail shows.
Shows(x) ==
  \/ x \in task[x].body
  \/ Cardinality({m \in Messages : req[m].ticket = req[x].ticket}) > MailTail

\* How often a mail was handed over, or a reply shown, and why again.
Delivered(x) ==
  LET at == task[x].at
  IN /\ handed[x] <= 1 + again[x] /\ shown[x] <= 1 + again[x]
     /\ at \in {"none", "queued", "ticket", "history", "hand", "emit"} => handed[x] <= again[x]
     /\ at \notin {"ack", "done"} => shown[x] <= again[x]
     /\ at = "none" => handed[x] = 0 /\ shown[x] = 0 /\ rows[x] = {}
     /\ shown[x] > 0 => x \in Messages
     /\ (handed[x] > 0 \/ at = "hand") /\ req[x].op = "send" => Shows(x)

\* What the rows of a mail say, and what they may leave out.
Logged(x) ==
  LET at == task[x].at
  IN /\ "sent" \in rows[x] \/ at = "sent" => handed[x] > 0 \/ x \in refused
     /\ handed[x] > 0 => \/ again[x] > 0 \/ at = "sent"
                         \/ at = "failed" /\ x \in unlogged
                         \/ at \in {"ack", "done"} /\ ("sent" \in rows[x] \/ x \in unlogged)
     /\ at \in {"ack", "done"} /\ IsMail(x) => rows[x] # {}
     /\ faults = 0 => /\ again[x] = 0
                      /\ at = "failed" => req[x].ticket \in deleted
                      /\ "failed" \in rows[x] => /\ at \in {"ack", "done"} /\ handed[x] = 0
                                                 /\ req[x].ticket \in deleted
                      /\ at = "failed" => handed[x] = 0

Mailed == \A x \in Requests : Delivered(x) /\ Logged(x)

ConversationInv == Control /\ History /\ Mailed
-----------------------------------------------------------------------------
(* Types.                                                                  *)

Whereabouts == {"none", "queued", "ticket", "history", "hand", "sent", "failed", "emit",
                "ack", "done"}

\* The table's messages are finitely many requests.
LEMMA MessagesSet ==
  ASSUME TypeOK
  PROVE  /\ Messages = {table[i] : i \in 1 .. Len(table)}
         /\ Messages \subseteq Requests /\ IsFiniteSet(Messages)
<1>1. table \in Seq(Requests)
  BY DEF TypeOK
<1>2. Messages = {table[i] : i \in 1 .. Len(table)}
  BY <1>1 DEF Messages, ToSet
<1>3. Messages \subseteq Requests
  BY <1>1, <1>2
<1>4. IsFiniteSet({table[i] : i \in 1 .. Len(table)})
  <2>1. Len(table) \in Nat
    BY <1>1
  <2>2. IsFiniteSet(1 .. Len(table))
    BY <2>1, FS_Interval
  <2> DEFINE S == 1 .. Len(table)
             T == {table[i] : i \in S}
             f == [i \in S |-> table[i]]
  <2>3. f \in Surjection(S, T)
    <3>1. f \in [S -> T] /\ \A y \in T : \E i \in S : f[i] = y
      OBVIOUS
    <3> QED BY <3>1 DEF Surjection
  <2>4. IsFiniteSet(T)
    <3>1. IsFiniteSet(S)
      BY <2>2
    <3> HIDE DEF S, T, f
    <3> QED BY <2>3, <3>1, FS_Surjection
  <2> QED BY <2>4
<1> QED BY <1>2, <1>3, <1>4

\* The task is somewhere else and as it was otherwise.
MovedTo(x, where) ==
  task' = [y \in Requests |-> IF y = x THEN [at |-> where, body |-> task[x].body]
                              ELSE task[y]]

\* What a move does to a task, written out.
LEMMA MoveTo ==
  ASSUME TypeOK, NEW x \in Requests, NEW where
  PROVE  Move(x, where) <=> MovedTo(x, where)
<1>1. task \in [Requests -> Task]
  BY DEF TypeOK
<1>2. task[x] = [at |-> task[x].at, body |-> task[x].body]
  BY <1>1 DEF Task
<1>3. [task[x] EXCEPT !.at = where] = [at |-> where, body |-> task[x].body]
  BY <1>2
<1> QED BY <1>1, <1>3 DEF Move, MovedTo

\* A move to a known place keeps the type of the tasks.
LEMMA MovedType ==
  ASSUME TypeOK, NEW x \in Requests, NEW where \in Whereabouts, Move(x, where)
  PROVE  task' \in [Requests -> Task]
<1>1. MovedTo(x, where)
  BY MoveTo
<1> QED BY <1>1 DEF MovedTo, TypeOK, Task, Whereabouts

\* Every step of a worker keeps the types.
LEMMA WorkerType ==
  ASSUME TypeOK, Control, NEW x \in Requests, Worker(x) \/ WorkerFault(x)
  PROVE  TypeOK'
<1>1. /\ deleted' \subseteq Tickets /\ req' \in [Requests -> Request]
      /\ table' \in Seq(Requests) /\ stamp' \in [Requests -> Nat] /\ clock' \in Nat
      /\ texts' \in [Requests -> Seq(Requests)]
      /\ versions' \in [Requests -> SUBSET (Nat \X Requests)] /\ rough' \subseteq Requests
  <2>1. Still
    BY DEF Worker, WorkerFault, Take, ReadTicket, ReadHistory, HandOver, LogSent, LogFailed,
           Emit, Acknowledge, ReadRaises, Refuse, LogSentRaises, LogFailedRaises, EmitRaises,
           Crash
  <2> QED BY <2>1 DEF Still, storeVars, TypeOK
<1>2. faults' \in Nat
  BY DEF Worker, WorkerFault, Take, ReadTicket, ReadHistory, HandOver, LogSent, LogFailed,
         Emit, Acknowledge, ReadRaises, Refuse, LogSentRaises, LogFailedRaises, EmitRaises,
         Crash, Fault, TypeOK
<1>3. /\ again' \in [Requests -> Nat] /\ handed' \in [Requests -> Nat]
      /\ shown' \in [Requests -> Nat]
      /\ rows' \in [Requests -> SUBSET {"sent", "failed"}]
      /\ refused' \subseteq Requests /\ unlogged' \subseteq Requests
  <2>1. /\ again' = again \/ again' = [again EXCEPT ![x] = @ + 1]
        /\ handed' = handed \/ handed' = [handed EXCEPT ![x] = @ + 1]
        /\ shown' = shown \/ shown' = [shown EXCEPT ![x] = @ + 1]
    BY DEF Worker, WorkerFault, Take, ReadTicket, ReadHistory, HandOver, LogSent, LogFailed,
           Emit, Acknowledge, ReadRaises, Refuse, LogSentRaises, LogFailedRaises, EmitRaises,
           Crash
  <2>2. rows' = rows \/ Row(x, "sent") \/ Row(x, "failed")
    BY DEF Worker, WorkerFault, Take, ReadTicket, ReadHistory, HandOver, LogSent, LogFailed,
           Emit, Acknowledge, ReadRaises, Refuse, LogSentRaises, LogFailedRaises, EmitRaises,
           Crash
  <2>3. /\ refused' = refused \/ refused' = refused \union {x}
        /\ unlogged' = unlogged \/ unlogged' = unlogged \union {x}
    BY DEF Worker, WorkerFault, Take, ReadTicket, ReadHistory, HandOver, LogSent, LogFailed,
           Emit, Acknowledge, ReadRaises, Refuse, LogSentRaises, LogFailedRaises, EmitRaises,
           Crash
  <2>4. \A f \in [Requests -> Nat] : [f EXCEPT ![x] = @ + 1] \in [Requests -> Nat]
    OBVIOUS
  <2>5. ASSUME NEW what \in {"sent", "failed"}, Row(x, what)
        PROVE  rows' \in [Requests -> SUBSET {"sent", "failed"}]
    BY <2>5 DEF Row, TypeOK
  <2>6. rows' \in [Requests -> SUBSET {"sent", "failed"}]
    BY <2>2, <2>5 DEF TypeOK
  <2>7. refused' \subseteq Requests /\ unlogged' \subseteq Requests
    BY <2>3 DEF TypeOK
  <2>8. again \in [Requests -> Nat] /\ handed \in [Requests -> Nat] /\ shown \in [Requests -> Nat]
    BY DEF TypeOK
  <2> QED BY <2>1, <2>4, <2>6, <2>7, <2>8
<1>4. task' \in [Requests -> Task]
  <2>1. CASE Take(x)
    <3>1. req[x].op \in {"send", "confirm", "reply"}
      BY <2>1 DEF Take, On, Control, Tasked
    <3> QED BY <2>1, <3>1, MovedType DEF Take, Whereabouts
  <2>2. CASE ReadHistory(x)
    <3>1. PICK s \in Excerpts(req[x].ticket) :
            task' = [task EXCEPT ![x] = [at |-> "hand", body |-> s]]
      BY <2>2 DEF ReadHistory
    <3>2. s \subseteq Requests
      BY MessagesSet DEF Excerpts
    <3> QED BY <3>1, <3>2 DEF TypeOK, Task
  <2>3. CASE \E where \in Whereabouts : Move(x, where)
    BY <2>3, MovedType
  <2> QED BY <2>1, <2>2, <2>3
          DEF Worker, WorkerFault, ReadTicket, HandOver, LogSent, LogFailed, Emit, Acknowledge,
              ReadRaises, Refuse, LogSentRaises, LogFailedRaises, EmitRaises, Crash, Whereabouts
<1> QED BY <1>1, <1>2, <1>3, <1>4 DEF TypeOK
\* The request is at another call and has the version number b.
WentTo(r, where, b) ==
  req' = [q \in Requests |->
            IF q = r THEN [op |-> req[r].op, ticket |-> req[r].ticket,
                           message |-> req[r].message, at |-> where, base |-> b]
            ELSE req[q]]

\* What going on to the next call does to a request, written out.
LEMMA GoTo ==
  ASSUME TypeOK, NEW r \in Requests, NEW where, Goto(r, where)
  PROVE  WentTo(r, where, req[r].base)
<1>1. req \in [Requests -> Request]
  BY DEF TypeOK
<1>2. req[r] = [op |-> req[r].op, ticket |-> req[r].ticket, message |-> req[r].message,
                at |-> req[r].at, base |-> req[r].base]
  BY <1>1 DEF Request
<1>3. [req[r] EXCEPT !.at = where] =
        [op |-> req[r].op, ticket |-> req[r].ticket, message |-> req[r].message,
         at |-> where, base |-> req[r].base]
  BY <1>2
<1> QED BY <1>1, <1>3 DEF Goto, WentTo

\* So does the lookup of the newest version, which brings a number with it.
LEMMA CheckedTo ==
  ASSUME TypeOK, NEW r \in Requests, CheckVersion(r)
  PROVE  WentTo(r, "version", Newest(req[r].message))
<1>1. req \in [Requests -> Request]
  BY DEF TypeOK
<1>2. req[r] = [op |-> req[r].op, ticket |-> req[r].ticket, message |-> req[r].message,
                at |-> req[r].at, base |-> req[r].base]
  BY <1>1 DEF Request
<1> DEFINE b == Newest(req[r].message)
<1> DEFINE c == [req[r] EXCEPT !.base = b]
<1>3. [c EXCEPT !.at = "version"] =
        [op |-> req[r].op, ticket |-> req[r].ticket, message |-> req[r].message,
         at |-> "version", base |-> b]
  <2>1. c = [op |-> req[r].op, ticket |-> req[r].ticket, message |-> req[r].message,
             at |-> req[r].at, base |-> b]
    BY <1>2
  <2> HIDE DEF c
  <2> QED BY <2>1
<1>4. req' = [req EXCEPT ![r] = [c EXCEPT !.at = "version"]]
  BY <1>1 DEF CheckVersion
<1> QED BY <1>1, <1>3, <1>4 DEF WentTo

Calls == {"new", "insert", "update", "check", "version", "queue", "ok", "error"}

\* Going on to a known call keeps the type of the requests.
LEMMA WentType ==
  ASSUME TypeOK, NEW r \in Requests, NEW where \in Calls, NEW b \in Nat, WentTo(r, where, b)
  PROVE  req' \in [Requests -> Request]
BY DEF WentTo, TypeOK, Request, Calls

\* How a request starts.
StartedAs(r, op, t, m, where) ==
  req' = [q \in Requests |->
            IF q = r THEN [op |-> op, ticket |-> t, message |-> m, at |-> where, base |-> 0]
            ELSE req[q]]

\* What starting a request does to it, written out.
LEMMA Begun ==
  ASSUME TypeOK, NEW r \in Requests, NEW op, NEW t, NEW m, NEW where, Begin(r, op, t, m, where)
  PROVE  /\ req[r].at = "new"
         /\ StartedAs(r, op, t, m, where)
BY DEF Begin, At, TypeOK, StartedAs

\* Every call of a request, by what it does to the request itself.
LEMMA Called ==
  ASSUME TypeOK, Control, NEW r \in Requests, Handler(r)
  PROVE  \/ /\ req[r].at = "new"
            /\ \E op \in {"send", "edit", "reply", "confirm"}, t \in Tickets \union {Null},
                  m \in Requests \union {Null}, where \in Calls :
                 /\ StartedAs(r, op, t, m, where)
                 /\ <<op, where>> \in {<<"send", "insert">>, <<"reply", "insert">>,
                                        <<"send", "error">>, <<"edit", "update">>,
                                        <<"confirm", "queue">>}
                 /\ where = "insert" => m = r
                 /\ op = "edit" => m \in Messages
            /\ UNCHANGED <<table, texts, versions, rough>>
         \/ /\ At(r, "check") /\ CheckVersion(r)
            /\ WentTo(r, "version", Newest(req[r].message))
         \/ \E where \in Calls :
              /\ WentTo(r, where, req[r].base)
              /\ <<req[r].at, where>> \in
                   {<<"insert", "version">>, <<"insert", "queue">>, <<"insert", "error">>,
                    <<"insert", "ok">>, <<"update", "check">>, <<"update", "error">>,
                    <<"check", "version">>, <<"version", "queue">>, <<"version", "ok">>,
                    <<"queue", "ok">>}
              /\ where = "version" /\ req[r].at = "insert" => req[r].op = "send"
              /\ where = "queue" /\ req[r].at = "insert" => req[r].op # "send"
              /\ where = "queue" /\ req[r].at = "version" => req[r].op = "send"
              /\ where \in {"version", "queue"} /\ req[r].at = "insert" => Insert(r)
<1>1. ASSUME Send(r) \/ NoTicket(r) \/ Edit(r) \/ Reply(r) \/ Confirm(r)
      PROVE  /\ req[r].at = "new"
             /\ \E op \in {"send", "edit", "reply", "confirm"}, t \in Tickets \union {Null},
                   m \in Requests \union {Null}, where \in Calls :
                  /\ StartedAs(r, op, t, m, where)
                  /\ <<op, where>> \in {<<"send", "insert">>, <<"reply", "insert">>,
                                         <<"send", "error">>, <<"edit", "update">>,
                                         <<"confirm", "queue">>}
                  /\ where = "insert" => m = r
                  /\ op = "edit" => m \in Messages
             /\ UNCHANGED <<table, texts, versions, rough>>
  <2>1. Messages \subseteq Requests /\ deleted \subseteq Tickets
    BY MessagesSet DEF TypeOK
  <2>2. \A m \in Messages : req[m].ticket \in Tickets \union {Null}
    BY <2>1 DEF TypeOK, Request
  <2>3. Addressed \subseteq Tickets \union {Null}
    BY DEF Addressed, TypeOK, Request
  <2>4. UNCHANGED <<table, texts, versions, rough>>
    BY <1>1 DEF Send, NoTicket, Edit, Reply, Confirm, storeVars
  <2>5. \E op \in {"send", "edit", "reply", "confirm"}, t \in Tickets \union {Null},
          m \in Requests \union {Null}, where \in Calls :
          /\ Begin(r, op, t, m, where)
          /\ <<op, where>> \in {<<"send", "insert">>, <<"reply", "insert">>,
                                 <<"send", "error">>, <<"edit", "update">>,
                                 <<"confirm", "queue">>}
          /\ where = "insert" => m = r
          /\ op = "edit" => m \in Messages
    <3>1. CASE Send(r)
      BY <2>1, <3>1 DEF Send, Calls
    <3>2. CASE NoTicket(r)
      BY <2>1, <3>2 DEF NoTicket, Calls
    <3>3. CASE Edit(r)
      BY <2>1, <2>2, <3>3 DEF Edit, Calls
    <3>4. CASE Reply(r)
      BY <2>1, <2>3, <3>4 DEF Reply, Calls
    <3>5. CASE Confirm(r)
      BY <2>1, <3>5 DEF Confirm, Calls
    <3> QED BY <1>1, <3>1, <3>2, <3>3, <3>4, <3>5
  <2> QED BY <2>4, <2>5, Begun
<1>2. ASSUME CheckVersion(r)
      PROVE  At(r, "check") /\ WentTo(r, "version", Newest(req[r].message))
  BY <1>2, CheckedTo DEF CheckVersion
<1>3. ASSUME Insert(r)
      PROVE  /\ req[r].at = "insert"
             /\ WentTo(r, IF req[r].op = "send" THEN "version" ELSE "queue", req[r].base)
  BY <1>3, GoTo DEF Insert, At
<1>4. ASSUME InsertRaises(r)
      PROVE  /\ req[r].at = "insert"
             /\ WentTo(r, IF req[r].op = "send" THEN "error" ELSE "ok", req[r].base)
  BY <1>4, GoTo DEF InsertRaises, At
<1>5. ASSUME AddVersion(r) \/ AddVersionRaises(r)
      PROVE  /\ req[r].at = "version"
             /\ WentTo(r, IF req[r].op = "send" THEN "queue" ELSE "ok", req[r].base)
  BY <1>5, GoTo DEF AddVersion, AddVersionRaises, AfterVersion, At
<1>6. ASSUME Update(r)
      PROVE  req[r].at = "update" /\ WentTo(r, "check", req[r].base)
  BY <1>6, GoTo DEF Update, At
<1>7. ASSUME UpdateRaises(r)
      PROVE  req[r].at = "update" /\ WentTo(r, "error", req[r].base)
  BY <1>7, GoTo DEF UpdateRaises, At
<1>8. ASSUME CheckRaises(r)
      PROVE  req[r].at = "check" /\ WentTo(r, "version", req[r].base)
  BY <1>8, GoTo DEF CheckRaises, At
<1>9. ASSUME Enqueue(r) \/ EnqueueRaises(r)
      PROVE  req[r].at = "queue" /\ WentTo(r, "ok", req[r].base)
  BY <1>9, GoTo DEF Enqueue, EnqueueRaises, At
<1>10. CASE Send(r) \/ NoTicket(r) \/ Edit(r) \/ Reply(r) \/ Confirm(r)
  BY <1>1, <1>10
<1>11. CASE CheckVersion(r)
  BY <1>2, <1>11
<1>12. CASE Insert(r) \/ InsertRaises(r) \/ AddVersion(r) \/ AddVersionRaises(r) \/ Update(r)
            \/ UpdateRaises(r) \/ CheckRaises(r) \/ Enqueue(r) \/ EnqueueRaises(r)
  <2>1. {"version", "queue", "error", "ok", "check"} \subseteq Calls
    BY DEF Calls
  <2> QED BY <1>3, <1>4, <1>5, <1>6, <1>7, <1>8, <1>9, <1>12, <2>1
<1> QED BY <1>10, <1>11, <1>12 DEF Handler
\* Every call of a request, by what it does to the tables and the queue.
LEMMA Writes ==
  ASSUME TypeOK, NEW r \in Requests, Handler(r)
  PROVE  /\ UNCHANGED <<deleted, again, handed, rows, refused, unlogged, shown>>
         /\ faults' = faults \/ faults' = faults + 1
         /\ \/ UNCHANGED <<table, texts>>
            \/ At(r, "insert") /\ Store(r)
            \/ At(r, "update") /\ Write(r) /\ UNCHANGED table
         /\ UNCHANGED versions \/ (At(r, "version") /\ SaveVersion(r))
         /\ UNCHANGED task \/ (Enqueue(r) /\ At(r, "queue") /\ Move(r, "queued"))
         /\ rough \subseteq rough' /\ rough' \subseteq rough \union {r, req[r].message}
         /\ Insert(r) => Store(r)
<1>1. CASE Send(r) \/ NoTicket(r) \/ Edit(r) \/ Reply(r) \/ Confirm(r)
  BY <1>1 DEF Send, NoTicket, Edit, Reply, Confirm, Fault, storeVars, mailVars, Insert
<1>2. CASE Insert(r) \/ InsertRaises(r) \/ Update(r) \/ UpdateRaises(r)
  BY <1>2 DEF Insert, InsertRaises, Update, UpdateRaises, Fault, mailVars
<1>3. CASE CheckVersion(r) \/ CheckRaises(r) \/ AddVersion(r) \/ AddVersionRaises(r)
  BY <1>3 DEF CheckVersion, CheckRaises, AddVersion, AddVersionRaises, Fault, storeVars,
              mailVars, Insert
<1>4. CASE Enqueue(r) \/ EnqueueRaises(r)
  BY <1>4 DEF Enqueue, EnqueueRaises, Fault, storeVars, mailVars, Insert, Move
<1> QED BY <1>1, <1>2, <1>3, <1>4 DEF Handler

\* Messages are added by Store and by nothing else.
LEMMA StoredMessages ==
  ASSUME TypeOK, NEW r \in Requests
  PROVE  /\ UNCHANGED table => Messages' = Messages
         /\ Store(r) => Messages' = Messages \union {r}
<1>1. UNCHANGED table => Messages' = Messages
  BY DEF Messages
<1>2. ASSUME Store(r) PROVE Messages' = Messages \union {r}
  <2>1. table \in Seq(Requests) /\ table' = Append(table, r)
    BY <1>2 DEF TypeOK, Store
  <2>2. /\ table' \in Seq(Requests) /\ Len(table') = Len(table) + 1 /\ Len(table) \in Nat
        /\ \A i \in 1 .. Len(table) : table'[i] = table[i]
        /\ table'[Len(table) + 1] = r
    BY <2>1
  <2>3. Messages' = {table'[i] : i \in 1 .. Len(table')}
    BY <2>2 DEF Messages, ToSet
  <2>4. Messages = {table[i] : i \in 1 .. Len(table)}
    BY MessagesSet
  <2> QED BY <2>2, <2>3, <2>4
<1> QED BY <1>1, <1>2

\* Every step of a request keeps the types, if there is a newest version.
LEMMA HandlerType ==
  ASSUME TypeOK, Control, NEW r \in Requests, Handler(r),
         At(r, "check") => Newest(req[r].message) \in Nat
  PROVE  TypeOK'
<1>1. req' \in [Requests -> Request]
  <2>1. Messages \subseteq Requests
    BY MessagesSet
  <2>2. ASSUME NEW op \in {"send", "edit", "reply", "confirm"}, NEW t \in Tickets \union {Null},
               NEW m \in Requests \union {Null}, NEW where \in Calls,
               StartedAs(r, op, t, m, where)
        PROVE  req' \in [Requests -> Request]
    BY <2>2 DEF TypeOK, Request, Calls, StartedAs
  <2>3. "version" \in Calls /\ req[r].base \in Nat
    BY DEF Calls, TypeOK, Request
  <2>4. ASSUME At(r, "check"), WentTo(r, "version", Newest(req[r].message))
        PROVE  req' \in [Requests -> Request]
    BY <2>3, <2>4, WentType
  <2>5. ASSUME NEW where \in Calls, WentTo(r, where, req[r].base)
        PROVE  req' \in [Requests -> Request]
    BY <2>3, <2>5, WentType
  <2> QED BY <2>2, <2>4, <2>5, Called
<1>2. /\ deleted' \subseteq Tickets /\ faults' \in Nat
      /\ again' \in [Requests -> Nat] /\ handed' \in [Requests -> Nat]
      /\ rows' \in [Requests -> SUBSET {"sent", "failed"}]
      /\ refused' \subseteq Requests /\ unlogged' \subseteq Requests
      /\ shown' \in [Requests -> Nat]
  <2>1. UNCHANGED <<deleted, again, handed, rows, refused, unlogged, shown>>
    BY Writes
  <2>2. faults' = faults \/ faults' = faults + 1
    BY Writes
  <2>3. faults' \in Nat
    BY <2>2 DEF TypeOK
  <2> QED BY <2>1, <2>3 DEF TypeOK
<1>3. table' \in Seq(Requests) /\ texts' \in [Requests -> Seq(Requests)]
  <2>1. table \in Seq(Requests) /\ texts \in [Requests -> Seq(Requests)]
    BY DEF TypeOK
  <2>2. <<r>> \in Seq(Requests) /\ Append(table, r) \in Seq(Requests)
        /\ \A m \in Requests : Append(texts[m], r) \in Seq(Requests)
    BY <2>1
  <2>3. CASE Store(r)
    BY <2>1, <2>2, <2>3 DEF Store
  <2>4. CASE Write(r) /\ UNCHANGED table
    BY <2>1, <2>2, <2>4 DEF Write
  <2> QED BY <2>1, <2>3, <2>4, Writes
<1>4. task' \in [Requests -> Task]
  <2>1. "queued" \in Whereabouts
    BY DEF Whereabouts
  <2> QED BY <2>1, Writes, MovedType DEF TypeOK
<1>5. versions' \in [Requests -> SUBSET (Nat \X Requests)]
  <2>1. versions \in [Requests -> SUBSET (Nat \X Requests)] /\ req[r].base + 1 \in Nat
    BY DEF TypeOK, Request
  <2>2. <<req[r].base + 1, r>> \in Nat \X Requests
    BY <2>1
  <2> QED BY <2>1, <2>2, Writes DEF SaveVersion
<1>6. rough' \subseteq Requests
  <2>1. \/ rough' = rough \/ rough' = rough \union {r}
        \/ (req[r].at \in {"update", "check", "version"} /\ rough' = rough \union {req[r].message})
    BY DEF Handler, Send, NoTicket, Edit, Reply, Confirm, Insert, InsertRaises, Update,
           UpdateRaises, CheckVersion, CheckRaises, AddVersion, AddVersionRaises, Enqueue,
           EnqueueRaises, storeVars, At
  <2>2. req[r].at \in {"update", "check", "version"} => req[r].message \in Requests
    <3>1. Placed(r) /\ Messages \subseteq Requests /\ \A m \in Messages : Stored(m)
      BY MessagesSet DEF Control
    <3> QED BY <3>1 DEF Placed, Stored
  <2> QED BY <2>1, <2>2 DEF TypeOK
<1>7. stamp' \in [Requests -> Nat] /\ clock' \in Nat
  <2>1. Draft(r) \/ UNCHANGED <<stamp, clock>>
    BY DEF Handler, Send, NoTicket, Edit, Reply, Confirm, Insert, InsertRaises, Update,
           UpdateRaises, CheckVersion, CheckRaises, AddVersion, AddVersionRaises, Enqueue,
           EnqueueRaises, storeVars
  <2>2. stamp \in [Requests -> Nat] /\ clock \in Nat
    BY DEF TypeOK
  <2> QED BY <2>1, <2>2 DEF Draft
<1> QED BY <1>1, <1>2, <1>3, <1>4, <1>5, <1>6, <1>7 DEF TypeOK

\* No request loses its place.
LEMMA HandlerControl ==
  ASSUME TypeOK, Control, NEW r \in Requests, Handler(r)
  PROVE  Control'
<1>1. /\ \A q \in Requests : Placed(q) /\ Tasked(q)
      /\ \A m \in Messages : Stored(m)
      /\ Messages \subseteq Requests
  BY MessagesSet DEF Control
<1>2. /\ Messages \subseteq Messages' /\ Messages' \subseteq Messages \union {r}
      /\ r \in Messages' \ Messages => req[r].at = "insert"
      /\ Insert(r) => r \in Messages'
  BY StoredMessages, Writes DEF At
<1>3. \A q \in Requests \ {r} : req'[q] = req[q]
  BY Called DEF WentTo, StartedAs
<1>4. ASSUME NEW q \in Requests \ {r} PROVE Placed(q)'
  BY <1>1, <1>2, <1>3 DEF Placed
<1>5. Placed(r)'
  <2>1. Placed(r)
    BY <1>1
  <2> QED BY <1>2, <2>1, Called DEF Placed, WentTo, StartedAs, At
<1>6. req[r].at \notin {"ok", "error"} /\ task[r].at = "none"
  BY <1>1, Called DEF Tasked, At
<1>7. ASSUME NEW q \in Requests \ {r} PROVE Tasked(q)'
  <2>1. task'[q] = task[q]
    BY Writes, MoveTo DEF MovedTo
  <2> QED BY <1>1, <1>2, <1>3, <2>1 DEF Tasked, IsMail
<1>8. Tasked(r)'
  <2>1. CASE UNCHANGED task
    BY <1>6, <2>1 DEF Tasked
  <2>2. CASE Enqueue(r) /\ At(r, "queue") /\ Move(r, "queued")
    <3>1. task'[r].at = "queued"
      BY <2>2, MoveTo DEF MovedTo
    <3>2. WentTo(r, "ok", req[r].base)
      BY <2>2, GoTo DEF Enqueue
    <3>3. Placed(r) /\ At(r, "queue")
      BY <1>1, <2>2
    <3> QED BY <1>2, <3>1, <3>2, <3>3 DEF Tasked, Placed, WentTo, At
  <2> QED BY <2>1, <2>2, Writes
<1>9. ASSUME NEW m \in Messages' PROVE Stored(m)'
  <2>1. texts'[m] # <<>>
    <3>1. texts \in [Requests -> Seq(Requests)] /\ m \in Requests
      BY <1>1, <1>2 DEF TypeOK
    <3>2. CASE UNCHANGED <<table, texts>>
      BY <1>1, <3>2, StoredMessages DEF Stored
    <3>3. CASE At(r, "insert") /\ Store(r)
      BY <1>1, <1>2, <3>1, <3>3 DEF Store, Stored
    <3>4. CASE At(r, "update") /\ Write(r) /\ UNCHANGED table
      <4>1. texts[m] # <<>> /\ Append(texts[m], r) # <<>>
        BY <1>1, <3>1, <3>4, StoredMessages DEF Stored
      <4> QED BY <3>1, <3>4, <4>1 DEF Write
    <3> QED BY <3>2, <3>3, <3>4, Writes
  <2>2. CASE m # r
    BY <1>1, <1>2, <1>3, <2>1, <2>2 DEF Stored
  <2>3. CASE m = r
    <3>1. Placed(r) /\ (r \in Messages => Stored(r))
      BY <1>1
    <3>2. r \in Messages => req[r].at \notin {"new", "insert"}
      BY <3>1 DEF Stored
    <3>3. CASE r \in Messages
      BY <2>1, <2>3, <3>1, <3>2, <3>3, Called DEF Stored, WentTo, StartedAs, At
    <3>4. CASE r \notin Messages
      <4>1. req[r].at = "insert"
        BY <1>2, <2>3, <3>4
      <4> QED BY <2>1, <2>3, <3>1, <4>1, Called DEF Stored, Placed, WentTo, StartedAs, At
    <3> QED BY <3>3, <3>4
  <2> QED BY <2>2, <2>3
<1> QED BY <1>4, <1>5, <1>7, <1>8, <1>9 DEF Control

\* Workers write neither requests nor messages.
LEMMA WorkerStill ==
  ASSUME NEW x \in Requests, Worker(x) \/ WorkerFault(x)
  PROVE  UNCHANGED <<deleted, req, table, stamp, clock, texts, versions, rough>>
BY DEF Worker, WorkerFault, Take, ReadTicket, ReadHistory, HandOver, LogSent, LogFailed,
       Emit, Acknowledge, ReadRaises, Refuse, LogSentRaises, LogFailedRaises, EmitRaises,
       Crash, Still, storeVars

\* Where a task was and where it is.
LEMMA Worked ==
  ASSUME TypeOK, Control, NEW x \in Requests, Worker(x) \/ WorkerFault(x)
  PROVE  /\ \A y \in Requests \ {x} : task'[y] = task[y]
         /\ Take(x) => /\ task[x].at = "queued" /\ task'[x].at \in {"ticket", "hand", "emit"}
                       /\ task'[x].at = "ticket" => req[x].op = "send"
                       /\ task'[x].at = "hand" => req[x].op = "confirm"
                       /\ task'[x].at = "emit" => req[x].op = "reply"
         /\ ReadTicket(x) => /\ task[x].at = "ticket" /\ task'[x].at \in {"history", "failed"}
                             /\ task'[x].at = "failed" => req[x].ticket \in deleted
         /\ ReadHistory(x) => task[x].at = "history" /\ task'[x].at = "hand"
         /\ ReadRaises(x) => task[x].at \in {"ticket", "history"} /\ task'[x].at = "failed"
         /\ HandOver(x) \/ Refuse(x) => task[x].at = "hand" /\ task'[x].at = "sent"
         /\ LogSent(x) => task[x].at = "sent" /\ task'[x].at = "ack"
         /\ LogSentRaises(x) => task[x].at = "sent" /\ task'[x].at = "failed"
         /\ LogFailed(x) => task[x].at = "failed" /\ task'[x].at = "ack"
         /\ LogFailedRaises(x) => task[x].at = "failed" /\ task'[x].at = "queued"
         /\ Emit(x) \/ EmitRaises(x) => task[x].at = "emit" /\ task'[x].at = "ack"
         /\ Acknowledge(x) => task[x].at = "ack" /\ task'[x].at = "done"
         /\ Crash(x) => Running(x) /\ task'[x].at = "queued"
         /\ ReadHistory(x) \/ task'[x].body = task[x].body
<1>1. ASSUME NEW where, Move(x, where)
      PROVE  /\ \A y \in Requests \ {x} : task'[y] = task[y]
             /\ task'[x].at = where /\ task'[x].body = task[x].body
  BY <1>1, MoveTo DEF MovedTo
<1>2. ASSUME Take(x)
      PROVE  /\ \E where : Move(x, where)
             /\ task[x].at = "queued" /\ task'[x].at \in {"ticket", "hand", "emit"}
             /\ task'[x].at = "ticket" => req[x].op = "send"
             /\ task'[x].at = "hand" => req[x].op = "confirm"
             /\ task'[x].at = "emit" => req[x].op = "reply"
  <2>1. req[x].op \in {"send", "confirm", "reply"} /\ task[x].at = "queued"
    BY <1>2 DEF Take, On, Control, Tasked
  <2>2. PICK where : /\ Move(x, where)
                     /\ where = CASE req[x].op = "send"    -> "ticket"
                                  [] req[x].op = "confirm" -> "hand"
                                  [] req[x].op = "reply"   -> "emit"
    BY <1>2 DEF Take
  <2>3. \/ where = "ticket" /\ req[x].op = "send"
        \/ where = "hand" /\ req[x].op = "confirm"
        \/ where = "emit" /\ req[x].op = "reply"
    BY <2>1, <2>2
  <2>4. task'[x].at = where
    BY <1>1, <2>2
  <2> QED BY <2>1, <2>2, <2>3, <2>4
<1>3. ASSUME ReadTicket(x)
      PROVE  /\ \E where : Move(x, where)
             /\ task[x].at = "ticket" /\ task'[x].at \in {"history", "failed"}
             /\ task'[x].at = "failed" => req[x].ticket \in deleted
  <2>1. task[x].at = "ticket" /\ \/ Move(x, "history")
                                 \/ Move(x, "failed") /\ req[x].ticket \in deleted
    BY <1>3 DEF ReadTicket, On
  <2> QED BY <1>1, <2>1
<1>4. ASSUME ReadHistory(x)
      PROVE  /\ task[x].at = "history" /\ task'[x].at = "hand"
             /\ \A y \in Requests \ {x} : task'[y] = task[y]
  <2>1. PICK s \in Excerpts(req[x].ticket) :
          task' = [task EXCEPT ![x] = [at |-> "hand", body |-> s]]
    BY <1>4 DEF ReadHistory
  <2>2. task'[x] = [at |-> "hand", body |-> s] /\ \A y \in Requests \ {x} : task'[y] = task[y]
    BY <2>1 DEF TypeOK
  <2> QED BY <1>4, <2>2 DEF ReadHistory, On
<1>5. /\ ReadRaises(x) => task[x].at \in {"ticket", "history"} /\ task'[x].at = "failed"
      /\ HandOver(x) \/ Refuse(x) => task[x].at = "hand" /\ task'[x].at = "sent"
      /\ LogSent(x) => task[x].at = "sent" /\ task'[x].at = "ack"
      /\ LogSentRaises(x) => task[x].at = "sent" /\ task'[x].at = "failed"
      /\ LogFailed(x) => task[x].at = "failed" /\ task'[x].at = "ack"
      /\ LogFailedRaises(x) => task[x].at = "failed" /\ task'[x].at = "queued"
  BY <1>1 DEF ReadRaises, HandOver, Refuse, LogSent, LogSentRaises, LogFailed, LogFailedRaises, On
<1>6. /\ Emit(x) \/ EmitRaises(x) => task[x].at = "emit" /\ task'[x].at = "ack"
      /\ Acknowledge(x) => task[x].at = "ack" /\ task'[x].at = "done"
      /\ Crash(x) => Running(x) /\ task'[x].at = "queued"
  BY <1>1 DEF Emit, EmitRaises, Acknowledge, Crash, On
<1>7. ReadHistory(x) \/ \E where : Move(x, where)
  BY <1>2, <1>3 DEF Worker, WorkerFault, HandOver, LogSent, LogFailed, Emit, Acknowledge, ReadRaises,
         Refuse, LogSentRaises, LogFailedRaises, EmitRaises, Crash
<1>8. /\ \A y \in Requests \ {x} : task'[y] = task[y]
      /\ ReadHistory(x) \/ task'[x].body = task[x].body
  BY <1>1, <1>4, <1>7
<1> QED BY <1>2, <1>3, <1>4, <1>5, <1>6, <1>8

\* No task loses its place.
LEMMA WorkerControl ==
  ASSUME TypeOK, Control, NEW x \in Requests, Worker(x) \/ WorkerFault(x)
  PROVE  Control'
<1>1. UNCHANGED <<req, table, texts>> /\ Messages' = Messages
  BY WorkerStill, StoredMessages
<1>2. \A r \in Requests : Placed(r) /\ Tasked(r)
  BY DEF Control
<1>3. \A r \in Requests : Placed(r)'
  BY <1>1, <1>2 DEF Placed
<1>4. \A m \in Messages : Stored(m)'
  BY <1>1 DEF Control, Stored
<1>5. \A y \in Requests \ {x} : Tasked(y)'
  BY <1>1, <1>2, Worked DEF Tasked, IsMail
<1>6. Tasked(x)'
  <2>1. Tasked(x)
    BY <1>2
  <2> QED BY <1>1, <2>1, Worked DEF Tasked, IsMail, Running, Worker, WorkerFault
<1> QED BY <1>1, <1>3, <1>4, <1>5, <1>6 DEF Control

-----------------------------------------------------------------------------
(* Sequences and their numbering.                                          *)

\* An edit of a reply is appended to what is kept of it.
LEMMA TailAppend ==
  ASSUME NEW s \in Seq(Requests), s # <<>>, NEW r \in Requests
  PROVE  Tail(Append(s, r)) = Append(Tail(s), r)
<1>1. Len(s) \in Nat \ {0}
  BY EmptySeq, LenProperties
<1>2. /\ Append(s, r) \in Seq(Requests) /\ Len(Append(s, r)) = Len(s) + 1
      /\ \A i \in 1 .. Len(s) : Append(s, r)[i] = s[i]
      /\ Append(s, r)[Len(s) + 1] = r
  OBVIOUS
<1>3. Append(s, r) # <<>>
  BY <1>1, <1>2
<1>4. /\ Tail(Append(s, r)) \in Seq(Requests) /\ Len(Tail(Append(s, r))) = Len(s)
      /\ \A i \in 1 .. Len(s) : Tail(Append(s, r))[i] = Append(s, r)[i + 1]
  BY <1>1, <1>2, <1>3, HeadTailProperties
<1>5. /\ Tail(s) \in Seq(Requests) /\ Len(Tail(s)) = Len(s) - 1
      /\ \A i \in 1 .. Len(s) - 1 : Tail(s)[i] = s[i + 1]
  BY <1>1, HeadTailProperties
<1>6. /\ Append(Tail(s), r) \in Seq(Requests) /\ Len(Append(Tail(s), r)) = Len(s)
      /\ \A i \in 1 .. Len(s) - 1 : Append(Tail(s), r)[i] = s[i + 1]
      /\ Append(Tail(s), r)[Len(s)] = r
  BY <1>1, <1>5, AppendProperties
<1>7. \A i \in 1 .. Len(s) : Tail(Append(s, r))[i] = Append(Tail(s), r)[i]
  <2> SUFFICES ASSUME NEW i \in 1 .. Len(s)
               PROVE  Tail(Append(s, r))[i] = Append(Tail(s), r)[i]
    OBVIOUS
  <2>1. Tail(Append(s, r))[i] = Append(s, r)[i + 1]
    BY <1>4
  <2>2. CASE i = Len(s)
    BY <1>2, <1>6, <2>1, <2>2
  <2>3. CASE i # Len(s)
    <3>1. i \in 1 .. Len(s) - 1 /\ i + 1 \in 1 .. Len(s)
      BY <1>1, <2>3
    <3> QED BY <1>2, <1>6, <2>1, <3>1
  <2> QED BY <2>2, <2>3
<1> QED BY <1>4, <1>6, <1>7, SeqEqual

\* How the numbered texts grow with the texts.
LEMMA Numbering ==
  ASSUME NEW s \in Seq(Requests), NEW r \in Requests
  PROVE  /\ Numbered(Append(s, r), Len(s)) = Numbered(s, Len(s))
         /\ \A n \in Nat : {v[1] : v \in Numbered(s, n)} = 1 .. n
         /\ s # <<>> => Numbered(s, Len(s)) =
                          Numbered(s, Len(s) - 1) \union {<<Len(s), s[Len(s)]>>}
<1>1. Numbered(Append(s, r), Len(s)) = Numbered(s, Len(s))
  <2>1. \A i \in 1 .. Len(s) : Append(s, r)[i] = s[i]
    OBVIOUS
  <2> QED BY <2>1 DEF Numbered
<1>2. ASSUME NEW n \in Nat PROVE {v[1] : v \in Numbered(s, n)} = 1 .. n
  <2>1. \A v \in Numbered(s, n) : v[1] \in 1 .. n
    BY DEF Numbered
  <2>2. \A i \in 1 .. n : <<i, s[i]>> \in Numbered(s, n) /\ <<i, s[i]>>[1] = i
    BY DEF Numbered
  <2> QED BY <2>1, <2>2
<1>3. s # <<>> => Numbered(s, Len(s)) = Numbered(s, Len(s) - 1) \union {<<Len(s), s[Len(s)]>>}
  <2> SUFFICES ASSUME s # <<>>
               PROVE  Numbered(s, Len(s)) = Numbered(s, Len(s) - 1) \union {<<Len(s), s[Len(s)]>>}
    OBVIOUS
  <2>1. Len(s) \in Nat \ {0}
    BY EmptySeq, LenProperties
  <2>2. 1 .. Len(s) = (1 .. Len(s) - 1) \union {Len(s)}
    BY <2>1
  <2> QED BY <2>2 DEF Numbered
<1> QED BY <1>1, <1>2, <1>3

\* The newest of the versions 1 to n is n; of none it is 0.
LEMMA NewestIs ==
  ASSUME NEW m, NEW n \in Nat, Numbers(m) = 1 .. n
  PROVE  Newest(m) = n
<1>1. CASE n = 0
  <2>1. ASSUME NEW v \in versions[m] PROVE FALSE
    <3>1. v[1] \in Numbers(m)
      BY DEF Numbers
    <3> QED BY <1>1, <3>1
  <2> QED BY <1>1, <2>1 DEF Newest
<1>2. CASE n # 0
  <2>1. versions[m] # {}
    BY <1>2 DEF Numbers
  <2>2. n \in 1 .. n /\ \A k \in 1 .. n : n >= k
    BY <1>2
  <2>3. Max(1 .. n) = n
    BY <2>2 DEF Max
  <2> QED BY <2>1, <2>3 DEF Newest, Numbers
<1> QED BY <1>1, <1>2

\* A message has a text, and what is audited of it is a sequence.
LEMMA AuditedType ==
  ASSUME TypeOK, Control, NEW m \in Messages
  PROVE  /\ Audited(m) \in Seq(Requests)
         /\ texts[m] \in Seq(Requests) /\ texts[m] # <<>>
<1>1. m \in Requests /\ texts[m] \in Seq(Requests) /\ texts[m] # <<>>
  BY MessagesSet DEF TypeOK, Control, Stored
<1>2. Tail(texts[m]) \in Seq(Requests)
  BY <1>1, HeadTailProperties
<1> QED BY <1>1, <1>2 DEF Audited

\* A message that nobody writes keeps what is said of it.
LEMMA SameVersions ==
  ASSUME NEW m, Versioned(m), texts'[m] = texts[m], versions'[m] = versions[m],
         req'[m].op = req[m].op, Writers(m)' = Writers(m),
         \A q \in Writers(m) : req'[q] = req[q], m \in rough => m \in rough'
  PROVE  Versioned(m)'
<1>1. Numbers(m)' = Numbers(m) /\ Audited(m)' = Audited(m)
  BY DEF Numbers, Audited
<1>2. \A q \in Writers(m) : Writing(q, m) => Writing(q, m)'
  BY <1>1 DEF Writing
<1>3. InOrder(m) => InOrder(m)'
  BY <1>1 DEF InOrder
<1> QED BY <1>1, <1>2, <1>3 DEF Versioned

\* Writers of a message stored it or edit it.
LEMMA WriterKnown ==
  ASSUME TypeOK, Control, NEW m, NEW q \in Writers(m)
  PROVE  m \in Messages /\ (q # m => req[q].op = "edit") /\ q \in Requests
<1>1. q \in Requests /\ req[q].message = m /\ req[q].at \in {"check", "version"}
  BY DEF Writers
<1>2. Placed(q)
  BY <1>1 DEF Control
<1>3. CASE req[q].op = "edit"
  BY <1>1, <1>2, <1>3 DEF Placed
<1>4. CASE req[q].op # "edit"
  <2>1. q \in Messages
    BY <1>1, <1>2, <1>4 DEF Placed
  <2>2. req[q].message = q
    BY <2>1 DEF Control, Stored
  <2> QED BY <1>1, <2>1, <2>2
<1> QED BY <1>1, <1>3, <1>4

\* The lookup of the newest version finds a number.
LEMMA NewestNat ==
  ASSUME TypeOK, Control, History, NEW r \in Requests, At(r, "check")
  PROVE  Newest(req[r].message) \in Nat
<1>1. Placed(r)
  BY DEF Control
<1>2. req[r].message \in Messages
  BY <1>1 DEF Placed, At
<1>3. PICK n \in Nat : Numbers(req[r].message) = 1 .. n
  BY <1>2 DEF History, Versioned
<1> QED BY <1>3, NewestIs

\* A message is stored.
LEMMA InsertVersions ==
  ASSUME TypeOK, Control, History, NEW r \in Requests, Handler(r), At(r, "insert"), Store(r)
  PROVE  Versioned(r)'
<1>1. /\ Placed(r) /\ r \notin Messages
      /\ req[r].op \in {"send", "reply"} /\ req[r].message = r /\ req[r].base = 0
  BY DEF Control, Placed, Stored, At
<1>2. versions[r] = {} /\ versions' = versions
  BY <1>1, Writes DEF History, At
<1>3. texts'[r] = <<r>>
  BY DEF Store, TypeOK
<1>4. Writers(r) = {}
  BY <1>1, WriterKnown
<1>5. \A q \in Requests \ {r} : req'[q] = req[q]
  BY Called DEF WentTo, StartedAs
<1>6. req'[r].op = req[r].op /\ req'[r].message = r /\ req'[r].base = 0
  BY <1>1, Called DEF WentTo, At
<1>7. Writers(r)' \subseteq {r}
  BY <1>4, <1>5 DEF Writers
<1>8. Numbers(r)' = {}
  BY <1>2 DEF Numbers
<1>9. {} = 1 .. 0
  OBVIOUS
<1>10. r \in ToSet(<<r>>)
  BY DEF ToSet
<1>11. r \in Writers(r)' => Insert(r) /\ req[r].op = "send"
  <2>1. r \in Writers(r)' => req'[r].at \in {"check", "version"}
    BY DEF Writers
  <2> QED BY <2>1, Called DEF WentTo, At
<1>12. ASSUME r \notin rough' PROVE InOrder(r)'
  <2>1. Insert(r)
    <3>1. Insert(r) \/ InsertRaises(r)
      BY DEF Handler, Send, NoTicket, Edit, Reply, Confirm, Begin, Update, UpdateRaises,
             CheckVersion, CheckRaises, AddVersion, AddVersionRaises, Enqueue, EnqueueRaises, At
    <3>2. InsertRaises(r) => r \in rough'
      <4>1. table' # table
        BY DEF Store, TypeOK
      <4> QED BY <4>1 DEF InsertRaises
    <3> QED BY <1>12, <3>1, <3>2
  <2>2. WentTo(r, IF req[r].op = "send" THEN "version" ELSE "queue", req[r].base)
    BY <2>1, GoTo DEF Insert
  <2>3. CASE req[r].op = "send"
    <3>1. Audited(r)' = <<r>>
      BY <1>3, <1>6, <2>3 DEF Audited
    <3>2. Writers(r)' = {r}
      BY <1>7, <2>2, <2>3, <1>1 DEF Writers, WentTo
    <3>3. Numbered(<<r>>, 0) = {}
      BY <1>9 DEF Numbered
    <3> QED BY <1>2, <1>6, <3>1, <3>2, <3>3 DEF InOrder
  <2>4. CASE req[r].op = "reply"
    <3>1. Audited(r)' = <<>>
      BY <1>3, <1>6, <2>4 DEF Audited
    <3>2. Writers(r)' = {}
      BY <1>7, <1>11, <2>4
    <3>3. Numbered(<<>>, 0) = {} /\ Len(<<>>) = 0
      BY <1>9 DEF Numbered
    <3> QED BY <1>2, <3>1, <3>2, <3>3 DEF InOrder
  <2> QED BY <1>1, <2>3, <2>4
<1> QED BY <1>2, <1>3, <1>6, <1>7, <1>8, <1>9, <1>10, <1>12 DEF Versioned, Writing

\* A text is stored.
LEMMA UpdateVersions ==
  ASSUME TypeOK, Control, History, NEW r \in Requests, Handler(r), At(r, "update"),
         NEW m \in Messages, m = req[r].message
  PROVE  Versioned(m)'
<1>1. Versioned(m) /\ m \in Requests /\ Placed(r)
  BY MessagesSet DEF History, Control
<1>2. Update(r) \/ UpdateRaises(r)
  BY DEF Handler, Send, NoTicket, Edit, Reply, Confirm, Begin, Insert, InsertRaises,
         CheckVersion, CheckRaises, AddVersion, AddVersionRaises, Enqueue, EnqueueRaises, At
<1>3. versions' = versions
  BY Writes DEF At
<1>4. req[r].op = "edit" /\ r \notin Writers(m)
  BY <1>1 DEF Placed, At, Writers
<1>5. \A q \in Requests \ {r} : req'[q] = req[q]
  BY Called DEF WentTo, StartedAs
<1>6. req'[m].op = req[m].op
  BY <1>1, <1>5, Called DEF WentTo, At
<1>7. req'[r].message = m /\ req'[r].op = "edit" /\ req'[r].at \in {"check", "error"}
  BY <1>4, Called DEF WentTo, At
<1>8. CASE UNCHANGED <<texts, rough>> /\ UpdateRaises(r)
  <2>1. req'[r].at = "error"
    BY <1>8, GoTo DEF UpdateRaises, WentTo
  <2>2. Writers(m)' = Writers(m)
    BY <1>4, <1>5, <2>1 DEF Writers
  <2> QED BY <1>1, <1>3, <1>4, <1>5, <1>6, <1>8, <2>2, SameVersions DEF Writers
<1>9. CASE Write(r)
  <2> DEFINE t == texts[m]
  <2>1. texts'[m] = Append(t, r) /\ t \in Seq(Requests) /\ t # <<>>
    BY <1>1, <1>9, AuditedType DEF Write, TypeOK
  <2> HIDE DEF t
  <2>2. /\ Append(t, r) \in Seq(Requests) /\ Len(Append(t, r)) = Len(t) + 1
        /\ \A i \in 1 .. Len(t) : Append(t, r)[i] = t[i]
        /\ Append(t, r)[Len(t) + 1] = r
    BY <2>1
  <2>3. ToSet(t) \subseteq ToSet(Append(t, r)) /\ r \in ToSet(Append(t, r))
    BY <2>1, <2>2 DEF ToSet
  <2>4. Writers(m)' \subseteq Writers(m) \union {r}
    BY <1>5 DEF Writers
  <2>5. Numbers(m)' = Numbers(m)
    BY <1>3 DEF Numbers
  <2>6. ASSUME NEW q \in Writers(m)' PROVE Writing(q, m)'
    <3>1. CASE q = r
      BY <1>7, <2>1, <2>3, <3>1 DEF Writing
    <3>2. CASE q # r
      <4>1. q \in Writers(m) /\ req'[q] = req[q]
        BY <1>5, <2>4, <3>2 DEF Writers
      <4>2. q \in ToSet(t) /\ (req[q].at = "version" => req[q].base = 0 \/ req[q].base \in Numbers(m))
        BY <1>1, <4>1 DEF Versioned, Writing, t
      <4> QED BY <2>1, <2>3, <2>5, <4>1, <4>2 DEF Writing
    <3> QED BY <3>1, <3>2
  <2>7. ASSUME m \notin rough' PROVE InOrder(m)'
    <3>1. Update(r) /\ Writers(m) = {} /\ m \notin rough
      <4>1. texts' # texts
        <5>1. texts'[m] # texts[m]
          BY <2>1, <2>2 DEF t
        <5> QED BY <5>1
      <4>2. ~UpdateRaises(r)
        BY <2>7, <4>1 DEF UpdateRaises
      <4>3. Update(r)
        BY <1>2, <4>2
      <4> QED BY <2>7, <4>3 DEF Update
    <3>2. req'[r].at = "check"
      BY <3>1, GoTo DEF Update, WentTo
    <3>3. Writers(m)' = {r}
      BY <1>7, <2>4, <3>1, <3>2 DEF Writers
    <3> DEFINE s == Audited(m)
    <3>4. s \in Seq(Requests) /\ versions[m] = Numbered(s, Len(s))
      BY <1>1, <3>1, AuditedType DEF Versioned, InOrder
    <3>5. Audited(m)' = Append(s, r)
      BY <1>6, <2>1, TailAppend DEF Audited, t
    <3> HIDE DEF s
    <3>6. /\ Len(Append(s, r)) = Len(s) + 1 /\ Append(s, r)[Len(s) + 1] = r
          /\ Append(s, r) # <<>> /\ Len(s) \in Nat
      BY <3>4
    <3>7. versions'[m] = Numbered(Append(s, r), Len(Append(s, r)) - 1)
      BY <1>3, <3>4, <3>6, Numbering
    <3> QED BY <3>2, <3>3, <3>5, <3>6, <3>7 DEF InOrder
  <2>8. \A v \in versions'[m] : v[2] \in ToSet(texts[m])'
    BY <1>1, <1>3, <2>1, <2>3 DEF Versioned, t
  <2> QED BY <1>1, <2>5, <2>6, <2>7, <2>8 DEF Versioned
<1> QED BY <1>2, <1>8, <1>9 DEF Update, UpdateRaises

\* The newest version is looked up, or the lookup fails.
LEMMA CheckVersions ==
  ASSUME TypeOK, Control, History, NEW r \in Requests, Handler(r), At(r, "check"),
         NEW m \in Messages, m = req[r].message
  PROVE  Versioned(m)'
<1>1. Versioned(m) /\ m \in Requests /\ Placed(r)
  BY MessagesSet DEF History, Control
<1>2. CheckVersion(r) \/ CheckRaises(r)
  BY DEF Handler, Send, NoTicket, Edit, Reply, Confirm, Begin, Insert, InsertRaises,
         Update, UpdateRaises, AddVersion, AddVersionRaises, Enqueue, EnqueueRaises, At
<1>3. versions' = versions /\ texts' = texts
  BY Writes DEF At
<1>4. req[r].op = "edit" /\ r \in Writers(m) /\ req[r].base = 0
  BY <1>1 DEF Placed, At, Writers
<1>5. \A q \in Requests \ {r} : req'[q] = req[q]
  BY Called DEF WentTo, StartedAs
<1>6. /\ req'[m].op = req[m].op /\ req'[r].message = m /\ req'[r].at = "version"
  BY <1>1, <1>5, Called DEF WentTo, At
<1>7. Writers(m)' = Writers(m)
  BY <1>4, <1>5, <1>6 DEF Writers
<1>8. Numbers(m)' = Numbers(m) /\ Audited(m)' = Audited(m)
  BY <1>3, <1>6 DEF Numbers, Audited
<1>9. PICK n \in Nat : Numbers(m) = 1 .. n
  BY <1>1 DEF Versioned
<1>10. Newest(m) = n
  BY <1>9, NewestIs
<1>11. \/ CheckVersion(r) /\ req'[r].base = n
       \/ CheckRaises(r) /\ req'[r].base = 0 /\ m \in rough'
  <2>1. CheckVersion(r) => req'[r].base = n
    BY <1>10, CheckedTo DEF WentTo
  <2>2. CheckRaises(r) => req'[r].base = 0 /\ m \in rough'
    BY <1>4, GoTo DEF CheckRaises, WentTo
  <2> QED BY <1>2, <2>1, <2>2
<1>12. ASSUME NEW q \in Writers(m) PROVE Writing(q, m)'
  <2>1. Writing(q, m)
    BY <1>1 DEF Versioned
  <2>2. CASE q = r
    <3>1. n = 0 \/ n \in 1 .. n
      OBVIOUS
    <3> QED BY <1>3, <1>8, <1>9, <1>11, <2>1, <2>2, <3>1 DEF Writing
  <2>3. CASE q # r
    BY <1>3, <1>5, <1>8, <2>1, <2>3 DEF Writing, Writers
  <2> QED BY <2>2, <2>3
<1>13. ASSUME m \notin rough' PROVE InOrder(m)'
  <2>1. m \notin rough /\ CheckVersion(r) /\ req'[r].base = n
    BY <1>11, <1>13, Writes
  <2>2. InOrder(m)
    BY <1>1, <2>1 DEF Versioned
  <2> DEFINE s == Audited(m)
  <2>3. /\ Writers(m) = {r} /\ s # <<>> /\ s[Len(s)] = r
        /\ versions[m] = Numbered(s, Len(s) - 1)
    BY <1>4, <2>2 DEF InOrder
  <2>4. n = Len(s) - 1
    <3>1. s \in Seq(Requests)
      BY AuditedType
    <3> HIDE DEF s
    <3>2. Len(s) - 1 \in Nat
      BY <2>3, <3>1, EmptySeq, LenProperties
    <3>3. Numbers(m) = 1 .. Len(s) - 1
      BY <2>3, <3>1, <3>2, Numbering, <1>4 DEF Numbers
    <3> QED BY <1>10, <3>2, <3>3, NewestIs
  <2> QED BY <1>3, <1>7, <1>8, <2>1, <2>3, <2>4 DEF InOrder
<1> QED BY <1>1, <1>3, <1>7, <1>8, <1>12, <1>13 DEF Versioned

\* A version is stored, or not.
LEMMA SaveVersions ==
  ASSUME TypeOK, Control, History, NEW r \in Requests, Handler(r), At(r, "version"),
         NEW m \in Messages, m = req[r].message
  PROVE  Versioned(m)'
<1>1. Versioned(m) /\ m \in Requests /\ Placed(r)
  BY MessagesSet DEF History, Control
<1>2. AddVersion(r) \/ AddVersionRaises(r)
  BY DEF Handler, Send, NoTicket, Edit, Reply, Confirm, Begin, Insert, InsertRaises,
         Update, UpdateRaises, CheckVersion, CheckRaises, Enqueue, EnqueueRaises, At
<1>3. texts' = texts
  BY Writes DEF At
<1>4. r \in Writers(m) /\ Writing(r, m) /\ req[r].base \in Nat
  BY <1>1 DEF At, Writers, Versioned, TypeOK, Request
<1>5. \A q \in Requests \ {r} : req'[q] = req[q]
  BY Called DEF WentTo, StartedAs
<1>6. req'[m].op = req[m].op /\ req'[r].at \in {"queue", "ok"}
  BY <1>1, <1>5, Called DEF WentTo, At
<1>7. Writers(m)' = Writers(m) \ {r}
  BY <1>4, <1>5, <1>6 DEF Writers
<1>8. Audited(m)' = Audited(m)
  BY <1>3, <1>6 DEF Audited
<1> DEFINE b == req[r].base + 1
<1>9. versions'[m] = versions[m] \/ versions'[m] = versions[m] \union {<<b, r>>}
  <2>1. SaveVersion(r) => versions'[m] = versions[m] \union {<<b, r>>}
    BY <1>1 DEF SaveVersion, TypeOK
  <2> QED BY <2>1, Writes
<1>10. PICK n \in Nat : Numbers(m) = 1 .. n
  BY <1>1 DEF Versioned
<1>11. Numbers(m)' = Numbers(m) \/ Numbers(m)' = Numbers(m) \union {b}
  <2>1. {v[1] : v \in versions[m] \union {<<b, r>>}} = {v[1] : v \in versions[m]} \union {b}
    <3>1. <<b, r>>[1] = b
      OBVIOUS
    <3> HIDE DEF b
    <3> QED BY <3>1
  <2> QED BY <1>9, <2>1 DEF Numbers
<1>12. \E k \in Nat : Numbers(m)' = 1 .. k
  <2>1. b \in 1 .. n \/ b = n + 1
    BY <1>4, <1>10 DEF At, Writing
  <2>2. (1 .. n) \union {n + 1} = 1 .. n + 1 /\ n + 1 \in Nat
    OBVIOUS
  <2>3. b \in 1 .. n => (1 .. n) \union {b} = 1 .. n
    OBVIOUS
  <2> HIDE DEF b
  <2> QED BY <1>10, <1>11, <2>1, <2>2, <2>3
<1>13. \A v \in versions'[m] : v[2] \in ToSet(texts'[m])
  <2>1. r \in ToSet(texts[m])
    BY <1>4 DEF Writing
  <2> QED BY <1>1, <1>3, <1>9, <2>1 DEF Versioned
<1>14. ASSUME NEW q \in Writers(m)' PROVE Writing(q, m)'
  <2>1. q \in Writers(m) /\ req'[q] = req[q]
    BY <1>5, <1>7 DEF Writers
  <2>2. Writing(q, m)
    BY <1>1, <2>1 DEF Versioned
  <2> QED BY <1>3, <1>11, <2>1, <2>2 DEF Writing
<1>15. ASSUME m \notin rough' PROVE InOrder(m)'
  <2>1. m \notin rough /\ AddVersion(r)
    BY <1>2, <1>15, Writes DEF AddVersionRaises
  <2>2. InOrder(m)
    BY <1>1, <2>1 DEF Versioned
  <2> DEFINE s == Audited(m)
  <2>3. /\ Writers(m) = {r} /\ s # <<>> /\ s[Len(s)] = r
        /\ versions[m] = Numbered(s, Len(s) - 1) /\ req[r].base = Len(s) - 1
    BY <1>4, <2>2 DEF InOrder, At
  <2>4. s \in Seq(Requests)
    BY AuditedType
  <2>5. versions'[m] = versions[m] \union {<<b, r>>}
    BY <1>1, <2>1 DEF AddVersion, SaveVersion, TypeOK
  <2>6. versions'[m] = Numbered(s, Len(s))
    <3> HIDE DEF s
    <3>1. b = Len(s)
      BY <2>3, <2>4
    <3> QED BY <2>3, <2>4, <2>5, <3>1, Numbering
  <2>7. Writers(m)' = {}
    BY <1>7, <2>3
  <2> QED BY <1>8, <2>6, <2>7 DEF InOrder
<1> QED BY <1>12, <1>13, <1>14, <1>15 DEF Versioned

\* Requests keep the versions of every message in order.
LEMMA HandlerHistory ==
  ASSUME TypeOK, Control, History, NEW r \in Requests, Handler(r)
  PROVE  History'
<1>1. /\ Messages \subseteq Requests
      /\ Messages \subseteq Messages' /\ Messages' \subseteq Messages \union {r}
      /\ r \in Messages' \ Messages => At(r, "insert") /\ Store(r)
  BY MessagesSet, StoredMessages, Writes DEF At
<1>2. \A q \in Requests \ {r} : req'[q] = req[q]
  BY Called DEF WentTo, StartedAs
<1>3. Placed(r) /\ \A m \in Messages : Stored(m)
  BY DEF Control
<1>4. ASSUME NEW m \in Messages, At(r, "new") \/ At(r, "queue") \/ m # req[r].message
      PROVE  Versioned(m)'
  <2>1. Versioned(m) /\ Stored(m) /\ m \in Requests
    BY <1>1, <1>3 DEF History
  <2>2. r \notin Writers(m)
    BY <1>4 DEF Writers, At
  <2>3. r \notin Writers(m)'
    BY <1>4, Called DEF Writers, At, WentTo, StartedAs
  <2>4. Writers(m)' = Writers(m) /\ \A q \in Writers(m) : req'[q] = req[q]
    BY <1>2, <2>2, <2>3 DEF Writers
  <2>5. req'[m].op = req[m].op
    BY <1>2, <2>1, Called DEF Stored, At, WentTo
  <2>6. At(r, "insert") => m # r
    BY <2>1 DEF At, Stored
  <2>7. texts'[m] = texts[m]
    <3>1. texts \in [Requests -> Seq(Requests)]
      BY DEF TypeOK
    <3>2. At(r, "update") => m # req[r].message
      BY <1>4 DEF At
    <3> QED BY <2>1, <2>6, <3>1, <3>2, Writes DEF Store, Write
  <2>8. versions'[m] = versions[m]
    <3>1. versions \in [Requests -> SUBSET (Nat \X Requests)]
      BY DEF TypeOK
    <3>2. At(r, "version") => m # req[r].message
      BY <1>4 DEF At
    <3> QED BY <2>1, <3>1, <3>2, Writes DEF SaveVersion
  <2>9. m \in rough => m \in rough'
    BY Writes
  <2> QED BY <2>1, <2>4, <2>5, <2>7, <2>8, <2>9, SameVersions
<1>5. ASSUME NEW m \in Messages, ~At(r, "new"), ~At(r, "queue"), m = req[r].message
      PROVE  Versioned(m)'
  <2>1. ~At(r, "insert")
    BY <1>3, <1>5 DEF Placed, Stored, At
  <2>2. At(r, "update") \/ At(r, "check") \/ At(r, "version")
    BY <1>5, <2>1, Called DEF At
  <2> QED BY <1>5, <2>2, UpdateVersions, CheckVersions, SaveVersions
<1>6. \A m \in Messages' : Versioned(m)'
  BY <1>1, <1>4, <1>5, InsertVersions
<1>7. ASSUME NEW m \in Requests \ Messages' PROVE versions'[m] = {}
  <2>1. versions[m] = {} /\ m \notin Messages
    BY <1>1 DEF History
  <2>2. At(r, "version") => req[r].message # m
    BY <1>3, <2>1 DEF Placed, Stored, At
  <2>3. versions \in [Requests -> SUBSET (Nat \X Requests)]
    BY DEF TypeOK
  <2> QED BY <2>1, <2>2, <2>3, Writes DEF SaveVersion
<1> QED BY <1>6, <1>7 DEF History

\* Workers do not touch the versions.
LEMMA WorkerHistory ==
  ASSUME History, NEW x \in Requests, Worker(x) \/ WorkerFault(x)
  PROVE  History'
<1>1. UNCHANGED <<req, table, texts, versions, rough>>
  BY WorkerStill
<1>2. Messages' = Messages /\ \A m \in Messages : Writers(m)' = Writers(m)
  BY <1>1 DEF Messages, Writers
<1>3. \A m \in Messages : Versioned(m)'
  BY <1>1, <1>2, SameVersions DEF History
<1> QED BY <1>1, <1>2, <1>3 DEF History
-----------------------------------------------------------------------------
(* Mails.                                                                  *)

\* The messages of a ticket.
Of(t) == {m \in Messages : req[m].ticket = t}

\* A mail goes on showing its message while the ticket gets more of them.
LEMMA MoreShown ==
  ASSUME NEW x \in Requests, Shows(x), Messages \subseteq Messages', IsFiniteSet(Messages'),
         req'[x].ticket = req[x].ticket, task'[x].body = task[x].body,
         \A m \in Messages : req'[m].ticket = req[m].ticket
  PROVE  Shows(x)'
<1> DEFINE S == Of(req[x].ticket)
           T == {m \in Messages' : req'[m].ticket = req'[x].ticket}
<1>1. S \subseteq T
  BY DEF Of
<1>2. IsFiniteSet(T)
  BY FS_Subset
<1>3. IsFiniteSet(S) /\ Cardinality(S) \in Nat /\ Cardinality(T) \in Nat
      /\ Cardinality(S) <= Cardinality(T)
  BY <1>1, <1>2, FS_Subset, FS_CardinalityType
<1>4. MailTail \in Nat
  BY TicketConversationAssumption
<1>5. Cardinality(S) > MailTail => Cardinality(T) > MailTail
  BY <1>3, <1>4
<1> QED BY <1>5 DEF Shows, Of

\* Requests change nothing of what is known about mails that were queued.
LEMMA HandlerMailed ==
  ASSUME TypeOK, TypeOK', Control, Mailed, NEW r \in Requests, Handler(r)
  PROVE  Mailed'
<1>1. /\ \A m \in Messages : Stored(m)
      /\ Messages \subseteq Requests /\ Messages \subseteq Messages' /\ IsFiniteSet(Messages')
      /\ Tasked(r) /\ Delivered(r) /\ Logged(r)
  BY MessagesSet, StoredMessages, Writes, FS_AddElement DEF Control, Mailed
<1>2. \A q \in Requests \ {r} : req'[q] = req[q] /\ task'[q] = task[q]
  BY Called, Writes, MoveTo DEF WentTo, StartedAs, MovedTo
<1>3. /\ UNCHANGED <<deleted, again, handed, rows, refused, unlogged, shown>>
      /\ faults' = 0 => faults = 0
  <2>1. faults \in Nat /\ (faults' = faults \/ faults' = faults + 1)
    BY Writes DEF TypeOK
  <2>2. faults' = 0 => faults = 0
    BY <2>1
  <2> QED BY <2>2, Writes
<1>4. task[r].at = "none"
  BY <1>1, Called DEF Tasked, At
<1>5. task'[r].at \in {"none", "queued"}
  BY <1>4, Writes, MoveTo DEF MovedTo
<1>6. handed[r] = 0 /\ shown[r] = 0 /\ rows[r] = {} /\ again[r] \in Nat
  BY <1>1, <1>4 DEF Delivered, TypeOK
<1>7. Delivered(r)'
  BY <1>3, <1>5, <1>6 DEF Delivered
<1>8. Logged(r)'
  BY <1>1, <1>3, <1>5, <1>6 DEF Logged
<1>9. ASSUME NEW x \in Requests \ {r} PROVE Delivered(x)' /\ Logged(x)'
  <2>1. Delivered(x) /\ Logged(x) /\ req'[x] = req[x] /\ task'[x] = task[x]
    BY <1>2 DEF Mailed
  <2>2. \A m \in Messages : req'[m].ticket = req[m].ticket
    <3>1. r \in Messages => req'[r].ticket = req[r].ticket
      BY <1>1, Called DEF Stored, At, WentTo
    <3> QED BY <1>1, <1>2, <3>1
  <2>3. Shows(x) => Shows(x)'
    BY <1>1, <2>1, <2>2, MoreShown
  <2>4. Delivered(x)'
    BY <1>1, <1>3, <2>1, <2>3 DEF Delivered
  <2>5. Logged(x)'
    BY <1>3, <2>1 DEF Logged, IsMail
  <2> QED BY <2>4, <2>5
<1> QED BY <1>7, <1>8, <1>9 DEF Mailed

\* The mail shows its message, or there are too many of them.
LEMMA HistoryShows ==
  ASSUME TypeOK, Control, NEW x \in Requests, ReadHistory(x)
  PROVE  Shows(x)'
<1>1. task[x].at = "history"
  BY DEF ReadHistory, On
<1>2. x \in Messages
  BY <1>1 DEF Control, Tasked
<1> DEFINE all == Of(req[x].ticket)
<1>3. PICK s \in Excerpts(req[x].ticket) :
        task' = [task EXCEPT ![x] = [at |-> "hand", body |-> s]]
  BY DEF ReadHistory
<1>4. s \subseteq all /\ Cardinality(s) = Min({MailTail, Cardinality(all)})
  BY <1>3 DEF Excerpts, Of
<1>5. task'[x].body = s
  BY <1>3 DEF TypeOK
<1>6. UNCHANGED <<req, table>> /\ Messages' = Messages
  BY StoredMessages DEF ReadHistory, Still, storeVars
<1>7. IsFiniteSet(all) /\ Cardinality(all) \in Nat
  BY MessagesSet, FS_Subset, FS_CardinalityType DEF Of
<1>8. x \in all
  BY <1>2 DEF Of
<1>9. ASSUME x \notin s PROVE Cardinality(all) > MailTail
  <2>1. Cardinality(s) < Cardinality(all)
    <3>1. IsFiniteSet(s) /\ Cardinality(s) \in Nat /\ Cardinality(s) <= Cardinality(all)
      BY <1>4, <1>7, FS_Subset, FS_CardinalityType
    <3>2. Cardinality(s) = Cardinality(all) => s = all
      BY <1>4, <1>7, FS_Subset
    <3> QED BY <1>7, <1>8, <1>9, <3>1, <3>2
  <2>2. MailTail \in Nat
    BY TicketConversationAssumption
  <2>3. Cardinality(all) <= MailTail => Min({MailTail, Cardinality(all)}) = Cardinality(all)
    <3> DEFINE k == Cardinality(all)
    <3>1. k \in Nat
      BY <1>7
    <3> HIDE DEF k
    <3>2. k <= MailTail => Min({MailTail, k}) = k
      BY <2>2, <3>1 DEF Min
    <3> QED BY <3>2 DEF k
  <2> QED BY <1>4, <1>7, <2>1, <2>2, <2>3
<1>10. \/ x \in s
       \/ Cardinality({m \in Messages : req[m].ticket = req[x].ticket}) > MailTail
  BY <1>9 DEF Of
<1> HIDE DEF all
<1> QED BY <1>5, <1>6, <1>10 DEF Shows

\* A worker's step keeps what is known of the delivery of its own mail,
LEMMA WorkerDelivered ==
  ASSUME TypeOK, TypeOK', Control, Mailed, NEW x \in Requests, Worker(x) \/ WorkerFault(x)
  PROVE  Delivered(x)'
<1>1. UNCHANGED <<req, table>> /\ Messages' = Messages
  BY WorkerStill, StoredMessages
<1>2. Delivered(x) /\ Tasked(x)
  BY DEF Mailed, Control
<1>3. handed[x] \in Nat /\ again[x] \in Nat /\ shown[x] \in Nat
      /\ handed \in [Requests -> Nat] /\ again \in [Requests -> Nat]
      /\ shown \in [Requests -> Nat]
  BY DEF TypeOK
<1>4. task'[x].body = task[x].body /\ Shows(x) => Shows(x)'
  BY <1>1, MessagesSet, MoreShown
<1>5. CASE Take(x) \/ ReadTicket(x) \/ ReadRaises(x)
  <2>1. UNCHANGED <<handed, again, shown, rows>>
    BY <1>5 DEF Take, ReadTicket, ReadRaises
  <2>2. /\ task[x].at \in {"queued", "ticket", "history"}
        /\ task'[x].at \in {"ticket", "hand", "emit", "history", "failed"}
        /\ task'[x].at = "hand" => req[x].op = "confirm"
        /\ task'[x].body = task[x].body
    BY <1>5, Worked DEF Take, ReadTicket, ReadRaises, ReadHistory, On, Move
  <2> QED BY <1>1, <1>2, <1>4, <2>1, <2>2 DEF Delivered
<1>6. CASE ReadHistory(x)
  <2>1. UNCHANGED <<handed, again, shown, rows>> /\ task[x].at = "history"
    BY <1>6 DEF ReadHistory, On
  <2>2. task'[x].at = "hand"
    BY <1>6, Worked
  <2> QED BY <1>1, <1>2, <1>6, <2>1, <2>2, HistoryShows DEF Delivered
<1>7. CASE HandOver(x) \/ Refuse(x)
  <2>1. task[x].at = "hand" /\ task'[x].at = "sent" /\ task'[x].body = task[x].body
    BY <1>7, MoveTo DEF HandOver, Refuse, On, MovedTo
  <2>2. /\ UNCHANGED <<again, shown, rows>>
        /\ handed'[x] = handed[x] \/ handed'[x] = handed[x] + 1
    BY <1>3, <1>7 DEF HandOver, Refuse
  <2>3. handed[x] <= again[x] /\ shown[x] <= again[x] /\ (shown[x] > 0 => x \in Messages)
    BY <1>2, <2>1 DEF Delivered
  <2>4. req[x].op = "send" => Shows(x)'
    BY <1>2, <1>4, <2>1 DEF Delivered
  <2> QED BY <1>1, <1>3, <2>1, <2>2, <2>3, <2>4 DEF Delivered
<1>8. CASE LogSent(x) \/ LogSentRaises(x) \/ LogFailed(x) \/ EmitRaises(x) \/ Acknowledge(x)
  <2>1. UNCHANGED <<handed, again, shown>>
    BY <1>8 DEF LogSent, LogSentRaises, LogFailed, EmitRaises, Acknowledge
  <2>2. /\ task[x].at \in {"sent", "failed", "emit", "ack"}
        /\ task'[x].at \in {"ack", "failed", "done"}
        /\ task'[x].at = "failed" => task[x].at = "sent"
        /\ task'[x].body = task[x].body
    BY <1>8, MoveTo DEF LogSent, LogSentRaises, LogFailed, EmitRaises, Acknowledge, On, MovedTo
  <2> QED BY <1>1, <1>2, <1>3, <1>4, <2>1, <2>2 DEF Delivered
<1>9. CASE Emit(x)
  <2>1. UNCHANGED <<handed, again>> /\ shown'[x] = shown[x] + 1
    BY <1>3, <1>9 DEF Emit
  <2>2. task[x].at = "emit" /\ task'[x].at = "ack" /\ task'[x].body = task[x].body
    BY <1>9, MoveTo DEF Emit, On, MovedTo
  <2>3. x \in Messages
    BY <1>2, <2>2 DEF Tasked
  <2> QED BY <1>1, <1>2, <1>3, <1>4, <2>1, <2>2, <2>3 DEF Delivered
<1>10. CASE LogFailedRaises(x) \/ Crash(x)
  <2>1. UNCHANGED <<handed, shown>> /\ again'[x] = again[x] + 1
    BY <1>3, <1>10 DEF LogFailedRaises, Crash
  <2>2. task[x].at # "none" /\ task'[x].at = "queued" /\ task'[x].body = task[x].body
    BY <1>10, MoveTo DEF LogFailedRaises, Crash, On, Running, MovedTo
  <2> QED BY <1>1, <1>2, <1>3, <1>4, <2>1, <2>2 DEF Delivered
<1> QED BY <1>5, <1>6, <1>7, <1>8, <1>9, <1>10 DEF Worker, WorkerFault

\* and of the log of it,
LEMMA WorkerLogged ==
  ASSUME TypeOK, TypeOK', Control, Mailed, NEW x \in Requests, Worker(x) \/ WorkerFault(x)
  PROVE  Logged(x)'
<1>1. UNCHANGED <<req, deleted>>
  BY WorkerStill
<1>2. Logged(x) /\ Delivered(x) /\ Tasked(x)
  BY DEF Mailed, Control
<1>3. /\ handed[x] \in Nat /\ again[x] \in Nat /\ faults \in Nat
      /\ handed \in [Requests -> Nat] /\ again \in [Requests -> Nat]
      /\ rows \in [Requests -> SUBSET {"sent", "failed"}]
  BY DEF TypeOK
<1>4. CASE Take(x) \/ ReadTicket(x) \/ ReadHistory(x)
  <2>1. UNCHANGED <<handed, again, rows, refused, unlogged, faults>>
    BY <1>4 DEF Take, ReadTicket, ReadHistory
  <2>2. /\ task[x].at \in {"queued", "ticket", "history"}
        /\ task'[x].at \in {"ticket", "hand", "emit", "history", "failed"}
        /\ task'[x].at = "failed" => req[x].ticket \in deleted
    BY <1>4, Worked
  <2> QED BY <1>1, <1>2, <1>3, <2>1, <2>2 DEF Logged, Delivered
<1>5. CASE HandOver(x)
  <2>1. /\ UNCHANGED <<again, rows, refused, unlogged, faults>>
        /\ handed'[x] = handed[x] + 1
    BY <1>3, <1>5 DEF HandOver
  <2>2. task[x].at = "hand" /\ task'[x].at = "sent"
    BY <1>5, MoveTo DEF HandOver, On, MovedTo
  <2> QED BY <1>1, <1>2, <1>3, <2>1, <2>2 DEF Logged, Delivered
<1>6. CASE Refuse(x)
  <2>1. UNCHANGED <<again, rows, unlogged, handed>> /\ x \in refused' /\ faults' = faults + 1
    BY <1>6 DEF Refuse, Fault
  <2>2. task[x].at = "hand" /\ task'[x].at = "sent"
    BY <1>6, MoveTo DEF Refuse, On, MovedTo
  <2> QED BY <1>1, <1>2, <1>3, <2>1, <2>2 DEF Logged, Delivered
<1>7. CASE LogSent(x) \/ LogFailed(x)
  <2>1. UNCHANGED <<again, handed, refused, unlogged, faults>>
    BY <1>7 DEF LogSent, LogFailed
  <2>2. /\ task'[x].at = "ack"
        /\ \/ task[x].at = "sent" /\ rows'[x] = rows[x] \union {"sent"}
           \/ task[x].at = "failed" /\ rows'[x] = rows[x] \union {"failed"}
    <3>1. CASE LogSent(x)
      <4>1. task[x].at = "sent" /\ task'[x].at = "ack"
        BY <3>1, Worked
      <4> QED BY <1>3, <3>1, <4>1 DEF LogSent, Row
    <3>2. CASE LogFailed(x)
      <4>1. task[x].at = "failed" /\ task'[x].at = "ack"
        BY <3>2, Worked
      <4> QED BY <1>3, <3>2, <4>1 DEF LogFailed, Row
    <3> QED BY <1>7, <3>1, <3>2
  <2>3. CASE task[x].at = "sent" /\ rows'[x] = rows[x] \union {"sent"}
    BY <1>1, <1>2, <1>3, <2>1, <2>2, <2>3 DEF Logged
  <2>4. CASE task[x].at = "failed" /\ rows'[x] = rows[x] \union {"failed"}
    <3>1. ("sent" \in rows'[x] <=> "sent" \in rows[x]) /\ rows'[x] # {}
      BY <2>4
    <3>2. handed[x] > 0 => again[x] > 0 \/ x \in unlogged
      BY <1>2, <2>4 DEF Logged
    <3>3. "sent" \in rows[x] => handed[x] > 0 \/ x \in refused
      BY <1>2 DEF Logged
    <3>4. faults = 0 => again[x] = 0 /\ handed[x] = 0 /\ req[x].ticket \in deleted
      BY <1>2, <2>4 DEF Logged
    <3> QED BY <1>1, <2>1, <2>2, <3>1, <3>2, <3>3, <3>4 DEF Logged
  <2> QED BY <2>2, <2>3, <2>4
<1>8. CASE LogSentRaises(x)
  <2>1. /\ UNCHANGED <<again, handed, refused>> /\ unlogged' = unlogged \union {x}
        /\ faults' = faults + 1
        /\ rows'[x] = rows[x] \/ rows'[x] = rows[x] \union {"sent"}
    BY <1>3, <1>8 DEF LogSentRaises, Fault, Row
  <2>2. task[x].at = "sent" /\ task'[x].at = "failed"
    BY <1>8, MoveTo DEF LogSentRaises, On, MovedTo
  <2> QED BY <1>1, <1>2, <1>3, <2>1, <2>2 DEF Logged
<1>9. CASE LogFailedRaises(x) \/ Crash(x)
  <2>1. /\ UNCHANGED <<handed, refused, unlogged>> /\ again'[x] = again[x] + 1
        /\ faults' = faults + 1
        /\ rows'[x] = rows[x] \/ rows'[x] = rows[x] \union {"failed"}
    BY <1>3, <1>9 DEF LogFailedRaises, Crash, Fault, Row
  <2>2. task'[x].at = "queued"
    BY <1>9, MoveTo DEF LogFailedRaises, Crash, MovedTo
  <2> QED BY <1>1, <1>2, <1>3, <2>1, <2>2 DEF Logged
<1>10. CASE Emit(x) \/ EmitRaises(x)
  <2>1. /\ UNCHANGED <<handed, rows, refused, unlogged, again>>
        /\ faults' = faults \/ faults' = faults + 1
    BY <1>10 DEF Emit, EmitRaises, Fault
  <2>2. task[x].at = "emit" /\ task'[x].at = "ack"
    BY <1>10, MoveTo DEF Emit, EmitRaises, On, MovedTo
  <2>3. ~IsMail(x)
    BY <1>2, <2>2 DEF Tasked, IsMail
  <2> QED BY <1>1, <1>2, <1>3, <2>1, <2>2, <2>3 DEF Logged, Delivered, IsMail
<1>11. CASE Acknowledge(x) \/ ReadRaises(x)
  <2>1. /\ UNCHANGED <<handed, rows, refused, unlogged, again>>
        /\ \/ faults' = faults /\ task[x].at = "ack" /\ task'[x].at = "done"
           \/ /\ faults' = faults + 1 /\ task[x].at \in {"ticket", "history"}
              /\ task'[x].at = "failed"
    BY <1>11, MoveTo DEF Acknowledge, ReadRaises, Fault, On, MovedTo
  <2> QED BY <1>1, <1>2, <1>3, <2>1 DEF Logged, Delivered, IsMail
<1> QED BY <1>4, <1>5, <1>6, <1>7, <1>8, <1>9, <1>10, <1>11 DEF Worker, WorkerFault

\* and does not touch the others.
LEMMA WorkerMailed ==
  ASSUME TypeOK, TypeOK', Control, Mailed, NEW x \in Requests, Worker(x) \/ WorkerFault(x)
  PROVE  Mailed'
<1>1. ASSUME NEW y \in Requests \ {x} PROVE Delivered(y)' /\ Logged(y)'
  <2>1. UNCHANGED <<req, deleted, table>> /\ Messages' = Messages /\ task'[y] = task[y]
    BY WorkerStill, StoredMessages, Worked
  <2>2. Delivered(y) /\ Logged(y)
    BY DEF Mailed
  <2>3. /\ handed'[y] = handed[y] /\ again'[y] = again[y] /\ shown'[y] = shown[y]
        /\ rows'[y] = rows[y] /\ (y \in refused' <=> y \in refused)
        /\ (y \in unlogged' <=> y \in unlogged)
        /\ faults' = 0 => faults = 0
    <3>1. /\ again' = again \/ again' = [again EXCEPT ![x] = @ + 1]
          /\ handed' = handed \/ handed' = [handed EXCEPT ![x] = @ + 1]
          /\ shown' = shown \/ shown' = [shown EXCEPT ![x] = @ + 1]
          /\ rows' = rows \/ Row(x, "sent") \/ Row(x, "failed")
          /\ refused' = refused \/ refused' = refused \union {x}
          /\ unlogged' = unlogged \/ unlogged' = unlogged \union {x}
          /\ faults' = faults \/ faults' = faults + 1
      BY DEF Worker, WorkerFault, Take, ReadTicket, ReadHistory, HandOver, LogSent, LogFailed,
             Emit, Acknowledge, ReadRaises, Refuse, LogSentRaises, LogFailedRaises, EmitRaises,
             Crash, Fault
    <3>2. /\ again \in [Requests -> Nat] /\ handed \in [Requests -> Nat]
          /\ shown \in [Requests -> Nat] /\ faults \in Nat
          /\ rows \in [Requests -> SUBSET {"sent", "failed"}]
      BY DEF TypeOK
    <3> QED BY <3>1, <3>2 DEF Row
  <2>4. Shows(y)' <=> Shows(y)
    BY <2>1 DEF Shows
  <2>5. Delivered(y)'
    BY <2>1, <2>2, <2>3, <2>4 DEF Delivered
  <2>6. Logged(y)'
    BY <2>1, <2>2, <2>3 DEF Logged, IsMail
  <2> QED BY <2>5, <2>6
<1> QED BY <1>1, WorkerDelivered, WorkerLogged DEF Mailed

-----------------------------------------------------------------------------
(* The inductive invariant.                                                *)

IInv == TypeOK /\ ConversationInv

\* The invariant holds at first,
LEMMA InitIInv == Init => IInv
<1> SUFFICES ASSUME Init PROVE IInv
  OBVIOUS
<1>1. Messages = {}
  BY DEF Init, Messages, ToSet
<1>2. TypeOK
  BY DEF Init, TypeOK, Request, Task
<1>3. Control
  BY <1>1 DEF Init, Control, Placed, Tasked
<1>4. History
  BY <1>1 DEF Init, History
<1>5. Mailed
  BY <1>1 DEF Init, Mailed, Delivered, Logged, IsMail
<1> QED BY <1>2, <1>3, <1>4, <1>5 DEF IInv, ConversationInv

\* Nothing but a ticket's deletion happens.
LEMMA DeletedIInv ==
  ASSUME IInv, deleted \subseteq deleted', deleted' \subseteq Tickets,
         UNCHANGED <<req, storeVars, mailVars, faults>>
  PROVE  IInv'
<1> USE DEF storeVars, mailVars
<1>1. Messages' = Messages /\ \A m : Writers(m)' = Writers(m)
  BY DEF Messages, Writers
<1>2. TypeOK'
  BY DEF IInv, TypeOK
<1>3. Control'
  <2>1. Control
    BY DEF IInv, ConversationInv
  <2> QED BY <1>1, <2>1 DEF Control, Placed, Tasked, Stored, IsMail
<1>4. History'
  <2>1. History
    BY DEF IInv, ConversationInv
  <2>2. ASSUME NEW m \in Messages PROVE Versioned(m)'
    BY <1>1, <2>1, <2>2, SameVersions DEF History
  <2> QED BY <1>1, <2>1, <2>2 DEF History
<1>5. Mailed'
  <2>1. Mailed
    BY DEF IInv, ConversationInv
  <2>2. ASSUME NEW x \in Requests PROVE Delivered(x)'
    BY <1>1, <2>1 DEF Mailed, Delivered, Shows
  <2>3. ASSUME NEW x \in Requests PROVE Logged(x)'
    BY <2>1 DEF Mailed, Logged, IsMail
  <2> QED BY <2>2, <2>3 DEF Mailed
<1> QED BY <1>2, <1>3, <1>4, <1>5 DEF IInv, ConversationInv

\* and every step keeps it,
LEMMA NextIInv == IInv /\ [Next]_vars => IInv'
<1> SUFFICES ASSUME TypeOK, Control, History, Mailed, [Next]_vars PROVE IInv'
  BY DEF IInv, ConversationInv
<1>1. ASSUME NEW r \in Requests, Handler(r) PROVE IInv'
  <2>1. TypeOK'
    BY <1>1, NewestNat, HandlerType
  <2>2. Control' /\ History' /\ Mailed'
    BY <1>1, <2>1, HandlerControl, HandlerHistory, HandlerMailed
  <2> QED BY <2>1, <2>2 DEF IInv, ConversationInv
<1>2. ASSUME NEW x \in Requests, Worker(x) \/ WorkerFault(x) PROVE IInv'
  <2>1. TypeOK'
    BY <1>2, WorkerType
  <2>2. Control' /\ History' /\ Mailed'
    BY <1>2, <2>1, WorkerControl, WorkerHistory, WorkerMailed
  <2> QED BY <2>1, <2>2 DEF IInv, ConversationInv
<1>3. ASSUME NEW t \in Tickets, DeleteTicket(t) PROVE IInv'
  <2>1. deleted' \subseteq Tickets /\ deleted \subseteq deleted'
    BY <1>3 DEF DeleteTicket, TypeOK
  <2> QED BY <1>3, <2>1, DeletedIInv DEF IInv, ConversationInv, DeleteTicket
<1>4. CASE UNCHANGED vars
  BY <1>4, DeletedIInv DEF IInv, ConversationInv, vars, TypeOK
<1> QED BY <1>1, <1>2, <1>3, <1>4 DEF Next

\* so that it always holds.
LEMMA Invariant == Spec => []IInv
BY InitIInv, NextIInv, PTL DEF Spec

-----------------------------------------------------------------------------
(* What follows from it.                                                   *)

\* Type correctness of the conversation.
THEOREM TypeCorrect == Spec => []TypeOK
<1>1. IInv => TypeOK
  BY DEF IInv
<1> QED BY Invariant, <1>1, PTL

\* However the agents' requests interleave and whichever call fails after its
\* commit, the versions of a message are numbered without a gap and hold texts
\* it had; where nothing overlapped or failed they are all its texts in order.
THEOREM HistoryIsKept == Spec => []HistoryKept
<1>1. IInv => HistoryKept
  <2> SUFFICES ASSUME IInv, NEW m \in Messages
               PROVE  /\ Numbers(m) = 1 .. Cardinality(Numbers(m))
                      /\ \A v \in versions[m] : v[2] \in ToSet(texts[m])
                      /\ m \notin rough /\ Writers(m) = {} =>
                           versions[m] = {<<i, Audited(m)[i]>> : i \in DOMAIN Audited(m)}
    BY DEF HistoryKept, Numbers
  <2>1. Versioned(m) /\ Audited(m) \in Seq(Requests)
    BY AuditedType DEF IInv, ConversationInv, History
  <2>2. PICK n \in Nat : Numbers(m) = 1 .. n
    BY <2>1 DEF Versioned
  <2>3. Cardinality(1 .. n) = n
    BY <2>2, FS_Interval
  <2>4. DOMAIN Audited(m) = 1 .. Len(Audited(m))
    BY <2>1
  <2> QED BY <2>1, <2>2, <2>3, <2>4 DEF Versioned, InOrder, Numbered
<1> QED BY Invariant, <1>1, PTL

\* A mail leaves, and a reply is broadcast, only once the message is stored,
\* and a second time only after a crash or a failed log row.
THEOREM ShownStored == Spec => []ShownAsStored
<1>1. IInv => ShownAsStored
  BY DEF IInv, ConversationInv, Mailed, Delivered, Shows, ShownAsStored, TypeOK
<1> QED BY Invariant, <1>1, PTL

\* The log of a ticket tells what became of its mails, with the exceptions the
\* property names and no other.
THEOREM LogTells == Spec => []LogTruth
<1>1. IInv => LogTruth
  <2> SUFFICES ASSUME IInv, NEW x \in Requests
               PROVE  /\ "sent" \in rows[x] => handed[x] > 0 \/ x \in refused
                      /\ task[x].at = "done" /\ handed[x] > 0 =>
                           "sent" \in rows[x] \/ x \in unlogged \/ again[x] > 0
                      /\ faults = 0 /\ "failed" \in rows[x] =>
                           req[x].ticket \in deleted /\ handed[x] = 0
    BY DEF LogTruth
  <2>1. Logged(x)
    BY DEF IInv, ConversationInv, Mailed
  <2> QED BY <2>1 DEF Logged
<1> QED BY Invariant, <1>1, PTL

-----------------------------------------------------------------------------
(* The implementation of the queue of mails.                               *)

\* At first the queue of mails is empty.
LEMMA InitDelivery == Init => Delivery!Init
BY DEF Init, Delivery!Init

Accepted == {x \in Requests : IsMail(x) /\ task[x].at # "none"}
Settled  == {x \in Requests : IsMail(x) /\ task[x].at = "done"}

\* Who is in the queue changes with the task of one request.
LEMMA OneTask ==
  ASSUME NEW x \in Requests, \A y \in Requests \ {x} : task'[y] = task[y],
         \A y \in Requests : IsMail(y)' = IsMail(y)
  PROVE  /\ (task[x].at # "none" <=> task'[x].at # "none") => Accepted' = Accepted
         /\ (task[x].at = "done" <=> task'[x].at = "done") => Settled' = Settled
BY DEF Accepted, Settled

\* A worker's step is one of the queue of mails, or leaves it alone.
LEMMA WorkerDelivery ==
  ASSUME IInv, NEW x \in Requests, Worker(x) \/ WorkerFault(x)
  PROVE  [Delivery!Next]_(Delivery!mailVars)
<1>1. TypeOK /\ Control /\ Mailed
  BY DEF IInv, ConversationInv
<1>2. req' = req /\ \A y \in Requests : IsMail(y)' = IsMail(y)
  BY WorkerStill DEF IsMail
<1>3. \A y \in Requests \ {x} : task'[y] = task[y]
  BY <1>1, Worked
<1>4. CASE HandOver(x)
  <2>1. IsMail(x) /\ task[x].at = "hand" /\ task'[x].at = "sent"
    BY <1>1, <1>4, Worked DEF Control, Tasked
  <2>2. Accepted' = Accepted /\ Settled' = Settled /\ x \in Accepted \ Settled
    BY <1>2, <1>3, <2>1, OneTask DEF Accepted, Settled
  <2>3. Delivery!HandOver(x)
    BY <1>4, <2>2 DEF HandOver, Delivery!HandOver, Accepted, Settled
  <2> QED BY <2>3 DEF Delivery!Next
<1>5. CASE LogSent(x) \/ LogSentRaises(x) \/ LogFailed(x) \/ LogFailedRaises(x)
  <2>1. /\ IsMail(x) /\ task[x].at \in {"sent", "failed"}
        /\ task'[x].at \in {"ack", "failed", "queued"}
    BY <1>1, <1>5, Worked DEF Control, Tasked
  <2>2. Accepted' = Accepted /\ Settled' = Settled /\ x \in Accepted \ Settled
    BY <1>2, <1>3, <2>1, OneTask DEF Accepted, Settled
  <2>3. /\ handed' = handed
        /\ rows' = rows \/ Row(x, "sent") \/ Row(x, "failed")
    BY <1>5 DEF LogSent, LogSentRaises, LogFailed, LogFailedRaises
  <2>4. CASE rows' = rows
    BY <2>2, <2>3, <2>4 DEF Delivery!mailVars, Accepted, Settled
  <2>5. CASE Row(x, "sent") \/ Row(x, "failed")
    <3>1. Delivery!Record(x)
      BY <2>2, <2>3, <2>5 DEF Row, Delivery!Record, Accepted, Settled
    <3> QED BY <3>1 DEF Delivery!Next
  <2> QED BY <2>3, <2>4, <2>5
<1>6. CASE Acknowledge(x)
  <2>1. /\ task[x].at = "ack" /\ task'[x].at = "done"
        /\ UNCHANGED <<handed, rows>>
    BY <1>1, <1>6, Worked DEF Acknowledge
  <2>2. Accepted' = Accepted
    BY <1>2, <1>3, <2>1, OneTask
  <2>3. CASE IsMail(x)
    <3>1. x \in Accepted /\ Settled' = Settled \union {x}
      BY <1>2, <1>3, <2>1, <2>3 DEF Accepted, Settled
    <3>2. rows[x] # {}
      BY <1>1, <2>1, <2>3 DEF Mailed, Logged
    <3>3. Delivery!Settle(x)
      BY <2>1, <2>2, <3>1, <3>2 DEF Delivery!Settle, Accepted, Settled
    <3> QED BY <3>3 DEF Delivery!Next
  <2>4. CASE ~IsMail(x)
    <3>1. Settled' = Settled
      BY <1>2, <1>3, <2>4 DEF Settled
    <3> QED BY <2>1, <2>2, <3>1 DEF Delivery!mailVars, Accepted, Settled
  <2> QED BY <2>3, <2>4
<1>7. CASE \/ Take(x) \/ ReadTicket(x) \/ ReadHistory(x) \/ Emit(x)
           \/ ReadRaises(x) \/ Refuse(x) \/ EmitRaises(x) \/ Crash(x)
  <2>1. task[x].at \notin {"none", "done"} /\ task'[x].at \notin {"none", "done"}
    BY <1>1, <1>7, Worked DEF Running
  <2>2. Accepted' = Accepted /\ Settled' = Settled
    BY <1>2, <1>3, <2>1, OneTask
  <2>3. UNCHANGED <<handed, rows>>
    BY <1>7 DEF Take, ReadTicket, ReadHistory, Emit, ReadRaises, Refuse, EmitRaises, Crash
  <2> QED BY <2>2, <2>3 DEF Delivery!mailVars, Accepted, Settled
<1> QED BY <1>4, <1>5, <1>6, <1>7 DEF Worker, WorkerFault

\* A request only adds to the queue.
LEMMA HandlerDelivery ==
  ASSUME IInv, NEW r \in Requests, Handler(r)
  PROVE  [Delivery!Next]_(Delivery!mailVars)
<1>1. TypeOK /\ Control /\ Tasked(r)
  BY DEF IInv, ConversationInv, Control
<1>2. UNCHANGED <<handed, rows>>
  BY <1>1, Writes
<1>3. /\ req[r].at # "ok"
      /\ \A q \in Requests \ {r} : req'[q] = req[q]
      /\ req[r].at # "new" => req'[r].op = req[r].op
  <2>1. /\ req[r].at # "ok"
        /\ \/ req[r].at = "new" /\ \E op, t, m, where : StartedAs(r, op, t, m, where)
           \/ \E where, b : WentTo(r, where, b)
    BY <1>1, Called DEF At
  <2> QED BY <2>1 DEF StartedAs, WentTo
<1>4. task[r].at = "none"
  BY <1>1, <1>3 DEF Tasked
<1>5. CASE Enqueue(r)
  <2>1. /\ req[r].at = "queue" /\ task'[r].at = "queued"
        /\ \A q \in Requests \ {r} : task'[q] = task[q]
    BY <1>1, <1>5 DEF Enqueue, At, TypeOK
  <2>2. \A q \in Requests : IsMail(q)' = IsMail(q)
    BY <1>3, <2>1 DEF IsMail
  <2>3. Settled' = Settled
    BY <1>4, <2>1, <2>2, OneTask
  <2>4. CASE IsMail(r)
    <3>1. Accepted' = Accepted \union {r}
      BY <1>4, <2>1, <2>2, <2>4 DEF Accepted
    <3>2. Delivery!Accept(r)
      BY <1>2, <2>3, <3>1 DEF Delivery!Accept, Accepted, Settled
    <3> QED BY <3>2 DEF Delivery!Next
  <2>5. CASE ~IsMail(r)
    <3>1. Accepted' = Accepted
      BY <2>1, <2>2, <2>5 DEF Accepted
    <3> QED BY <1>2, <2>3, <3>1 DEF Delivery!mailVars, Accepted, Settled
  <2> QED BY <2>4, <2>5
<1>6. CASE ~Enqueue(r)
  <2>1. task' = task
    BY <1>6 DEF Handler, Send, NoTicket, Edit, Reply, Confirm, Insert, InsertRaises, Update,
         UpdateRaises, CheckVersion, CheckRaises, AddVersion, AddVersionRaises,
         EnqueueRaises, mailVars
  <2>2. Accepted' = Accepted /\ Settled' = Settled
    BY <1>3, <1>4, <2>1 DEF Accepted, Settled, IsMail
  <2> QED BY <1>2, <2>2 DEF Delivery!mailVars, Accepted, Settled
<1> QED BY <1>5, <1>6

\* Every step is one of the queue of mails, or leaves it alone.
LEMMA NextDelivery == IInv /\ [Next]_vars => [Delivery!Next]_(Delivery!mailVars)
<1> SUFFICES ASSUME IInv, [Next]_vars PROVE [Delivery!Next]_(Delivery!mailVars)
  OBVIOUS
<1>1. ASSUME UNCHANGED <<req, task, handed, rows>>
      PROVE  [Delivery!Next]_(Delivery!mailVars)
  BY <1>1 DEF Delivery!mailVars, IsMail
<1>2. ASSUME NEW t \in Tickets, DeleteTicket(t) PROVE [Delivery!Next]_(Delivery!mailVars)
  BY <1>1, <1>2 DEF DeleteTicket, mailVars
<1>3. CASE UNCHANGED vars
  BY <1>1, <1>3 DEF vars, mailVars
<1> QED BY <1>2, <1>3, HandlerDelivery, WorkerDelivery DEF Next

\* The workers hand mails over, log them and settle them in the turn the queue
\* of mails promises; that none waits for ever is the part left to the runs.
THEOREM ImplementsDelivery == Spec => DeliveryInTurn
BY Invariant, InitDelivery, NextDelivery, PTL DEF Spec, DeliveryInTurn, Delivery!InTurn

=============================================================================
