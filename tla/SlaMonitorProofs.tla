-------------------------- MODULE SlaMonitorProofs --------------------------
(***************************************************************************)
(* Proofs about the SLA check for any tickets, statuses, SLAs, receivers,  *)
(* times and bounds.  TypeOK and AlertInv together are inductive; from     *)
(* them follow at-most-once alerting and the implementation of             *)
(* AlertLedger; Justified adds what an alert is justified by.              *)
(***************************************************************************)
EXTENDS SlaMonitorProps, TLAPS

\* A percentage reaches one of the two alert levels or none.
LEMMA AlertLevelType ==
  ASSUME NEW p PROVE AlertLevel(p) \in AlertLevels \union {NoLevel}
BY DEF AlertLevel

\* What a run keeps of a ticket is well formed.
LEMMA LoadType ==
  ASSUME TypeOK, NEW t \in Tickets, opened[t] # Null
  PROVE  Load(t) \in Loaded
BY DEF Load, Loaded, TypeOK

\* The alert under way is one of the alerts.
LEMMA AlertType ==
  ASSUME TypeOK, cur # Null, level[kind] # NoLevel
  PROVE  Alert \in Alerts
BY DEF TypeOK, Alert, Alerts, Loaded

\* The step to the other deadline, or to the next ticket, keeps the types.
LEMMA NextKindType ==
  ASSUME TypeOK, NextKind
  PROVE  /\ pc' \in {"check", "next"}
         /\ kind' \in Kinds
         /\ cur' \in Loaded \union {Null}
         /\ level' \in [Kinds -> AlertLevels \union {NoLevel}]
BY DEF NextKind, TypeOK, Kinds

\* Changes made by agents and customers keep the types.
LEMMA DeskType == ASSUME TypeOK, Desk \/ Settings PROVE TypeOK'
<1> USE DEF TypeOK, Edit, jobVars, alertVars, deskVars, Alerts
<1>1. ASSUME NEW t \in Tickets, Confirm(t) PROVE TypeOK'
  <2>1. PICK s \in StatusesOf(t) : status' = [status EXCEPT ![t] = s]
    BY <1>1 DEF Confirm
  <2>2. s \in Statuses
    BY DEF StatusesOf
  <2> QED BY <1>1, <2>1, <2>2 DEF Confirm
<1>2. ASSUME NEW t \in Tickets, DeleteTicket(t) PROVE TypeOK'
  BY <1>2 DEF DeleteTicket
<1>3. ASSUME NEW t \in Tickets, NEW s \in StatusesOf(t),
             NEW l \in Slas \union {sla[t]}, MoveTicket(t, s, l)
      PROVE TypeOK'
  BY <1>3 DEF MoveTicket, StatusesOf
<1>4. ASSUME NEW s \in Statuses, NEW c \in Categories, EditStatus(s, c)
      PROVE TypeOK'
  BY <1>4 DEF EditStatus
<1>5. ASSUME NEW l \in Slas, NEW k \in Kinds, NEW n \in Times, EditSla(l, k, n)
      PROVE TypeOK'
  BY <1>5 DEF EditSla
<1>6. ASSUME NEW l \in Slas, DeleteSla(l) PROVE TypeOK'
  BY <1>6 DEF DeleteSla
<1> QED BY <1>1, <1>2, <1>3, <1>4, <1>5, <1>6 DEF Desk, Settings

\* The job keeps the types.
LEMMA JobType == ASSUME TypeOK, AlertInv, Job \/ RefuseMail \/ Fail PROVE TypeOK'
<1> USE DEF Ambient, deskVars, alertVars
<1>1. CASE Start \/ NoClosedStatus \/ NoSla \/ RunDone \/ NewBreach \/ Fail
  BY <1>1 DEF Start, NoClosedStatus, NoSla, RunDone, NewBreach, Fail, Return,
              TypeOK, Kinds
<1>2. CASE FindClosedStatus
  BY <1>2 DEF FindClosedStatus, TypeOK
<1>3. CASE LoadTickets
  <2>1. \A t \in Tickets : Watched(t) => Load(t) \in Loaded
    BY LoadType DEF Watched
  <2>2. todo' \subseteq Loaded
    BY <1>3, <2>1 DEF LoadTickets
  <2> QED BY <1>3, <2>2 DEF LoadTickets, TypeOK
<1>4. CASE NextTicket
  <2>1. PICK x \in todo :
          /\ todo' = todo \ {x}
          /\ cur' = x
          /\ level' = [k \in Kinds |-> AlertLevel(Percentage(x, k))]
    BY <1>4 DEF NextTicket
  <2>2. level' \in [Kinds -> AlertLevels \union {NoLevel}]
    BY <2>1, AlertLevelType
  <2>3. cur' \in Loaded /\ todo' \subseteq Loaded
    BY <2>1 DEF TypeOK
  <2> QED BY <1>4, <2>2, <2>3 DEF NextTicket, TypeOK, Kinds
<1>5. CASE NothingNew \/ MailsDone
  BY <1>5, NextKindType DEF NothingNew, MailsDone, TypeOK
<1>6. CASE Broadcast \/ StoreAlert
  <2>1. Alert \in Alerts
    BY <1>6, AlertType DEF Broadcast, StoreAlert, AlertInv
  <2> QED BY <1>6, <2>1 DEF Broadcast, StoreAlert, TypeOK
<1>7. CASE SendMail
  <2>1. Alert \in Alerts
    BY <1>7, AlertType DEF SendMail, AlertInv
  <2>2. PICK r \in unsent : /\ mails' = [mails EXCEPT ![Alert][r] = @ + 1]
                            /\ unsent' = unsent \ {r}
    BY <1>7 DEF SendMail
  <2>3. r \in Receivers
    BY DEF TypeOK
  <2> QED BY <1>7, <2>1, <2>2, <2>3 DEF SendMail, TypeOK
<1>8. CASE RefuseMail
  BY <1>8 DEF RefuseMail, TypeOK
<1> QED BY <1>1, <1>2, <1>3, <1>4, <1>5, <1>6, <1>7, <1>8 DEF Job

-----------------------------------------------------------------------------
IInv == TypeOK /\ AlertInv

LEMMA InitIInv == Init => IInv
BY DEF Init, IInv, TypeOK, AlertInv, Kinds, Alerts, StatusesOf

\* A step that moves neither the job nor its records cannot disturb AlertInv.
LEMMA FrameAlertInv ==
  ASSUME AlertInv, UNCHANGED <<jobVars, alertVars>>
  PROVE  AlertInv'
BY DEF AlertInv, jobVars, alertVars, Alert

\* A step that leaves the records alone and brings the job to a point where
\* no alert is under way keeps AlertInv.
LEMMA QuietAlertInv ==
  ASSUME AlertInv, UNCHANGED alertVars,
         pc' \in {"idle", "closed", "load", "next", "check"},
         pc' = "check" => cur' # Null
  PROVE  AlertInv'
BY DEF AlertInv, alertVars

\* The steps that find an alert due, announce, record and mail it.
LEMMA AlertStepInv ==
  ASSUME TypeOK, AlertInv,
         NewBreach \/ Broadcast \/ StoreAlert \/ SendMail \/ RefuseMail
  PROVE  AlertInv'
<1> USE DEF alertVars
<1>0. Alert \in Alerts
  BY AlertType DEF AlertInv, NewBreach, Broadcast, StoreAlert, SendMail, RefuseMail
<1>1. CASE NewBreach
  BY <1>1 DEF NewBreach, AlertInv, Alert
<1>2. CASE Broadcast
  BY <1>2 DEF Broadcast, AlertInv, Alert
<1>3. CASE StoreAlert
  <2>1. Alert' = Alert
    BY <1>3 DEF StoreAlert, Alert
  <2>2. rows[Alert] = 0 /\ Alert \in told
    BY <1>3 DEF StoreAlert, AlertInv
  <2>3. /\ rows'[Alert] = 1
        /\ \A a \in Alerts : a # Alert => rows'[a] = rows[a]
    BY <1>0, <1>3, <2>2 DEF StoreAlert, TypeOK
  <2>4. \A r \in Receivers : mails[Alert][r] = 0
    BY <1>0, <2>2 DEF AlertInv
  <2> QED BY <1>0, <1>3, <2>1, <2>2, <2>3, <2>4 DEF StoreAlert, AlertInv
<1>4. CASE SendMail
  <2>1. Alert' = Alert
    BY <1>4 DEF SendMail, Alert
  <2>2. PICK r \in unsent : /\ mails' = [mails EXCEPT ![Alert][r] = @ + 1]
                            /\ unsent' = unsent \ {r}
    BY <1>4 DEF SendMail
  <2>3. r \in Receivers /\ rows[Alert] = 1 /\ mails[Alert][r] = 0
    BY <1>4, <2>2 DEF SendMail, AlertInv, TypeOK
  <2>4. /\ mails'[Alert][r] = 1
        /\ \A q \in Receivers : q # r => mails'[Alert][q] = mails[Alert][q]
        /\ \A a \in Alerts : a # Alert => mails'[a] = mails[a]
    BY <1>0, <2>2, <2>3 DEF TypeOK
  <2> QED BY <1>0, <1>4, <2>1, <2>2, <2>3, <2>4 DEF SendMail, AlertInv, TypeOK
<1>5. CASE RefuseMail
  <2>1. PICK r \in unsent : unsent' = unsent \ {r}
    BY <1>5 DEF RefuseMail
  <2> QED BY <1>5, <2>1 DEF RefuseMail, AlertInv, Alert
<1> QED BY <1>1, <1>2, <1>3, <1>4, <1>5

LEMMA NextIInv == IInv /\ [Next]_vars => IInv'
<1> SUFFICES ASSUME TypeOK, AlertInv, [Next]_vars PROVE IInv'
  BY DEF IInv
<1>1. CASE Tick
  <2>1. TypeOK'
    BY <1>1 DEF Tick, TypeOK, deskVars, jobVars, alertVars
  <2> QED BY <1>1, <2>1, FrameAlertInv DEF Tick, IInv
<1>2. CASE Desk \/ Settings
  <2>1. UNCHANGED <<jobVars, alertVars>>
    BY <1>2 DEF Desk, Settings, Edit, Confirm, DeleteTicket, MoveTicket,
                EditStatus, EditSla, DeleteSla
  <2> QED BY <1>2, <2>1, DeskType, FrameAlertInv DEF IInv
<1>3. CASE Job \/ RefuseMail \/ Fail
  <2>1. TypeOK'
    BY <1>3, JobType
  <2>2. ASSUME \/ Start \/ FindClosedStatus \/ NoClosedStatus \/ LoadTickets
               \/ NoSla \/ RunDone \/ Fail
        PROVE  AlertInv'
    BY <2>2, QuietAlertInv DEF Start, FindClosedStatus, NoClosedStatus,
         LoadTickets, NoSla, RunDone, Fail, Return
  <2>3. ASSUME NextTicket PROVE AlertInv'
    <3>1. cur' # Null
      BY <2>3, SlaMonitorAssumption DEF NextTicket, TypeOK
    <3> QED BY <2>3, <3>1, QuietAlertInv DEF NextTicket
  <2>4. ASSUME NothingNew \/ MailsDone PROVE AlertInv'
    <3>1. cur # Null
      BY <2>4 DEF NothingNew, MailsDone, AlertInv
    <3> QED BY <2>4, <3>1, QuietAlertInv DEF NothingNew, MailsDone, NextKind
  <2>5. AlertInv'
    BY <1>3, <2>2, <2>3, <2>4, AlertStepInv DEF Job
  <2> QED BY <2>1, <2>5 DEF IInv
<1>4. CASE UNCHANGED vars
  <2>1. TypeOK'
    BY <1>4 DEF vars, TypeOK, deskVars, jobVars, alertVars
  <2> QED BY <1>4, <2>1, FrameAlertInv DEF vars, IInv
<1> QED BY <1>1, <1>2, <1>3, <1>4 DEF Next

\* Type correctness of the SLA check.
THEOREM TypeCorrect == Spec => []TypeOK
<1>1. IInv => TypeOK
  BY DEF IInv
<1> QED BY InitIInv, NextIInv, <1>1, PTL DEF Spec

\* The inductive invariant of a run.
THEOREM AlertInvariant == Spec => []AlertInv
<1>1. IInv => AlertInv
  BY DEF IInv
<1> QED BY InitIInv, NextIInv, <1>1, PTL DEF Spec

\* No alert is recorded twice and no receiver mailed twice about it, however
\* often the job is cut short between its look for the alert and the record.
THEOREM AlertsOnce == Spec => []AlertedOnce
<1>1. IInv => AlertedOnce
  BY DEF IInv, TypeOK, AlertInv, AlertedOnce
<1> QED BY InitIInv, NextIInv, <1>1, PTL DEF Spec

-----------------------------------------------------------------------------
(* The arithmetic of the levels.                                           *)

\* A threshold is met by a quotient just when it is met by its multiple.
LEMMA Scaled ==
  ASSUME NEW p \in Int, NEW k \in Int, NEW t \in Int, t > 0
  PROVE  p >= k <=> p * t >= k * t
<1>1. ASSUME p >= k PROVE p * t >= k * t
  <2>1. (p - k) * t >= 0
    BY <1>1, SMT
  <2> QED BY <2>1, SMT
<1>2. ASSUME p < k PROVE p * t < k * t
  <2>1. (k - p) * t > 0
    BY <1>2, SMT
  <2> QED BY <2>1, SMT
<1> QED BY <1>1, <1>2, SMT

\* Truncating a quotient does not move it across a whole threshold.
LEMMA Truncation ==
  ASSUME NEW n \in Nat, NEW t \in Nat, t > 0, NEW k \in Int
  PROVE  /\ n \div t \in Int
         /\ n \div t >= k <=> n >= k * t
<1> DEFINE p == n \div t
<1>1. p \in Int /\ p * t <= n /\ n < p * t + t
  BY SMT
<1>2. p >= k <=> p * t >= k * t
  BY <1>1, Scaled
<1>3. p + 1 > k <=> (p + 1) * t > k * t
  <2>1. k >= p + 1 <=> k * t >= (p + 1) * t
    BY <1>1, Scaled
  <2> QED BY <1>1, <2>1, SMT
<1>4. (p + 1) * t = p * t + t
  BY <1>1, SMT
<1> QED BY <1>1, <1>2, <1>3, <1>4, SMT

\* The level read off a percentage, saturated or not, is that of the ratio.
LEMMA ExactLevels ==
  ASSUME NEW time \in Nat, time > 0, NEW o \in Nat, NEW c \in Nat, o <= c
  PROVE  /\ BreachLevel(ResponsePercentage(time, o, c)) = ExactLevel(c - o, time)
         /\ BreachLevel(ResolutionPercentage(time, o, c)) = ExactLevel(c - o, time)
<1> DEFINE n == (c - o) * 100
           p == n \div time
<1>1. n \in Nat
  BY SMT
<1>2. /\ p \in Int
      /\ p >= 75 <=> n >= 75 * time
      /\ p >= 90 <=> n >= 90 * time
      /\ p >= 100 <=> n >= 100 * time
  BY <1>1, Truncation
<1>3. Elapsed(o, o + time, c) = p
  <2>1. (o + time) - o = time
    BY SMT
  <2> QED BY <2>1 DEF Elapsed
<1>4. c >= o + time <=> n >= 100 * time
  BY SMT
<1>5. c > o + time => n >= 100 * time
  BY SMT
<1>6. BreachLevel(p) = ExactLevel(c - o, time)
  BY <1>2, SMT DEF BreachLevel, ExactLevel, NoLevel
<1>7. BreachLevel(100) = 100
  BY DEF BreachLevel
<1>8. n >= 100 * time => ExactLevel(c - o, time) = 100
  BY DEF ExactLevel
<1> HIDE DEF n, p
<1>9. BreachLevel(ResponsePercentage(time, o, c)) = ExactLevel(c - o, time)
  BY <1>3, <1>4, <1>6, <1>7, <1>8 DEF ResponsePercentage
<1>10. BreachLevel(ResolutionPercentage(time, o, c)) = ExactLevel(c - o, time)
  BY <1>3, <1>5, <1>6, <1>7, <1>8 DEF ResolutionPercentage
<1> QED BY <1>9, <1>10

\* Nothing was opened in the future.
OpenedInPast == \A t \in Tickets : opened[t] # Null => opened[t] <= now

LEMMA OpenedStep == TypeOK /\ OpenedInPast /\ [Next]_vars => OpenedInPast'
<1> SUFFICES ASSUME TypeOK, OpenedInPast, [Next]_vars PROVE OpenedInPast'
  OBVIOUS
<1> USE DEF OpenedInPast, deskVars
<1>1. CASE Tick
  BY <1>1 DEF Tick, TypeOK
<1>2. ASSUME NEW u \in Tickets, Confirm(u) PROVE OpenedInPast'
  BY <1>2 DEF Confirm, Edit, TypeOK
<1>3. CASE UNCHANGED now /\ \A t \in Tickets : opened'[t] \in {opened[t], Null}
  BY <1>3
<1>4. Desk => \/ UNCHANGED now /\ \A t \in Tickets : opened'[t] \in {opened[t], Null}
              \/ \E u \in Tickets : Confirm(u)
  <2>1. ASSUME NEW u \in Tickets, NEW s, NEW l, MoveTicket(u, s, l)
        PROVE  UNCHANGED now /\ \A t \in Tickets : opened'[t] \in {opened[t], Null}
    BY <2>1 DEF MoveTicket, Edit, TypeOK
  <2> QED BY <2>1 DEF Desk, Edit, DeleteTicket
<1>5. Settings \/ Job \/ RefuseMail \/ Fail \/ UNCHANGED vars
        => UNCHANGED <<now, opened>>
  BY DEF Settings, Edit, EditStatus, EditSla, DeleteSla, Job, Ambient, vars,
         Start, FindClosedStatus, NoClosedStatus, LoadTickets, NextTicket,
         NoSla, RunDone, NothingNew, NewBreach, Broadcast, StoreAlert,
         SendMail, MailsDone, RefuseMail, Fail
<1> QED BY <1>1, <1>2, <1>3, <1>4, <1>5 DEF Next

\* Whatever the SLAs and the instants are, the percentages and the exact ratio
\* agree on the level.
THEOREM LevelsExact == Spec => []LevelIsExact
<1>1. Init => OpenedInPast
  BY DEF Init, OpenedInPast
<1>2. TypeOK /\ OpenedInPast => LevelIsExact
  <2> SUFFICES ASSUME TypeOK, OpenedInPast, NEW t \in Tickets, NEW k \in Kinds,
                      opened[t] # Null, sla[t] # Null
               PROVE  BreachLevel(Percentage(Load(t), k))
                        = ExactLevel(now - opened[t], times[sla[t]][k])
    BY DEF LevelIsExact
  <2> DEFINE time == times[sla[t]][k]
  <2>1. /\ time \in Nat /\ time > 0
        /\ opened[t] \in Nat /\ now \in Nat /\ opened[t] <= now
    <3>1. sla[t] \in Slas /\ opened[t] \in Nat /\ now \in Nat
      BY DEF TypeOK
    <3>2. time \in Times
      BY <3>1 DEF TypeOK
    <3>3. time \in Nat /\ time > 0
      <4>1. time \in Nat \ {0}
        BY <3>2, SlaMonitorAssumption
      <4> QED BY <4>1, SMT
    <3> QED BY <3>1, <3>3 DEF OpenedInPast
  <2>2. Load(t).opened = opened[t] /\ Load(t).times[k] = time
    BY DEF Load
  <2>3. \/ Percentage(Load(t), k) = ResponsePercentage(time, opened[t], now)
        \/ Percentage(Load(t), k) = ResolutionPercentage(time, opened[t], now)
    BY <2>2 DEF Percentage
  <2> HIDE DEF time
  <2>4. /\ BreachLevel(ResponsePercentage(time, opened[t], now)) = ExactLevel(now - opened[t], time)
        /\ BreachLevel(ResolutionPercentage(time, opened[t], now)) = ExactLevel(now - opened[t], time)
    BY <2>1, ExactLevels
  <2> QED BY <2>3, <2>4 DEF time
<1> QED BY TypeCorrect, <1>1, <1>2, OpenedStep, PTL DEF Spec

-----------------------------------------------------------------------------
(* What justifies an alert.                                                *)

\* Tickets a run has loaded were opened in the past, and a level the one under
\* way was found to have reached is reached for good.
Justified ==
  /\ \A x \in todo : x.opened <= now
  /\ cur # Null =>
       /\ cur.times # Null /\ cur.opened <= now
       /\ \A k \in Kinds :
            level[k] # NoLevel => (now - cur.opened) * 100 >= level[k] * cur.times[k]

\* An alert level read off a percentage is reached.
LEMMA LevelReached ==
  ASSUME NEW x \in Loaded, x.times # Null, NEW k \in Kinds, now \in Nat, x.opened <= now,
         NEW n, n = AlertLevel(Percentage(x, k)), n # NoLevel
  PROVE  (now - x.opened) * 100 >= n * x.times[k]
<1> DEFINE time == x.times[k]
           elapsed == now - x.opened
<1>1. x.opened \in Nat /\ time \in Times
  BY DEF Loaded
<1>2. time \in Nat /\ time > 0
  <2>1. time \in Nat \ {0}
    BY <1>1, SlaMonitorAssumption
  <2> QED BY <2>1, SMT
<1>3. \/ Percentage(x, k) = ResponsePercentage(time, x.opened, now)
      \/ Percentage(x, k) = ResolutionPercentage(time, x.opened, now)
  BY DEF Percentage
<1> HIDE DEF time
<1>4. BreachLevel(Percentage(x, k)) = ExactLevel(elapsed, time)
  BY <1>1, <1>2, <1>3, ExactLevels
<1>5. n \in {75, 100} /\ n = ExactLevel(elapsed, time)
  BY <1>4 DEF AlertLevel, AlertLevels
<1>6. elapsed \in Int
  BY <1>1, SMT
<1> HIDE DEF elapsed
<1>7. elapsed * 100 >= n * time
  BY <1>2, <1>5, <1>6, SMT DEF ExactLevel, NoLevel
<1> QED BY <1>7 DEF elapsed, time

\* A step that takes up no ticket.
LEMMA JustifiedStill ==
  ASSUME TypeOK, Justified, now' = now, todo' \subseteq todo,
         cur' = Null \/ (cur' = cur /\ level' = level)
  PROVE  Justified'
BY DEF Justified

LEMMA JustifiedStep == TypeOK /\ OpenedInPast /\ Justified /\ [Next]_vars => Justified'
<1> SUFFICES ASSUME TypeOK, OpenedInPast, Justified, [Next]_vars PROVE Justified'
  OBVIOUS
<1>1. CASE Tick
  <2>1. now' = now + 1 /\ UNCHANGED <<todo, cur, level>>
    BY <1>1 DEF Tick, jobVars
  <2>2. \A x \in todo' : x.opened <= now'
    <3>1. \A x \in todo : x.opened \in Nat /\ now \in Nat
      BY DEF TypeOK, Loaded
    <3> QED BY <2>1, <3>1 DEF Justified
  <2>3. ASSUME cur # Null
        PROVE  /\ cur.times # Null /\ cur.opened <= now'
               /\ \A k \in Kinds :
                    level[k] # NoLevel => (now' - cur.opened) * 100 >= level[k] * cur.times[k]
    <3>1. cur.opened \in Nat /\ now \in Nat /\ cur.times # Null /\ cur.opened <= now
      BY <2>3 DEF TypeOK, Loaded, Justified
    <3>2. ASSUME NEW k \in Kinds, level[k] # NoLevel
          PROVE  (now' - cur.opened) * 100 >= level[k] * cur.times[k]
      <4>1. (now - cur.opened) * 100 >= level[k] * cur.times[k]
        BY <2>3, <3>2 DEF Justified
      <4>2. level[k] \in Int /\ cur.times[k] \in Int
        <5>1. level[k] \in AlertLevels \union {NoLevel} /\ cur.times \in [Kinds -> Times]
          BY <2>3, <3>1 DEF TypeOK, Loaded
        <5>2. cur.times[k] \in Nat
          BY <5>1, SlaMonitorAssumption
        <5> QED BY <5>1, <5>2 DEF AlertLevels, NoLevel
      <4> DEFINE bound == level[k] * cur.times[k]
      <4>3. bound \in Int
        BY <4>2, SMT
      <4>4. (now - cur.opened) * 100 >= bound
        BY <4>1
      <4> HIDE DEF bound
      <4>5. now' = now + 1
        BY <2>1
      <4>6. (now' - cur.opened) * 100 >= bound
        BY <3>1, <4>3, <4>4, <4>5, SMT
      <4> QED BY <4>6 DEF bound
    <3> QED BY <2>1, <3>1, <3>2
  <2> QED BY <2>1, <2>2, <2>3 DEF Justified
<1>2. CASE Desk \/ Settings \/ UNCHANGED vars
  <2>1. UNCHANGED <<now, todo, cur, level>>
    BY <1>2 DEF Desk, Settings, Edit, Confirm, DeleteTicket, MoveTicket, EditStatus,
                EditSla, DeleteSla, vars, jobVars
  <2> QED BY <2>1, JustifiedStill
<1>3. CASE LoadTickets
  <2>1. now' = now /\ UNCHANGED <<cur, level>>
        /\ todo' = {Load(t) : t \in {u \in Tickets : Watched(u)}}
    BY <1>3 DEF LoadTickets, Ambient
  <2>2. ASSUME NEW x \in todo' PROVE x.opened <= now'
    <3>1. PICK t \in Tickets : Watched(t) /\ x = Load(t)
      BY <2>1, <2>2
    <3> QED BY <2>1, <3>1 DEF Load, Watched, OpenedInPast
  <2> QED BY <2>1, <2>2 DEF Justified
<1>4. CASE NextTicket
  <2>1. PICK x \in todo : /\ x.times # Null /\ todo' = todo \ {x} /\ cur' = x
                          /\ level' = [k \in Kinds |-> AlertLevel(Percentage(x, k))]
    BY <1>4 DEF NextTicket
  <2>2. x \in Loaded /\ now \in Nat /\ x.opened <= now /\ now' = now
    BY <1>4, <2>1 DEF NextTicket, Ambient, TypeOK, Justified
  <2>3. \A k \in Kinds : level'[k] # NoLevel =>
          (now - x.opened) * 100 >= level'[k] * x.times[k]
    BY <2>1, <2>2, LevelReached
  <2> QED BY <2>1, <2>2, <2>3 DEF Justified
<1>5. CASE \/ Start \/ FindClosedStatus \/ NoClosedStatus \/ NoSla \/ RunDone
           \/ NothingNew \/ NewBreach \/ Broadcast \/ StoreAlert
           \/ SendMail \/ MailsDone \/ RefuseMail \/ Fail
  <2>1. /\ now' = now /\ (todo' = todo \/ todo' = {})
        /\ cur' = Null \/ (cur' = cur /\ level' = level)
    BY <1>5 DEF Ambient, Return, NextKind, Start, FindClosedStatus, NoClosedStatus, NoSla,
         RunDone, NothingNew, NewBreach, Broadcast, StoreAlert, SendMail, MailsDone,
         RefuseMail, Fail
  <2> QED BY <2>1, JustifiedStill
<1> QED BY <1>1, <1>2, <1>3, <1>4, <1>5 DEF Next, Job

\* However SLAs are edited and tickets confirmed again meanwhile, an alert
\* records a deadline that had run to its level.
THEOREM AlertsJustified == Spec => AlertJustified
<1>1. Init => OpenedInPast /\ Justified
  BY DEF Init, OpenedInPast, Justified
<1>2. TypeOK /\ AlertInv /\ Justified /\ [Next]_vars
        => [\A a \in Alerts : rows'[a] # rows[a] =>
              /\ cur # Null
              /\ a[1] = cur.ticket
              /\ (now - cur.opened) * 100 >= a[3] * cur.times[a[2]]]_vars
  <2> SUFFICES ASSUME TypeOK, AlertInv, Justified, Next,
                      NEW a \in Alerts, rows'[a] # rows[a]
               PROVE  /\ cur # Null
                      /\ a[1] = cur.ticket
                      /\ (now - cur.opened) * 100 >= a[3] * cur.times[a[2]]
    OBVIOUS
  <2>1. StoreAlert
    BY DEF Next, Tick, Desk, Settings, Edit, Confirm, DeleteTicket, MoveTicket, EditStatus,
           EditSla, DeleteSla, alertVars, Job, Start, FindClosedStatus, NoClosedStatus,
           LoadTickets, NextTicket, NoSla, RunDone, NothingNew, NewBreach, Broadcast,
           SendMail, MailsDone, RefuseMail, Fail
  <2>2. cur # Null /\ level[kind] # NoLevel /\ kind \in Kinds
    BY <2>1 DEF StoreAlert, AlertInv, TypeOK
  <2>3. a = Alert
    BY <2>1 DEF StoreAlert, TypeOK
  <2>4. a[1] = cur.ticket /\ a[2] = kind /\ a[3] = level[kind]
    BY <2>3 DEF Alert
  <2> QED BY <2>2, <2>4 DEF Justified
<1> QED BY TypeCorrect, AlertInvariant, OpenedStep, JustifiedStep, <1>1, <1>2, PTL
        DEF Spec, AlertJustified

-----------------------------------------------------------------------------
LEMMA InitLedger == Init => Ledger!Init
BY DEF Init, Ledger!Init

\* Every step of the monitor is a step of the ledger or leaves it alone.
LEMMA NextLedger == IInv /\ [Next]_vars => [Ledger!Next]_(Ledger!ledgerVars)
<1> SUFFICES ASSUME TypeOK, AlertInv, [Next]_vars
             PROVE  [Ledger!Next]_(Ledger!ledgerVars)
  BY DEF IInv
<1> USE DEF Ledger!ledgerVars, alertVars
<1>0. pc \in {"tell", "store", "mail"} => Alert \in Alerts
  BY AlertType DEF AlertInv
<1>1. CASE Broadcast
  <2>1. Ledger!Tell(Alert)
    BY <1>1 DEF Broadcast, Ledger!Tell, AlertInv
  <2> QED BY <1>0, <1>1, <2>1 DEF Broadcast, Ledger!Next
<1>2. CASE StoreAlert
  <2>1. rows[Alert] = 0 /\ Alert \in told
    BY <1>2 DEF StoreAlert, AlertInv
  <2>2. rows[Alert] + 1 = 1
    BY <2>1
  <2>3. Ledger!Record(Alert)
    BY <1>2, <2>1, <2>2, Zenon DEF StoreAlert, Ledger!Record
  <2> QED BY <1>0, <1>2, <2>3 DEF StoreAlert, Ledger!Next
<1>3. CASE SendMail
  <2>1. PICK r \in unsent : mails' = [mails EXCEPT ![Alert][r] = @ + 1]
    BY <1>3 DEF SendMail
  <2>2. r \in Receivers /\ mails[Alert][r] = 0 /\ rows[Alert] = 1
    BY <1>3, <2>1 DEF SendMail, TypeOK, AlertInv
  <2>3. mails' = [mails EXCEPT ![Alert][r] = 1]
    <3>1. mails[Alert][r] + 1 = 1
      BY <2>2
    <3> QED BY <2>1, <3>1, Zenon
  <2>4. Ledger!Mail(Alert, r)
    BY <1>3, <2>2, <2>3 DEF SendMail, Ledger!Mail
  <2> QED BY <1>0, <1>3, <2>2, <2>4 DEF SendMail, Ledger!Next
<1>4. CASE ~(Broadcast \/ StoreAlert \/ SendMail)
  <2>1. UNCHANGED alertVars
    BY <1>4 DEF Next, vars, Tick, Desk, Settings, Edit, Confirm, DeleteTicket,
         MoveTicket, EditStatus, EditSla, DeleteSla, Job, Start,
         FindClosedStatus, NoClosedStatus, LoadTickets, NextTicket, NoSla,
         RunDone, NothingNew, NewBreach, MailsDone, RefuseMail, Fail
  <2> QED BY <2>1
<1> QED BY <1>1, <1>2, <1>3, <1>4

\* The SLA check implements the ledger of alerts.
THEOREM ImplementsLedger == Spec => LedgerSpec
<1>1. Spec => []IInv
  BY InitIInv, NextIInv, PTL DEF Spec
<1> QED BY <1>1, InitLedger, NextLedger, PTL DEF Spec, LedgerSpec, Ledger!Spec

=============================================================================
