------------------------- MODULE ChatPresenceProofs -------------------------
(***************************************************************************)
(* Proofs about the presence of agents and customers, for any number of    *)
(* people, sockets and visits.                                             *)
(***************************************************************************)
EXTENDS ChatPresenceProps, SequenceTheorems, TLAPS

-----------------------------------------------------------------------------
(* What a handler has left.                                                *)

\* t is what is left of `full` when its first steps have been taken.
Rest(t, full) ==
  /\ t \in Seq(Steps) /\ Len(t) <= Len(full)
  /\ \A i \in 1 .. Len(t) : t[i] = full[i + (Len(full) - Len(t))]

Pending(t, e) == \E i \in 1 .. Len(t) : t[i] = e

Distinct(t) == \A i, j \in 1 .. Len(t) : t[i] = t[j] => i = j

LEMMA Nothing ==
  ASSUME NEW full \in Seq(Steps)
  PROVE  Rest(<<>>, full) /\ \A e : ~Pending(<<>>, e)
BY EmptySeq, LenProperties DEF Rest, Pending

LEMMA Everything ==
  ASSUME NEW full \in Seq(Steps)
  PROVE  Rest(full, full)
BY LenProperties DEF Rest

\* A step is taken once.
LEMMA Taken ==
  ASSUME NEW full \in Seq(Steps), Distinct(full),
         NEW t, Rest(t, full), t # <<>>
  PROVE  /\ Rest(Tail(t), full)
         /\ Pending(t, Head(t))
         /\ \A e : Pending(Tail(t), e) <=> Pending(t, e) /\ e # Head(t)
<1>1. t \in Seq(Steps) /\ Len(t) \in Nat \ {0} /\ Len(full) \in Nat
  BY EmptySeq, LenProperties DEF Rest
<1>2. /\ Tail(t) \in Seq(Steps)
      /\ Len(Tail(t)) = Len(t) - 1
      /\ \A i \in 1 .. Len(Tail(t)) : Tail(t)[i] = t[i + 1]
  BY <1>1, HeadTailProperties
<1>3. Head(t) = t[1]
  BY <1>1
<1>4. Rest(Tail(t), full)
  BY <1>1, <1>2 DEF Rest
<1>5. Pending(t, Head(t))
  BY <1>1, <1>3 DEF Pending
<1>6. \A i, j \in 1 .. Len(t) : t[i] = t[j] => i = j
  <2> DEFINE d == Len(full) - Len(t)
  <2>1. \A i \in 1 .. Len(t) : t[i] = full[i + d] /\ i + d \in 1 .. Len(full)
    BY <1>1 DEF Rest
  <2>2. d \in Int
    BY <1>1
  <2> HIDE DEF d
  <2> QED BY <2>1, <2>2 DEF Distinct
<1>7. ASSUME NEW e, Pending(t, e), e # Head(t)
      PROVE  Pending(Tail(t), e)
  <2>1. PICK i \in 1 .. Len(t) : t[i] = e
    BY <1>7 DEF Pending
  <2>2. i - 1 \in 1 .. Len(Tail(t)) /\ Tail(t)[i - 1] = e
    BY <2>1, <1>1, <1>2, <1>3, <1>7
  <2> QED BY <2>2 DEF Pending
<1>8. ASSUME NEW e, Pending(Tail(t), e)
      PROVE  Pending(t, e) /\ e # Head(t)
  <2>1. PICK i \in 1 .. Len(Tail(t)) : Tail(t)[i] = e
    BY <1>8 DEF Pending
  <2>2. i + 1 \in 1 .. Len(t) /\ 1 \in 1 .. Len(t) /\ t[i + 1] = e /\ i + 1 # 1
    BY <2>1, <1>1, <1>2
  <2> QED BY <2>2, <1>3, <1>6 DEF Pending
<1> QED BY <1>4, <1>5, <1>7, <1>8

\* What is left of a script is the script from some step on.
LEMMA FromStep ==
  ASSUME NEW full \in Seq(Steps), NEW t, Rest(t, full), t # <<>>
  PROVE  \E k \in 1 .. Len(full) :
           /\ Head(t) = full[k]
           /\ \A j \in k .. Len(full) : Pending(t, full[j])
           /\ \A e : Pending(t, e) => \E j \in k .. Len(full) : full[j] = e
<1>1. PICK n \in Nat : n = Len(full)
  BY LenProperties
<1>2. PICK l \in Nat : l = Len(t)
  BY LenProperties DEF Rest
<1>3. /\ l \in 1 .. n /\ Head(t) = t[1]
      /\ \A i \in 1 .. l : t[i] = full[i + (n - l)]
  BY <1>1, <1>2, EmptySeq DEF Rest
<1>4. n - l + 1 \in 1 .. n /\ Head(t) = full[n - l + 1]
  <2>1. t[1] = full[1 + (n - l)] /\ 1 + (n - l) = n - l + 1
    BY <1>3
  <2> QED BY <1>3, <2>1
<1>5. ASSUME NEW j \in n - l + 1 .. n
      PROVE  Pending(t, full[j])
  <2>1. j - (n - l) \in 1 .. l /\ (j - (n - l)) + (n - l) = j
    BY <1>3
  <2>2. t[j - (n - l)] = full[j]
    BY <1>3, <2>1
  <2> QED BY <1>2, <2>1, <2>2 DEF Pending
<1>6. ASSUME NEW e, Pending(t, e)
      PROVE  \E j \in n - l + 1 .. n : full[j] = e
  <2>1. PICK i \in 1 .. l : t[i] = e
    BY <1>2, <1>6 DEF Pending
  <2>2. i + (n - l) \in n - l + 1 .. n /\ full[i + (n - l)] = e
    BY <1>3, <2>1
  <2> QED BY <2>2
<1> QED BY <1>1, <1>4, <1>5, <1>6

\* The scripts, step by step.
LEMMA ConnectingSteps ==
  ASSUME NEW s \in Sids
  PROVE  LET t == Connecting(s)
         IN /\ t \in Seq(Steps)
            /\ IsAgent(s) =>
                 /\ s \notin Talks /\ Len(t) = 5
                 /\ t[1] = "SidOf" /\ t[2] = "OwnerOf" /\ t[3] = "Room"
                 /\ t[4] = "Online" /\ t[5] = "Tell"
            /\ ~IsAgent(s) =>
                 /\ Len(t) = IF s \in Talks THEN 8 ELSE 5
                 /\ t[1] = "Online" /\ t[2] = "SidOf" /\ t[3] = "OwnerOf"
                 /\ t[4] = "Room" /\ t[5] = "Tell"
                 /\ s \in Talks => t[6] = "FindSid" /\ t[7] = "Join" /\ t[8] = "Chat"
<1>1. IsAgent(s) => s \notin Talks
  BY PresenceAssumption DEF IsAgent
<1>2. CASE IsAgent(s)
  BY <1>1, <1>2 DEF Connecting, Steps
<1>3. CASE ~IsAgent(s)
  <2> DEFINE a == <<"Online", "SidOf", "OwnerOf", "Room", "Tell">>
             b == IF s \in Talks THEN <<"FindSid", "Join", "Chat">> ELSE <<>>
  <2>1. Connecting(s) = a \o b
    BY <1>3 DEF Connecting
  <2>2. a \in Seq(Steps) /\ b \in Seq(Steps)
    <3>1. a \in Seq(Steps)
      BY DEF Steps
    <3>2. <<"FindSid", "Join", "Chat">> \in Seq(Steps) /\ <<>> \in Seq(Steps)
      BY DEF Steps
    <3> QED BY <3>1, <3>2
  <2>3. a \o b \in Seq(Steps)
    <3> HIDE DEF a, b
    <3> QED BY <2>2, ConcatProperties
  <2>4. CASE s \in Talks
    <3>1. Connecting(s) = a \o <<"FindSid", "Join", "Chat">>
      BY <2>1, <2>4
    <3> QED BY <1>3, <2>1, <2>3, <2>4, <3>1
  <2>5. CASE s \notin Talks
    <3>1. Connecting(s) = a
      BY <2>1, <2>2, <2>5, ConcatEmptySeq
    <3> QED BY <1>3, <2>2, <2>5, <3>1
  <2> QED BY <2>4, <2>5
<1> QED BY <1>2, <1>3

LEMMA LeavingSteps ==
  ASSUME NEW s \in Sids
  PROVE  LET t == Leaving(s)
         IN /\ t \in Seq(Steps)
            /\ IsAgent(s) => /\ Len(t) = 3
                             /\ t[1] = "Find" /\ t[2] = "Offline" /\ t[3] = "Tell"
            /\ ~IsAgent(s) => /\ Len(t) = 4
                              /\ t[1] = "Find" /\ t[2] = "Offline" /\ t[3] = "Visit"
                              /\ t[4] = "Tell"
<1>1. CASE IsAgent(s)
  BY <1>1 DEF Leaving, Steps
<1>2. CASE ~IsAgent(s)
  BY <1>2 DEF Leaving, Steps
<1> QED BY <1>1, <1>2

\* What on_connect has left, before and after a step.
LEMMA ConnectingOrder ==
  ASSUME NEW s \in Sids
  PROVE  /\ Connecting(s) # <<>> /\ Rest(Connecting(s), Connecting(s))
         /\ \A e \in {"Online", "SidOf", "OwnerOf"} : Pending(Connecting(s), e)
         /\ s \in Talks => \A e \in {"FindSid", "Join"} : Pending(Connecting(s), e)
<1>1. PICK n \in Nat : n >= 5 /\ n = Len(Connecting(s))
  <2>1. CASE IsAgent(s)
    BY <2>1, ConnectingSteps
  <2>2. CASE ~IsAgent(s)
    BY <2>2, ConnectingSteps
  <2> QED BY <2>1, <2>2
<1>2. \A i \in 1 .. 5 : i \in 1 .. Len(Connecting(s))
  BY <1>1
<1>3. Connecting(s) # <<>> /\ Rest(Connecting(s), Connecting(s))
  <2>1. Connecting(s) # <<>>
    BY <1>1, EmptySeq
  <2>2. Rest(Connecting(s), Connecting(s))
    BY ConnectingSteps, Everything
  <2> QED BY <2>1, <2>2
<1>4. \A e \in {"Online", "SidOf", "OwnerOf"} : Pending(Connecting(s), e)
  <2>1. \A i \in 1 .. 5 : Pending(Connecting(s), Connecting(s)[i])
    BY <1>2 DEF Pending
  <2>2. CASE IsAgent(s)
    BY <2>1, <2>2, ConnectingSteps
  <2>3. CASE ~IsAgent(s)
    BY <2>1, <2>3, ConnectingSteps
  <2> QED BY <2>2, <2>3
<1>5. s \in Talks => \A e \in {"FindSid", "Join"} : Pending(Connecting(s), e)
  BY <1>2, ConnectingSteps DEF Pending
<1> QED BY <1>3, <1>4, <1>5

LEMMA ConnectingDistinct ==
  ASSUME NEW s \in Sids
  PROVE  Distinct(Connecting(s))
<1> DEFINE full == Connecting(s)
<1>1. CASE IsAgent(s)
  <2>1. /\ Len(full) = 5
        /\ full[1] = "SidOf" /\ full[2] = "OwnerOf" /\ full[3] = "Room"
        /\ full[4] = "Online" /\ full[5] = "Tell"
    BY <1>1, ConnectingSteps DEF full
  <2> HIDE DEF full
  <2>2. \A i \in 1 .. Len(full) : i = 1 \/ i = 2 \/ i = 3 \/ i = 4 \/ i = 5
    BY <2>1
  <2>3. Distinct(full)
    BY <2>1, <2>2 DEF Distinct
  <2> QED BY <2>3 DEF full
<1>2. CASE ~IsAgent(s) /\ s \notin Talks
  <2>1. /\ Len(full) = 5
        /\ full[1] = "Online" /\ full[2] = "SidOf" /\ full[3] = "OwnerOf"
        /\ full[4] = "Room" /\ full[5] = "Tell"
    BY <1>2, ConnectingSteps DEF full
  <2> HIDE DEF full
  <2>2. \A i \in 1 .. Len(full) : i = 1 \/ i = 2 \/ i = 3 \/ i = 4 \/ i = 5
    BY <2>1
  <2>3. Distinct(full)
    BY <2>1, <2>2 DEF Distinct
  <2> QED BY <2>3 DEF full
<1>3. CASE ~IsAgent(s) /\ s \in Talks
  <2>1. /\ Len(full) = 8
        /\ full[1] = "Online" /\ full[2] = "SidOf" /\ full[3] = "OwnerOf"
        /\ full[4] = "Room" /\ full[5] = "Tell"
        /\ full[6] = "FindSid" /\ full[7] = "Join" /\ full[8] = "Chat"
    BY <1>3, ConnectingSteps DEF full
  <2> HIDE DEF full
  <2>2. \A i \in 1 .. Len(full) :
          i = 1 \/ i = 2 \/ i = 3 \/ i = 4 \/ i = 5 \/ i = 6 \/ i = 7 \/ i = 8
    BY <2>1
  <2>3. Distinct(full)
    BY <2>1, <2>2 DEF Distinct
  <2> QED BY <2>3 DEF full
<1> QED BY <1>1, <1>2, <1>3

LEMMA ConnectStep ==
  ASSUME NEW s \in Sids, NEW t, Rest(t, Connecting(s)), t # <<>>
  PROVE  /\ Rest(Tail(t), Connecting(s))
         /\ \A e : Pending(Tail(t), e) <=> Pending(t, e) /\ e # Head(t)
         /\ Pending(t, Head(t))
         /\ Head(t) \in {"FindSid", "Join", "Chat"} =>
              s \in Talks /\ ~Pending(t, "Online") /\ ~Pending(t, "SidOf")
                         /\ ~Pending(t, "OwnerOf")
         /\ Head(t) \in {"Join", "Chat"} => ~Pending(t, "FindSid")
         /\ Head(t) = "SidOf" /\ s \in Talks => Pending(t, "FindSid")
         /\ Pending(t, "FindSid") => Pending(t, "Join")
         /\ Pending(t, "Join") => Pending(t, "Chat")
<1> DEFINE full == Connecting(s)
<1>1. full \in Seq(Steps) /\ Distinct(full)
  BY ConnectingSteps, ConnectingDistinct
<1>2. /\ Rest(Tail(t), full) /\ Pending(t, Head(t))
      /\ \A e : Pending(Tail(t), e) <=> Pending(t, e) /\ e # Head(t)
  BY <1>1, Taken
<1>3. PICK k \in 1 .. Len(full) :
        /\ Head(t) = full[k]
        /\ \A j \in k .. Len(full) : Pending(t, full[j])
        /\ \A e : Pending(t, e) => \E j \in k .. Len(full) : full[j] = e
  <2> HIDE DEF full
  <2>1. Rest(t, full)
    BY DEF full
  <2> QED BY <1>1, <2>1, FromStep
<1> HIDE DEF full
\* Which steps are left is a matter of how many are.
<1>4. \A j \in 1 .. Len(full) : Pending(t, full[j]) <=> k <= j
  <2> SUFFICES ASSUME NEW j \in 1 .. Len(full)
               PROVE  Pending(t, full[j]) <=> k <= j
    OBVIOUS
  <2>1. ASSUME k <= j PROVE Pending(t, full[j])
    BY <1>3, <2>1
  <2>2. ASSUME Pending(t, full[j]) PROVE k <= j
    <3>1. PICK i \in k .. Len(full) : full[i] = full[j]
      BY <1>3, <2>2
    <3>2. i = j
      BY <1>1, <3>1 DEF Distinct
    <3> QED BY <3>1, <3>2
  <2> QED BY <2>1, <2>2
<1>5. CASE IsAgent(s)
  <2>1. /\ s \notin Talks /\ Len(full) = 5
        /\ full[1] = "SidOf" /\ full[2] = "OwnerOf" /\ full[3] = "Room"
        /\ full[4] = "Online" /\ full[5] = "Tell"
    BY <1>5, ConnectingSteps DEF full
  <2>2. \A j \in 1 .. Len(full) : full[j] \notin {"FindSid", "Join", "Chat"}
    BY <2>1
  <2>3. Head(t) \notin {"FindSid", "Join", "Chat"}
    BY <1>3, <2>2
  <2>4. ~Pending(t, "FindSid") /\ ~Pending(t, "Join")
    BY <1>3, <2>2
  <2> QED BY <1>2, <2>1, <2>3, <2>4 DEF full
<1>6. CASE ~IsAgent(s) /\ s \notin Talks
  <2>1. /\ Len(full) = 5
        /\ full[1] = "Online" /\ full[2] = "SidOf" /\ full[3] = "OwnerOf"
        /\ full[4] = "Room" /\ full[5] = "Tell"
    BY <1>6, ConnectingSteps DEF full
  <2>2. \A j \in 1 .. Len(full) : full[j] \notin {"FindSid", "Join", "Chat"}
    BY <2>1
  <2>3. Head(t) \notin {"FindSid", "Join", "Chat"}
    BY <1>3, <2>2
  <2>4. ~Pending(t, "FindSid") /\ ~Pending(t, "Join")
    BY <1>3, <2>2
  <2> QED BY <1>2, <1>6, <2>3, <2>4 DEF full
<1>7. CASE ~IsAgent(s) /\ s \in Talks
  <2>1. /\ Len(full) = 8
        /\ full[1] = "Online" /\ full[2] = "SidOf" /\ full[3] = "OwnerOf"
        /\ full[4] = "Room" /\ full[5] = "Tell"
        /\ full[6] = "FindSid" /\ full[7] = "Join" /\ full[8] = "Chat"
    BY <1>7, ConnectingSteps DEF full
  <2>2. k \in 1 .. 8 /\ \A j \in 1 .. 8 : Pending(t, full[j]) <=> k <= j
    BY <1>4, <2>1
  <2>3. /\ Pending(t, "Online") <=> k <= 1
        /\ Pending(t, "SidOf") <=> k <= 2
        /\ Pending(t, "OwnerOf") <=> k <= 3
        /\ Pending(t, "FindSid") <=> k <= 6
        /\ Pending(t, "Join") <=> k <= 7
        /\ Pending(t, "Chat") <=> k <= 8
    BY <2>1, <2>2
  <2>4. /\ Head(t) = "FindSid" => k = 6
        /\ Head(t) = "Join" => k = 7
        /\ Head(t) = "Chat" => k = 8
        /\ Head(t) = "SidOf" => k = 2
    BY <1>3, <2>1, <2>2
  <2> QED BY <1>2, <1>7, <2>2, <2>3, <2>4 DEF full
<1> QED BY <1>5, <1>6, <1>7

\* What on_disconnect has left.
LEMMA LeaveStep ==
  ASSUME NEW s \in Sids, NEW t, Rest(t, Leaving(s)), t # <<>>
  PROVE  /\ Rest(Tail(t), Leaving(s))
         /\ \A e : Pending(Tail(t), e) <=> Pending(t, e) /\ e # Head(t)
         /\ Pending(t, Head(t))
         /\ Head(t) = "Visit" => ~IsAgent(s) /\ ~Pending(t, "Offline")
         /\ Tail(t) # <<>> => (Head(Tail(t)) = "Visit" => Head(t) = "Offline")
                            /\ Head(Tail(t)) # "Find"
<1> DEFINE full == Leaving(s)
<1>1. full \in Seq(Steps) /\ Len(full) \in {3, 4} /\ Distinct(full)
  BY LeavingSteps DEF Distinct
<1>2. /\ t \in Seq(Steps) /\ Len(t) \in 1 .. Len(full)
      /\ \A i \in 1 .. Len(t) : t[i] = full[i + (Len(full) - Len(t))]
      /\ Head(t) = t[1]
  BY <1>1, EmptySeq DEF Rest
<1>3. /\ Rest(Tail(t), full) /\ Pending(t, Head(t))
      /\ \A e : Pending(Tail(t), e) <=> Pending(t, e) /\ e # Head(t)
  BY <1>1, Taken
<1>4. Head(t) = full[Len(full) - Len(t) + 1] /\ Len(full) - Len(t) + 1 \in 1 .. Len(full)
  BY <1>1, <1>2
<1>5. ASSUME Tail(t) # <<>>
      PROVE  Len(t) > 1 /\ Head(Tail(t)) = full[Len(full) - Len(t) + 2]
  <2>1. Len(Tail(t)) = Len(t) - 1 /\ \A i \in 1 .. Len(Tail(t)) : Tail(t)[i] = t[i + 1]
    BY <1>2, HeadTailProperties
  <2>2. Tail(t) \in Seq(Steps) /\ Len(Tail(t)) \in Nat \ {0} /\ Head(Tail(t)) = Tail(t)[1]
    BY <1>3, <1>5, EmptySeq DEF Rest
  <2> QED BY <1>1, <1>2, <2>1, <2>2
<1>6. CASE IsAgent(s)
  BY <1>1, <1>2, <1>3, <1>4, <1>5, <1>6, LeavingSteps
<1>7. CASE ~IsAgent(s)
  <2>1. /\ Len(full) = 4
        /\ full[1] = "Find" /\ full[2] = "Offline" /\ full[3] = "Visit" /\ full[4] = "Tell"
    BY <1>7, LeavingSteps
  <2> HIDE DEF full
  <2>2. ASSUME Head(t) = "Visit" PROVE ~Pending(t, "Offline")
    <3>1. Len(t) = 2
      <4> DEFINE n == Len(t)
      <4>1. n \in 1 .. 4 /\ Head(t) = full[4 - n + 1]
        BY <1>2, <1>4, <2>1
      <4> HIDE DEF n
      <4>2. n = 1 \/ n = 2 \/ n = 3 \/ n = 4
        BY <4>1
      <4>3. n = 2
        BY <2>1, <2>2, <4>1, <4>2
      <4> QED BY <4>3 DEF n
    <3>2. t[1] = "Visit" /\ t[2] = "Tell"
      BY <1>2, <2>1, <3>1
    <3> QED BY <3>1, <3>2 DEF Pending
  <2>3. Tail(t) # <<>> => (Head(Tail(t)) = "Visit" => Head(t) = "Offline")
                          /\ Head(Tail(t)) # "Find"
    BY <1>2, <1>4, <1>5, <2>1
  <2> QED BY <1>3, <1>7, <2>2, <2>3 DEF full
<1> QED BY <1>6, <1>7


LEMMA LeavingStarts ==
  ASSUME NEW s \in Sids
  PROVE  /\ Leaving(s) # <<>> /\ Rest(Leaving(s), Leaving(s))
         /\ Head(Leaving(s)) = "Find" /\ Pending(Leaving(s), "Offline")
<1>1. Leaving(s) \in Seq(Steps) /\ Len(Leaving(s)) \in {3, 4}
  BY LeavingSteps
<1>2. Leaving(s) # <<>> /\ Rest(Leaving(s), Leaving(s))
  BY <1>1, EmptySeq, Everything
<1>3. Head(Leaving(s)) = Leaving(s)[1] /\ 2 \in 1 .. Len(Leaving(s))
  BY <1>1, <1>2
<1> QED BY <1>2, <1>3, LeavingSteps DEF Pending

-----------------------------------------------------------------------------
(* Types.  They rest on how far the handlers of a socket have come: the sid *)
(* that customer_join_conversation found is one, and the visit that        *)
(* on_disconnect is about to end exists.                                   *)

HandlersOf(s) ==
  /\ Rest(con[s], Connecting(s))
  /\ Rest(dis[s], Leaving(s))
  /\ link[s] = "new" => con[s] = <<>> /\ dis[s] = <<>>
  /\ dis[s] # <<>> => link[s] = "gone"
  /\ con[s] # <<>> /\ Owner[s] \notin cut => link[s] = "up"
  /\ con[s] # <<>> /\ ~Pending(con[s], "SidOf") => sidOf[Owner[s]] # NoSid
  /\ Pending(con[s], "Chat") /\ ~Pending(con[s], "FindSid") => target[s] \in Sids
  /\ link[s] = "up" /\ Owner[s] \notin cut => Pending(con[s], "OwnerOf") \/ s \in ownerOf
  /\ At(dis, s, "Find") /\ Owner[s] \notin cut => s \in ownerOf

Handlers ==
  /\ \A s \in Sids : HandlersOf(s)
  /\ \A p \in People : sidOf[p] \in Sids => Owner[sidOf[p]] = p

Rows ==
  /\ \A v, w \in Visits : visit[v] = NoVisit /\ v <= w => visit[w] = NoVisit
  /\ \A v \in Visits : copying[v] > 0 => visit[v] # NoVisit
  /\ \A c \in Customers : logOf[c] \in VisitsOf(c) \union {NoVisit}
  /\ \A s \in Sids : ending[s] # NoVisit =>
       ~IsAgent(s) /\ ending[s] \in VisitsOf(Owner[s])

Known == TypeOK /\ Handlers /\ Rows

\* What a step of on_connect does to what is left of it.
LEMMA ConnectedEffect ==
  ASSUME TypeOK, Handlers, NEW s \in Sids, NEW step, Connected(s, step)
  PROVE  /\ con[s] # <<>> /\ Head(con[s]) = step
         /\ con' \in [Sids -> Seq(Steps)]
         /\ con'[s] = Tail(con[s])
         /\ \A r \in Sids \ {s} : con'[r] = con[r]
         /\ \A r \in Sids : Rest(con'[r], Connecting(r))
<1>1. con[s] # <<>> /\ Head(con[s]) = step /\ con' = [con EXCEPT ![s] = Tail(@)]
  BY DEF Connected, At
<1>2. Rest(con[s], Connecting(s)) /\ con \in [Sids -> Seq(Steps)]
  BY DEF TypeOK, Handlers, HandlersOf
<1>3. Rest(Tail(con[s]), Connecting(s))
  BY <1>1, <1>2, ConnectStep
<1>4. Tail(con[s]) \in Seq(Steps)
  BY <1>3 DEF Rest
<1> QED BY <1>1, <1>2, <1>3, <1>4 DEF Handlers, HandlersOf

\* The same of on_disconnect, which may also end at a step.
LEMMA LeavingEffect ==
  ASSUME TypeOK, Handlers, NEW s \in Sids, NEW step, Disconnected(s, step),
         dis' = [dis EXCEPT ![s] = Tail(@)] \/ dis' = [dis EXCEPT ![s] = <<>>]
  PROVE  /\ dis[s] # <<>> /\ Head(dis[s]) = step /\ link[s] = "gone"
         /\ dis' \in [Sids -> Seq(Steps)]
         /\ dis'[s] \in {Tail(dis[s]), <<>>}
         /\ \A r \in Sids \ {s} : dis'[r] = dis[r]
         /\ \A r \in Sids : Rest(dis'[r], Leaving(r))
         /\ ~At(dis', s, "Find")
<1>1. dis[s] # <<>> /\ Head(dis[s]) = step
  BY DEF Disconnected, At
<1>2. Rest(dis[s], Leaving(s)) /\ dis \in [Sids -> Seq(Steps)] /\ link[s] = "gone"
  BY <1>1 DEF TypeOK, Handlers, HandlersOf
<1>3. Rest(Tail(dis[s]), Leaving(s)) /\ (Tail(dis[s]) # <<>> => Head(Tail(dis[s])) # "Find")
  BY <1>1, <1>2, LeaveStep
<1>4. Rest(<<>>, Leaving(s)) /\ <<>> \in Seq(Steps)
  BY Nothing, LeavingSteps DEF Rest
<1>5. Tail(dis[s]) \in Seq(Steps)
  BY <1>3 DEF Rest
<1>6. dis'[s] \in {Tail(dis[s]), <<>>} /\ dis' \in [Sids -> Seq(Steps)]
      /\ \A r \in Sids \ {s} : dis'[r] = dis[r]
  BY <1>2, <1>4, <1>5
<1>7. ~At(dis', s, "Find")
  BY <1>3, <1>6 DEF At
<1> QED BY <1>1, <1>2, <1>3, <1>4, <1>6, <1>7 DEF Handlers, HandlersOf

LEMMA OwnerType == \A s \in Sids : Owner[s] \in People /\ (~IsAgent(s) => Owner[s] \in Customers)
BY PresenceAssumption DEF IsAgent, People

LEMMA TypeInit == Init => TypeOK
BY EmptySeq, PresenceAssumption DEF Init, TypeOK

LEMMA TypeClient ==
  ASSUME Known, NEW s \in Sids, Client(s)
  PROVE  TypeOK'
<1> USE DEF Known, TypeOK, redis, rooms, visits, history
<1>1. CASE Connect(s)
  <2>1. Connecting(s) \in Seq(Steps) /\ Owner[s] \in People
    BY ConnectingSteps, OwnerType
  <2> QED BY <1>1, <2>1 DEF Connect
<1>2. CASE Refuse(s)
  BY <1>2 DEF Refuse
<1>3. ASSUME Drop(s), UNCHANGED <<con, target, online, redis, visits, bus, stuck,
                                  unsaid, overlap, apart>>,
             cut' \subseteq People
      PROVE  TypeOK'
  <2>1. Leaving(s) \in Seq(Steps)
    BY LeavingSteps
  <2> QED BY <1>3, <2>1 DEF Drop
<1>4. CASE Close(s)
  BY <1>3, <1>4 DEF Close
<1>5. CASE TimeOut(s)
  BY <1>3, <1>5, OwnerType DEF TimeOut
<1>6. CASE NoOrganization(s)
  BY <1>6, OwnerType, EmptySeq DEF NoOrganization
<1>7. CASE LeaveConversation(s)
  BY <1>7 DEF LeaveConversation
<1>8. CASE ConnectRaises(s)
  BY <1>8, OwnerType, EmptySeq DEF ConnectRaises
<1> QED BY <1>1, <1>2, <1>4, <1>5, <1>6, <1>7, <1>8 DEF Client

\* Whether an event is published or not.
LEMMA TypePublish ==
  ASSUME Known, NEW p \in People, NEW on \in BOOLEAN, Publish(p, on)
  PROVE  bus' \in Seq(Event) /\ unsaid' \subseteq People
<1>1. [who |-> p, on |-> on] \in Event
  BY DEF Event
<1>2. Append(bus, [who |-> p, on |-> on]) \in Seq(Event)
  BY <1>1, AppendProperties DEF Known, TypeOK
<1> QED BY <1>2 DEF Publish, Known, TypeOK

LEMMA TypeOnConnect ==
  ASSUME Known, NEW s \in Sids, OnConnect(s)
  PROVE  TypeOK'
<1> USE DEF Known, TypeOK, redis, rooms, visits, history, Connected
<1>1. CASE SetOnline(s)
  BY <1>1, ConnectedEffect, OwnerType DEF SetOnline
<1>2. CASE SetSidOf(s)
  BY <1>2, ConnectedEffect, OwnerType DEF SetSidOf
<1>3. CASE SetOwnerOf(s)
  BY <1>3, ConnectedEffect DEF SetOwnerOf
<1>4. CASE EnterRoom(s)
  BY <1>4, ConnectedEffect DEF EnterRoom, Enter
<1>5. CASE TellOnline(s)
  <2>2. bus' \in Seq(Event) /\ unsaid' \subseteq People
    BY <1>5, OwnerType, TypePublish DEF TellOnline
  <2> QED BY <1>5, <2>2, ConnectedEffect DEF TellOnline
<1>6. CASE FindSid(s)
  <2>1. con[s] \in Seq(Steps) /\ con[s] # <<>>
    BY <1>6 DEF FindSid, At
  <2>2. Tail(con[s]) \in Seq(Steps) /\ <<>> \in Seq(Steps)
    BY <2>1, HeadTailProperties, EmptySeq
  <2> QED BY <1>6, <2>2, OwnerType DEF FindSid
<1>7. CASE JoinConversation(s)
  <2>1. con[s] # <<>> /\ Head(con[s]) = "Join" /\ Rest(con[s], Connecting(s))
    BY <1>7 DEF JoinConversation, Handlers, HandlersOf, At
  <2>2. Pending(con[s], "Chat") /\ ~Pending(con[s], "FindSid")
    BY <2>1, ConnectStep
  <2>3. target[s] \in Sids
    BY <2>2 DEF Handlers, HandlersOf
  <2> QED BY <1>7, <2>3, ConnectedEffect DEF JoinConversation, Enter
<1>8. CASE SetConversation(s)
  <2>1. con[s] # <<>> /\ Head(con[s]) = "Chat" /\ Rest(con[s], Connecting(s))
    BY <1>8 DEF SetConversation, Handlers, HandlersOf, At
  <2>2. Pending(con[s], "Chat") /\ ~Pending(con[s], "FindSid")
    BY <2>1, ConnectStep
  <2>3. target[s] \in Sids
    BY <2>2 DEF Handlers, HandlersOf
  <2> QED BY <1>8, <2>3, ConnectedEffect DEF SetConversation
<1>9. CASE GiveUpJoin(s)
  BY <1>9, EmptySeq DEF GiveUpJoin
<1> QED BY <1>1, <1>2, <1>3, <1>4, <1>5, <1>6, <1>7, <1>8, <1>9 DEF OnConnect

LEMMA TypeOnDisconnect ==
  ASSUME Known, NEW s \in Sids, OnDisconnect(s)
  PROVE  TypeOK'
<1> USE DEF Known, TypeOK, redis, rooms, visits, history, Disconnected
<1>1. CASE FindOwner(s)
  <2>1. dis' \in [Sids -> Seq(Steps)]
    <3>1. Disconnected(s, "Find")
          /\ (dis' = [dis EXCEPT ![s] = Tail(@)] \/ dis' = [dis EXCEPT ![s] = <<>>])
      BY <1>1 DEF FindOwner, GoOn, End
    <3> QED BY <3>1, LeavingEffect
  <2>2. stuck' \subseteq People
    BY <1>1, OwnerType DEF FindOwner
  <2> QED BY <1>1, <2>1, <2>2 DEF FindOwner
<1>2. CASE SetOffline(s)
  <2>1. dis' \in [Sids -> Seq(Steps)]
    <3>1. Disconnected(s, "Offline")
          /\ (dis' = [dis EXCEPT ![s] = Tail(@)] \/ dis' = [dis EXCEPT ![s] = <<>>])
      BY <1>2 DEF SetOffline, GoOn, End
    <3> QED BY <3>1, LeavingEffect
  <2>2. /\ online' \in [People -> BOOLEAN]
        /\ stuck' \subseteq People /\ unsaid' \subseteq People
    <3>1. PICK p \in People : p = Owner[s]
      BY OwnerType
    <3>2. /\ online' = [online EXCEPT ![p] = FALSE] \/ online' = online
          /\ stuck' = stuck \ {p} \/ stuck' = stuck \union {p}
          /\ unsaid' = unsaid \/ unsaid' = unsaid \union {p}
      BY ONLY <1>2, <3>1 DEF SetOffline
    <3> QED BY ONLY <3>1, <3>2, Known DEF Known, TypeOK
  <2>3. /\ ending' \in [Sids -> Visits \union {NoVisit}]
        /\ crossed' \subseteq Customers
    <3>1. PICK p : p = Owner[s] /\ (~IsAgent(s) => p \in Customers)
      BY OwnerType
    <3>2. \/ UNCHANGED <<ending, crossed>>
          \/ /\ ~IsAgent(s) /\ ending' = [ending EXCEPT ![s] = logOf[p]]
             /\ crossed' = crossed \union {p} \/ crossed' = crossed
      BY ONLY <1>2, <3>1 DEF SetOffline
    <3> QED BY ONLY <3>1, <3>2, Known DEF Known, TypeOK
  <2> QED BY <1>2, <2>1, <2>2, <2>3 DEF SetOffline
<1>3. CASE EndVisit(s)
  <2>1. dis' \in [Sids -> Seq(Steps)]
    <3>1. Disconnected(s, "Visit")
          /\ (dis' = [dis EXCEPT ![s] = Tail(@)] \/ dis' = [dis EXCEPT ![s] = <<>>])
      BY <1>3 DEF EndVisit, GoOn, End
    <3> QED BY <3>1, LeavingEffect
  <2>2. /\ ending' \in [Sids -> Visits \union {NoVisit}] /\ unsaid' \subseteq People
        /\ UNCHANGED <<online, logOf, crossed, bus, stuck>>
    BY <1>3, OwnerType DEF EndVisit
  <2>3. CASE UNCHANGED <<visit, copying>>
    BY <1>3, <2>1, <2>2, <2>3 DEF EndVisit
  <2>4. CASE ~ UNCHANGED <<visit, copying>>
    <3> DEFINE v == ending[s]
    <3>2. /\ visit' = [visit EXCEPT ![v].left = TRUE] /\ copying' = Touched(v)
          /\ v # NoVisit
      BY <1>3, <2>4 DEF EndVisit
    <3>1. v \in Visits /\ visit[v] \in Visit
      BY <3>2 DEF Rows, VisitsOf
    <3> HIDE DEF v
    <3>4. [visit[v] EXCEPT !.left = TRUE] \in Visit
      BY <3>1 DEF Visit
    <3>5. visit' = [visit EXCEPT ![v] = [visit[v] EXCEPT !.left = TRUE]]
      BY <3>2
    <3>6. visit' \in [Visits -> Visit \union {NoVisit}]
      BY <3>1, <3>4, <3>5
    <3>7. copying' \in [Visits -> Nat]
      BY <3>1, <3>2 DEF Touched
    <3> QED BY <1>3, <2>1, <2>2, <3>6, <3>7 DEF EndVisit
  <2> QED BY <2>3, <2>4
<1>4. CASE TellOffline(s)
  <2>2. bus' \in Seq(Event) /\ unsaid' \subseteq People
    BY <1>4, OwnerType, TypePublish DEF TellOffline
  <2> QED BY <1>4, <2>2, LeavingEffect DEF TellOffline, GoOn
<1> QED BY <1>1, <1>2, <1>3, <1>4 DEF OnDisconnect

LEMMA TypeVisits ==
  ASSUME Known,
         \/ \E c \in Customers : StoreVisit(c)
         \/ \E v \in Visits : CopyVisit(v) \/ LoseVisit(v) \/ DeleteVisit(v)
  PROVE  TypeOK'
<1> USE DEF Known, TypeOK, redis, rooms, history, Elsewhere
<1>1. ASSUME NEW c \in Customers, StoreVisit(c)
      PROVE  TypeOK'
  BY <1>1 DEF StoreVisit, Visit
<1>2. ASSUME NEW v \in Visits, CopyVisit(v)
      PROVE  TypeOK'
  <2>1. visit[v] \in Visit
    BY <1>2 DEF CopyVisit, Rows
  <2> QED BY <1>2, <2>1 DEF CopyVisit, Visit
<1>3. ASSUME NEW v \in Visits, DeleteVisit(v)
      PROVE  TypeOK'
  <2>1. visit[v] \in Visit
    BY <1>3 DEF DeleteVisit
  <2>2. visit' \in [Visits -> Visit \union {NoVisit}]
    BY <1>3, <2>1 DEF DeleteVisit, Visit
  <2> QED BY <1>3, <2>1, <2>2 DEF DeleteVisit, Touched, Visit
<1>4. ASSUME NEW v \in Visits, LoseVisit(v)
      PROVE  TypeOK'
  <2>1. visit[v] \in Visit
    BY <1>4 DEF LoseVisit, Rows
  <2> QED BY <1>4, <2>1 DEF LoseVisit, Visit
<1> QED BY <1>1, <1>2, <1>3, <1>4

LEMMA TypeEmit ==
  ASSUME Known, Emit
  PROVE  TypeOK'
<1>1. bus # <<>> /\ bus \in Seq(Event)
  BY DEF Known, TypeOK, Emit
<1>2. Head(bus) \in Event /\ Tail(bus) \in Seq(Event)
  BY <1>1, HeadTailProperties
<1>3. view' \in [Sids -> [People -> {"unknown", "online", "offline"}]]
  BY <1>2 DEF Known, TypeOK, Emit, Told, Event
<1> QED BY <1>2, <1>3 DEF Known, TypeOK, Emit, redis, rooms, visits, history

LEMMA TypeStep ==
  ASSUME Known, [Next]_vars
  PROVE  TypeOK'
<1>1. CASE UNCHANGED vars
  BY <1>1 DEF vars, redis, rooms, visits, history, Known, TypeOK
<1> QED BY <1>1, TypeClient, TypeOnConnect, TypeOnDisconnect, TypeVisits, TypeEmit DEF Next

\* What a socket's handlers do changes what is known of others only for the
\* better.
LEMMA Untouched ==
  ASSUME NEW r \in Sids, HandlersOf(r),
         con'[r] = con[r], dis'[r] = dis[r], link'[r] = link[r], target'[r] = target[r],
         cut \subseteq cut', ownerOf \subseteq ownerOf',
         sidOf[Owner[r]] # NoSid => sidOf'[Owner[r]] # NoSid
  PROVE  HandlersOf(r)'
BY DEF HandlersOf, At, Pending

LEMMA Moves ==
  ASSUME Known, NEW s \in Sids, Client(s) \/ OnConnect(s) \/ OnDisconnect(s)
  PROVE  /\ \A r \in Sids \ {s} :
              /\ con'[r] = con[r] /\ dis'[r] = dis[r]
              /\ link'[r] = link[r] /\ target'[r] = target[r]
         /\ cut \subseteq cut' /\ ownerOf \subseteq ownerOf'
         /\ \A p \in People : sidOf[p] # NoSid => sidOf'[p] # NoSid
         /\ \A p \in People : sidOf'[p] \in Sids => Owner[sidOf'[p]] = p
<1> USE DEF Known, TypeOK, Handlers, redis, rooms, visits, history
<1>1. CASE Client(s)
  <2>1. CASE ConnectRaises(s)
    BY <2>1 DEF ConnectRaises
  <2>2. CASE Connect(s)
    BY <2>2 DEF Connect
  <2>3. CASE Refuse(s)
    BY <2>3 DEF Refuse
  <2>4. CASE Close(s) \/ TimeOut(s)
    BY <2>4 DEF Close, TimeOut, Drop
  <2>5. CASE NoOrganization(s)
    BY <2>5 DEF NoOrganization
  <2>6. CASE LeaveConversation(s)
    BY <2>6 DEF LeaveConversation
  <2> QED BY <1>1, <2>1, <2>2, <2>3, <2>4, <2>5, <2>6 DEF Client
<1>2. CASE OnConnect(s)
  <2> USE DEF Connected
  <2>1. CASE SetSidOf(s)
    BY <2>1, PresenceAssumption DEF SetSidOf
  <2>2. CASE FindSid(s)
    BY <2>2 DEF FindSid
  <2>3. CASE SetOwnerOf(s)
    BY <2>3 DEF SetOwnerOf
  <2>4. CASE SetOnline(s) \/ EnterRoom(s) \/ TellOnline(s) \/ JoinConversation(s)
    BY <2>4 DEF SetOnline, EnterRoom, TellOnline, JoinConversation
  <2>5. CASE SetConversation(s)
    BY <2>5 DEF SetConversation
  <2>6. CASE GiveUpJoin(s)
    BY <2>6 DEF GiveUpJoin
  <2> QED BY <1>2, <2>1, <2>2, <2>3, <2>4, <2>5, <2>6 DEF OnConnect
<1>3. CASE OnDisconnect(s)
  BY <1>3 DEF OnDisconnect, Disconnected, FindOwner, SetOffline, EndVisit, TellOffline, GoOn,
              End
<1> QED BY <1>1, <1>2, <1>3

LEMMA HandlersInit == Init => Handlers
<1> SUFFICES ASSUME Init PROVE Handlers
  OBVIOUS
<1>1. ASSUME NEW s \in Sids
      PROVE  HandlersOf(s)
  <2>1. Rest(<<>>, Connecting(s)) /\ Rest(<<>>, Leaving(s)) /\ \A e : ~Pending(<<>>, e)
    BY Nothing, ConnectingSteps, LeavingSteps
  <2> QED BY <2>1 DEF Init, HandlersOf, At
<1> QED BY <1>1, PresenceAssumption DEF Init, Handlers

LEMMA HandlersClient ==
  ASSUME Known, NEW s \in Sids, Client(s)
  PROVE  HandlersOf(s)'
<1> USE DEF Known, TypeOK, redis, rooms, visits, history
<1>1. HandlersOf(s)
  BY DEF Handlers
<1> DEFINE full == Connecting(s)
           rest == Leaving(s)
<1>2. /\ full = Connecting(s)' /\ rest = Leaving(s)'
      /\ Rest(<<>>, full) /\ Rest(<<>>, rest) /\ \A e : ~Pending(<<>>, e)
  BY Nothing, ConnectingSteps, LeavingSteps DEF Connecting, Leaving, IsAgent
<1>3. CASE Connect(s)
  <2>1. /\ con'[s] = full /\ dis'[s] = <<>> /\ link'[s] = "up"
        /\ UNCHANGED <<sidOf, ownerOf, cut>>
    BY <1>1, <1>3 DEF Connect, HandlersOf
  <2>2. Rest(full, full) /\ Pending(full, "SidOf") /\ Pending(full, "OwnerOf")
        /\ (Pending(full, "Chat") => Pending(full, "FindSid"))
    <3>1. full # <<>> /\ Rest(full, full) /\ Pending(full, "SidOf") /\ Pending(full, "OwnerOf")
          /\ (s \in Talks => Pending(full, "FindSid"))
      BY ConnectingOrder
    <3>2. ASSUME s \notin Talks PROVE ~Pending(full, "Chat")
      <4>1. /\ Len(full) = 5
            /\ full[1] # "Chat" /\ full[2] # "Chat" /\ full[3] # "Chat"
            /\ full[4] # "Chat" /\ full[5] # "Chat"
        <5>1. CASE IsAgent(s)
          BY <3>2, <5>1, ConnectingSteps
        <5>2. CASE ~IsAgent(s)
          BY <3>2, <5>2, ConnectingSteps
        <5> QED BY <5>1, <5>2
      <4> HIDE DEF full
      <4>2. \A i \in 1 .. 5 : full[i] # "Chat"
        BY <4>1
      <4> QED BY <4>1, <4>2 DEF Pending
    <3> QED BY <3>1, <3>2
  <2> HIDE DEF full, rest
  <2> QED BY <1>2, <2>1, <2>2 DEF HandlersOf, At, Pending, Rest
<1>4. CASE Refuse(s)
  <2>1. /\ con'[s] = <<>> /\ dis'[s] = <<>> /\ link'[s] = "gone"
    BY <1>1, <1>4 DEF Refuse, HandlersOf
  <2> HIDE DEF full, rest
  <2> QED BY <1>2, <2>1 DEF HandlersOf, At, Pending, Rest
<1>5. ASSUME Drop(s), con' = con, UNCHANGED <<target, redis>>, cut \subseteq cut',
             con[s] # <<>> => Owner[s] \in cut'
      PROVE  HandlersOf(s)'
  <2>1. /\ con'[s] = con[s] /\ dis'[s] = rest /\ link'[s] = "gone" /\ link[s] = "up"
        /\ target'[s] = target[s] /\ sidOf' = sidOf /\ ownerOf' = ownerOf
    BY <1>5 DEF Drop
  <2>2. Rest(rest, rest) /\ rest # <<>> /\ Head(rest) = "Find"
    BY LeavingStarts
  <2> HIDE DEF full, rest
  <2>3. con[s] # <<>> \/ s \in ownerOf \/ Owner[s] \in cut
    BY <1>1, <1>2, <2>1 DEF HandlersOf
  <2> QED BY <1>1, <1>2, <1>5, <2>1, <2>2, <2>3 DEF HandlersOf, At, Pending, Rest, full
<1>6. CASE Close(s)
  BY <1>5, <1>6 DEF Close
<1>7. CASE TimeOut(s)
  BY <1>5, <1>7 DEF TimeOut
<1>8. CASE NoOrganization(s)
  <2>1. /\ con'[s] = <<>> /\ dis'[s] = dis[s] /\ link'[s] = "gone"
        /\ UNCHANGED <<sidOf, ownerOf>> /\ cut \subseteq cut' /\ Rest(dis[s], rest)
        /\ (At(dis, s, "Find") /\ Owner[s] \notin cut => s \in ownerOf)
    BY <1>1, <1>8 DEF NoOrganization, HandlersOf
  <2> HIDE DEF full, rest
  <2> QED BY <1>2, <2>1 DEF HandlersOf, At, Pending, Rest
<1>9. CASE LeaveConversation(s)
  BY <1>1, <1>9, Untouched DEF LeaveConversation
<1>10. CASE ConnectRaises(s)
  <2>1. /\ con'[s] = <<>> /\ dis'[s] = dis[s] /\ link'[s] = link[s]
        /\ UNCHANGED <<sidOf, ownerOf>> /\ Owner[s] \in cut' /\ Rest(dis[s], rest)
        /\ con[s] # <<>>
    BY <1>1, <1>10 DEF ConnectRaises, HandlersOf
  <2> HIDE DEF full, rest
  <2> QED BY <1>1, <1>2, <2>1 DEF HandlersOf, At, Pending, Rest
<1> QED BY <1>3, <1>4, <1>6, <1>7, <1>8, <1>9, <1>10 DEF Client

LEMMA HandlersOnConnect ==
  ASSUME Known, NEW s \in Sids, OnConnect(s)
  PROVE  HandlersOf(s)'
<1> USE DEF Known, TypeOK, redis, rooms, visits, history
<1>1. HandlersOf(s) /\ Owner[s] \in People
  BY OwnerType DEF Handlers
<1> DEFINE t == con[s]
<1>2. t # <<>> /\ con'[s] \in {Tail(t), <<>>} /\ dis' = dis /\ link' = link /\ cut' = cut
  BY DEF OnConnect, Connected, At, SetOnline, SetSidOf, SetOwnerOf, EnterRoom, TellOnline,
         FindSid, JoinConversation, SetConversation, GiveUpJoin
<1>3. /\ Rest(Tail(t), Connecting(s)) /\ Rest(<<>>, Connecting(s))
      /\ \A e : ~Pending(<<>>, e)
      /\ \A e : Pending(Tail(t), e) <=> Pending(t, e) /\ e # Head(t)
      /\ Pending(t, "FindSid") => Pending(t, "Chat")
      /\ Head(t) \in {"FindSid", "Join", "Chat"} =>
           ~Pending(t, "SidOf") /\ ~Pending(t, "OwnerOf")
  <2>1. Rest(t, Connecting(s))
    BY <1>1 DEF HandlersOf
  <2> QED BY <1>2, <2>1, ConnectStep, Nothing, ConnectingSteps
<1>4. Connecting(s)' = Connecting(s) /\ Leaving(s)' = Leaving(s)
  BY DEF Connecting, Leaving, IsAgent
<1>5. Rest(con'[s], Connecting(s)') /\ Rest(dis'[s], Leaving(s)')
  BY <1>1, <1>2, <1>3, <1>4 DEF HandlersOf
<1>6. \A e : Pending(con'[s], e) => Pending(t, e)
  BY <1>2, <1>3
<1>7. ASSUME con'[s] # <<>>, ~Pending(con'[s], "SidOf")
      PROVE  sidOf'[Owner[s]] # NoSid
  <2>1. CASE Head(t) = "SidOf"
    <3>1. SetSidOf(s)
      BY <2>1 DEF OnConnect, Connected, At, SetOnline, SetSidOf, SetOwnerOf, EnterRoom,
                  TellOnline, FindSid, JoinConversation, SetConversation, GiveUpJoin
    <3> QED BY <1>1, <3>1, PresenceAssumption DEF SetSidOf
  <2>2. CASE Head(t) # "SidOf"
    <3>1. ~Pending(t, "SidOf")
      BY <1>2, <1>3, <1>7, <2>2
    <3>2. sidOf[Owner[s]] # NoSid
      BY <1>1, <1>2, <3>1 DEF HandlersOf
    <3> QED BY <1>1, <3>2, Moves
  <2> QED BY <2>1, <2>2
<1>8. ASSUME Pending(con'[s], "Chat"), ~Pending(con'[s], "FindSid")
      PROVE  target'[s] \in Sids
  <2>1. con'[s] = Tail(t) /\ Pending(t, "Chat") /\ Head(t) # "Chat"
    BY <1>2, <1>3, <1>8
  <2>5. con'[s] # <<>> /\ con \in [Sids -> Seq(Steps)]
    BY <1>3, <1>8
  <2>4. ~GiveUpJoin(s)
    BY ONLY <2>5 DEF GiveUpJoin
  <2>2. CASE Head(t) = "FindSid"
    <3>1. FindSid(s)
      BY <2>2, <2>4 DEF OnConnect, Connected, At, SetOnline, SetSidOf, SetOwnerOf, EnterRoom,
                  TellOnline, FindSid, JoinConversation, SetConversation, GiveUpJoin
    <3>2. target'[s] = sidOf[Owner[s]] /\ sidOf[Owner[s]] # NoSid
      BY <1>1, <1>2, <1>3, <2>2, <3>1 DEF FindSid, HandlersOf
    <3> QED BY <1>1, <3>2
  <2>3. CASE Head(t) # "FindSid"
    <3>1. target[s] \in Sids
      BY <1>1, <1>3, <1>8, <2>1, <2>3 DEF HandlersOf
    <3>5. ~SetConversation(s) /\ ~FindSid(s)
      BY ONLY <2>1, <2>3 DEF SetConversation, FindSid, Connected, At
    <3>2. target' = target
      BY <2>1, <2>3, <2>4, <3>5 DEF OnConnect, Connected, At, SetOnline, SetSidOf, SetOwnerOf, EnterRoom,
                        TellOnline, FindSid, JoinConversation, SetConversation, GiveUpJoin
    <3> QED BY <3>1, <3>2
  <2> QED BY <2>2, <2>3
<1>9. link'[s] = "up" /\ Owner[s] \notin cut' => Pending(con'[s], "OwnerOf") \/ s \in ownerOf'
  <2>1. CASE Head(t) = "OwnerOf"
    BY <2>1 DEF OnConnect, Connected, At, SetOnline, SetSidOf, SetOwnerOf, EnterRoom,
                TellOnline, FindSid, JoinConversation, SetConversation, GiveUpJoin
  <2>2. CASE Head(t) # "OwnerOf" /\ con'[s] = Tail(t)
    BY <1>1, <1>2, <1>3, <2>2, Moves DEF HandlersOf
  <2>3. CASE con'[s] # Tail(t)
    <3>1. Head(t) \in {"FindSid", "Join", "Chat"}
      BY <1>1, <2>3 DEF OnConnect, Connected, At, SetOnline, SetSidOf, SetOwnerOf, EnterRoom,
                  TellOnline, FindSid, JoinConversation, SetConversation, GiveUpJoin
    <3> QED BY <1>1, <1>2, <1>3, <3>1, Moves DEF HandlersOf
  <2> QED BY <2>1, <2>2, <2>3
<1>10. At(dis', s, "Find") /\ Owner[s] \notin cut' => s \in ownerOf'
  BY <1>1, <1>2, Moves DEF HandlersOf, At
<1> QED BY <1>1, <1>2, <1>5, <1>7, <1>8, <1>9, <1>10 DEF HandlersOf, At

LEMMA HandlersOnDisconnect ==
  ASSUME Known, NEW s \in Sids, OnDisconnect(s)
  PROVE  HandlersOf(s)'
<1> USE DEF Known, redis, rooms, visits, history
<1>1. HandlersOf(s)
  BY DEF Handlers
<1>2. PICK step \in Steps :
        /\ Disconnected(s, step)
        /\ dis' = [dis EXCEPT ![s] = Tail(@)] \/ dis' = [dis EXCEPT ![s] = <<>>]
  BY DEF OnDisconnect, FindOwner, SetOffline, EndVisit, TellOffline, Steps, GoOn, End
<1>3. /\ con' = con /\ link' = link /\ target' = target
      /\ sidOf' = sidOf /\ ownerOf' = ownerOf /\ cut' = cut
  BY <1>2 DEF Disconnected
<1>4. /\ dis[s] # <<>> /\ Rest(dis'[s], Leaving(s)) /\ ~At(dis', s, "Find")
  BY <1>2, LeavingEffect
<1>5. Connecting(s)' = Connecting(s) /\ Leaving(s)' = Leaving(s)
  BY DEF Connecting, Leaving, IsAgent
<1> QED BY <1>1, <1>3, <1>4, <1>5 DEF HandlersOf, At

LEMMA HandlersStep ==
  ASSUME Known, [Next]_vars
  PROVE  Handlers'
<1>1. ASSUME NEW s \in Sids, Client(s) \/ OnConnect(s) \/ OnDisconnect(s)
      PROVE  Handlers'
  <2>1. HandlersOf(s)'
    BY <1>1, HandlersClient, HandlersOnConnect, HandlersOnDisconnect
  <2>2. ASSUME NEW r \in Sids \ {s}
        PROVE  HandlersOf(r)'
    BY <1>1, Moves, Untouched, OwnerType DEF Known, Handlers
  <2>3. \A p \in People : sidOf'[p] \in Sids => Owner[sidOf'[p]] = p
    BY <1>1, Moves
  <2> QED BY <2>1, <2>2, <2>3 DEF Handlers
<1>2. CASE UNCHANGED <<link, con, dis, target, redis, cut>>
  BY <1>2, Untouched DEF Known, Handlers, redis
<1> QED BY <1>1, <1>2 DEF Next, vars, history, StoreVisit, CopyVisit, LoseVisit,
                          DeleteVisit, Elsewhere, Emit


-----------------------------------------------------------------------------
(* Rows of visits.                                                         *)

LEMMA RowsInit == Init => Rows
BY PresenceAssumption DEF Init, Rows, VisitsOf

\* An update of a row keeps its customer, and whoever does not update any
\* keeps all.
LEMMA RowsSame ==
  ASSUME NEW c, \A v \in Visits : /\ visit'[v] = NoVisit <=> visit[v] = NoVisit
                                  /\ visit[v] # NoVisit => visit'[v].of = visit[v].of
  PROVE  VisitsOf(c)' = VisitsOf(c)
<1>1. \A v \in Visits : visit'[v] # NoVisit /\ visit'[v].of = c
                      <=> visit[v] # NoVisit /\ visit[v].of = c
  OBVIOUS
<1> QED BY <1>1 DEF VisitsOf

LEMMA Updated ==
  ASSUME Known, NEW v \in Visits, visit[v] # NoVisit, NEW x \in Visit,
         x.of = visit[v].of, visit' = [visit EXCEPT ![v] = x]
  PROVE  /\ \A c : VisitsOf(c)' = VisitsOf(c)
         /\ \A w \in Visits : visit'[w] = NoVisit <=> visit[w] = NoVisit
<1>1. x # NoVisit /\ visit \in [Visits -> Visit \union {NoVisit}]
  BY PresenceAssumption DEF Known, TypeOK
<1>2. \A w \in Visits : /\ visit'[w] = NoVisit <=> visit[w] = NoVisit
                        /\ visit[w] # NoVisit => visit'[w].of = visit[w].of
  BY <1>1
<1> QED BY <1>2, RowsSame

LEMMA RowsVisits ==
  ASSUME Known, [Next]_vars,
         \/ \E c \in Customers : StoreVisit(c)
         \/ \E v \in Visits : CopyVisit(v) \/ LoseVisit(v) \/ DeleteVisit(v)
  PROVE  Rows'
<1> USE DEF Known, Rows, TypeOK, Elsewhere, visits
<1>1. ASSUME NEW c \in Customers, StoreVisit(c)
      PROVE  Rows'
  <2>1. PICK v \in Visits :
          /\ visit[v] = NoVisit
          /\ \A w \in 1 .. v - 1 : visit[w] # NoVisit
          /\ visit' = [visit EXCEPT ![v] = [of |-> c, left |-> FALSE, deleted |-> FALSE]]
          /\ copying' = [copying EXCEPT ![v] = 1]
          /\ UNCHANGED <<logOf, ending>>
    BY <1>1 DEF StoreVisit
  <2> DEFINE x == [of |-> c, left |-> FALSE, deleted |-> FALSE]
  <2>2. x \in Visit /\ x # NoVisit
    <3>1. x \in Visit
      BY DEF Visit
    <3> HIDE DEF x
    <3> QED BY <3>1, PresenceAssumption
  <2> HIDE DEF x
  <2>3. /\ visit'[v] # NoVisit /\ \A w \in Visits \ {v} : visit'[w] = visit[w]
        /\ copying'[v] = 1 /\ \A w \in Visits \ {v} : copying'[w] = copying[w]
    BY <2>1, <2>2 DEF x
  <2>4. \A d : VisitsOf(d) \subseteq VisitsOf(d)'
    BY <2>1, <2>3 DEF VisitsOf
  <2>5. \A u, w \in Visits : visit'[u] = NoVisit /\ u <= w => visit'[w] = NoVisit
    <3> SUFFICES ASSUME NEW u \in Visits, NEW w \in Visits, visit'[u] = NoVisit, u <= w
                 PROVE  visit'[w] = NoVisit
      OBVIOUS
    <3>1. u # v /\ visit[u] = NoVisit
      BY <2>3
    <3>2. u > v
      BY <2>1, <3>1, PresenceAssumption DEF Visits
    <3>3. w # v /\ visit[w] = NoVisit
      BY <3>1, <3>2 DEF Visits
    <3> QED BY <2>3, <3>3
  <2>6. \A w \in Visits : copying'[w] > 0 => visit'[w] # NoVisit
    BY <2>3
  <2>7. \A d \in Customers : logOf'[d] \in VisitsOf(d)' \union {NoVisit}
    BY <2>1, <2>4
  <2>8. \A s \in Sids : ending'[s] # NoVisit =>
          ~IsAgent(s)' /\ ending'[s] \in VisitsOf(Owner[s])'
    BY <2>1, <2>4 DEF IsAgent
  <2> QED BY <2>5, <2>6, <2>7, <2>8
<1>2. ASSUME NEW v \in Visits, CopyVisit(v)
      PROVE  Rows'
  <2>1. visit' = visit /\ ending' = ending /\ visit[v] \in Visit
    BY <1>2 DEF CopyVisit
  <2>2. \A c : VisitsOf(c)' = VisitsOf(c)
    BY <2>1 DEF VisitsOf
  <2>3. \A w \in Visits : copying'[w] > 0 => visit'[w] # NoVisit
    BY <1>2, <2>1 DEF CopyVisit
  <2>4. v \in VisitsOf(visit[v].of)
    BY <1>2, <2>1, PresenceAssumption DEF VisitsOf
  <2>5. \A c \in Customers : logOf'[c] \in VisitsOf(c)' \union {NoVisit}
    BY <1>2, <2>2, <2>4 DEF CopyVisit
  <2> QED BY <2>1, <2>2, <2>3, <2>5 DEF IsAgent
<1>3. ASSUME NEW v \in Visits, DeleteVisit(v)
      PROVE  Rows'
  <2>1. visit[v] \in Visit /\ visit[v] # NoVisit /\ UNCHANGED <<logOf, ending>>
    BY <1>3 DEF DeleteVisit
  <2>2. /\ visit' = [visit EXCEPT ![v] = [visit[v] EXCEPT !.deleted = TRUE]]
        /\ [visit[v] EXCEPT !.deleted = TRUE] \in Visit
        /\ [visit[v] EXCEPT !.deleted = TRUE].of = visit[v].of
    BY <1>3, <2>1 DEF DeleteVisit, Visit
  <2>3. /\ \A c : VisitsOf(c)' = VisitsOf(c)
        /\ \A w \in Visits : visit'[w] = NoVisit <=> visit[w] = NoVisit
    BY <2>1, <2>2, Updated
  <2>4. \A w \in Visits : copying'[w] > 0 => visit[w] # NoVisit
    BY <1>3, <2>1 DEF DeleteVisit, Touched
  <2> QED BY <2>1, <2>3, <2>4 DEF IsAgent
<1>4. ASSUME NEW v \in Visits, LoseVisit(v)
      PROVE  Rows'
  <2>1. visit' = visit /\ ending' = ending /\ logOf' = logOf
    BY <1>4 DEF LoseVisit
  <2>2. \A c : VisitsOf(c)' = VisitsOf(c)
    BY <2>1 DEF VisitsOf
  <2>3. \A w \in Visits : copying'[w] > 0 => visit'[w] # NoVisit
    BY <1>4, <2>1 DEF LoseVisit
  <2> QED BY <2>1, <2>2, <2>3 DEF IsAgent
<1> QED BY <1>1, <1>2, <1>3, <1>4

LEMMA RowsLeave ==
  ASSUME Known, NEW s \in Sids, OnDisconnect(s)
  PROVE  Rows'
<1> USE DEF Known, Rows, TypeOK, Disconnected
<1>1. CASE FindOwner(s) \/ TellOffline(s)
  BY <1>1 DEF FindOwner, TellOffline, visits, VisitsOf, IsAgent
<1>2. CASE SetOffline(s)
  <2>1. UNCHANGED <<visit, logOf, copying>> /\ \A c : VisitsOf(c)' = VisitsOf(c)
    BY <1>2 DEF SetOffline, VisitsOf
  <2>2. \A r \in Sids \ {s} : ending'[r] = ending[r]
    BY <1>2 DEF SetOffline
  <2>3. ending'[s] # NoVisit => ~IsAgent(s) /\ ending'[s] \in VisitsOf(Owner[s])
    <3>1. CASE IsAgent(s)
      BY <1>2, <3>1 DEF SetOffline
    <3>2. CASE ~IsAgent(s)
      BY <1>2, <3>2, OwnerType DEF SetOffline
    <3> QED BY <3>1, <3>2
  <2> QED BY <2>1, <2>2, <2>3 DEF IsAgent
<1>3. CASE EndVisit(s)
  <2>1. /\ UNCHANGED logOf
        /\ ending' = [ending EXCEPT ![s] = NoVisit]
    BY <1>3 DEF EndVisit
  <2>2. CASE UNCHANGED <<visit, copying>>
    BY <2>1, <2>2 DEF VisitsOf, IsAgent
  <2>3. CASE ~ UNCHANGED <<visit, copying>>
    <3> DEFINE v == ending[s]
    <3>2. /\ visit' = [visit EXCEPT ![v].left = TRUE] /\ copying' = Touched(v)
          /\ v # NoVisit
      BY <1>3, <2>3 DEF EndVisit
    <3>1. v \in Visits /\ visit[v] \in Visit /\ visit[v] # NoVisit
      BY <3>2 DEF VisitsOf
    <3> HIDE DEF v
    <3>3. /\ visit' = [visit EXCEPT ![v] = [visit[v] EXCEPT !.left = TRUE]]
          /\ [visit[v] EXCEPT !.left = TRUE] \in Visit
          /\ [visit[v] EXCEPT !.left = TRUE].of = visit[v].of
      BY <3>1, <3>2 DEF Visit
    <3>4. /\ \A c : VisitsOf(c)' = VisitsOf(c)
          /\ \A w \in Visits : visit'[w] = NoVisit <=> visit[w] = NoVisit
      BY <3>1, <3>3, Updated
    <3>5. \A w \in Visits : copying'[w] > 0 => visit[w] # NoVisit
      BY <3>1, <3>2 DEF Touched
    <3> QED BY <2>1, <3>4, <3>5 DEF IsAgent
  <2> QED BY <2>2, <2>3
<1> QED BY <1>1, <1>2, <1>3 DEF OnDisconnect

\* Clients, on_connect and the listener do not touch visits.
LEMMA VisitsElsewhere ==
  ASSUME \/ \E s \in Sids : Client(s) \/ OnConnect(s)
         \/ Emit \/ UNCHANGED vars
  PROVE  UNCHANGED <<visit, logOf, copying, ending, crossed>>
BY DEF Client, Connect, Refuse, Close, TimeOut, Drop, NoOrganization, ConnectRaises,
       LeaveConversation, OnConnect, Connected, SetOnline, SetSidOf, SetOwnerOf, EnterRoom,
       TellOnline, FindSid, JoinConversation, SetConversation, GiveUpJoin, Emit, vars, visits

LEMMA RowsStep ==
  ASSUME Known, [Next]_vars
  PROVE  Rows'
<1>1. CASE (\E s \in Sids : Client(s) \/ OnConnect(s)) \/ Emit \/ UNCHANGED vars
  <2>1. UNCHANGED <<visit, logOf, copying, ending, crossed>>
    BY <1>1, VisitsElsewhere
  <2> QED BY <2>1 DEF Known, Rows, VisitsOf, IsAgent
<1> QED BY <1>1, RowsVisits, RowsLeave DEF Next

-----------------------------------------------------------------------------
(* Type correctness.                                                       *)

LEMMA KnownStep == Known /\ [Next]_vars => Known'
BY TypeStep, HandlersStep, RowsStep DEF Known

LEMMA KnownAlways == Spec => []Known
<1>1. Init => Known
  BY TypeInit, HandlersInit, RowsInit DEF Known
<1> QED BY <1>1, KnownStep, PTL DEF Spec

\* Every variable keeps its type: in particular the socket a handler lets into
\* a conversation, and the visit it ends, are there.
THEOREM TypeCorrect == Spec => []TypeOK
<1>1. Known => TypeOK
  BY DEF Known
<1> QED BY <1>1, KnownAlways, PTL

-----------------------------------------------------------------------------
(* The flag.                                                               *)

Active(s) == link[s] = "up" \/ Busy(s)

\* A connection, or an on_disconnect that will still set the flag, accounts
\* for a person who is shown online.
Stands(s) == link[s] = "up" \/ Pending(dis[s], "Offline")

FlagOf(p) ==
  /\ p \notin cut \union stuck /\ online[p] => \E s \in Of(p) : Stands(s)
  /\ p \notin overlap => \A r, s \in Of(p) : Active(r) /\ Active(s) => r = s
  /\ p \notin cut \union overlap =>
       \A s \in Of(p) : link[s] = "up" => Pending(con[s], "Online") \/ online[p]

FlagKept == \A p \in People : FlagOf(p)

\* Steps after which the flag is still accounted for.
LEMMA FlagFrame ==
  ASSUME NEW p \in People, FlagOf(p),
         online'[p] = online[p], cut \subseteq cut', overlap \subseteq overlap',
         p \in stuck => p \in stuck',
         p \notin cut' \union stuck' => \A r \in Of(p) : Stands(r) => Stands(r)',
         \A r \in Of(p) : Active(r)' => Active(r),
         \A r \in Of(p) : link'[r] = "up" => link[r] = "up",
         p \notin cut' => \A r \in Of(p) : link'[r] = "up" =>
           (Pending(con[r], "Online") => Pending(con'[r], "Online"))
  PROVE  FlagOf(p)'
<1>1. p \notin cut' \union stuck' /\ online'[p] => \E s \in Of(p) : Stands(s)'
  BY DEF FlagOf
<1>2. p \notin overlap' => \A r, s \in Of(p) : Active(r)' /\ Active(s)' => r = s
  BY DEF FlagOf
<1>3. p \notin cut' \union overlap' =>
        \A s \in Of(p) : link'[s] = "up" => Pending(con'[s], "Online") \/ online'[p]
  BY DEF FlagOf
<1>4. Of(p)' = Of(p)
  BY DEF Of
<1> QED BY <1>1, <1>2, <1>3, <1>4 DEF FlagOf, Pending

\* The same for a step of the handlers of s.
LEMMA FlagFrameOf ==
  ASSUME Known, FlagKept, NEW s \in Sids, Client(s) \/ OnConnect(s) \/ OnDisconnect(s),
         \A p \in People : p # Owner[s] => online'[p] = online[p]
                                         /\ (p \in stuck <=> p \in stuck')
  PROVE  /\ \A p \in People \ {Owner[s]} : FlagOf(p)'
         /\ \A r \in Sids \ {s} : /\ con'[r] = con[r] /\ dis'[r] = dis[r]
                                 /\ link'[r] = link[r]
                                 /\ (Stands(r)' <=> Stands(r)) /\ (Active(r)' <=> Active(r))
         /\ cut \subseteq cut' /\ overlap \subseteq overlap'
<1>1. /\ \A r \in Sids \ {s} : con'[r] = con[r] /\ dis'[r] = dis[r] /\ link'[r] = link[r]
      /\ cut \subseteq cut'
  BY Moves
<1>2. overlap \subseteq overlap'
  BY DEF Client, Connect, Refuse, Close, TimeOut, Drop, NoOrganization, LeaveConversation,
         OnConnect, Connected, SetOnline, SetSidOf, SetOwnerOf, EnterRoom, TellOnline, FindSid,
         JoinConversation, SetConversation, OnDisconnect, Disconnected, FindOwner, SetOffline,
         EndVisit, TellOffline, history, ConnectRaises, GiveUpJoin
<1>3. \A r \in Sids \ {s} : (Stands(r)' <=> Stands(r)) /\ (Active(r)' <=> Active(r))
  BY <1>1 DEF Stands, Active, Busy, Pending
<1>4. ASSUME NEW p \in People \ {Owner[s]}
      PROVE  FlagOf(p)'
  <2>1. \A r \in Of(p) : r \in Sids \ {s}
    BY DEF Of
  <2>2. FlagOf(p) /\ online'[p] = online[p] /\ (p \in stuck <=> p \in stuck')
    BY DEF FlagKept
  <2> QED BY <1>1, <1>2, <1>3, <2>1, <2>2, FlagFrame
<1> QED BY <1>1, <1>2, <1>3, <1>4

LEMMA FlagClient ==
  ASSUME Known, FlagKept, NEW s \in Sids, Client(s)
  PROVE  FlagKept'
<1> DEFINE o == Owner[s]
<1>1. o \in People /\ s \in Of(o) /\ FlagOf(o) /\ HandlersOf(s)
  BY OwnerType DEF Of, FlagKept, Known, Handlers
<1>2. online' = online /\ stuck' = stuck
  BY DEF Client, Connect, Refuse, Close, TimeOut, NoOrganization, ConnectRaises,
         LeaveConversation, history
<1>3. /\ \A p \in People \ {o} : FlagOf(p)'
      /\ \A r \in Sids \ {s} : /\ con'[r] = con[r] /\ link'[r] = link[r]
                              /\ (Stands(r)' <=> Stands(r)) /\ (Active(r)' <=> Active(r))
      /\ cut \subseteq cut' /\ overlap \subseteq overlap'
  BY <1>2, FlagFrameOf
<1>4. \A r \in Of(o) : r \in Sids
  BY DEF Of
<1> SUFFICES FlagOf(o)'
  BY <1>3 DEF FlagKept
<1>5. ASSUME o \notin cut' => (Stands(s) => Stands(s)'),
             Active(s)' => Active(s),
             link'[s] = "up" => link[s] = "up" /\ (con'[s] = con[s] \/ o \in cut')
      PROVE  FlagOf(o)'
  BY <1>1, <1>2, <1>3, <1>4, <1>5, FlagFrame
<1>6. CASE Connect(s)
  <2>1. /\ link[s] = "new" /\ link'[s] = "up" /\ con'[s] = Connecting(s)
    BY <1>6 DEF Connect, Known, TypeOK
  <2>2. Stands(s)' /\ Pending(con'[s], "Online")
    BY <2>1, ConnectingOrder DEF Stands
  <2>3. o \notin overlap' => \A r \in Of(o) \ {s} : ~Active(r)
    BY <1>6, <1>1 DEF Connect, Active
  <2>4. \A r, t \in Of(o) : o \notin overlap' /\ Active(r)' /\ Active(t)' => r = t
    BY <1>3, <1>4, <2>3
  <2>5. o \notin overlap' =>
          \A r \in Of(o) : link'[r] = "up" => Pending(con'[r], "Online")
    BY <1>3, <1>4, <2>2, <2>3 DEF Active
  <2>6. Of(o)' = Of(o)
    BY DEF Of
  <2> QED BY <1>1, <2>2, <2>4, <2>5, <2>6 DEF FlagOf, Pending
<1>7. CASE Refuse(s)
  <2>1. link[s] = "new" /\ link'[s] = "gone" /\ con' = con /\ dis' = dis
    BY <1>7 DEF Refuse, Known, TypeOK
  <2>2. con'[s] = <<>> /\ dis'[s] = <<>> /\ dis[s] = <<>>
    BY <1>1, <2>1 DEF HandlersOf
  <2> QED BY <1>5, <2>1, <2>2 DEF Stands, Active, Busy, Pending
<1>8. ASSUME Drop(s), con' = con
      PROVE  FlagOf(o)'
  <2>1. link[s] = "up" /\ link'[s] = "gone" /\ dis'[s] = Leaving(s)
    BY <1>8 DEF Drop, Known, TypeOK
  <2>2. Stands(s)' /\ Active(s)
    BY <2>1, LeavingStarts DEF Stands, Active
  <2> QED BY <1>5, <2>1, <2>2
<1>9. CASE Close(s) \/ TimeOut(s)
  BY <1>8, <1>9 DEF Close, TimeOut
<1>10. CASE NoOrganization(s)
  <2>1. link[s] = "up" /\ link'[s] = "gone" /\ o \in cut'
    BY <1>10 DEF NoOrganization, Known, TypeOK
  <2> QED BY <1>5, <2>1 DEF Active
<1>11. CASE LeaveConversation(s)
  <2>1. link' = link /\ con' = con /\ dis' = dis
    BY <1>11 DEF LeaveConversation
  <2> QED BY <1>5, <2>1 DEF Stands, Active, Busy, Pending
<1>12. CASE ConnectRaises(s)
  <2>1. /\ link' = link /\ dis' = dis /\ con[s] # <<>> /\ o \in cut'
    BY <1>12 DEF ConnectRaises
  <2> QED BY <1>5, <2>1 DEF Stands, Active, Busy, Pending
<1> QED BY <1>6, <1>7, <1>9, <1>10, <1>11, <1>12 DEF Client

LEMMA FlagOnConnect ==
  ASSUME Known, FlagKept, NEW s \in Sids, OnConnect(s)
  PROVE  FlagKept'
<1> DEFINE o == Owner[s]
           t == con[s]
<1>1. o \in People /\ s \in Of(o) /\ FlagOf(o) /\ HandlersOf(s)
  BY OwnerType DEF Of, FlagKept, Known, Handlers
<1>2. t # <<>> /\ con'[s] \in {Tail(t), <<>>} /\ dis' = dis /\ link' = link
      /\ cut' = cut /\ overlap' = overlap
  BY DEF OnConnect, Connected, At, SetOnline, SetSidOf, SetOwnerOf, EnterRoom, TellOnline,
         FindSid, JoinConversation, SetConversation, GiveUpJoin, Known, TypeOK, history
<1>3. /\ \A e : Pending(Tail(t), e) <=> Pending(t, e) /\ e # Head(t)
      /\ Head(t) \in {"FindSid", "Join", "Chat"} => ~Pending(t, "Online")
  <2>1. Rest(t, Connecting(s))
    BY <1>1 DEF HandlersOf
  <2> QED BY <1>2, <2>1, ConnectStep
<1>4. \A p \in People : p # o => online'[p] = online[p] /\ (p \in stuck <=> p \in stuck')
  BY DEF OnConnect, Connected, SetOnline, SetSidOf, SetOwnerOf, EnterRoom, TellOnline,
         FindSid, JoinConversation, SetConversation, GiveUpJoin, Known, TypeOK, history
<1>5. /\ \A p \in People \ {o} : FlagOf(p)'
      /\ \A r \in Sids \ {s} : con'[r] = con[r] /\ (Active(r)' <=> Active(r))
  BY <1>4, FlagFrameOf
<1>6. \A r \in Of(o) : r \in Sids
  BY DEF Of
<1>7. /\ \A r \in Sids : Stands(r)' <=> Stands(r)
      /\ Active(s)' => Active(s)
  BY <1>2 DEF Stands, Active, Busy, Pending
<1>8. CASE SetOnline(s)
  <2>1. online'[o] = TRUE
    BY <1>1, <1>8 DEF SetOnline, Known, TypeOK
  <2>2. o \notin cut' => Stands(s)'
    BY <1>1, <1>2, <1>7 DEF HandlersOf, Stands
  <2>3. o \notin overlap' => \A r, u \in Of(o) : Active(r)' /\ Active(u)' => r = u
    BY <1>1, <1>2, <1>5, <1>6, <1>7 DEF FlagOf
  <2>4. Of(o)' = Of(o)
    BY DEF Of
  <2>5. FlagOf(o)'
    BY <1>1, <2>1, <2>2, <2>3, <2>4 DEF FlagOf
  <2> QED BY <1>5, <2>5 DEF FlagKept
<1>9. CASE ~SetOnline(s)
  <2>1. online' = online /\ stuck' = stuck
    BY <1>9 DEF OnConnect, Connected, SetSidOf, SetOwnerOf, EnterRoom, TellOnline,
                FindSid, JoinConversation, SetConversation, GiveUpJoin, history
  <2>2. Pending(t, "Online") => Pending(con'[s], "Online")
    <3>1. Head(t) # "Online"
      BY <1>9 DEF OnConnect, Connected, At, SetSidOf, SetOwnerOf, EnterRoom, TellOnline,
                  FindSid, JoinConversation, SetConversation, GiveUpJoin
    <3>2. con'[s] = Tail(t) \/ Head(t) \in {"FindSid", "Join", "Chat"}
      BY <1>9 DEF OnConnect, Connected, At, SetSidOf, SetOwnerOf, EnterRoom, TellOnline,
                  FindSid, JoinConversation, SetConversation, GiveUpJoin, Known, TypeOK
    <3> QED BY <1>3, <3>1, <3>2
  <2>3. FlagOf(o)'
    BY <1>1, <1>2, <1>5, <1>6, <1>7, <2>1, <2>2, FlagFrame
  <2> QED BY <1>5, <2>3 DEF FlagKept
<1> QED BY <1>8, <1>9

LEMMA FlagOnDisconnect ==
  ASSUME Known, FlagKept, NEW s \in Sids, OnDisconnect(s)
  PROVE  FlagKept'
<1> DEFINE o == Owner[s]
<1>1. o \in People /\ s \in Of(o) /\ FlagOf(o) /\ HandlersOf(s)
  BY OwnerType DEF Of, FlagKept, Known, Handlers
<1>2. PICK step \in Steps :
        /\ Disconnected(s, step)
        /\ dis' = [dis EXCEPT ![s] = Tail(@)] \/ dis' = [dis EXCEPT ![s] = <<>>]
  BY DEF OnDisconnect, FindOwner, SetOffline, EndVisit, TellOffline, Steps, GoOn, End
<1>3. con' = con /\ link' = link /\ cut' = cut /\ overlap' = overlap
  BY <1>2 DEF Disconnected
<1>4. dis[s] # <<>> /\ Head(dis[s]) = step /\ link[s] = "gone"
  BY <1>2, LeavingEffect DEF Known
<1>5. \A p \in People : p # o => online'[p] = online[p] /\ (p \in stuck <=> p \in stuck')
  BY DEF OnDisconnect, FindOwner, SetOffline, EndVisit, TellOffline, Known, TypeOK
<1>6. /\ \A p \in People \ {o} : FlagOf(p)'
      /\ \A r \in Sids \ {s} : (Stands(r)' <=> Stands(r)) /\ (Active(r)' <=> Active(r))
  BY <1>5, FlagFrameOf
<1>7. \A r \in Of(o) : r \in Sids
  BY DEF Of
<1>8. Active(s)
  BY <1>4 DEF Active, Busy
<1>9. CASE SetOffline(s)
  <2>1. online'[o] = FALSE \/ o \in stuck'
    BY <1>1, <1>9 DEF SetOffline, Known, TypeOK
  <2>2. o \notin overlap' => \A r, u \in Of(o) : Active(r)' /\ Active(u)' => r = u
    BY <1>1, <1>3, <1>6, <1>7, <1>8 DEF FlagOf
  <2>3. o \notin overlap' => \A r \in Of(o) : link'[r] # "up"
    BY <1>1, <1>3, <1>4, <1>8 DEF FlagOf, Active
  <2>4. Of(o)' = Of(o)
    BY DEF Of
  <2>5. FlagOf(o)'
    BY <2>1, <2>2, <2>3, <2>4 DEF FlagOf
  <2> QED BY <1>6, <2>5 DEF FlagKept
<1>10. CASE ~SetOffline(s)
  <2>1. online' = online /\ stuck \subseteq stuck'
    BY <1>10 DEF OnDisconnect, FindOwner, EndVisit, TellOffline
  <2>2. o \notin stuck' => (Stands(s) => Stands(s)')
    <3> SUFFICES ASSUME o \notin stuck', Pending(dis[s], "Offline")
                 PROVE  Pending(dis'[s], "Offline")
      BY <1>4 DEF Stands, Pending
    <3>1. /\ Pending(Tail(dis[s]), "Offline") <=> "Offline" # Head(dis[s])
          /\ Head(dis[s]) = "Visit" => ~IsAgent(s)
      <4>1. Rest(dis[s], Leaving(s))
        BY <1>1 DEF HandlersOf
      <4> QED BY <1>4, <4>1, LeaveStep
    <3>2. CASE FindOwner(s)
      <4>1. Head(dis[s]) = "Find"
        BY <3>2 DEF FindOwner, Disconnected, At
      <4>2. dis'[s] = Tail(dis[s])
        BY <3>2, <4>1 DEF FindOwner, GoOn, Known, TypeOK
      <4> QED BY <3>1, <4>1, <4>2
    <3>3. CASE EndVisit(s)
      <4>1. Head(dis[s]) = "Visit"
        BY <3>3 DEF EndVisit, Disconnected, At
      <4> QED BY <1>1, <1>4, <4>1, LeaveStep DEF HandlersOf
    <3>4. CASE TellOffline(s)
      <4>1. dis'[s] = Tail(dis[s]) /\ Head(dis[s]) = "Tell"
        BY <3>4 DEF TellOffline, GoOn, Disconnected, At, Known, TypeOK
      <4> QED BY <3>1, <4>1
    <3> QED BY <1>10, <3>2, <3>3, <3>4 DEF OnDisconnect
  <2>3. FlagOf(o)'
    BY <1>1, <1>3, <1>6, <1>7, <1>8, <2>1, <2>2, FlagFrame
  <2> QED BY <1>6, <2>3 DEF FlagKept
<1> QED BY <1>9, <1>10

LEMMA FlagStep ==
  ASSUME Known, FlagKept, [Next]_vars
  PROVE  FlagKept'
<1>1. CASE UNCHANGED <<link, con, dis, online, cut, stuck, overlap>>
  BY <1>1 DEF FlagKept, FlagOf, Stands, Active, Busy, Pending, Of
<1> QED BY <1>1, FlagClient, FlagOnConnect, FlagOnDisconnect
        DEF Next, vars, history, StoreVisit, CopyVisit, LoseVisit, DeleteVisit, Elsewhere, Emit

LEMMA FlagInit == Init => FlagKept
<1>1. ~Pending(<<>>, "Offline")
  BY EmptySeq, Nothing
<1> QED BY <1>1 DEF Init, FlagKept, FlagOf, Stands, Active, Busy, Of

\* The flag is_online of whoever has no handler running is what their sockets
\* say, but for the two cases that FlagExplained names.
THEOREM FlagCorrect == Spec => []FlagExplained
<1>1. Init => FlagKept
  BY FlagInit
<1>2. Known /\ FlagKept /\ [Next]_vars => FlagKept'
  BY FlagStep
<1>3. FlagKept => FlagExplained
  <2> SUFFICES ASSUME FlagKept, NEW p \in People, Quiet(p)
               PROVE  /\ Up(p) = {} /\ online[p] => p \in cut \union stuck
                      /\ Up(p) # {} /\ ~online[p] => p \in cut \union overlap
    BY DEF FlagExplained
  <2>1. FlagOf(p)
    BY DEF FlagKept
  <2>2. \A s \in Of(p) : ~Pending(dis[s], "Offline") /\ ~Pending(con[s], "Online")
    <3>1. \A e : ~Pending(<<>>, e)
      BY EmptySeq, Nothing
    <3> QED BY <3>1 DEF Quiet, Busy
  <2> QED BY <2>1, <2>2 DEF FlagOf, Stands, Up
<1> QED BY <1>1, <1>2, <1>3, KnownAlways, PTL DEF Spec

-----------------------------------------------------------------------------
(* The conversation.                                                       *)

TabOf(s) ==
  sidOf[Owner[s]] = s =>
    /\ Pending(con[s], "Chat") /\ ~Pending(con[s], "FindSid") => target[s] = s
    /\ link[s] = "up" /\ ~Pending(con[s], "Join") /\ s \notin apart => s \in talk

TabKept == \A s \in Talks : TabOf(s)

\* The handlers of another socket take no room away.
LEMMA TabOthers ==
  ASSUME Known, NEW s \in Sids, Client(s) \/ OnConnect(s) \/ OnDisconnect(s),
         NEW r \in Sids \ {s}, TabOf(r)
  PROVE  TabOf(r)'
<1>1. con'[r] = con[r] /\ link'[r] = link[r] /\ target'[r] = target[r]
  BY Moves
<1>2. sidOf'[Owner[r]] = r => sidOf[Owner[r]] = r
  BY OwnerType
     DEF Client, Connect, Refuse, Close, TimeOut, NoOrganization, LeaveConversation, OnConnect,
         Connected, SetOnline, SetSidOf, SetOwnerOf, EnterRoom, TellOnline, FindSid,
         JoinConversation, SetConversation, OnDisconnect, Disconnected, FindOwner, SetOffline,
         EndVisit, TellOffline, ConnectRaises, GiveUpJoin, redis, Known, TypeOK
<1>3. (r \in talk => r \in talk') /\ (r \in apart => r \in apart')
  <2>1. CASE Client(s)
    BY <2>1
       DEF Client, Connect, Refuse, Close, TimeOut, Drop, NoOrganization, ConnectRaises,
           LeaveConversation, rooms, history
  <2>2. CASE OnConnect(s)
    BY <2>2
       DEF OnConnect, Connected, SetOnline, SetSidOf, SetOwnerOf, EnterRoom, TellOnline, FindSid,
           JoinConversation, SetConversation, GiveUpJoin, Enter, rooms, history
  <2>3. CASE OnDisconnect(s)
    BY <2>3 DEF OnDisconnect, Disconnected, FindOwner, SetOffline, EndVisit, TellOffline, rooms
  <2>4. Client(s) \/ OnConnect(s) \/ OnDisconnect(s)
    OBVIOUS
  <2> QED BY <2>1, <2>2, <2>3, <2>4
<1> QED BY <1>1, <1>2, <1>3 DEF TabOf, Pending

LEMMA TabClient ==
  ASSUME Known, NEW s \in Talks, TabOf(s), Client(s)
  PROVE  TabOf(s)'
<1>1. s \in Sids /\ HandlersOf(s)
  BY PresenceAssumption DEF Known, Handlers
<1>2. (target' = target \/ ConnectRaises(s)) /\ sidOf' = sidOf
  BY DEF Client, Connect, Refuse, Close, TimeOut, NoOrganization, ConnectRaises,
         LeaveConversation, redis
<1>3. CASE Connect(s)
  <2>1. con'[s] = Connecting(s)
    BY <1>1, <1>3 DEF Connect, Known, TypeOK
  <2>2. Pending(con'[s], "FindSid") /\ Pending(con'[s], "Join")
    BY <1>1, <2>1, ConnectingOrder
  <2> QED BY <2>2 DEF TabOf, Pending
<1>4. CASE LeaveConversation(s)
  BY <1>2, <1>4 DEF LeaveConversation, ConnectRaises, TabOf, Pending
<1>5. CASE Refuse(s) \/ Close(s) \/ TimeOut(s)
  <2>1. con' = con /\ link'[s] = "gone" /\ target' = target
    BY <1>1, <1>5 DEF Refuse, Close, TimeOut, Drop, Known, TypeOK
  <2> QED BY <1>2, <2>1 DEF TabOf, Pending
<1>6. CASE NoOrganization(s)
  <2>1. con'[s] = <<>> /\ link'[s] = "gone"
    BY <1>1, <1>6 DEF NoOrganization, Known, TypeOK
  <2>2. ~Pending(<<>>, "Chat")
    BY EmptySeq, Nothing
  <2> QED BY <2>1, <2>2 DEF TabOf, Pending
<1>7. CASE ConnectRaises(s)
  <2>1. con'[s] = <<>> /\ s \in apart'
    BY <1>1, <1>7 DEF ConnectRaises, Known, TypeOK
  <2>2. ~Pending(<<>>, "Chat")
    BY EmptySeq, Nothing
  <2> QED BY <2>1, <2>2 DEF TabOf, Pending
<1> QED BY <1>3, <1>4, <1>5, <1>6, <1>7 DEF Client

LEMMA TabOnConnect ==
  ASSUME Known, NEW s \in Talks, TabOf(s), OnConnect(s)
  PROVE  TabOf(s)'
<1> DEFINE t == con[s]
           o == Owner[s]
<1>1. s \in Sids /\ HandlersOf(s) /\ o \in People
  BY PresenceAssumption, OwnerType DEF Known, Handlers
<1>2. t # <<>> /\ link' = link /\ (apart' = apart \/ GiveUpJoin(s))
  BY DEF OnConnect, Connected, At, SetOnline, SetSidOf, SetOwnerOf, EnterRoom, TellOnline,
         FindSid, JoinConversation, SetConversation, GiveUpJoin, history
<1>3. /\ \A e : Pending(Tail(t), e) <=> Pending(t, e) /\ e # Head(t)
      /\ Pending(t, Head(t))
      /\ Head(t) \in {"Join", "Chat"} => ~Pending(t, "FindSid")
      /\ Head(t) = "SidOf" => Pending(t, "FindSid")
      /\ Pending(t, "FindSid") => Pending(t, "Join")
      /\ Pending(t, "Join") => Pending(t, "Chat")
  <2>1. Rest(t, Connecting(s))
    BY <1>1 DEF HandlersOf
  <2> QED BY <1>1, <1>2, <2>1, ConnectStep
<1>4. SUFFICES ASSUME sidOf'[o] = s
               PROVE  /\ Pending(con'[s], "Chat") /\ ~Pending(con'[s], "FindSid") =>
                           target'[s] = s
                      /\ link'[s] = "up" /\ ~Pending(con'[s], "Join") /\ s \notin apart' =>
                           s \in talk'
  BY DEF TabOf, Pending
<1>5. CASE SetOnline(s) \/ SetOwnerOf(s) \/ EnterRoom(s) \/ TellOnline(s)
  <2>1. /\ con'[s] = Tail(t) /\ Head(t) \in {"Online", "OwnerOf", "Room", "Tell"}
        /\ UNCHANGED <<sidOf, target, talk, apart>>
    BY <1>1, <1>5 DEF SetOnline, SetOwnerOf, EnterRoom, TellOnline, Connected, At, redis, rooms,
                      Known, TypeOK
  <2> QED BY <1>2, <1>3, <1>4, <2>1 DEF TabOf
<1>6. CASE SetSidOf(s)
  <2>1. con'[s] = Tail(t) /\ Head(t) = "SidOf"
    BY <1>1, <1>6 DEF SetSidOf, Connected, At, Known, TypeOK
  <2> QED BY <1>3, <2>1
<1>7. CASE FindSid(s)
  <2>1. sidOf[o] = s /\ s # NoSid
    BY <1>1, <1>4, <1>7, PresenceAssumption DEF FindSid, redis
  <2>2. con'[s] = Tail(t) /\ Head(t) = "FindSid" /\ target'[s] = s
    BY <1>1, <1>7, <2>1 DEF FindSid, At, Known, TypeOK
  <2> QED BY <1>3, <2>2
<1>8. CASE JoinConversation(s)
  <2>1. /\ con'[s] = Tail(t) /\ Head(t) = "Join" /\ sidOf[o] = s
        /\ target' = target /\ talk' = Enter(talk, target[s]) /\ apart' = apart
    BY <1>1, <1>4, <1>8 DEF JoinConversation, Connected, At, redis, Known, TypeOK
  <2>2. target[s] = s
    BY <1>3, <2>1 DEF TabOf
  <2> QED BY <1>2, <2>1, <2>2 DEF Enter
<1>9. CASE SetConversation(s)
  <2>1. /\ con'[s] = Tail(t) /\ Head(t) = "Chat" /\ sidOf[o] = s /\ talk' = talk
        /\ apart' = apart
    BY <1>1, <1>4, <1>9 DEF SetConversation, Connected, At, rooms, Known, TypeOK
  <2> QED BY <1>2, <1>3, <2>1 DEF TabOf
<1>10. CASE GiveUpJoin(s)
  <2>1. con'[s] = <<>> /\ s \in apart'
    BY <1>1, <1>10 DEF GiveUpJoin, Known, TypeOK
  <2>2. ~Pending(<<>>, "Chat")
    BY EmptySeq, Nothing
  <2> QED BY <2>1, <2>2
<1> QED BY <1>5, <1>6, <1>7, <1>8, <1>9, <1>10 DEF OnConnect

LEMMA TabStep ==
  ASSUME Known, TabKept, [Next]_vars
  PROVE  TabKept'
<1>1. ASSUME NEW s \in Sids, Client(s) \/ OnConnect(s) \/ OnDisconnect(s), NEW r \in Talks
      PROVE  TabOf(r)'
  <2>1. r \in Sids /\ TabOf(r)
    BY PresenceAssumption DEF TabKept
  <2>2. CASE r # s
    BY <1>1, <2>1, <2>2, TabOthers
  <2>3. CASE r = s /\ OnDisconnect(s)
    BY <2>1, <2>3 DEF OnDisconnect, Disconnected, FindOwner, SetOffline, EndVisit, TellOffline,
                      redis, rooms, TabOf, Pending
  <2> QED BY <1>1, <2>1, <2>2, <2>3, TabClient, TabOnConnect
<1>2. CASE UNCHANGED <<link, con, target, sidOf, talk, apart>>
  BY <1>2 DEF TabKept, TabOf, Pending
<1> QED BY <1>1, <1>2 DEF Next, vars, redis, rooms, history, TabKept, StoreVisit, CopyVisit,
                          LoseVisit, DeleteVisit, Elsewhere, Emit

\* The socket that a customer registered last is in the room of the
\* conversation once its on_connect is through.
THEOREM LatestJoined == Spec => []LatestTabJoined
<1>1. Init => TabKept
  <2>1. ~Pending(<<>>, "Chat")
    BY EmptySeq, Nothing
  <2>2. Talks \subseteq Sids
    BY PresenceAssumption
  <2> QED BY <2>1, <2>2 DEF Init, TabKept, TabOf
<1>2. Known /\ TabKept /\ [Next]_vars => TabKept'
  BY TabStep
<1>3. Known /\ TabKept => LatestTabJoined
  <2> SUFFICES ASSUME TabKept, NEW c \in Customers, NEW s \in Talks \ apart,
                      sidOf[c] = s, link[s] = "up", con[s] = <<>>, Known
               PROVE  s \in talk
    BY DEF LatestTabJoined
  <2>1. Owner[s] = c
    <3>1. c \in People /\ s \in Sids
      BY PresenceAssumption DEF People
    <3> QED BY <3>1 DEF Known, Handlers
  <2>2. ~Pending(con[s], "Join")
    BY EmptySeq, Nothing
  <2> QED BY <2>1, <2>2 DEF TabKept, TabOf
<1> QED BY <1>1, <1>2, <1>3, KnownAlways, PTL DEF Spec

-----------------------------------------------------------------------------
(* The visit that on_disconnect ends.                                      *)

Newest(c, n) == n \in VisitsOf(c) /\ \A v \in VisitsOf(c) : v <= n

\* The customer's attributes name the visit stored last, or that one, and no
\* other, is on its way there.
NewestOf(c) ==
  \/ VisitsOf(c) = {} /\ logOf[c] = NoVisit
  \/ \E n \in VisitsOf(c) :
       /\ Newest(c, n)
       /\ logOf[c] = n \/ copying[n] > 0
       /\ \A v \in VisitsOf(c) : copying[v] > 0 => v = n

EndsOf(s) ==
  \/ VisitsOf(Owner[s]) = {} /\ ending[s] = NoVisit
  \/ Newest(Owner[s], ending[s])

VisitsKept ==
  /\ \A c \in Customers \ crossed : NewestOf(c)
  /\ \A s \in Sids : At(dis, s, "Visit") /\ Owner[s] \notin crossed => EndsOf(s)

LEMMA NewestAlone ==
  ASSUME NEW c, NEW n, NEW m, Newest(c, n), Newest(c, m)
  PROVE  n = m
<1>1. n \in Visits /\ m \in Visits /\ n <= m /\ m <= n
  BY DEF Newest, VisitsOf
<1> QED BY <1>1 DEF Visits

\* on_disconnect comes to end a visit only from setting the flag.
LEMMA ToVisit ==
  ASSUME Known, NEW s \in Sids, Client(s) \/ OnConnect(s) \/ OnDisconnect(s),
         NEW r \in Sids, At(dis', r, "Visit")
  PROVE  \/ At(dis, r, "Visit") /\ dis'[r] = dis[r]
         \/ r = s /\ SetOffline(s) /\ ~IsAgent(s)
<1>1. CASE r # s
  <2>1. dis'[r] = dis[r]
    BY <1>1, Moves
  <2> QED BY <2>1 DEF At
<1>2. CASE r = s /\ Client(s)
  <2>1. dis'[s] = dis[s] \/ dis'[s] = Leaving(s)
    BY <1>2 DEF Client, Connect, Refuse, Close, TimeOut, Drop, NoOrganization,
                ConnectRaises, LeaveConversation, Known, TypeOK
  <2>2. Head(Leaving(s)) # "Visit"
    BY LeavingStarts
  <2> QED BY <1>2, <2>1, <2>2 DEF At
<1>3. CASE r = s /\ OnConnect(s)
  <2>1. dis' = dis
    BY <1>3 DEF OnConnect, Connected, SetOnline, SetSidOf, SetOwnerOf, EnterRoom, TellOnline,
                FindSid, JoinConversation, SetConversation, GiveUpJoin
  <2> QED BY <2>1 DEF At
<1>4. CASE r = s /\ OnDisconnect(s)
  <2>1. PICK step \in Steps :
          /\ Disconnected(s, step)
          /\ dis' = [dis EXCEPT ![s] = Tail(@)] \/ dis' = [dis EXCEPT ![s] = <<>>]
    BY <1>4 DEF OnDisconnect, FindOwner, SetOffline, EndVisit, TellOffline, Steps, GoOn, End
  <2>2. /\ dis[s] # <<>> /\ Head(dis[s]) = step
        /\ dis'[s] \in {Tail(dis[s]), <<>>} /\ Rest(dis'[s], Leaving(s))
    BY <2>1, LeavingEffect DEF Known
  <2>3. dis'[s] = Tail(dis[s]) /\ Tail(dis[s]) # <<>> /\ Head(Tail(dis[s])) = "Visit"
    BY <1>4, <2>2 DEF At
  <2>4. Rest(dis[s], Leaving(s))
    BY DEF Known, Handlers, HandlersOf
  <2>5. Head(dis[s]) = "Offline"
    BY <2>2, <2>3, <2>4, LeaveStep
  <2>6. ~IsAgent(s)
    BY <2>2, <2>3, LeaveStep
  <2>7. SetOffline(s)
    BY <1>4, <2>5 DEF OnDisconnect, FindOwner, EndVisit, TellOffline, Disconnected, At
  <2> QED BY <1>4, <2>6, <2>7
<1> QED BY <1>1, <1>2, <1>3, <1>4

LEMMA StoreNewest ==
  ASSUME Known, VisitsKept, NEW c \in Customers, StoreVisit(c)
  PROVE  VisitsKept'
<1>1. PICK v \in Visits :
        /\ visit[v] = NoVisit
        /\ visit' = [visit EXCEPT ![v] = [of |-> c, left |-> FALSE, deleted |-> FALSE]]
        /\ copying' = [copying EXCEPT ![v] = 1]
        /\ crossed' = IF Copying(c) \/ Ending(c) THEN crossed \union {c} ELSE crossed
        /\ UNCHANGED <<logOf, ending, dis>>
  BY DEF StoreVisit, Elsewhere
<1> DEFINE x == [of |-> c, left |-> FALSE, deleted |-> FALSE]
<1>2. x # NoVisit /\ x.of = c
  <2>1. x \in Visit /\ x.of = c
    BY DEF Visit
  <2> HIDE DEF x
  <2> QED BY <2>1, PresenceAssumption
<1> HIDE DEF x
<1>3. /\ visit'[v] = x /\ \A w \in Visits \ {v} : visit'[w] = visit[w]
      /\ copying'[v] = 1 /\ \A w \in Visits \ {v} : copying'[w] = copying[w]
  BY <1>1 DEF x, Known, TypeOK
<1>4. /\ VisitsOf(c)' = VisitsOf(c) \union {v}
      /\ \A d \in Customers \ {c} : VisitsOf(d)' = VisitsOf(d)
      /\ \A d : v \notin VisitsOf(d)
  <2>1. \A w \in Visits : visit'[w] # NoVisit /\ visit'[w].of = c
                         <=> w = v \/ (visit[w] # NoVisit /\ visit[w].of = c)
    <3>1. ASSUME NEW w \in Visits \ {v}
          PROVE  visit'[w] = visit[w]
      BY <1>3
    <3> QED BY <1>2, <1>3, <3>1
  <2>2. \A d \in Customers \ {c} : \A w \in Visits :
          visit'[w] # NoVisit /\ visit'[w].of = d <=> visit[w] # NoVisit /\ visit[w].of = d
    BY <1>1, <1>2, <1>3
  <2>3. VisitsOf(c)' = VisitsOf(c) \union {v}
    BY <2>1 DEF VisitsOf
  <2>4. \A d \in Customers \ {c} : VisitsOf(d)' = VisitsOf(d)
    BY <2>2 DEF VisitsOf
  <2> QED BY <1>1, <2>3, <2>4 DEF VisitsOf
<1>5. ASSUME NEW d \in Customers, d \notin crossed'
      PROVE  NewestOf(d)'
  <2>1. NewestOf(d)
    BY <1>1, <1>5 DEF VisitsKept
  <2>2. CASE d = c
    <3>1. \A w \in VisitsOf(c) : w < v /\ w \in Visits \ {v}
      BY <1>1 DEF VisitsOf, Visits, Known, Rows
    <3>2. \A w \in VisitsOf(c) : ~(copying'[w] > 0)
      BY <1>1, <1>3, <1>5, <2>2, <3>1 DEF Copying
    <3>3. v \in VisitsOf(c)' /\ \A w \in VisitsOf(c)' : w <= v
      BY <1>4, <3>1 DEF Visits
    <3>4. copying'[v] > 0 /\ \A w \in VisitsOf(c)' : copying'[w] > 0 => w = v
      BY <1>3, <1>4, <3>2
    <3> QED BY <2>2, <3>3, <3>4 DEF NewestOf, Newest
  <2>3. CASE d # c
    <3>1. \A w \in VisitsOf(d) : copying'[w] = copying[w]
      BY <1>3, <1>4 DEF VisitsOf
    <3>2. VisitsOf(d)' = VisitsOf(d) /\ logOf'[d] = logOf[d]
      BY <1>1, <1>4, <2>3
    <3> QED BY <2>1, <3>1, <3>2 DEF NewestOf, Newest
  <2> QED BY <2>2, <2>3
<1>6. ASSUME NEW s \in Sids, At(dis, s, "Visit"), Owner[s] \notin crossed'
      PROVE  EndsOf(s)'
  <2>1. EndsOf(s) /\ Owner[s] \notin crossed
    BY <1>1, <1>6 DEF VisitsKept
  <2>2. Owner[s] # c
    BY <1>1, <1>6 DEF Ending, At, Of
  <2>3. Owner[s] \in Customers
    <3>1. ~IsAgent(s)
      BY <1>6, LeaveStep DEF Known, Handlers, HandlersOf, At
    <3> QED BY <3>1, OwnerType
  <2> QED BY <1>1, <1>4, <2>1, <2>2, <2>3 DEF EndsOf, Newest
<1> QED BY <1>1, <1>5, <1>6 DEF VisitsKept, At

LEMMA CopyNewest ==
  ASSUME Known, VisitsKept, NEW v \in Visits, CopyVisit(v)
  PROVE  VisitsKept'
<1> USE DEF Known, Rows, TypeOK, Elsewhere
<1> DEFINE c == visit[v].of
<1>1. /\ copying[v] > 0 /\ visit[v] \in Visit /\ visit[v] # NoVisit
      /\ copying' = [copying EXCEPT ![v] = @ - 1]
      /\ logOf' = [logOf EXCEPT ![c] = v]
      /\ UNCHANGED <<visit, ending, crossed, dis>>
  BY DEF CopyVisit
<1>2. v \in VisitsOf(c) /\ c \in Customers
  BY <1>1 DEF VisitsOf, Visit
<1>3. \A d : VisitsOf(d)' = VisitsOf(d)
  BY <1>1 DEF VisitsOf
<1>4. ASSUME NEW d \in Customers \ crossed
      PROVE  NewestOf(d)'
  <2>1. NewestOf(d)
    BY DEF VisitsKept
  <2>2. CASE d = c
    <3>1. /\ Newest(c, v)
          /\ \A w \in VisitsOf(c) : copying[w] > 0 => w = v
      BY <1>1, <1>2, <2>1, <2>2 DEF NewestOf
    <3>2. logOf'[c] = v /\ \A w \in VisitsOf(c) : copying'[w] > 0 => w = v
      BY <1>1, <1>2, <3>1 DEF VisitsOf
    <3> HIDE DEF c
    <3> QED BY <1>2, <1>3, <2>2, <3>1, <3>2 DEF NewestOf, Newest
  <2>3. CASE d # c
    <3>1. \A w \in VisitsOf(d) : copying'[w] = copying[w]
      BY <1>1, <2>3 DEF VisitsOf
    <3>2. logOf'[d] = logOf[d]
      BY <1>1, <2>3
    <3> QED BY <1>3, <2>1, <3>1, <3>2 DEF NewestOf, Newest
  <2> QED BY <2>2, <2>3
<1>5. \A s \in Sids : EndsOf(s) => EndsOf(s)'
  BY <1>1, <1>3 DEF EndsOf, Newest
<1> QED BY <1>1, <1>4, <1>5 DEF VisitsKept, At

LEMMA LoseNewest ==
  ASSUME Known, VisitsKept, NEW v \in Visits, LoseVisit(v)
  PROVE  VisitsKept'
<1> USE DEF Known, Rows, TypeOK, Elsewhere
<1> DEFINE c == visit[v].of
<1>1. /\ copying[v] > 0 /\ visit[v] \in Visit /\ visit[v] # NoVisit
      /\ copying' = [copying EXCEPT ![v] = @ - 1]
      /\ crossed' = crossed \union {c}
      /\ UNCHANGED <<visit, logOf, ending, dis>>
  BY DEF LoseVisit
<1>2. \A d : VisitsOf(d)' = VisitsOf(d)
  BY <1>1 DEF VisitsOf
<1>3. ASSUME NEW d \in Customers, d \notin crossed'
      PROVE  NewestOf(d)'
  <2>1. NewestOf(d) /\ d # c
    BY <1>1, <1>3 DEF VisitsKept
  <2>2. \A w \in VisitsOf(d) : copying'[w] = copying[w]
    BY <1>1, <2>1 DEF VisitsOf
  <2> QED BY <1>1, <1>2, <2>1, <2>2 DEF NewestOf, Newest
<1>4. \A s \in Sids : EndsOf(s) => EndsOf(s)'
  BY <1>1, <1>2 DEF EndsOf, Newest
<1> QED BY <1>1, <1>3, <1>4 DEF VisitsKept, At

LEMMA DeleteNewest ==
  ASSUME Known, VisitsKept, NEW v \in Visits, DeleteVisit(v)
  PROVE  VisitsKept'
<1> USE DEF Known, Rows, TypeOK, Elsewhere
<1> DEFINE c == visit[v].of
<1>1. /\ visit[v] # NoVisit /\ visit[v] \in Visit
      /\ visit' = [visit EXCEPT ![v] = [visit[v] EXCEPT !.deleted = TRUE]]
      /\ copying' = Touched(v)
      /\ crossed' = IF visit[v].left THEN crossed \union {c} ELSE crossed
      /\ UNCHANGED <<logOf, ending, dis>>
  BY DEF DeleteVisit
<1>2. /\ [visit[v] EXCEPT !.deleted = TRUE] \in Visit
      /\ [visit[v] EXCEPT !.deleted = TRUE].of = c
      /\ [visit[v] EXCEPT !.deleted = TRUE].left = visit[v].left
  BY <1>1 DEF Visit
<1>3. \A d : VisitsOf(d)' = VisitsOf(d)
  BY <1>1, <1>2, Updated
<1>4. /\ \A w \in Visits \ {v} : copying'[w] = copying[w]
      /\ ~visit[v].left => copying' = copying
  BY <1>1, <1>2 DEF Touched
<1>5. ASSUME NEW d \in Customers, d \notin crossed'
      PROVE  NewestOf(d)'
  <2>1. NewestOf(d)
    BY <1>1, <1>5 DEF VisitsKept
  <2>2. \A w \in VisitsOf(d) : copying'[w] = copying[w]
    BY <1>1, <1>4, <1>5 DEF VisitsOf
  <2> QED BY <1>1, <1>3, <2>1, <2>2 DEF NewestOf, Newest
<1>6. \A s \in Sids : EndsOf(s) => EndsOf(s)'
  BY <1>1, <1>3 DEF EndsOf, Newest
<1>7. crossed \subseteq crossed'
  BY <1>1
<1> QED BY <1>1, <1>5, <1>6, <1>7 DEF VisitsKept, At

LEMMA EndNewest ==
  ASSUME Known, VisitsKept, NEW s \in Sids, EndVisit(s)
  PROVE  VisitsKept'
<1> USE DEF Known, Rows, TypeOK
<1> DEFINE v == ending[s]
           c == Owner[s]
<1>1. /\ At(dis, s, "Visit") /\ logOf' = logOf /\ crossed' = crossed
      /\ ending' = [ending EXCEPT ![s] = NoVisit]
  BY DEF EndVisit, Disconnected
<1>2. /\ \A d : VisitsOf(d)' = VisitsOf(d)
      /\ \A w \in Visits : w # v => copying'[w] = copying[w]
      /\ v \in Visits => copying'[v] >= copying[v]
  <2>1. CASE UNCHANGED <<visit, copying>>
    <3>1. \A d : VisitsOf(d)' = VisitsOf(d)
      BY <2>1 DEF VisitsOf
    <3> QED BY <2>1, <3>1
  <2>2. CASE ~ UNCHANGED <<visit, copying>>
    <3>2. /\ visit' = [visit EXCEPT ![v].left = TRUE] /\ copying' = Touched(v)
          /\ v # NoVisit
      BY <2>2 DEF EndVisit
    <3>1. v \in Visits /\ visit[v] # NoVisit /\ visit[v] \in Visit
      BY <3>2 DEF VisitsOf
    <3> HIDE DEF v
    <3>3. /\ visit' = [visit EXCEPT ![v] = [visit[v] EXCEPT !.left = TRUE]]
          /\ [visit[v] EXCEPT !.left = TRUE] \in Visit
          /\ [visit[v] EXCEPT !.left = TRUE].of = visit[v].of
      BY <3>1, <3>2 DEF Visit
    <3>4. \A d : VisitsOf(d)' = VisitsOf(d)
      BY <3>1, <3>3, Updated
    <3>5. /\ \A w \in Visits : w # v => copying'[w] = copying[w]
          /\ copying'[v] >= copying[v]
      BY <3>1, <3>2 DEF Touched
    <3> QED BY <3>4, <3>5
  <2> QED BY <2>1, <2>2
<1>3. ASSUME NEW d \in Customers \ crossed
      PROVE  NewestOf(d)'
  <2>1. NewestOf(d)
    BY DEF VisitsKept
  <2>2. CASE VisitsOf(d) = {}
    BY <1>1, <1>2, <2>1, <2>2 DEF NewestOf
  <2>3. CASE VisitsOf(d) # {}
    <3>1. PICK n \in VisitsOf(d) :
            /\ Newest(d, n)
            /\ logOf[d] = n \/ copying[n] > 0
            /\ \A w \in VisitsOf(d) : copying[w] > 0 => w = n
      BY <2>1, <2>3 DEF NewestOf
    <3>2. v \in VisitsOf(d) => v = n
      <4> SUFFICES ASSUME v \in VisitsOf(d) PROVE v = n
        OBVIOUS
      <4>1. v \in VisitsOf(c)
        BY PresenceAssumption DEF VisitsOf
      <4>2. c = d
        BY <4>1 DEF VisitsOf
      <4>3. EndsOf(s)
        BY <1>1, <4>2 DEF VisitsKept
      <4>4. Newest(d, v)
        BY <4>1, <4>2, <4>3 DEF EndsOf
      <4> QED BY <3>1, <4>4, NewestAlone
    <3>3. n \in Visits /\ copying[n] \in Nat /\ copying'[n] \in Nat
          /\ copying'[n] >= copying[n]
      <4>1. n \in Visits /\ copying[n] \in Nat
        BY <3>1 DEF VisitsOf
      <4>2. copying' \in [Visits -> Nat]
        <5>1. OnDisconnect(s)
          BY DEF OnDisconnect
        <5> QED BY <5>1, TypeOnDisconnect
      <4>4. copying'[n] >= copying[n]
        <5> HIDE DEF Known, Rows, TypeOK, v
        <5>1. CASE n = v
          BY <1>2, <4>1, <5>1
        <5>2. CASE n # v
          BY <1>2, <4>1, <4>2, <5>2
        <5> QED BY <5>1, <5>2
      <4> QED BY <4>1, <4>2, <4>4
    <3>4. logOf'[d] = n \/ copying'[n] > 0
      BY <1>1, <3>1, <3>3
    <3>5. \A w \in VisitsOf(d) : copying'[w] > 0 => w = n
      BY <1>2, <3>1, <3>2 DEF VisitsOf
    <3> QED BY <1>2, <3>1, <3>4, <3>5 DEF NewestOf, Newest
  <2> QED BY <2>2, <2>3
<1>4. ASSUME NEW r \in Sids, At(dis', r, "Visit"), Owner[r] \notin crossed
      PROVE  EndsOf(r)'
  <2>1. ~SetOffline(s)
    BY <1>1 DEF SetOffline, Disconnected, At
  <2>2. At(dis, r, "Visit") /\ dis'[r] = dis[r]
    BY <1>4, <2>1, ToVisit DEF OnDisconnect
  <2>3. r # s
    <3>1. dis'[s] # dis[s]
      <4>1. dis'[s] = <<>> \/ dis'[s] = Tail(dis[s])
        BY DEF EndVisit, GoOn, End
      <4>2. dis[s] # <<>> /\ Rest(dis[s], Leaving(s))
        BY <1>1 DEF At, Handlers, HandlersOf
      <4>3. ~Pending(Tail(dis[s]), "Visit") /\ Pending(dis[s], "Visit")
        BY <1>1, <4>2, LeaveStep DEF At
      <4> QED BY <4>1, <4>2, <4>3
    <3> QED BY <2>2, <3>1
  <2>4. ending'[r] = ending[r] /\ EndsOf(r)
    BY <1>1, <1>4, <2>2, <2>3 DEF VisitsKept
  <2> QED BY <1>2, <2>4 DEF EndsOf, Newest
<1> QED BY <1>1, <1>3, <1>4 DEF VisitsKept

LEMMA OfflineNewest ==
  ASSUME Known, VisitsKept, NEW s \in Sids, SetOffline(s)
  PROVE  VisitsKept'
<1> USE DEF Known, Rows, TypeOK
<1> DEFINE c == Owner[s]
<1>1. /\ UNCHANGED <<visit, logOf, copying>> /\ crossed \subseteq crossed'
      /\ \A r \in Sids \ {s} : ending'[r] = ending[r]
  BY DEF SetOffline
<1>2. \A d : VisitsOf(d)' = VisitsOf(d)
  BY <1>1 DEF VisitsOf
<1>3. \A d \in Customers : NewestOf(d) => NewestOf(d)'
  BY <1>1, <1>2 DEF NewestOf, Newest
<1>4. ASSUME NEW r \in Sids, At(dis', r, "Visit"), Owner[r] \notin crossed'
      PROVE  EndsOf(r)'
  <2>1. CASE r = s
    <3>1. ~IsAgent(s)
      <4>1. Rest(dis'[s], Leaving(s))
        <5>1. Disconnected(s, "Offline")
              /\ (dis' = [dis EXCEPT ![s] = Tail(@)] \/ dis' = [dis EXCEPT ![s] = <<>>])
          BY DEF SetOffline, GoOn, End
        <5> QED BY <5>1, LeavingEffect
      <4> QED BY <1>4, <2>1, <4>1, LeaveStep DEF At
    <3>2. c \in Customers /\ ending'[s] = logOf[c] /\ ~Copying(c) /\ c \notin crossed
      BY <1>4, <2>1, <3>1, OwnerType DEF SetOffline, End, At
    <3>3. NewestOf(c)
      BY <3>2 DEF VisitsKept
    <3>4. (VisitsOf(c) = {} /\ logOf[c] = NoVisit) \/ Newest(c, logOf[c])
      BY <3>2, <3>3 DEF NewestOf, Copying
    <3> QED BY <1>2, <2>1, <3>2, <3>4 DEF EndsOf, Newest
  <2>2. CASE r # s
    <3>1. At(dis, r, "Visit")
      BY <1>4, <2>2, ToVisit DEF OnDisconnect
    <3>2. EndsOf(r) /\ ending'[r] = ending[r]
      BY <1>1, <1>4, <2>2, <3>1 DEF VisitsKept
    <3> QED BY <1>2, <3>2 DEF EndsOf, Newest
  <2> QED BY <2>1, <2>2
<1> QED BY <1>1, <1>3, <1>4 DEF VisitsKept

LEMMA NewestStep ==
  ASSUME Known, VisitsKept, [Next]_vars
  PROVE  VisitsKept'
<1>1. ASSUME UNCHANGED <<visit, logOf, copying, ending, crossed>>,
             \A r \in Sids : At(dis', r, "Visit") => At(dis, r, "Visit")
      PROVE  VisitsKept'
  <2>1. \A d : VisitsOf(d)' = VisitsOf(d)
    BY <1>1 DEF VisitsOf
  <2>2. \A d \in Customers : NewestOf(d) => NewestOf(d)'
    BY <1>1, <2>1 DEF NewestOf, Newest
  <2>3. \A r \in Sids : EndsOf(r) => EndsOf(r)'
    BY <1>1, <2>1 DEF EndsOf, Newest
  <2> QED BY <1>1, <2>2, <2>3 DEF VisitsKept
<1>2. ASSUME NEW s \in Sids, Client(s) \/ OnConnect(s)
      PROVE  VisitsKept'
  <2>1. \A r \in Sids : At(dis', r, "Visit") => At(dis, r, "Visit") \/ SetOffline(s)
    BY <1>2, ToVisit
  <2>2. UNCHANGED <<visit, logOf, copying, ending, crossed>>
    BY <1>2, VisitsElsewhere
  <2> QED BY <1>1, <2>1, <2>2, OfflineNewest
<1>3. ASSUME NEW s \in Sids, OnDisconnect(s)
      PROVE  VisitsKept'
  <2>1. CASE FindOwner(s) \/ TellOffline(s)
    <3>1. \A r \in Sids : At(dis', r, "Visit") => At(dis, r, "Visit")
      BY <1>3, <2>1, ToVisit DEF FindOwner, TellOffline, SetOffline, Disconnected, At
    <3>2. UNCHANGED <<visit, logOf, copying, ending, crossed>>
      BY <2>1 DEF FindOwner, TellOffline, visits
    <3> QED BY <1>1, <3>1, <3>2
  <2> QED BY <1>3, <2>1, OfflineNewest, EndNewest DEF OnDisconnect
<1>4. CASE Emit \/ UNCHANGED vars
  <2>1. dis' = dis
    BY <1>4 DEF Emit, vars
  <2>2. UNCHANGED <<visit, logOf, copying, ending, crossed>>
    BY <1>4, VisitsElsewhere
  <2> QED BY <1>1, <2>1, <2>2 DEF At
<1> QED BY <1>2, <1>3, <1>4, StoreNewest, CopyNewest, LoseNewest, DeleteNewest DEF Next

\* A customer who goes ends the visit stored last, unless visits crossed.
THEOREM NewestEnded == Spec => []EndsNewest
<1>1. Init => VisitsKept
  BY DEF Init, VisitsKept, NewestOf, VisitsOf, At
<1>2. Known /\ VisitsKept /\ [Next]_vars => VisitsKept'
  BY NewestStep
<1>3. VisitsKept => EndsNewest
  BY DEF VisitsKept, EndsOf, Newest, EndsNewest
<1> QED BY <1>1, <1>2, <1>3, KnownAlways, PTL DEF Spec

-----------------------------------------------------------------------------
(* What clients were told.  A handler sets the flag first and publishes the *)
(* event later; in between it owes the others that event.  Otherwise the    *)
(* last event on the bus about a person says what the flag says, and when   *)
(* there is none, every room was told so or has heard nothing.              *)

\* The handlers of s have set the flag and have yet to publish it.
Owes(s) ==
  \/ Pending(con[s], "Tell") /\ ~Pending(con[s], "Online")
  \/ Pending(dis[s], "Tell") /\ ~Pending(dis[s], "Offline")

Word(on) == IF on THEN "online" ELSE "offline"

LastWord(p, on) ==
  \/ \E i \in 1 .. Len(bus) :
       /\ bus[i].who = p /\ bus[i].on = on
       /\ \A j \in 1 .. Len(bus) : i < j => bus[j].who # p
  \/ /\ \A i \in 1 .. Len(bus) : bus[i].who # p
     /\ \A s \in room : view[s][p] \in {"unknown", Word(on)}

\* Only a room of notifications is told anything, of people it hears about.
OnlyRooms ==
  \A s \in Sids : \A p \in People :
    view[s][p] # "unknown" => s \in room /\ (IsAgent(s) \/ p \in Agents)

WordOf(p) ==
  p \notin overlap \union cut \union unsaid /\ (\A s \in Of(p) : ~Owes(s)) =>
    LastWord(p, online[p])

WordKept == OnlyRooms /\ \A p \in People : WordOf(p)

\* An on_disconnect that has yet to publish has set the flag, and nobody has set
\* it since.
OffOf(s) ==
  Pending(dis[s], "Tell") /\ ~Pending(dis[s], "Offline")
    /\ Owner[s] \notin overlap \union cut => ~online[Owner[s]]

OffKept == \A s \in Sids : OffOf(s)

\* The event is published after the flag is set and before the conversation is
\* joined.
LEMMA ConnectTells ==
  ASSUME NEW s \in Sids, NEW t, Rest(t, Connecting(s)), t # <<>>
  PROVE  /\ Head(t) = "Online" => Pending(Tail(t), "Tell") /\ ~Pending(Tail(t), "Online")
         /\ Head(t) \in {"FindSid", "Join", "Chat"} => ~Pending(t, "Tell")
         /\ Head(t) = "Tell" => ~Pending(t, "Online")
<1> DEFINE full == Connecting(s)
<1>1. full \in Seq(Steps) /\ (Len(full) = 5 \/ Len(full) = 8)
  BY ConnectingSteps
<1>2. \A e : Pending(Tail(t), e) <=> Pending(t, e) /\ e # Head(t)
  BY ConnectStep
<1>3. PICK k \in 1 .. Len(full) :
        /\ Head(t) = full[k]
        /\ \A j \in k .. Len(full) : Pending(t, full[j])
        /\ \A e : Pending(t, e) => \E j \in k .. Len(full) : full[j] = e
  <2> HIDE DEF full
  <2>1. Rest(t, full)
    BY DEF full
  <2> QED BY <1>1, <2>1, FromStep
<1>4. full[5] = "Tell"
  <2>1. CASE IsAgent(s)
    BY <2>1, ConnectingSteps
  <2>2. CASE ~IsAgent(s)
    BY <2>2, ConnectingSteps
  <2> QED BY <2>1, <2>2
<1>5. /\ \A i \in 1 .. Len(full) : full[i] = "Online" => i < 5
      /\ \A i \in 1 .. Len(full) : full[i] \in {"FindSid", "Join", "Chat"} => 5 < i
      /\ \A i \in 1 .. Len(full) : full[i] = "Tell" => i = 5
  <2>1. CASE IsAgent(s)
    <3>1. /\ Len(full) = 5
          /\ full[1] = "SidOf" /\ full[2] = "OwnerOf" /\ full[3] = "Room"
          /\ full[4] = "Online" /\ full[5] = "Tell"
      BY <2>1, ConnectingSteps DEF full
    <3> HIDE DEF full
    <3> QED BY <3>1
  <2>2. CASE ~IsAgent(s)
    <3>1. /\ full[1] = "Online" /\ full[2] = "SidOf" /\ full[3] = "OwnerOf"
          /\ full[4] = "Room" /\ full[5] = "Tell"
      BY <2>2, ConnectingSteps DEF full
    <3>2. Len(full) = 5
          \/ (Len(full) = 8 /\ full[6] = "FindSid" /\ full[7] = "Join" /\ full[8] = "Chat")
      BY <2>2, ConnectingSteps DEF full
    <3> HIDE DEF full
    <3>3. CASE Len(full) = 5
      BY <3>1, <3>3
    <3>4. CASE Len(full) # 5
      <4>1. Len(full) = 8 /\ full[6] = "FindSid" /\ full[7] = "Join" /\ full[8] = "Chat"
        BY ONLY <3>2, <3>4
      <4>2. \A i \in 1 .. Len(full) :
              i \in 1 .. 4 \/ i = 5 \/ i = 6 \/ i = 7 \/ i = 8
        BY ONLY <4>1
      <4>3. \A i \in 1 .. 4 : full[i] \in {"Online", "SidOf", "OwnerOf", "Room"} /\ i < 5
        BY ONLY <3>1
      <4> QED BY <3>1, <4>1, <4>2, <4>3
    <3> QED BY <3>3, <3>4
  <2> QED BY <2>1, <2>2
<1> HIDE DEF full
<1>6. 5 \in 1 .. Len(full)
  <2>1. CASE Len(full) = 5
    BY ONLY <2>1
  <2>2. CASE Len(full) = 8
    BY ONLY <2>2
  <2> QED BY <1>1, <2>1, <2>2
<1>7. ASSUME Head(t) = "Online"
      PROVE  Pending(t, "Tell")
  <2>1. k < 5
    BY <1>3, <1>5, <1>7
  <2>2. 5 \in k .. Len(full)
    BY <1>3, <1>6, <2>1
  <2> QED BY <1>3, <1>4, <2>2
<1>8. ASSUME Head(t) \in {"FindSid", "Join", "Chat"}, Pending(t, "Tell")
      PROVE  FALSE
  <2>1. 5 < k
    BY <1>3, <1>5, <1>8
  <2>2. PICK j \in k .. Len(full) : full[j] = "Tell"
    BY <1>3, <1>8
  <2> QED BY <1>1, <1>5, <2>1, <2>2
<1>9. ASSUME Head(t) = "Tell", Pending(t, "Online")
      PROVE  FALSE
  <2>1. k = 5
    BY <1>3, <1>5, <1>9
  <2>2. PICK j \in k .. Len(full) : full[j] = "Online"
    BY <1>3, <1>9
  <2> QED BY <1>1, <1>5, <2>1, <2>2
<1> QED BY <1>2, <1>7, <1>8, <1>9

LEMMA LeaveTells ==
  ASSUME NEW s \in Sids, NEW t, Rest(t, Leaving(s)), t # <<>>
  PROVE  /\ Head(t) = "Offline" => Pending(Tail(t), "Tell") /\ ~Pending(Tail(t), "Offline")
         /\ Head(t) = "Find" => Pending(t, "Offline")
         /\ Head(t) = "Tell" => ~Pending(t, "Offline")
<1> DEFINE full == Leaving(s)
<1>1. /\ full \in Seq(Steps) /\ (Len(full) = 3 \/ Len(full) = 4)
      /\ full[1] = "Find" /\ full[2] = "Offline"
      /\ Len(full) = 3 => full[3] = "Tell"
      /\ Len(full) = 4 => full[3] = "Visit" /\ full[4] = "Tell"
  <2>1. CASE IsAgent(s)
    <3>1. full \in Seq(Steps) /\ Len(full) = 3
          /\ full[1] = "Find" /\ full[2] = "Offline" /\ full[3] = "Tell"
      BY <2>1, LeavingSteps
    <3> HIDE DEF full
    <3> QED BY <3>1
  <2>2. CASE ~IsAgent(s)
    <3>1. full \in Seq(Steps) /\ Len(full) = 4
          /\ full[1] = "Find" /\ full[2] = "Offline" /\ full[3] = "Visit" /\ full[4] = "Tell"
      BY <2>2, LeavingSteps
    <3> HIDE DEF full
    <3> QED BY <3>1
  <2> QED BY <2>1, <2>2
<1>2. \A e : Pending(Tail(t), e) <=> Pending(t, e) /\ e # Head(t)
  BY LeaveStep
<1> HIDE DEF full
<1>3. PICK k \in 1 .. Len(full) :
        /\ Head(t) = full[k]
        /\ \A j \in k .. Len(full) : Pending(t, full[j])
        /\ \A e : Pending(t, e) => \E j \in k .. Len(full) : full[j] = e
  <2>1. Rest(t, full)
    BY DEF full
  <2> QED BY <1>1, <2>1, FromStep
<1>4. Pending(t, "Tell")
  <2>1. Len(full) \in k .. Len(full) /\ full[Len(full)] = "Tell"
    BY <1>1
  <2> QED BY <1>3, <2>1
<1>5. ASSUME Head(t) = "Find"
      PROVE  Pending(t, "Offline")
  <2>1. 2 \in k .. Len(full)
    BY <1>1, <1>3, <1>5
  <2> QED BY <1>1, <1>3, <2>1
<1>6. ASSUME Head(t) = "Tell", Pending(t, "Offline")
      PROVE  FALSE
  <2>1. k # 1 /\ k # 2
    BY <1>1, <1>3, <1>6
  <2>2. PICK j \in k .. Len(full) : full[j] = "Offline"
    BY <1>3, <1>6
  <2> QED BY <1>1, <2>1, <2>2
<1> QED BY <1>2, <1>4, <1>5, <1>6

LEMMA OffStep ==
  ASSUME Known, FlagKept, OffKept, [Next]_vars
  PROVE  OffKept'
<1>1. CASE UNCHANGED <<dis, online, overlap, cut>>
  BY <1>1 DEF OffKept, OffOf, Pending
<1>2. ASSUME NEW s \in Sids, Client(s), NEW r \in Sids
      PROVE  OffOf(r)'
  <2>1. online' = online /\ overlap \subseteq overlap' /\ cut \subseteq cut'
    BY <1>2 DEF Client, Connect, Refuse, Close, TimeOut, NoOrganization, ConnectRaises,
                LeaveConversation, history
  <2>2. dis'[r] = dis[r] \/ dis'[r] = Leaving(r)
    BY <1>2 DEF Client, Connect, Refuse, Close, TimeOut, Drop, NoOrganization, ConnectRaises,
                LeaveConversation, Known, TypeOK
  <2>3. CASE dis'[r] = dis[r]
    BY <2>1, <2>3 DEF OffKept, OffOf, Pending
  <2>4. CASE dis'[r] = Leaving(r)
    <3>1. Pending(dis'[r], "Offline")
      BY <2>4, LeavingStarts
    <3> QED BY <3>1 DEF OffOf, Pending
  <2> QED BY <2>2, <2>3, <2>4
<1>3. ASSUME NEW s \in Sids, OnConnect(s), NEW r \in Sids
      PROVE  OffOf(r)'
  <2>1. dis' = dis /\ overlap' = overlap /\ cut' = cut /\ con[s] # <<>>
    BY <1>3 DEF OnConnect, Connected, At, SetOnline, SetSidOf, SetOwnerOf, EnterRoom, TellOnline,
                FindSid, JoinConversation, SetConversation, GiveUpJoin, history
  <2>2. CASE online'[Owner[r]] = online[Owner[r]]
    BY <2>1, <2>2 DEF OffKept, OffOf, Pending
  <2>3. CASE online'[Owner[r]] # online[Owner[r]]
    <3>1. Owner[r] = Owner[s]
      BY <1>3, <2>3, OwnerType
         DEF OnConnect, Connected, SetOnline, SetSidOf, SetOwnerOf, EnterRoom, TellOnline,
             FindSid, JoinConversation, SetConversation, GiveUpJoin, Known, TypeOK
    <3>2. SUFFICES ASSUME Pending(dis[r], "Tell"), Owner[r] \notin overlap \union cut
                   PROVE  FALSE
      BY <2>1 DEF OffOf, Pending
    <3>3. dis[r] # <<>> /\ Active(r) /\ Active(s)
      <4>1. ~Pending(<<>>, "Tell")
        BY EmptySeq, Nothing
      <4> QED BY <2>1, <3>2, <4>1 DEF Active, Busy
    <3>4. r = s
      BY <3>1, <3>2, <3>3, OwnerType DEF FlagKept, FlagOf, Of
    <3> QED BY <2>1, <3>2, <3>3, <3>4 DEF Known, Handlers, HandlersOf
  <2> QED BY <2>2, <2>3
<1>4. ASSUME NEW s \in Sids, OnDisconnect(s), NEW r \in Sids
      PROVE  OffOf(r)'
  <2>1. /\ overlap' = overlap /\ cut' = cut
        /\ \A p \in People : online'[p] => online[p]
    BY <1>4 DEF OnDisconnect, Disconnected, FindOwner, SetOffline, EndVisit, TellOffline, Known,
                TypeOK
  <2>2. CASE r # s
    <3>1. dis'[r] = dis[r]
      BY <1>4, <2>2, Moves
    <3> QED BY <2>1, <3>1, OwnerType DEF OffKept, OffOf, Pending
  <2>3. CASE r = s
    <3>1. PICK step \in Steps :
            /\ Disconnected(s, step)
            /\ dis' = [dis EXCEPT ![s] = Tail(@)] \/ dis' = [dis EXCEPT ![s] = <<>>]
      BY <1>4 DEF OnDisconnect, FindOwner, SetOffline, EndVisit, TellOffline, Steps, GoOn, End
    <3>2. /\ dis[s] # <<>> /\ Head(dis[s]) = step /\ Rest(dis[s], Leaving(s))
          /\ dis'[s] \in {Tail(dis[s]), <<>>}
      BY <3>1, LeavingEffect DEF Known, Handlers, HandlersOf
    <3>3. SUFFICES ASSUME Pending(dis'[s], "Tell"), ~Pending(dis'[s], "Offline"),
                          Owner[s] \notin overlap \union cut
                   PROVE  ~online'[Owner[s]]
      BY <2>1, <2>3 DEF OffOf, Pending
    <3>4. dis'[s] = Tail(dis[s]) /\ dis'[s] # <<>>
      BY <3>2, <3>3, EmptySeq, Nothing
    <3>5. Pending(dis[s], "Tell") /\ (Head(dis[s]) # "Offline" => ~Pending(dis[s], "Offline"))
      BY <3>2, <3>3, <3>4, LeaveStep
    <3>6. CASE Head(dis[s]) # "Offline"
      <4>1. ~online[Owner[s]]
        BY <3>3, <3>5, <3>6 DEF OffKept, OffOf
      <4> QED BY <2>1, <4>1, OwnerType
    <3>7. CASE Head(dis[s]) = "Offline"
      <4>1. SetOffline(s)
        BY <1>4, <3>7 DEF OnDisconnect, FindOwner, EndVisit, TellOffline, Disconnected, At
      <4>2. ~End(s)
        BY <3>4 DEF End, Known, TypeOK
      <4>3. online' = [online EXCEPT ![Owner[s]] = FALSE]
        BY ONLY <4>1, <4>2 DEF SetOffline
      <4> QED BY <4>3, OwnerType DEF Known, TypeOK
    <3> QED BY <3>6, <3>7
  <2> QED BY <2>2, <2>3
<1>5. CASE \E s \in Sids : Client(s) \/ OnConnect(s) \/ OnDisconnect(s)
  BY <1>2, <1>3, <1>4, <1>5 DEF OffKept
<1> QED BY <1>1, <1>5 DEF Next, vars, history, StoreVisit, CopyVisit, LoseVisit, DeleteVisit,
                          Elsewhere, Emit

\* The last word stands when nothing is published and rooms only lose what
\* they were told.
LEMMA LastSame ==
  ASSUME NEW p, NEW on, LastWord(p, on), bus' = bus,
         \A s \in room' : view'[s][p] = "unknown" \/ (s \in room /\ view'[s][p] = view[s][p])
  PROVE  LastWord(p, on)'
BY DEF LastWord, Word

\* It stands when somebody else is spoken of.
LEMMA LastOthers ==
  ASSUME bus \in Seq(Event), NEW p, NEW on, LastWord(p, on),
         NEW e \in Event, e.who # p, bus' = Append(bus, e), room' = room, view' = view
  PROVE  LastWord(p, on)'
<1>1. /\ Len(bus) \in Nat /\ Len(bus') = Len(bus) + 1
      /\ \A i \in 1 .. Len(bus) : bus'[i] = bus[i]
      /\ bus'[Len(bus) + 1] = e
  BY AppendProperties, LenProperties
<1>2. CASE \A i \in 1 .. Len(bus) : bus[i].who # p
  <2>1. \A i \in 1 .. Len(bus') : bus'[i].who # p
    BY <1>1, <1>2
  <2>2. \A s \in room : view[s][p] \in {"unknown", Word(on)}
    BY <1>2 DEF LastWord
  <2> QED BY <2>1, <2>2 DEF LastWord, Word
<1>3. CASE \E i \in 1 .. Len(bus) : bus[i].who = p
  <2>1. PICK i \in 1 .. Len(bus) :
          /\ bus[i].who = p /\ bus[i].on = on
          /\ \A j \in 1 .. Len(bus) : i < j => bus[j].who # p
    BY <1>3 DEF LastWord
  <2>2. /\ i \in 1 .. Len(bus') /\ bus'[i].who = p /\ bus'[i].on = on
        /\ \A j \in 1 .. Len(bus') : i < j => bus'[j].who # p
    BY <1>1, <2>1
  <2> QED BY <2>2 DEF LastWord
<1> QED BY <1>2, <1>3

\* What is published last is the last word.
LEMMA LastSaid ==
  ASSUME bus \in Seq(Event), NEW p \in People, NEW on \in BOOLEAN,
         bus' = Append(bus, [who |-> p, on |-> on])
  PROVE  LastWord(p, on)'
<1> DEFINE e == [who |-> p, on |-> on]
<1>1. e \in Event /\ e.who = p /\ e.on = on
  BY DEF Event
<1> HIDE DEF e
<1>2. Len(bus) \in Nat /\ Len(bus') = Len(bus) + 1 /\ bus'[Len(bus) + 1] = e
  BY <1>1, AppendProperties, LenProperties DEF e
<1>3. /\ Len(bus) + 1 \in 1 .. Len(bus')
      /\ \A j \in 1 .. Len(bus') : ~(Len(bus) + 1 < j)
  BY <1>2
<1> QED BY <1>1, <1>2, <1>3 DEF LastWord

\* The listener passes events on in the order of the bus.
LEMMA LastEmit ==
  ASSUME TypeOK, OnlyRooms, NEW p \in People, NEW on \in BOOLEAN, LastWord(p, on), Emit
  PROVE  LastWord(p, on)'
<1> DEFINE e == Head(bus)
<1>1. bus \in Seq(Event) /\ bus # <<>> /\ bus' = Tail(bus) /\ view' = Told(e) /\ room' = room
  BY DEF Emit, TypeOK, rooms
<1>2. /\ Len(bus) \in Nat \ {0} /\ Len(bus') = Len(bus) - 1
      /\ \A i \in 1 .. Len(bus') : bus'[i] = bus[i + 1]
      /\ e = bus[1] /\ e \in Event
  BY <1>1, EmptySeq, LenProperties, HeadTailProperties
<1>3. \A s \in Sids : view'[s] = IF Hears(s, e)
                                 THEN [view[s] EXCEPT ![e.who] = Word(e.on)] ELSE view[s]
  BY <1>1 DEF Told, Word
<1>4. /\ room \subseteq Sids /\ e.who \in People
      /\ view \in [Sids -> [People -> {"unknown", "online", "offline"}]]
  BY <1>2 DEF TypeOK, Event
<1> HIDE DEF e
<1>5. CASE \A i \in 1 .. Len(bus) : bus[i].who # p
  <2>1. \A i \in 1 .. Len(bus') : bus'[i].who # p
    BY <1>2, <1>5
  <2>2. e.who # p
    BY <1>2, <1>5
  <2>3. \A s \in room : view'[s][p] = view[s][p]
    BY <1>3, <1>4, <2>2
  <2>4. \A s \in room : view[s][p] \in {"unknown", Word(on)}
    BY <1>5 DEF LastWord
  <2> QED BY <1>1, <2>1, <2>3, <2>4 DEF LastWord, Word
<1>6. CASE \E i \in 1 .. Len(bus) : bus[i].who = p
  <2>1. PICK i \in 1 .. Len(bus) :
          /\ bus[i].who = p /\ bus[i].on = on
          /\ \A j \in 1 .. Len(bus) : i < j => bus[j].who # p
    BY <1>6 DEF LastWord
  <2>2. CASE i # 1
    <3>1. i - 1 \in 1 .. Len(bus') /\ bus'[i - 1] = bus[i]
      <4>1. i - 1 \in 1 .. Len(bus') /\ (i - 1) + 1 = i
        BY <1>2, <2>2
      <4> QED BY <1>2, <4>1
    <3>2. \A j \in 1 .. Len(bus') : i - 1 < j => bus'[j].who # p
      BY <1>2, <2>1
    <3> QED BY <2>1, <3>1, <3>2 DEF LastWord
  <2>3. CASE i = 1
    <3>1. \A j \in 1 .. Len(bus') : bus'[j].who # p
      BY <1>2, <2>1, <2>3
    <3>2. e.who = p /\ e.on = on
      BY <1>2, <2>1, <2>3
    <3>3. \A s \in room : view'[s][p] \in {"unknown", Word(on)}
      <4> TAKE s \in room
      <4>1. CASE Hears(s, e)
        BY <1>3, <1>4, <3>2, <4>1
      <4>2. CASE ~Hears(s, e)
        <5>1. view'[s][p] = view[s][p] /\ ~(IsAgent(s) \/ p \in Agents)
          BY <1>3, <1>4, <3>2, <4>2 DEF Hears
        <5> QED BY <1>4, <5>1 DEF OnlyRooms
      <4> QED BY <4>1, <4>2
    <3> QED BY <1>1, <3>1, <3>3 DEF LastWord, Word
  <2> QED BY <2>2, <2>3
<1> QED BY <1>5, <1>6

\* A step after which the flag and the bus are as before.
LEMMA WordFrame ==
  ASSUME NEW p \in People, WordOf(p), bus' = bus, online'[p] = online[p],
         overlap \subseteq overlap', cut \subseteq cut', p \in unsaid => p \in unsaid',
         p \notin overlap' \union cut' \union unsaid' =>
           \A r \in Of(p) : Owes(r) => Owes(r)',
         \A s \in room' : view'[s][p] = "unknown" \/ (s \in room /\ view'[s][p] = view[s][p])
  PROVE  WordOf(p)'
<1>1. SUFFICES ASSUME p \notin overlap' \union cut' \union unsaid',
                      \A r \in Of(p) : ~Owes(r)'
               PROVE  LastWord(p, online[p])'
  <2>1. Of(p)' = Of(p)
    BY DEF Of
  <2> QED BY <2>1 DEF WordOf, LastWord, Owes, Pending
<1>2. LastWord(p, online[p])
  BY <1>1 DEF WordOf
<1>3. PICK on : on = online[p] /\ on = online'[p]
  OBVIOUS
<1>4. LastWord(p, on)
  BY <1>2, <1>3
<1>5. LastWord(p, on)'
  BY <1>4, LastSame
<1> QED BY <1>3, <1>5 DEF LastWord, Word

\* What the steps of a handler share.
LEMMA WordHandlers ==
  ASSUME Known, NEW s \in Sids, Client(s) \/ OnConnect(s) \/ OnDisconnect(s)
  PROVE  /\ \A r \in Sids \ {s} : Owes(r)' <=> Owes(r)
         /\ overlap \subseteq overlap' /\ cut \subseteq cut'
         /\ \A p \in People : p # Owner[s] =>
              online'[p] = online[p] /\ (p \in unsaid <=> p \in unsaid')
<1>1. \A r \in Sids \ {s} : con'[r] = con[r] /\ dis'[r] = dis[r]
  BY Moves
<1>2. \A r \in Sids \ {s} : Owes(r)' <=> Owes(r)
  BY <1>1 DEF Owes, Pending
<1>3. CASE Client(s)
  BY <1>2, <1>3
     DEF Client, Connect, Refuse, Close, TimeOut, Drop, NoOrganization, ConnectRaises,
         LeaveConversation, history
<1>4. CASE OnConnect(s)
  BY <1>2, <1>4
     DEF OnConnect, Connected, SetOnline, SetSidOf, SetOwnerOf, EnterRoom, TellOnline, FindSid,
         JoinConversation, SetConversation, GiveUpJoin, Publish, history, Known, TypeOK
<1>5. CASE OnDisconnect(s)
  BY <1>2, <1>5
     DEF OnDisconnect, Disconnected, FindOwner, SetOffline, EndVisit, TellOffline, Publish,
         Known, TypeOK
<1> QED BY <1>3, <1>4, <1>5

LEMMA WordClient ==
  ASSUME Known, WordKept, NEW s \in Sids, Client(s)
  PROVE  WordKept'
<1> DEFINE o == Owner[s]
<1>1. o \in People /\ s \in Of(o) /\ HandlersOf(s) /\ \A p \in People : WordOf(p)
  BY OwnerType DEF Of, WordKept, Known, Handlers
<1>2. bus' = bus /\ online' = online /\ unsaid' = unsaid
  BY DEF Client, Connect, Refuse, Close, TimeOut, NoOrganization, ConnectRaises,
         LeaveConversation, history
<1>3. /\ \A r \in Sids \ {s} : Owes(r)' <=> Owes(r)
      /\ overlap \subseteq overlap' /\ cut \subseteq cut'
  BY WordHandlers
<1>4. /\ room' \subseteq room /\ room \ {s} \subseteq room' /\ room \subseteq Sids
      /\ \A r \in Sids : \A p \in People :
           view'[r][p] = view[r][p] \/ (r = s /\ view'[r][p] = "unknown")
      /\ s \in room /\ s \notin room' => \A p \in People : view'[s][p] = "unknown"
  BY DEF Client, Connect, Refuse, Close, TimeOut, Drop, NoOrganization, ConnectRaises,
         LeaveConversation, rooms, Known, TypeOK
<1>5. OnlyRooms'
  <2>1. OnlyRooms
    BY DEF WordKept
  <2>2. ASSUME NEW r \in Sids, NEW p \in People, view'[r][p] # "unknown"
        PROVE  r \in room' /\ (IsAgent(r) \/ p \in Agents)
    <3>1. view'[r][p] = view[r][p]
      BY <1>4, <2>2
    <3>2. r \in room /\ (IsAgent(r) \/ p \in Agents)
      BY <2>1, <2>2, <3>1 DEF OnlyRooms
    <3> QED BY <1>4, <2>2, <3>2
  <2> QED BY <2>2 DEF OnlyRooms, IsAgent
<1>6. o \notin cut' => (Owes(s) => Owes(s)')
  <2>1. \A e : ~Pending(<<>>, e)
    BY EmptySeq, Nothing
  <2>2. CASE Connect(s)
    <3>1. con[s] = <<>> /\ dis[s] = <<>>
      BY <1>1, <2>2 DEF HandlersOf, Connect
    <3> QED BY <2>1, <3>1 DEF Owes
  <2>3. CASE Close(s) \/ TimeOut(s)
    <3>1. dis[s] = <<>> /\ con' = con
      BY <1>1, <2>3 DEF HandlersOf, Close, TimeOut, Drop
    <3> QED BY <2>1, <3>1 DEF Owes, Pending
  <2>4. CASE Refuse(s) \/ LeaveConversation(s)
    BY <2>4 DEF Refuse, LeaveConversation, Owes, Pending
  <2>5. CASE NoOrganization(s)
    BY <2>5 DEF NoOrganization
  <2>6. CASE ConnectRaises(s)
    BY <2>6 DEF ConnectRaises
  <2> QED BY <2>2, <2>3, <2>4, <2>5, <2>6 DEF Client
<1>7. ASSUME NEW p \in People
      PROVE  WordOf(p)'
  <2>1. \A r \in Of(p) : r \in Sids /\ (r = s => p = o)
    BY DEF Of
  <2>2. p \notin overlap' \union cut' \union unsaid' => \A r \in Of(p) : Owes(r) => Owes(r)'
    BY <1>3, <1>6, <2>1
  <2>3. \A r \in room' : view'[r][p] = "unknown" \/ (r \in room /\ view'[r][p] = view[r][p])
    BY <1>4
  <2> QED BY <1>1, <1>2, <1>3, <2>2, <2>3, WordFrame
<1> QED BY <1>5, <1>7 DEF WordKept

LEMMA WordOnConnect ==
  ASSUME Known, FlagKept, WordKept, NEW s \in Sids, OnConnect(s)
  PROVE  WordKept'
<1> DEFINE o == Owner[s]
           t == con[s]
<1>1. o \in People /\ s \in Of(o) /\ HandlersOf(s) /\ FlagOf(o)
      /\ \A p \in People : WordOf(p)
  BY OwnerType DEF Of, WordKept, FlagKept, Known, Handlers
<1>2. /\ \A r \in Sids \ {s} : Owes(r)' <=> Owes(r)
      /\ overlap \subseteq overlap' /\ cut \subseteq cut'
      /\ \A p \in People : p # o => online'[p] = online[p] /\ (p \in unsaid <=> p \in unsaid')
  BY WordHandlers
<1>3. /\ t # <<>> /\ dis' = dis /\ view' = view /\ link' = link /\ cut' = cut
      /\ overlap' = overlap
      /\ room \subseteq room' /\ room' \subseteq room \union {s} /\ room \subseteq Sids
  BY DEF OnConnect, Connected, At, SetOnline, SetSidOf, SetOwnerOf, EnterRoom, TellOnline,
         FindSid, JoinConversation, SetConversation, GiveUpJoin, Enter, rooms, history, Known,
         TypeOK
<1>4. Rest(t, Connecting(s))
  BY <1>1 DEF HandlersOf
<1>5. /\ \A e : Pending(Tail(t), e) <=> Pending(t, e) /\ e # Head(t)
      /\ Head(t) = "Online" => Pending(Tail(t), "Tell") /\ ~Pending(Tail(t), "Online")
      /\ Head(t) \in {"FindSid", "Join", "Chat"} => ~Pending(t, "Tell")
      /\ Pending(t, Head(t))
  BY <1>3, <1>4, ConnectStep, ConnectTells
<1>6. OnlyRooms'
  BY <1>3 DEF WordKept, OnlyRooms, IsAgent
<1>7. \A p \in People : \A r \in room' :
        view'[r][p] = "unknown" \/ (r \in room /\ view'[r][p] = view[r][p])
  BY <1>3 DEF WordKept, OnlyRooms
<1>8. ASSUME NEW p \in People, bus' = bus, online'[p] = online[p],
             p = o => (Owes(s) => Owes(s)') /\ (p \in unsaid => p \in unsaid')
      PROVE  WordOf(p)'
  <2>1. \A r \in Of(p) : r \in Sids /\ (r = s => p = o)
    BY DEF Of
  <2>2. \A r \in Of(p) : Owes(r) => Owes(r)'
    BY <1>2, <1>8, <2>1
  <2> QED BY <1>1, <1>2, <1>7, <1>8, <2>2, WordFrame
<1>9. CASE SetOnline(s)
  <2>1. bus' = bus /\ con'[s] = Tail(t) /\ Head(t) = "Online"
    BY <1>9 DEF SetOnline, Connected, At, Known, TypeOK
  <2>2. Owes(s)'
    <3>1. Pending(con'[s], "Tell") /\ ~Pending(con'[s], "Online")
      BY <1>5, <2>1
    <3> QED BY <3>1 DEF Owes, Pending
  <2>3. WordOf(o)'
    <3>1. s \in Of(o)'
      BY <1>1 DEF Of
    <3> QED BY <2>2, <3>1 DEF WordOf, Owes, Pending
  <2>4. \A p \in People \ {o} : WordOf(p)'
    BY <1>2, <1>8, <2>1
  <2> QED BY <1>6, <2>3, <2>4 DEF WordKept
<1>12. CASE TellOnline(s) /\ o \in unsaid' /\ bus' = bus
  <2>1. online' = online /\ WordOf(o)'
    BY <1>12 DEF TellOnline, WordOf
  <2>2. \A p \in People \ {o} : WordOf(p)'
    BY <1>2, <1>8, <1>12
  <2> QED BY <1>6, <2>1, <2>2 DEF WordKept
<1>10. CASE TellOnline(s) /\ ~(o \in unsaid' /\ bus' = bus)
  <2> DEFINE e == [who |-> o, on |-> TRUE]
  <2>1. /\ bus' = Append(bus, e) /\ online' = online /\ room' = room
        /\ con'[s] = Tail(t) /\ Head(t) = "Tell" /\ bus \in Seq(Event)
    BY <1>10 DEF TellOnline, Publish, Connected, At, Known, TypeOK, rooms
  <2>2. e \in Event /\ e.who = o
    BY <1>1 DEF Event
  <2>3. ASSUME NEW p \in People, p # o
        PROVE  WordOf(p)'
    <3>1. \A r \in Of(p) : Owes(r)' <=> Owes(r)
      BY <1>2, <2>3 DEF Of
    <3>2. PICK on : on = online[p] /\ on = online'[p]
      BY <2>1
    <3>3. Of(p)' = Of(p)
      BY DEF Of
    <3>4. SUFFICES ASSUME p \notin overlap' \union cut' \union unsaid',
                          \A r \in Of(p) : ~Owes(r)'
                   PROVE  LastWord(p, on)'
      BY <3>2, <3>3 DEF WordOf, LastWord, Word, Owes, Pending
    <3>6. p \notin overlap \union cut \union unsaid
      BY <1>2, <2>3, <3>4
    <3>7. \A r \in Of(p) : ~Owes(r)
      BY <3>1, <3>4
    <3>8. WordOf(p)
      BY <1>1
    <3>5. LastWord(p, on)
      BY <3>2, <3>6, <3>7, <3>8 DEF WordOf
    <3> HIDE DEF e
    <3> QED BY <1>3, <2>1, <2>2, <2>3, <3>5, LastOthers
  <2>4. WordOf(o)'
    <3>1. CASE o \in overlap' \union cut'
      BY <3>1 DEF WordOf
    <3>2. CASE o \notin overlap' \union cut'
      <4>1. link[s] = "up" /\ o \notin overlap \union cut
        BY <1>1, <1>3, <3>2 DEF HandlersOf
      <4>2. ~Pending(t, "Online")
        BY <1>3, <1>4, <2>1, ConnectTells
      <4>3. online[o] = TRUE
        <5>1. online[o]
          BY <1>1, <4>1, <4>2 DEF FlagOf
        <5> QED BY <1>1, <5>1 DEF Known, TypeOK
      <4>4. LastWord(o, TRUE)'
        <5> HIDE DEF o
        <5> QED BY <1>1, <2>1, LastSaid
      <4> QED BY <2>1, <4>3, <4>4 DEF WordOf, LastWord, Word
    <3> QED BY <3>1, <3>2
  <2> QED BY <1>6, <2>3, <2>4 DEF WordKept
<1>11. CASE ~SetOnline(s) /\ ~TellOnline(s)
  <2>1. bus' = bus /\ online' = online /\ unsaid' = unsaid
    BY <1>11 DEF OnConnect, Connected, SetSidOf, SetOwnerOf, EnterRoom, FindSid,
                 JoinConversation, SetConversation, GiveUpJoin, history
  <2>2. Owes(s) => Owes(s)'
    <3>1. Head(t) \notin {"Online", "Tell"}
      BY <1>11 DEF OnConnect, Connected, At, SetSidOf, SetOwnerOf, EnterRoom,
                   FindSid, JoinConversation, SetConversation, GiveUpJoin
    <3>2. con'[s] = Tail(t) \/ Head(t) \in {"FindSid", "Join", "Chat"}
      BY <1>11 DEF OnConnect, Connected, At, SetSidOf, SetOwnerOf, EnterRoom,
                   FindSid, JoinConversation, SetConversation, GiveUpJoin, Known, TypeOK
    <3>3. Pending(dis[s], "Tell") /\ ~Pending(dis[s], "Offline") => Owes(s)'
      BY <1>3 DEF Owes, Pending
    <3>4. ASSUME Pending(t, "Tell"), ~Pending(t, "Online")
          PROVE  Pending(con'[s], "Tell") /\ ~Pending(con'[s], "Online")
      BY <1>5, <3>1, <3>2, <3>4
    <3>5. Pending(t, "Tell") /\ ~Pending(t, "Online") => Owes(s)'
      <4> SUFFICES ASSUME Pending(t, "Tell") /\ ~Pending(t, "Online") PROVE Owes(s)'
        OBVIOUS
      <4>1. Pending(con'[s], "Tell") /\ ~Pending(con'[s], "Online")
        BY <3>4
      <4> QED BY <4>1 DEF Owes, Pending
    <3> QED BY <3>3, <3>5 DEF Owes
  <2>3. \A p \in People : WordOf(p)'
    BY <1>8, <2>1, <2>2
  <2> QED BY <1>6, <2>3 DEF WordKept
<1> QED BY <1>9, <1>10, <1>11, <1>12

LEMMA WordOnDisconnect ==
  ASSUME Known, OffKept, WordKept, NEW s \in Sids, OnDisconnect(s)
  PROVE  WordKept'
<1> DEFINE o == Owner[s]
           t == dis[s]
<1>1. o \in People /\ s \in Of(o) /\ HandlersOf(s) /\ OffOf(s)
      /\ \A p \in People : WordOf(p)
  BY OwnerType DEF Of, WordKept, OffKept, Known, Handlers
<1>2. /\ \A r \in Sids \ {s} : Owes(r)' <=> Owes(r)
      /\ overlap \subseteq overlap' /\ cut \subseteq cut'
      /\ \A p \in People : p # o => online'[p] = online[p] /\ (p \in unsaid <=> p \in unsaid')
  BY WordHandlers
<1>3. PICK step \in Steps :
        /\ Disconnected(s, step)
        /\ dis' = [dis EXCEPT ![s] = Tail(@)] \/ dis' = [dis EXCEPT ![s] = <<>>]
  BY DEF OnDisconnect, FindOwner, SetOffline, EndVisit, TellOffline, Steps, GoOn, End
<1>4. /\ con' = con /\ view' = view /\ room' = room /\ cut' = cut /\ overlap' = overlap
      /\ room \subseteq Sids
  BY <1>3 DEF Disconnected, rooms, Known, TypeOK
<1>5. t # <<>> /\ Head(t) = step /\ link[s] = "gone" /\ Rest(t, Leaving(s))
  BY <1>1, <1>3, LeavingEffect DEF Known, HandlersOf
<1>6. /\ \A e : Pending(Tail(t), e) <=> Pending(t, e) /\ e # Head(t)
      /\ Pending(t, Head(t))
      /\ Head(t) = "Offline" => Pending(Tail(t), "Tell") /\ ~Pending(Tail(t), "Offline")
      /\ Head(t) = "Find" => Pending(t, "Offline")
      /\ Head(t) = "Tell" => ~Pending(t, "Offline")
  BY <1>5, LeaveStep, LeaveTells
<1>7. OnlyRooms'
  BY <1>4 DEF WordKept, OnlyRooms, IsAgent
<1>8. ASSUME NEW p \in People, bus' = bus, online'[p] = online[p],
             p = o => (p \in unsaid => p \in unsaid'),
             p = o /\ p \notin unsaid' => (Owes(s) => Owes(s)')
      PROVE  WordOf(p)'
  <2>1. \A r \in Of(p) : r \in Sids /\ (r = s => p = o)
    BY DEF Of
  <2>2. p \notin unsaid' => \A r \in Of(p) : Owes(r) => Owes(r)'
    BY <1>2, <1>8, <2>1
  <2> QED BY <1>1, <1>2, <1>4, <1>8, <2>2, WordFrame
<1>9. CASE SetOffline(s) /\ online' # online
  <2>1. /\ bus' = bus /\ Head(t) = "Offline"
        /\ dis'[s] = Tail(t) \/ o \in unsaid'
    BY <1>9 DEF SetOffline, GoOn, Disconnected, At, Known, TypeOK
  <2>2. o \in unsaid' \/ Owes(s)'
    <3>1. dis'[s] = Tail(t) => Pending(dis'[s], "Tell") /\ ~Pending(dis'[s], "Offline")
      BY <1>6, <2>1
    <3> QED BY <2>1, <3>1 DEF Owes, Pending
  <2>3. WordOf(o)'
    <3>1. s \in Of(o)'
      BY <1>1 DEF Of
    <3> QED BY <2>2, <3>1 DEF WordOf, Owes, Pending
  <2>4. \A p \in People \ {o} : WordOf(p)'
    BY <1>2, <1>8, <2>1
  <2> QED BY <1>7, <2>3, <2>4 DEF WordKept
<1>13. CASE SetOffline(s) /\ online' = online
  <2>1. /\ bus' = bus /\ Head(t) = "Offline" /\ unsaid \subseteq unsaid'
        /\ dis'[s] = Tail(t) \/ o \in unsaid' \/ UNCHANGED online
    BY <1>13 DEF SetOffline, GoOn, Disconnected, At, Known, TypeOK
  <2>2. Owes(s) => Owes(s)'
    BY <1>4, <1>6, <2>1 DEF Owes, Pending
  <2>3. \A p \in People : WordOf(p)'
    BY <1>8, <1>13, <2>1, <2>2
  <2> QED BY <1>7, <2>3 DEF WordKept
<1>14. CASE TellOffline(s) /\ o \in unsaid' /\ bus' = bus
  <2>1. online' = online /\ WordOf(o)'
    BY <1>14 DEF TellOffline, WordOf
  <2>2. \A p \in People \ {o} : WordOf(p)'
    BY <1>2, <1>8, <1>14
  <2> QED BY <1>7, <2>1, <2>2 DEF WordKept
<1>10. CASE TellOffline(s) /\ ~(o \in unsaid' /\ bus' = bus)
  <2> DEFINE e == [who |-> o, on |-> FALSE]
  <2>1. /\ bus' = Append(bus, e) /\ online' = online
        /\ dis'[s] = Tail(t) /\ Head(t) = "Tell" /\ bus \in Seq(Event)
    BY <1>10 DEF TellOffline, GoOn, Publish, Disconnected, At, Known, TypeOK
  <2>2. e \in Event /\ e.who = o
    BY <1>1 DEF Event
  <2>3. ASSUME NEW p \in People, p # o
        PROVE  WordOf(p)'
    <3>1. \A r \in Of(p) : Owes(r)' <=> Owes(r)
      BY <1>2, <2>3 DEF Of
    <3>2. PICK on : on = online[p] /\ on = online'[p]
      BY <2>1
    <3>3. Of(p)' = Of(p)
      BY DEF Of
    <3>4. SUFFICES ASSUME p \notin overlap' \union cut' \union unsaid',
                          \A r \in Of(p) : ~Owes(r)'
                   PROVE  LastWord(p, on)'
      BY <3>2, <3>3 DEF WordOf, LastWord, Word, Owes, Pending
    <3>6. p \notin overlap \union cut \union unsaid
      BY <1>2, <2>3, <3>4
    <3>7. \A r \in Of(p) : ~Owes(r)
      BY <3>1, <3>4
    <3>8. WordOf(p)
      BY <1>1
    <3>5. LastWord(p, on)
      BY <3>2, <3>6, <3>7, <3>8 DEF WordOf
    <3> HIDE DEF e
    <3> QED BY <1>4, <2>1, <2>2, <2>3, <3>5, LastOthers
  <2>4. WordOf(o)'
    <3>1. CASE o \in overlap' \union cut'
      BY <3>1 DEF WordOf
    <3>2. CASE o \notin overlap' \union cut'
      <4>2. online[o] = FALSE
        <5>1. Pending(t, "Tell") /\ ~Pending(t, "Offline")
          BY <1>6, <2>1
        <5>2. ~online[o]
          BY <1>1, <1>4, <3>2, <5>1 DEF OffOf
        <5> QED BY <1>1, <5>2 DEF Known, TypeOK
      <4>3. LastWord(o, FALSE)'
        <5> HIDE DEF o
        <5> QED BY <1>1, <2>1, LastSaid
      <4> QED BY <2>1, <4>2, <4>3 DEF WordOf, LastWord, Word
    <3> QED BY <3>1, <3>2
  <2> QED BY <1>7, <2>3, <2>4 DEF WordKept
<1>11. CASE FindOwner(s)
  <2>1. bus' = bus /\ online' = online /\ Head(t) = "Find" /\ unsaid' = unsaid
    BY <1>11 DEF FindOwner, Disconnected, At
  <2>2. Owes(s) => Owes(s)'
    BY <1>4, <1>6, <2>1 DEF Owes, Pending
  <2>3. \A p \in People : WordOf(p)'
    BY <1>8, <2>1, <2>2
  <2> QED BY <1>7, <2>3 DEF WordKept
<1>12. CASE EndVisit(s)
  <2>1. bus' = bus /\ online' = online /\ Head(t) = "Visit" /\ unsaid \subseteq unsaid'
        /\ (dis'[s] = Tail(t) \/ o \in unsaid')
    BY <1>12 DEF EndVisit, GoOn, Disconnected, At, Known, TypeOK
  <2>2. o \notin unsaid' => (Owes(s) => Owes(s)')
    BY <1>4, <1>6, <2>1 DEF Owes, Pending
  <2>3. \A p \in People : WordOf(p)'
    BY <1>8, <2>1, <2>2
  <2> QED BY <1>7, <2>3 DEF WordKept
<1> QED BY <1>9, <1>10, <1>11, <1>12, <1>13, <1>14 DEF OnDisconnect

LEMMA WordEmit ==
  ASSUME Known, WordKept, Emit
  PROVE  WordKept'
<1> DEFINE e == Head(bus)
<1>1. /\ view' = Told(e) /\ room' = room
      /\ UNCHANGED <<con, dis, online, overlap, cut, unsaid>>
  BY DEF Emit, rooms, history
<1>2. OnlyRooms'
  <2>1. ASSUME NEW s \in Sids, NEW p \in People, view'[s][p] # "unknown"
        PROVE  s \in room /\ (IsAgent(s) \/ p \in Agents)
    <3> HIDE DEF e
    <3>1. view \in [Sids -> [People -> {"unknown", "online", "offline"}]]
      BY DEF Known, TypeOK
    <3>2. view'[s] = IF Hears(s, e)
                     THEN [view[s] EXCEPT ![e.who] = IF e.on THEN "online" ELSE "offline"]
                     ELSE view[s]
      BY <1>1 DEF Told
    <3>3. CASE Hears(s, e) /\ p = e.who
      BY <3>3 DEF Hears
    <3>4. CASE ~(Hears(s, e) /\ p = e.who)
      <4>1. view'[s][p] = view[s][p]
        BY <3>1, <3>2, <3>4
      <4> QED BY <2>1, <4>1 DEF WordKept, OnlyRooms
    <3> QED BY <3>3, <3>4
  <2> QED BY <1>1, <2>1 DEF OnlyRooms, IsAgent
<1>3. ASSUME NEW p \in People
      PROVE  WordOf(p)'
  <2>1. WordOf(p)
    BY DEF WordKept
  <2>2. PICK on \in BOOLEAN : on = online[p] /\ on = online'[p]
    BY <1>1 DEF Known, TypeOK
  <2>3. LastWord(p, on) => LastWord(p, on)'
    BY LastEmit DEF Known, WordKept
  <2>4. Of(p)' = Of(p)
    BY DEF Of
  <2>5. \A r \in Of(p) : Owes(r)' <=> Owes(r)
    BY <1>1 DEF Owes, Pending
  <2>6. p \notin overlap \union cut \union unsaid /\ (\A r \in Of(p) : ~Owes(r)) =>
          LastWord(p, on)
    BY <2>1, <2>2 DEF WordOf
  <2> QED BY <1>1, <2>2, <2>3, <2>4, <2>5, <2>6 DEF WordOf, LastWord, Word, Owes, Pending
<1> QED BY <1>2, <1>3 DEF WordKept

LEMMA WordStep ==
  ASSUME Known, FlagKept, OffKept, WordKept, [Next]_vars
  PROVE  WordKept'
<1>1. CASE UNCHANGED <<con, dis, online, room, bus, view, overlap, cut, unsaid>>
  BY <1>1 DEF WordKept, OnlyRooms, WordOf, LastWord, Word, Owes, Pending, Of, IsAgent
<1> QED BY <1>1, WordClient, WordOnConnect, WordOnDisconnect, WordEmit
        DEF Next, vars, rooms, history, StoreVisit, CopyVisit, LoseVisit, DeleteVisit, Elsewhere

\* Once the events are through and the handlers of a person are too, every room
\* that was told about them was told what is_online says, unless their sockets
\* overlapped, a connect was cut short or nobody was told of the last change.
THEOREM ToldRight == Spec => []ViewAgrees
<1>1. Init => FlagKept
  BY FlagInit
<1>2. Init => WordKept
  BY EmptySeq DEF Init, WordKept, OnlyRooms, WordOf, LastWord
<1>3. Known /\ FlagKept /\ [Next]_vars => FlagKept'
  BY FlagStep
<1>6. Init => OffKept
  <2>1. ~Pending(<<>>, "Tell")
    BY EmptySeq, Nothing
  <2> QED BY <2>1 DEF Init, OffKept, OffOf
<1>7. Known /\ FlagKept /\ OffKept /\ [Next]_vars => OffKept'
  BY OffStep
<1>4. Known /\ FlagKept /\ OffKept /\ WordKept /\ [Next]_vars => WordKept'
  BY WordStep
<1>5. WordKept => ViewAgrees
  <2> SUFFICES ASSUME WordKept, bus = <<>>,
                      NEW p \in People \ (overlap \union cut \union unsaid), Quiet(p),
                      NEW s \in room
               PROVE  view[s][p] \in {"unknown", IF online[p] THEN "online" ELSE "offline"}
    BY DEF ViewAgrees
  <2>1. \A r \in Of(p) : ~Owes(r)
    <3>1. \A e : ~Pending(<<>>, e)
      BY EmptySeq, Nothing
    <3> QED BY <3>1 DEF Quiet, Busy, Owes
  <2>2. LastWord(p, online[p])
    BY <2>1 DEF WordKept, WordOf
  <2> QED BY <2>2, EmptySeq DEF LastWord, Word
<1> QED BY <1>1, <1>2, <1>3, <1>4, <1>5, <1>6, <1>7, KnownAlways, PTL DEF Spec

=============================================================================
