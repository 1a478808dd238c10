-------------------------- MODULE AccountsProofs ---------------------------
(***************************************************************************)
(* Proofs about users, their tokens and the cache of users, for any number *)
(* of requests, users, tokens and faults.  Control says at which calls a   *)
(* request can be and what it has in its variables there; with TypeOK it   *)
(* is inductive.  On it rest three invariants of one concern each:         *)
(* CodesInv of verification tokens, RefreshInv of refresh tokens,          *)
(* ChosenInv of the organization a user works in.                          *)
(***************************************************************************)
EXTENDS AccountsProps, SequenceTheorems, FiniteSetTheorems, TLAPS

-----------------------------------------------------------------------------
(* What is inductive.                                                      *)

\* What a request may have left, its next call first.
Remaining(op) ==
  CASE op = "login" -> {<<"check_password", "create_token">>, <<"create_token">>}
    [] op = "oauth" -> {<<"find_or_create", "create_token">>,
                        <<"create_user", "create_token">>, <<"create_token">>}
    [] op = "register" -> {<<"find_no_user", "create_user", "create_code">>,
                           <<"create_user", "create_code">>, <<"create_code">>}
    [] op = "issue" -> {<<"find_user", "create_code">>, <<"create_code">>}
    [] op = "verify_email" ->
         {<<"find_user", "find_code", "use_code", "set_verified", "create_token">>,
          <<"find_code", "use_code", "set_verified", "create_token">>,
          <<"use_code", "set_verified", "create_token">>,
          <<"set_verified", "create_token">>, <<"create_token">>}
    [] op = "recover" ->
         {<<"find_user", "find_code", "use_code", "set_password">>,
          <<"find_code", "use_code", "set_password">>,
          <<"use_code", "set_password">>, <<"set_password">>}
    [] op = "refresh" -> {<<"find_refresh", "create_access">>, <<"create_access">>}
    [] op = "logout" ->
         {<<"middleware", "lookup", "load", "admit", "find_active", "deactivate">>,
          <<"lookup", "load", "admit", "find_active", "deactivate">>,
          <<"load", "admit", "find_active", "deactivate">>,
          <<"admit", "find_active", "deactivate">>,
          <<"find_active", "deactivate">>, <<"deactivate">>}
    [] op = "reset_password" ->
         {<<"middleware", "lookup", "load", "admit", "check_password", "set_password">>,
          <<"lookup", "load", "admit", "check_password", "set_password">>,
          <<"load", "admit", "check_password", "set_password">>,
          <<"admit", "check_password", "set_password">>,
          <<"check_password", "set_password">>, <<"set_password">>}
    [] op = "visit" ->
         {<<"middleware", "lookup", "load", "admit", "act">>,
          <<"lookup", "load", "admit", "act">>, <<"load", "admit", "act">>,
          <<"admit", "act">>, <<"act">>}
    [] op = "set_organization" ->
         {<<"middleware", "lookup", "load", "admit", "get_organization", "set_current",
            "update_cache">>,
          <<"lookup", "load", "admit", "get_organization", "set_current", "update_cache">>,
          <<"load", "admit", "get_organization", "set_current", "update_cache">>,
          <<"admit", "get_organization", "set_current", "update_cache">>,
          <<"get_organization", "set_current", "update_cache">>,
          <<"set_current", "update_cache">>, <<"update_cache">>}
    [] op = "create_organization" ->
         {<<"middleware", "lookup", "load", "admit", "create_organization", "set_current",
            "update_cache">>,
          <<"lookup", "load", "admit", "create_organization", "set_current", "update_cache">>,
          <<"load", "admit", "create_organization", "set_current", "update_cache">>,
          <<"admit", "create_organization", "set_current", "update_cache">>,
          <<"create_organization", "set_current", "update_cache">>,
          <<"set_current", "update_cache">>, <<"update_cache">>}
    [] op = "verify_two_fa" ->
         {<<"middleware", "lookup", "load", "admit", "get_user", "check_code",
            "set_verified", "update_cache">>,
          <<"lookup", "load", "admit", "get_user", "check_code", "set_verified",
            "update_cache">>,
          <<"load", "admit", "get_user", "check_code", "set_verified", "update_cache">>,
          <<"admit", "get_user", "check_code", "set_verified", "update_cache">>,
          <<"get_user", "check_code", "set_verified", "update_cache">>,
          <<"check_code", "set_verified", "update_cache">>,
          <<"set_verified", "update_cache">>, <<"update_cache">>}
    [] op = "delete_workspace" ->
         {<<"middleware", "get_user", "delete_organization", "set_current",
            "update_cache">>,
          <<"get_user", "delete_organization", "set_current", "update_cache">>,
          <<"delete_organization", "set_current", "update_cache">>,
          <<"set_current", "update_cache">>, <<"update_cache">>}

\* What a request at call h has in its variables c, seen beside the tables.
Informed(c, h, users, refreshes, codes, holders) ==
  /\ c.op \in SessionOps => /\ c.session \in Sessions /\ holders[c.session] # Null
                            /\ h # "middleware" => c.user = holders[c.session]
  /\ c.op \in MailOps => c.user \in Users
  /\ c.op = "refresh" => /\ c.token \in Refreshes /\ refreshes[c.token] # Absent
                         /\ h = "create_access" => c.user = refreshes[c.token].user
  /\ c.op \in {"verify_email", "recover"} => c.token \in Codes /\ codes[c.token] # Absent
  /\ c.op \notin {"refresh", "verify_email", "recover", "logout"} => c.token = Null
  /\ h = "deactivate" => /\ c.token \in Refreshes /\ refreshes[c.token] # Absent
                         /\ refreshes[c.token].user = c.user
  /\ h \in {"create_token", "find_code", "use_code", "set_verified", "set_password"} =>
       users[c.user] # Absent

\* The same beside the tables as they are.
Knows(c, h) == Informed(c, h, user, refresh, code, holder)

\* A request is at a call its operation can be at, with what that call needs.
Placed(p) ==
  IF Running(p) THEN /\ local[p].op \in Ops /\ todo[p] \in Remaining(local[p].op)
                     /\ Knows(local[p], Head(todo[p]))
                ELSE local[p] = Blank

\* Whom a token was made for has a row.
Owned ==
  /\ \A s \in Sessions : holder[s] # Null => user[holder[s]] # Absent
  /\ \A r \in Refreshes : refresh[r] # Absent => user[refresh[r].user] # Absent

\* Where the requests are, and for whom the tokens were made.
Control == Owned /\ \A p \in Procs : Placed(p)

\* p holds the verification token k, which it has found unused, and has not
\* taken its effect yet.
Redeeming(p, k) ==
  /\ local[p].token = k
  /\ At(p, "use_code") \/ At(p, "set_verified") \/ At(p, "set_password")

\* The row says that k was used.
Used(k) == code[k] # Absent /\ code[k].used

\* One request at most redeems k; it has its effect after it is marked used, and once.
Redeemed(k) ==
  /\ \A p, q \in Procs : Redeeming(p, k) /\ Redeeming(q, k) => p = q
  /\ ~Used(k) => redeemed[k] = 0 /\ \A p \in Procs : Redeeming(p, k) => At(p, "use_code")
  /\ Used(k) => \/ redeemed[k] = 1 /\ \A p \in Procs : ~Redeeming(p, k)
                \/ redeemed[k] = 0 /\ \E p \in Procs : Redeeming(p, k) /\ ~At(p, "use_code")

\* So it is with each verification token that no race and no failure has torn.
CodesInv == \A k \in Codes \ torn : Redeemed(k)

\* p is about to deactivate the refresh token r.
Ending(p, r) == At(p, "deactivate") /\ local[p].token = r

\* The refresh tokens that the logouts of u have ended.
Inactive(u) ==
  {r \in Refreshes : refresh[r] # Absent /\ refresh[r].user = u /\ ~refresh[r].active}

\* No two logouts of u have met at one token.
Untorn(u) ==
  \A r \in Refreshes : refresh[r] # Absent /\ refresh[r].user = u => r \notin torn

\* A token about to be deactivated is active, and only one request is about to; the
\* inactive tokens of a user are as many as his logouts.
RefreshInv ==
  /\ \A r \in Refreshes \ torn, p, q \in Procs :
       Ending(p, r) => refresh[r].active /\ (Ending(q, r) => p = q)
  /\ \A u \in Users : IsFiniteSet(Inactive(u))
  /\ \A u \in Users : Untorn(u) => Cardinality(Inactive(u)) = ended[u]

\* q is about to cache what it has seen, in session s.
Caches(q, s) ==
  \/ (At(q, "admit") \/ At(q, "update_cache")) /\ local[q].session = s
  \/ At(q, "create_token") /\ local[q].op = "verify_email" /\ local[q].user = holder[s]

\* What a session was told to work in is stored, is what is cached if anything is,
\* and is what any request about to cache for the session has seen.
Told(s) ==
  chosen[s] # Null =>
    /\ holder[s] # Null /\ user[holder[s]].current = chosen[s]
    /\ cache[s] \in {Absent, chosen[s]}
    /\ \A q \in Procs : Caches(q, s) => local[q].seen = chosen[s]

\* So it is with each session.
ChosenInv == \A s \in Sessions : Told(s)

-----------------------------------------------------------------------------
(* The calls of an operation.                                              *)

\* A concatenation, by its elements.
LEMMA Joined ==
  ASSUME NEW S, NEW s \in Seq(S), NEW t \in Seq(S), NEW u \in Seq(S),
         Len(u) = Len(s) + Len(t),
         \A i \in 1 .. Len(s) : u[i] = s[i],
         \A i \in 1 .. Len(t) : u[Len(s) + i] = t[i]
  PROVE  s \o t = u
<1>1. /\ s \o t \in Seq(S) /\ Len(s \o t) = Len(u)
      /\ \A i \in 1 .. Len(u) : (s \o t)[i] = IF i <= Len(s) THEN s[i] ELSE t[i - Len(s)]
  BY ConcatProperties
<1>2. ASSUME NEW i \in 1 .. Len(u) PROVE (s \o t)[i] = u[i]
  <2>1. CASE i <= Len(s)
    BY <1>1, <2>1
  <2>2. CASE i > Len(s)
    <3>1. i - Len(s) \in 1 .. Len(t)
      BY <2>2
    <3>2. u[Len(s) + (i - Len(s))] = t[i - Len(s)]
      BY <3>1
    <3> QED BY <1>1, <2>2, <3>2
  <2> QED BY <2>1, <2>2
<1> QED BY <1>1, <1>2, SeqEqual

\* The concatenations that Script and find_or_create make.
LEMMA OneAndOne ==
  ASSUME NEW a, NEW b
  PROVE  <<a>> \o <<b>> = <<a, b>>
<1> DEFINE S == {a, b}
           s == <<a>>
           t == <<b>>
           u == <<a, b>>
<1>1. s \in Seq(S) /\ t \in Seq(S) /\ u \in Seq(S)
  OBVIOUS
<1>2. Len(s) = 1 /\ Len(t) = 1 /\ Len(u) = 2
  OBVIOUS
<1>3. /\ s[1] = u[1]
      /\ t[1] = u[2]
  OBVIOUS
<1> HIDE DEF s, t, u
<1>4. \A i \in 1 .. Len(s) : u[i] = s[i]
  BY <1>2, <1>3
<1>5. \A i \in 1 .. Len(t) : u[Len(s) + i] = t[i]
  BY <1>2, <1>3
<1>6. s \o t = u
  <2>1. Len(u) = Len(s) + Len(t)
    BY <1>2
  <2> QED BY ONLY <1>1, <1>4, <1>5, <2>1, Joined
<1> QED BY <1>6 DEF s, t, u

\* The dependencies before a handler of one call.
LEMMA FourAndOne ==
  ASSUME NEW a, NEW b, NEW c, NEW d, NEW e
  PROVE  <<a, b, c, d>> \o <<e>> = <<a, b, c, d, e>>
<1> DEFINE S == {a, b, c, d, e}
           s == <<a, b, c, d>>
           t == <<e>>
           u == <<a, b, c, d, e>>
<1>1. s \in Seq(S) /\ t \in Seq(S) /\ u \in Seq(S)
  OBVIOUS
<1>2. Len(s) = 4 /\ Len(t) = 1 /\ Len(u) = 5
  OBVIOUS
<1>3. /\ s[1] = u[1] /\ s[2] = u[2] /\ s[3] = u[3] /\ s[4] = u[4]
      /\ t[1] = u[5]
  OBVIOUS
<1> HIDE DEF s, t, u
<1>4. \A i \in 1 .. Len(s) : u[i] = s[i]
  BY <1>2, <1>3
<1>5. \A i \in 1 .. Len(t) : u[Len(s) + i] = t[i]
  BY <1>2, <1>3
<1>6. s \o t = u
  <2>1. Len(u) = Len(s) + Len(t)
    BY <1>2
  <2> QED BY ONLY <1>1, <1>4, <1>5, <2>1, Joined
<1> QED BY <1>6 DEF s, t, u

\* The same, before two calls.
LEMMA FourAndTwo ==
  ASSUME NEW a, NEW b, NEW c, NEW d, NEW e, NEW f
  PROVE  <<a, b, c, d>> \o <<e, f>> = <<a, b, c, d, e, f>>
<1> DEFINE S == {a, b, c, d, e, f}
           s == <<a, b, c, d>>
           t == <<e, f>>
           u == <<a, b, c, d, e, f>>
<1>1. s \in Seq(S) /\ t \in Seq(S) /\ u \in Seq(S)
  OBVIOUS
<1>2. Len(s) = 4 /\ Len(t) = 2 /\ Len(u) = 6
  OBVIOUS
<1>3. /\ s[1] = u[1] /\ s[2] = u[2] /\ s[3] = u[3] /\ s[4] = u[4]
      /\ t[1] = u[5] /\ t[2] = u[6]
  OBVIOUS
<1> HIDE DEF s, t, u
<1>4. \A i \in 1 .. Len(s) : u[i] = s[i]
  BY <1>2, <1>3
<1>5. \A i \in 1 .. Len(t) : u[Len(s) + i] = t[i]
  BY <1>2, <1>3
<1>6. s \o t = u
  <2>1. Len(u) = Len(s) + Len(t)
    BY <1>2
  <2> QED BY ONLY <1>1, <1>4, <1>5, <2>1, Joined
<1> QED BY <1>6 DEF s, t, u

\* The same with one call before Choosing.
LEMMA FiveAndTwo ==
  ASSUME NEW a, NEW b, NEW c, NEW d, NEW e, NEW f, NEW g
  PROVE  <<a, b, c, d, e>> \o <<f, g>> = <<a, b, c, d, e, f, g>>
<1> DEFINE S == {a, b, c, d, e, f, g}
           s == <<a, b, c, d, e>>
           t == <<f, g>>
           u == <<a, b, c, d, e, f, g>>
<1>1. s \in Seq(S) /\ t \in Seq(S) /\ u \in Seq(S)
  OBVIOUS
<1>2. Len(s) = 5 /\ Len(t) = 2 /\ Len(u) = 7
  OBVIOUS
<1>3. /\ s[1] = u[1] /\ s[2] = u[2] /\ s[3] = u[3] /\ s[4] = u[4] /\ s[5] = u[5]
      /\ t[1] = u[6] /\ t[2] = u[7]
  OBVIOUS
<1> HIDE DEF s, t, u
<1>4. \A i \in 1 .. Len(s) : u[i] = s[i]
  BY <1>2, <1>3
<1>5. \A i \in 1 .. Len(t) : u[Len(s) + i] = t[i]
  BY <1>2, <1>3
<1>6. s \o t = u
  <2>1. Len(u) = Len(s) + Len(t)
    BY <1>2
  <2> QED BY ONLY <1>1, <1>4, <1>5, <2>1, Joined
<1> QED BY <1>6 DEF s, t, u

\* The same, before four calls.
LEMMA FourAndFour ==
  ASSUME NEW a, NEW b, NEW c, NEW d, NEW e, NEW f, NEW g, NEW h
  PROVE  <<a, b, c, d>> \o <<e, f, g, h>> = <<a, b, c, d, e, f, g, h>>
<1> DEFINE S == {a, b, c, d, e, f, g, h}
           s == <<a, b, c, d>>
           t == <<e, f, g, h>>
           u == <<a, b, c, d, e, f, g, h>>
<1>1. s \in Seq(S) /\ t \in Seq(S) /\ u \in Seq(S)
  OBVIOUS
<1>2. Len(s) = 4 /\ Len(t) = 4 /\ Len(u) = 8
  OBVIOUS
<1>3. /\ s[1] = u[1] /\ s[2] = u[2] /\ s[3] = u[3] /\ s[4] = u[4]
      /\ t[1] = u[5] /\ t[2] = u[6] /\ t[3] = u[7] /\ t[4] = u[8]
  OBVIOUS
<1> HIDE DEF s, t, u
<1>4. \A i \in 1 .. Len(s) : u[i] = s[i]
  BY <1>2, <1>3
<1>5. \A i \in 1 .. Len(t) : u[Len(s) + i] = t[i]
  BY <1>2, <1>3
<1>6. s \o t = u
  <2>1. Len(u) = Len(s) + Len(t)
    BY <1>2
  <2> QED BY ONLY <1>1, <1>4, <1>5, <2>1, Joined
<1> QED BY <1>6 DEF s, t, u

\* All operations.
AllOps == MailOps \union SessionOps \union {"refresh"}

\* Which operations make a call.
Makes(op, h) ==
  /\ h = "middleware" => op \in SessionOps
  /\ h \in {"lookup", "load", "admit"} => op \in SessionOps \ {"delete_workspace"}
  /\ h = "check_password" => op \in {"login", "reset_password"}
  /\ h = "create_token" => op \in {"login", "oauth", "verify_email"}
  /\ h = "find_or_create" => op = "oauth"
  /\ h = "create_user" => op \in {"oauth", "register"}
  /\ h = "find_no_user" => op = "register"
  /\ h = "create_code" => op \in {"register", "issue"}
  /\ h = "find_user" => op \in {"issue", "verify_email", "recover"}
  /\ h \in {"find_code", "use_code"} => op \in {"verify_email", "recover"}
  /\ h = "set_verified" => op \in {"verify_email", "verify_two_fa"}
  /\ h = "set_password" => op \in {"recover", "reset_password"}
  /\ h \in {"find_refresh", "create_access"} => op = "refresh"
  /\ h \in {"find_active", "deactivate"} => op = "logout"
  /\ h = "act" => op = "visit"
  /\ h = "get_organization" => op = "set_organization"
  /\ h = "create_organization" => op = "create_organization"
  /\ h = "get_user" => op \in {"verify_two_fa", "delete_workspace"}
  /\ h = "check_code" => op = "verify_two_fa"
  /\ h = "delete_organization" => op = "delete_workspace"
  /\ h = "set_current" => op \in {"set_organization", "create_organization", "delete_workspace"}
  /\ h = "update_cache" => op \in {"set_organization", "create_organization",
                                   "delete_workspace", "verify_two_fa"}

\* The calls of handlers behind validate_user.
Handling == {"find_active", "check_password", "act", "get_organization",
             "create_organization", "get_user"}

\* Which call comes after which.
Follows(h, n) ==
  /\ h = "middleware" => n \in {"lookup", "get_user"}
  /\ h = "lookup" => n = "load"
  /\ h = "load" => n = "admit"
  /\ h = "admit" => n \in Handling
  /\ h = "check_password" => n \in {"create_token", "set_password"}
  /\ h = "find_or_create" => n = "create_token"
  /\ h = "create_user" => n \in {"create_token", "create_code"}
  /\ h = "find_no_user" => n = "create_user"
  /\ h = "find_user" => n \in {"create_code", "find_code"}
  /\ h = "find_code" => n = "use_code"
  /\ h = "use_code" => n \in {"set_verified", "set_password"}
  /\ h = "set_verified" => n \in {"create_token", "update_cache"}
  /\ h = "find_refresh" => n = "create_access"
  /\ h = "find_active" => n = "deactivate"
  /\ h \in {"get_organization", "create_organization", "delete_organization"} => n = "set_current"
  /\ h = "get_user" => n \in {"check_code", "delete_organization"}
  /\ h = "check_code" => n = "set_verified"
  /\ h = "set_current" => n = "update_cache"
  /\ h \notin {"create_token", "create_access", "deactivate", "create_code", "set_password",
                "act", "update_cache"}

\* Every operation starts at its first call.
LEMMA Scripted ==
  ASSUME NEW op \in AllOps
  PROVE  /\ Script(op) \in Remaining(op)
         /\ Head(Script(op)) \in {"check_password", "find_or_create", "find_no_user", "find_user",
                                 "find_refresh", "middleware"}
         /\ Head(Script(op)) = "middleware" <=> op \in SessionOps
<1>1. CASE op = "login"
  BY <1>1 DEF Script, Remaining, SessionOps
<1>2. CASE op = "oauth"
  BY <1>2 DEF Script, Remaining, SessionOps
<1>3. CASE op = "register"
  BY <1>3 DEF Script, Remaining, SessionOps
<1>4. CASE op = "issue"
  BY <1>4 DEF Script, Remaining, SessionOps
<1>5. CASE op = "verify_email"
  BY <1>5 DEF Script, Remaining, SessionOps
<1>6. CASE op = "recover"
  BY <1>6 DEF Script, Remaining, SessionOps
<1>7. CASE op = "refresh"
  BY <1>7 DEF Script, Remaining, SessionOps
<1>8. CASE op = "logout"
  <2>1. Script("logout") = <<"middleware", "lookup", "load", "admit", "find_active", "deactivate">>
    BY FourAndTwo DEF Script, Authenticate, Choosing
  <2> QED BY <1>8, <2>1 DEF Remaining, SessionOps
<1>9. CASE op = "reset_password"
  <2>1. Script("reset_password") = <<"middleware", "lookup", "load", "admit", "check_password", "set_password">>
    BY FourAndTwo DEF Script, Authenticate, Choosing
  <2> QED BY <1>9, <2>1 DEF Remaining, SessionOps
<1>10. CASE op = "visit"
  <2>1. Script("visit") = <<"middleware", "lookup", "load", "admit", "act">>
    BY FourAndOne DEF Script, Authenticate, Choosing
  <2> QED BY <1>10, <2>1 DEF Remaining, SessionOps
<1>11. CASE op = "set_organization"
  <2>1. <<"middleware", "lookup", "load", "admit">> \o <<"get_organization">> =
        <<"middleware", "lookup", "load", "admit", "get_organization">>
    BY FourAndOne
  <2>2. <<"middleware", "lookup", "load", "admit", "get_organization">> \o <<"set_current", "update_cache">> =
        <<"middleware", "lookup", "load", "admit", "get_organization", "set_current", "update_cache">>
    BY FiveAndTwo
  <2>3. Script("set_organization") = <<"middleware", "lookup", "load", "admit", "get_organization", "set_current", "update_cache">>
    BY <2>1, <2>2 DEF Script, Authenticate, Choosing
  <2> QED BY <1>11, <2>3 DEF Remaining, SessionOps
<1>12. CASE op = "create_organization"
  <2>1. <<"middleware", "lookup", "load", "admit">> \o <<"create_organization">> =
        <<"middleware", "lookup", "load", "admit", "create_organization">>
    BY FourAndOne
  <2>2. <<"middleware", "lookup", "load", "admit", "create_organization">> \o <<"set_current", "update_cache">> =
        <<"middleware", "lookup", "load", "admit", "create_organization", "set_current", "update_cache">>
    BY FiveAndTwo
  <2>3. Script("create_organization") = <<"middleware", "lookup", "load", "admit", "create_organization", "set_current", "update_cache">>
    BY <2>1, <2>2 DEF Script, Authenticate, Choosing
  <2> QED BY <1>12, <2>3 DEF Remaining, SessionOps
<1>13. CASE op = "verify_two_fa"
  <2>1. Script("verify_two_fa") = <<"middleware", "lookup", "load", "admit", "get_user", "check_code", "set_verified", "update_cache">>
    BY FourAndFour DEF Script, Authenticate, Choosing
  <2> QED BY <1>13, <2>1 DEF Remaining, SessionOps
<1>14. CASE op = "delete_workspace"
  BY <1>14 DEF Script, Remaining, SessionOps
<1> QED BY <1>1, <1>2, <1>3, <1>4, <1>5, <1>6, <1>7, <1>8, <1>9, <1>10, <1>11, <1>12, <1>13, <1>14 DEF AllOps, MailOps, SessionOps

\* What is left after a call is what may be left, or nothing.
LEMMA Remains ==
  ASSUME NEW op \in AllOps, NEW s \in Remaining(op)
  PROVE  /\ s \in Seq(Calls) /\ s # <<>>
         /\ Makes(op, Head(s))
         /\ Len(s) = 1 <=> Tail(s) = <<>>
         /\ Tail(s) # <<>> => /\ Tail(s) \in Remaining(op)
                             /\ Follows(Head(s), Head(Tail(s)))
         /\ Head(s) = "lookup" => /\ Tail(Tail(Tail(s))) \in Remaining(op)
                                 /\ Head(Tail(Tail(Tail(s)))) \in Handling
         /\ Head(s) = "find_or_create" =>
              /\ <<"create_user">> \o Tail(s) \in Remaining(op)
              /\ Head(<<"create_user">> \o Tail(s)) = "create_user"
<1> USE DEF Calls, Makes, Follows, Handling, SessionOps
<1>1. CASE op = "login"
  <2>1. CASE s = <<"check_password", "create_token">>
    BY <1>1, <2>1 DEF Remaining
  <2>2. CASE s = <<"create_token">>
    BY <1>1, <2>2 DEF Remaining
  <2> QED BY <1>1, <2>1, <2>2 DEF Remaining
<1>2. CASE op = "oauth"
  <2>1. CASE s = <<"find_or_create", "create_token">>
    BY <1>2, <2>1, OneAndOne DEF Remaining
  <2>2. CASE s = <<"create_token">>
    BY <1>2, <2>2 DEF Remaining
  <2>3. CASE s = <<"create_user", "create_token">>
    BY <1>2, <2>3 DEF Remaining
  <2> QED BY <1>2, <2>1, <2>2, <2>3 DEF Remaining
<1>3. CASE op = "register"
  <2>1. CASE s = <<"find_no_user", "create_user", "create_code">>
    BY <1>3, <2>1 DEF Remaining
  <2>2. CASE s = <<"create_user", "create_code">>
    BY <1>3, <2>2 DEF Remaining
  <2>3. CASE s = <<"create_code">>
    BY <1>3, <2>3 DEF Remaining
  <2> QED BY <1>3, <2>1, <2>2, <2>3 DEF Remaining
<1>4. CASE op = "issue"
  <2>1. CASE s = <<"find_user", "create_code">>
    BY <1>4, <2>1 DEF Remaining
  <2>2. CASE s = <<"create_code">>
    BY <1>4, <2>2 DEF Remaining
  <2> QED BY <1>4, <2>1, <2>2 DEF Remaining
<1>5. CASE op = "verify_email"
  <2>1. CASE s = <<"find_user", "find_code", "use_code", "set_verified", "create_token">>
    BY <1>5, <2>1 DEF Remaining
  <2>2. CASE s = <<"find_code", "use_code", "set_verified", "create_token">>
    BY <1>5, <2>2 DEF Remaining
  <2>3. CASE s = <<"use_code", "set_verified", "create_token">>
    BY <1>5, <2>3 DEF Remaining
  <2>4. CASE s = <<"set_verified", "create_token">>
    BY <1>5, <2>4 DEF Remaining
  <2>5. CASE s = <<"create_token">>
    BY <1>5, <2>5 DEF Remaining
  <2> QED BY <1>5, <2>1, <2>2, <2>3, <2>4, <2>5 DEF Remaining
<1>6. CASE op = "recover"
  <2>1. CASE s = <<"find_user", "find_code", "use_code", "set_password">>
    BY <1>6, <2>1 DEF Remaining
  <2>2. CASE s = <<"find_code", "use_code", "set_password">>
    BY <1>6, <2>2 DEF Remaining
  <2>3. CASE s = <<"use_code", "set_password">>
    BY <1>6, <2>3 DEF Remaining
  <2>4. CASE s = <<"set_password">>
    BY <1>6, <2>4 DEF Remaining
  <2> QED BY <1>6, <2>1, <2>2, <2>3, <2>4 DEF Remaining
<1>7. CASE op = "refresh"
  <2>1. CASE s = <<"find_refresh", "create_access">>
    BY <1>7, <2>1 DEF Remaining
  <2>2. CASE s = <<"create_access">>
    BY <1>7, <2>2 DEF Remaining
  <2> QED BY <1>7, <2>1, <2>2 DEF Remaining
<1>8. CASE op = "logout"
  <2>1. CASE s = <<"middleware", "lookup", "load", "admit", "find_active", "deactivate">>
    BY <1>8, <2>1 DEF Remaining
  <2>2. CASE s = <<"lookup", "load", "admit", "find_active", "deactivate">>
    BY <1>8, <2>2 DEF Remaining
  <2>3. CASE s = <<"load", "admit", "find_active", "deactivate">>
    BY <1>8, <2>3 DEF Remaining
  <2>4. CASE s = <<"admit", "find_active", "deactivate">>
    BY <1>8, <2>4 DEF Remaining
  <2>5. CASE s = <<"find_active", "deactivate">>
    BY <1>8, <2>5 DEF Remaining
  <2>6. CASE s = <<"deactivate">>
    BY <1>8, <2>6 DEF Remaining
  <2> QED BY <1>8, <2>1, <2>2, <2>3, <2>4, <2>5, <2>6 DEF Remaining
<1>9. CASE op = "reset_password"
  <2>1. CASE s = <<"middleware", "lookup", "load", "admit", "check_password", "set_password">>
    BY <1>9, <2>1 DEF Remaining
  <2>2. CASE s = <<"lookup", "load", "admit", "check_password", "set_password">>
    BY <1>9, <2>2 DEF Remaining
  <2>3. CASE s = <<"load", "admit", "check_password", "set_password">>
    BY <1>9, <2>3 DEF Remaining
  <2>4. CASE s = <<"admit", "check_password", "set_password">>
    BY <1>9, <2>4 DEF Remaining
  <2>5. CASE s = <<"check_password", "set_password">>
    BY <1>9, <2>5 DEF Remaining
  <2>6. CASE s = <<"set_password">>
    BY <1>9, <2>6 DEF Remaining
  <2> QED BY <1>9, <2>1, <2>2, <2>3, <2>4, <2>5, <2>6 DEF Remaining
<1>10. CASE op = "visit"
  <2>1. CASE s = <<"middleware", "lookup", "load", "admit", "act">>
    BY <1>10, <2>1 DEF Remaining
  <2>2. CASE s = <<"lookup", "load", "admit", "act">>
    BY <1>10, <2>2 DEF Remaining
  <2>3. CASE s = <<"load", "admit", "act">>
    BY <1>10, <2>3 DEF Remaining
  <2>4. CASE s = <<"admit", "act">>
    BY <1>10, <2>4 DEF Remaining
  <2>5. CASE s = <<"act">>
    BY <1>10, <2>5 DEF Remaining
  <2> QED BY <1>10, <2>1, <2>2, <2>3, <2>4, <2>5 DEF Remaining
<1>11. CASE op = "set_organization"
  <2>1. CASE s = <<"middleware", "lookup", "load", "admit", "get_organization", "set_current", "update_cache">>
    BY <1>11, <2>1 DEF Remaining
  <2>2. CASE s = <<"lookup", "load", "admit", "get_organization", "set_current", "update_cache">>
    BY <1>11, <2>2 DEF Remaining
  <2>3. CASE s = <<"load", "admit", "get_organization", "set_current", "update_cache">>
    BY <1>11, <2>3 DEF Remaining
  <2>4. CASE s = <<"admit", "get_organization", "set_current", "update_cache">>
    BY <1>11, <2>4 DEF Remaining
  <2>5. CASE s = <<"get_organization", "set_current", "update_cache">>
    BY <1>11, <2>5 DEF Remaining
  <2>6. CASE s = <<"set_current", "update_cache">>
    BY <1>11, <2>6 DEF Remaining
  <2>7. CASE s = <<"update_cache">>
    BY <1>11, <2>7 DEF Remaining
  <2> QED BY <1>11, <2>1, <2>2, <2>3, <2>4, <2>5, <2>6, <2>7 DEF Remaining
<1>12. CASE op = "create_organization"
  <2>1. CASE s = <<"middleware", "lookup", "load", "admit", "create_organization", "set_current", "update_cache">>
    BY <1>12, <2>1 DEF Remaining
  <2>2. CASE s = <<"lookup", "load", "admit", "create_organization", "set_current", "update_cache">>
    BY <1>12, <2>2 DEF Remaining
  <2>3. CASE s = <<"load", "admit", "create_organization", "set_current", "update_cache">>
    BY <1>12, <2>3 DEF Remaining
  <2>4. CASE s = <<"admit", "create_organization", "set_current", "update_cache">>
    BY <1>12, <2>4 DEF Remaining
  <2>5. CASE s = <<"create_organization", "set_current", "update_cache">>
    BY <1>12, <2>5 DEF Remaining
  <2>6. CASE s = <<"set_current", "update_cache">>
    BY <1>12, <2>6 DEF Remaining
  <2>7. CASE s = <<"update_cache">>
    BY <1>12, <2>7 DEF Remaining
  <2> QED BY <1>12, <2>1, <2>2, <2>3, <2>4, <2>5, <2>6, <2>7 DEF Remaining
<1>13. CASE op = "verify_two_fa"
  <2>1. CASE s = <<"middleware", "lookup", "load", "admit", "get_user", "check_code", "set_verified", "update_cache">>
    BY <1>13, <2>1 DEF Remaining
  <2>2. CASE s = <<"lookup", "load", "admit", "get_user", "check_code", "set_verified", "update_cache">>
    BY <1>13, <2>2 DEF Remaining
  <2>3. CASE s = <<"load", "admit", "get_user", "check_code", "set_verified", "update_cache">>
    BY <1>13, <2>3 DEF Remaining
  <2>4. CASE s = <<"admit", "get_user", "check_code", "set_verified", "update_cache">>
    BY <1>13, <2>4 DEF Remaining
  <2>5. CASE s = <<"get_user", "check_code", "set_verified", "update_cache">>
    BY <1>13, <2>5 DEF Remaining
  <2>6. CASE s = <<"check_code", "set_verified", "update_cache">>
    BY <1>13, <2>6 DEF Remaining
  <2>7. CASE s = <<"set_verified", "update_cache">>
    BY <1>13, <2>7 DEF Remaining
  <2>8. CASE s = <<"update_cache">>
    BY <1>13, <2>8 DEF Remaining
  <2> QED BY <1>13, <2>1, <2>2, <2>3, <2>4, <2>5, <2>6, <2>7, <2>8 DEF Remaining
<1>14. CASE op = "delete_workspace"
  <2>1. CASE s = <<"middleware", "get_user", "delete_organization", "set_current", "update_cache">>
    BY <1>14, <2>1 DEF Remaining
  <2>2. CASE s = <<"get_user", "delete_organization", "set_current", "update_cache">>
    BY <1>14, <2>2 DEF Remaining
  <2>3. CASE s = <<"delete_organization", "set_current", "update_cache">>
    BY <1>14, <2>3 DEF Remaining
  <2>4. CASE s = <<"set_current", "update_cache">>
    BY <1>14, <2>4 DEF Remaining
  <2>5. CASE s = <<"update_cache">>
    BY <1>14, <2>5 DEF Remaining
  <2> QED BY <1>14, <2>1, <2>2, <2>3, <2>4, <2>5 DEF Remaining
<1> QED BY <1>1, <1>2, <1>3, <1>4, <1>5, <1>6, <1>7, <1>8, <1>9, <1>10, <1>11, <1>12, <1>13, <1>14 DEF AllOps, MailOps, SessionOps

-----------------------------------------------------------------------------
(* Rows and variables, written out.                                        *)

\* The variables of a request.
Var(op, u, s, w, new, token, org, tenant, seen, found) ==
  [op |-> op, user |-> u, session |-> s, password |-> w, new |-> new, token |-> token,
   org |-> org, tenant |-> tenant, seen |-> seen, found |-> found]

\* What an assignment to one of them, or to two or three, makes of them.
LEMMA Assigned ==
  ASSUME NEW c \in Local
  PROVE  /\ \A v : [c EXCEPT !.user = v] =
                    Var(c.op, v, c.session, c.password, c.new, c.token, c.org, c.tenant, c.seen, c.found)
         /\ \A v : [c EXCEPT !.seen = v] =
                    Var(c.op, c.user, c.session, c.password, c.new, c.token, c.org, c.tenant, v, c.found)
         /\ \A v : [c EXCEPT !.token = v] =
                    Var(c.op, c.user, c.session, c.password, c.new, v, c.org, c.tenant, c.seen, c.found)
         /\ \A v : [c EXCEPT !.found = v] =
                    Var(c.op, c.user, c.session, c.password, c.new, c.token, c.org, c.tenant, c.seen, v)
         /\ \A v : [c EXCEPT !.org = v] =
                    Var(c.op, c.user, c.session, c.password, c.new, c.token, v, c.tenant, c.seen, c.found)
         /\ \A u, t : [c EXCEPT !.user = u, !.tenant = t] =
                    Var(c.op, u, c.session, c.password, c.new, c.token, c.org, t, c.seen, c.found)
         /\ \A v : Admitted(c, v) =
                    Var(c.op, c.user, c.session, c.password, c.new, c.token, c.org, IF v \in Orgs THEN v ELSE c.tenant, v, TRUE)
<1>1. c = Var(c.op, c.user, c.session, c.password, c.new, c.token, c.org, c.tenant, c.seen, c.found)
  BY DEF Local, Var
<1>2. ASSUME NEW v PROVE
        /\ [c EXCEPT !.user = v] = Var(c.op, v, c.session, c.password, c.new, c.token, c.org, c.tenant, c.seen, c.found)
        /\ [c EXCEPT !.seen = v] = Var(c.op, c.user, c.session, c.password, c.new, c.token, c.org, c.tenant, v, c.found)
        /\ [c EXCEPT !.token = v] = Var(c.op, c.user, c.session, c.password, c.new, v, c.org, c.tenant, c.seen, c.found)
        /\ [c EXCEPT !.found = v] = Var(c.op, c.user, c.session, c.password, c.new, c.token, c.org, c.tenant, c.seen, v)
        /\ [c EXCEPT !.org = v] = Var(c.op, c.user, c.session, c.password, c.new, c.token, v, c.tenant, c.seen, c.found)
  BY <1>1 DEF Var
<1>3. ASSUME NEW u, NEW t PROVE
        [c EXCEPT !.user = u, !.tenant = t] = Var(c.op, u, c.session, c.password, c.new, c.token, c.org, t, c.seen, c.found)
  <2> DEFINE d == [c EXCEPT !.user = u]
  <2>1. d = Var(c.op, u, c.session, c.password, c.new, c.token, c.org, c.tenant, c.seen, c.found)
    BY <1>2
  <2>2. [d EXCEPT !.tenant = t] = Var(c.op, u, c.session, c.password, c.new, c.token, c.org, t, c.seen, c.found)
    <3> HIDE DEF d
    <3> QED BY <2>1 DEF Var
  <2> QED BY <2>2
<1>4. ASSUME NEW v PROVE Admitted(c, v) = Var(c.op, c.user, c.session, c.password, c.new, c.token, c.org, IF v \in Orgs THEN v ELSE c.tenant, v, TRUE)
  <2>1. ASSUME NEW b, NEW t
        PROVE  [c EXCEPT !.seen = v, !.found = b, !.tenant = t] = Var(c.op, c.user, c.session, c.password, c.new, c.token, c.org, t, v, b)
    <3> DEFINE d == [c EXCEPT !.seen = v]
               e == [d EXCEPT !.found = b]
    <3>1. d = Var(c.op, c.user, c.session, c.password, c.new, c.token, c.org, c.tenant, v, c.found)
      BY <1>2
    <3>2. e = Var(c.op, c.user, c.session, c.password, c.new, c.token, c.org, c.tenant, v, b)
      <4> HIDE DEF d
      <4> QED BY <3>1 DEF Var
    <3>3. [e EXCEPT !.tenant = t] = Var(c.op, c.user, c.session, c.password, c.new, c.token, c.org, t, v, b)
      <4> HIDE DEF e
      <4> QED BY <3>2 DEF Var
    <3> QED BY <3>3
  <2> QED BY <2>1 DEF Admitted
<1> QED BY <1>2, <1>3, <1>4

\* A user's row with another password or another organization.
HasRow(u, w, o) ==
  user' = [v \in Users |-> IF v = u THEN [password |-> w, current |-> o] ELSE user[v]]

\* Rows and their updates, written out.
LEMMA RowForms ==
  ASSUME TypeOK
  PROVE  /\ \A u \in Users : user[u] # Absent =>
              /\ user[u].current \in Current /\ user[u].password \in Passwords \union {Null}
              /\ \A w : user' = [user EXCEPT ![u].password = w] => HasRow(u, w, user[u].current)
              /\ \A o : user' = [user EXCEPT ![u].current = o] => HasRow(u, user[u].password, o)
         /\ \A r \in Refreshes : refresh[r] # Absent =>
              /\ refresh[r].user \in Users /\ refresh[r].active \in BOOLEAN
              /\ [refresh EXCEPT ![r].active = FALSE] =
                   [x \in Refreshes |-> IF x = r THEN [user |-> refresh[r].user, active |-> FALSE]
                                       ELSE refresh[x]]
         /\ \A k \in Codes : code[k] # Absent =>
              /\ code[k].user \in Users /\ code[k].used \in BOOLEAN
              /\ [code EXCEPT ![k].used = TRUE] =
                   [x \in Codes |-> IF x = k THEN [user |-> code[k].user, used |-> TRUE]
                                   ELSE code[x]]
<1>1. ASSUME NEW u \in Users, user[u] # Absent
      PROVE  /\ user[u].current \in Current /\ user[u].password \in Passwords \union {Null}
             /\ \A w : user' = [user EXCEPT ![u].password = w] => HasRow(u, w, user[u].current)
             /\ \A o : user' = [user EXCEPT ![u].current = o] => HasRow(u, user[u].password, o)
  <2>1. user \in [Users -> User \union {Absent}]
    BY DEF TypeOK
  <2>2. user[u] \in User
    BY <1>1, <2>1
  <2>3. /\ user[u] = [password |-> user[u].password, current |-> user[u].current]
        /\ user[u].current \in Current /\ user[u].password \in Passwords \union {Null}
    BY <2>2 DEF User
  <2>4. /\ \A w : [user[u] EXCEPT !.password = w] = [password |-> w, current |-> user[u].current]
        /\ \A o : [user[u] EXCEPT !.current = o] = [password |-> user[u].password, current |-> o]
    BY <2>3
  <2> QED BY <2>1, <2>3, <2>4 DEF HasRow
<1>2. ASSUME NEW r \in Refreshes, refresh[r] # Absent
      PROVE  /\ refresh[r].user \in Users /\ refresh[r].active \in BOOLEAN
             /\ [refresh EXCEPT ![r].active = FALSE] =
                  [x \in Refreshes |-> IF x = r THEN [user |-> refresh[r].user, active |-> FALSE]
                                      ELSE refresh[x]]
  <2>1. refresh \in [Refreshes -> Refresh \union {Absent}]
    BY DEF TypeOK
  <2>2. refresh[r] \in Refresh
    BY <1>2, <2>1
  <2>3. /\ refresh[r] = [user |-> refresh[r].user, active |-> refresh[r].active]
        /\ refresh[r].user \in Users /\ refresh[r].active \in BOOLEAN
    BY <2>2 DEF Refresh
  <2>4. ASSUME NEW b PROVE [refresh[r] EXCEPT !.active = b] = [user |-> refresh[r].user, active |-> b]
    BY <2>3
  <2> QED BY <2>1, <2>3, <2>4
<1>3. ASSUME NEW k \in Codes, code[k] # Absent
      PROVE  /\ code[k].user \in Users /\ code[k].used \in BOOLEAN
             /\ [code EXCEPT ![k].used = TRUE] =
                  [x \in Codes |-> IF x = k THEN [user |-> code[k].user, used |-> TRUE]
                                  ELSE code[x]]
  <2>1. code \in [Codes -> Code \union {Absent}]
    BY DEF TypeOK
  <2>2. code[k] \in Code
    BY <1>3, <2>1
  <2>3. /\ code[k] = [user |-> code[k].user, used |-> code[k].used]
        /\ code[k].user \in Users /\ code[k].used \in BOOLEAN
    BY <2>2 DEF Code
  <2>4. ASSUME NEW b PROVE [code[k] EXCEPT !.used = b] = [user |-> code[k].user, used |-> b]
    BY <2>3
  <2> QED BY <2>1, <2>3, <2>4
<1> QED BY <1>1, <1>2, <1>3

-----------------------------------------------------------------------------
(* Where a request is.                                                     *)

\* The request goes on with c, if anything is left of it.
Went(p, c) ==
  /\ todo' = [q \in Procs |-> IF q = p THEN Tail(todo[p]) ELSE todo[q]]
  /\ local' = [q \in Procs |-> IF q # p THEN local[q] ELSE
                               IF Tail(todo[p]) = <<>> THEN Blank ELSE c]

\* The request is over.
Over(p) ==
  /\ todo' = [q \in Procs |-> IF q = p THEN <<>> ELSE todo[q]]
  /\ local' = [q \in Procs |-> IF q = p THEN Blank ELSE local[q]]

\* What is known of a request at call h.
LEMMA Located ==
  ASSUME TypeOK, Control, NEW p \in Procs, NEW h, At(p, h)
  PROVE  /\ local[p] \in Local /\ local[p].op \in Ops /\ local[p].op \in AllOps
         /\ todo[p] \in Remaining(local[p].op) /\ todo[p] # <<>> /\ Head(todo[p]) = h
         /\ Makes(local[p].op, h) /\ Knows(local[p], h) /\ h \in Calls
<1>1. Running(p) /\ Head(todo[p]) = h
  BY DEF At
<1>2. local[p].op \in Ops /\ todo[p] \in Remaining(local[p].op) /\ Knows(local[p], h)
  BY <1>1 DEF Control, Placed
<1>3. local[p].op \in AllOps
  BY <1>2, AccountsAssumption DEF AllOps
<1>4. todo[p] \in Seq(Calls) /\ todo[p] # <<>> /\ local[p] \in Local
  BY <1>1 DEF TypeOK, Running
<1>5. h \in Calls
  BY <1>1, <1>4
<1> QED BY <1>1, <1>2, <1>3, <1>4, <1>5, Remains

\* Continue, Read, Stop and Refuse, in terms of the request alone.
LEMMA Moved ==
  ASSUME TypeOK, Control, NEW p \in Procs, Running(p)
  PROVE  /\ \A c : Continue(p, c) => Went(p, c)
         /\ \A c : Read(p, c) => Went(p, c) /\ Quiet
         /\ Stop(p) => Over(p)
         /\ Refuse(p) => Over(p) /\ Quiet
<1>1. At(p, Head(todo[p]))
  BY DEF At
<1>2. Len(todo[p]) = 1 <=> Tail(todo[p]) = <<>>
  BY <1>1, Located, Remains
<1>3. todo \in [Procs -> Seq(Calls)] /\ local \in [Procs -> Local]
  BY DEF TypeOK
<1>4. \A c : Continue(p, c) => Went(p, c)
  BY <1>2, <1>3 DEF Continue, Went
<1>5. Stop(p) => Over(p)
  BY <1>3 DEF Stop, Over
<1> QED BY <1>4, <1>5 DEF Read, Refuse

-----------------------------------------------------------------------------
(* What the calls do to the tables.                                        *)

\* The types of all but the requests themselves.
TablesOK ==
  /\ user \in [Users -> User \union {Absent}]
  /\ refresh \in [Refreshes -> Refresh \union {Absent}]
  /\ code \in [Codes -> Code \union {Absent}]
  /\ orgs \subseteq Orgs
  /\ holder \in [Sessions -> Users \union {Null}]
  /\ cache \in [Sessions -> Current \union {Absent}]
  /\ expired \subseteq Sessions \union Refreshes \union Codes
  /\ chosen \in [Sessions -> Orgs \union {Null}]
  /\ ended \in [Users -> Nat] /\ redeemed \in [Codes -> Nat]
  /\ torn \subseteq Refreshes \union Codes
  /\ requests \in Nat /\ faults \in Nat /\ lapses \in Nat

\* Rows are not removed, and tokens and refresh tokens keep their owners.
Grows ==
  /\ \A s \in Sessions : holder[s] # Null => holder'[s] = holder[s]
  /\ \A u \in Users : user[u] # Absent => user'[u] # Absent
  /\ \A r \in Refreshes :
       refresh[r] # Absent => refresh'[r] # Absent /\ refresh'[r].user = refresh[r].user
  /\ \A k \in Codes : code[k] # Absent => code'[k] # Absent

\* Those that only look.
Looks(p) ==
  \/ Middleware(p) \/ Lookup(p) \/ Load(p) \/ Act(p) \/ FindUser(p) \/ FindNoUser(p)
  \/ CheckPassword(p) \/ FindOrCreate(p) \/ FindRefresh(p) \/ CheckCode(p)
  \/ GetOrganization(p) \/ GetUser(p) \/ DeleteOrganization(p)

\* They change no table.
LEMMA LooksQuiet == ASSUME NEW p \in Procs, Looks(p) PROVE Quiet
BY DEF Looks, Middleware, Lookup, Load, Act, FindUser, FindNoUser, CheckPassword, FindOrCreate,
       FindRefresh, CheckCode, GetOrganization, GetUser, DeleteOrganization, Read, Refuse

\* Whom a request acts for has a row wherever it needs one.
LEMMA Known ==
  ASSUME TypeOK, Control, NEW p \in Procs, NEW h, At(p, h)
  PROVE  /\ local[p].op \in SessionOps /\ h # "middleware" =>
              local[p].user \in Users /\ user[local[p].user] # Absent
         /\ local[p].op \in MailOps => local[p].user \in Users
         /\ h = "create_access" => local[p].user \in Users /\ user[local[p].user] # Absent
         /\ local[p].seen \in Current /\ local[p].password \in Passwords \union {Null}
         /\ local[p].new \in Passwords \union {Null} /\ local[p].org \in Orgs \union {Null}
<1>1. /\ local[p] \in Local /\ Informed(local[p], h, user, refresh, code, holder)
      /\ Makes(local[p].op, h)
  BY Located DEF Knows
<1>2. holder \in [Sessions -> Users \union {Null}] /\ Owned
  BY DEF TypeOK, Control
<1>3. \A r \in Refreshes : refresh[r] # Absent => refresh[r].user \in Users
  BY RowForms
<1>4. h = "create_access" => local[p].user \in Users /\ user[local[p].user] # Absent
  BY <1>1, <1>2, <1>3 DEF Informed, Makes, Owned
<1>5. local[p].op \in SessionOps /\ h # "middleware" =>
        local[p].user \in Users /\ user[local[p].user] # Absent
  BY <1>1, <1>2 DEF Informed, Owned
<1>6. local[p].op \in MailOps => local[p].user \in Users
  BY <1>1 DEF Informed
<1> QED BY <1>1, <1>4, <1>5, <1>6 DEF Local

\* A row that is written is a row, and is not Absent.
LEMMA RowsAreRows ==
  /\ \A w \in Passwords \union {Null}, o \in Current :
       [password |-> w, current |-> o] \in User /\ [password |-> w, current |-> o] # Absent
  /\ \A u \in Users, b \in BOOLEAN :
       /\ [user |-> u, active |-> b] \in Refresh /\ [user |-> u, active |-> b] # Absent
       /\ [user |-> u, used |-> b] \in Code /\ [user |-> u, used |-> b] # Absent
BY AccountsAssumption DEF User, Refresh, Code

\* A call on a table keeps the types, removes no row, and no owner is unknown.
LEMMA TablesStep ==
  ASSUME TypeOK, Control, NEW p \in Procs, Step(p)
  PROVE  TablesOK' /\ Grows /\ Owned'
<1>0. TablesOK /\ Owned
  BY DEF TypeOK, TablesOK, Control
<1>q. ASSUME Quiet PROVE TablesOK' /\ Grows /\ Owned'
  BY <1>0, <1>q DEF Quiet, TablesOK, Grows, Owned, dbVars, tokenVars, histories, bounds
<1> DEFINE c == local[p]
<1> USE DEF dbVars, tokenVars, histories, bounds
<1>1. CASE Admit(p)
  <2>1. c.seen \in Current
    BY <1>1, Known DEF Admit
  <2> QED BY <1>0, <1>1, <2>1 DEF Admit, TablesOK, Grows, Owned
<1>2. CASE CreateUser(p)
  <2>1. At(p, "create_user")
    BY <1>2 DEF CreateUser
  <2>2. c.op \in MailOps /\ c.password \in Passwords \union {Null} /\ c.user \in Users
    BY <2>1, Located, Known DEF Makes, MailOps
  <2>3. CASE NewUser(c.user, c.password) /\ user[c.user] = Absent
    <3>1. /\ user' = [user EXCEPT ![c.user] = [password |-> c.password, current |-> Unset]]
          /\ UNCHANGED <<refresh, code, orgs, tokenVars, cache, histories, bounds>>
      BY <1>2, <2>3 DEF CreateUser, NewUser, Refuse, Quiet
    <3>2. Unset \in Current
      BY DEF Current
    <3> DEFINE row == [password |-> c.password, current |-> Unset]
    <3>3. row \in User /\ row # Absent
      BY <2>2, <3>2, RowsAreRows
    <3>4. user' = [user EXCEPT ![c.user] = row]
      BY <3>1
    <3> HIDE DEF row, c
    <3>5. TablesOK'
      BY <1>0, <2>2, <3>1, <3>3, <3>4 DEF TablesOK
    <3>6. \A u \in Users : user[u] # Absent => user'[u] # Absent
      BY <1>0, <3>3, <3>4 DEF TablesOK
    <3> QED BY <1>0, <3>1, <3>5, <3>6 DEF Grows, Owned, TablesOK
  <2>4. CASE Quiet
    BY <1>q, <2>4
  <2> QED BY <1>2, <2>3, <2>4 DEF CreateUser, Refuse
<1>3. CASE CreateToken(p)
  <2>1. At(p, "create_token")
    BY <1>3 DEF CreateToken
  <2>2. c.op \in MailOps /\ c.user \in Users /\ user[c.user] # Absent /\ c.seen \in Current
    BY <2>1, Located, Known DEF Makes, MailOps, Knows, Informed
  <2>3. PICK r \in Refreshes, s \in Sessions :
          /\ refresh[r] = Absent
          /\ refresh' = [refresh EXCEPT ![r] = [user |-> c.user, active |-> TRUE]]
          /\ holder[s] \in {Null, c.user} /\ holder' = [holder EXCEPT ![s] = c.user]
          /\ cache' = IF c.op = "verify_email" THEN [cache EXCEPT ![s] = c.seen] ELSE cache
    BY <1>3 DEF CreateToken, NewAccess
  <2>4. UNCHANGED <<user, code, orgs, expired, histories, bounds>>
    BY <1>3 DEF CreateToken
  <2> DEFINE row == [user |-> c.user, active |-> TRUE]
  <2>5. row \in Refresh /\ row # Absent /\ row.user = c.user
    BY <2>2, RowsAreRows
  <2>6. refresh' = [refresh EXCEPT ![r] = row]
    BY <2>3
  <2> HIDE DEF row, c
  <2>7. TablesOK'
    <3>1. cache' \in [Sessions -> Current \union {Absent}]
      BY <1>0, <2>2, <2>3 DEF TablesOK
    <3> QED BY <1>0, <2>2, <2>3, <2>4, <2>5, <2>6, <3>1 DEF TablesOK
  <2>8. Grows
    BY <1>0, <2>3, <2>4, <2>6 DEF Grows, TablesOK
  <2>9. Owned'
    BY <1>0, <2>2, <2>3, <2>4, <2>5, <2>6 DEF Owned, TablesOK
  <2> QED BY <2>7, <2>8, <2>9
<1>4. CASE CreateAccess(p)
  <2>1. c.user \in Users /\ user[c.user] # Absent
    BY <1>4, Known DEF CreateAccess
  <2>2. PICK s \in Sessions : holder[s] \in {Null, c.user} /\ holder' = [holder EXCEPT ![s] = c.user]
    BY <1>4 DEF CreateAccess, NewAccess
  <2>3. UNCHANGED <<user, refresh, code, orgs, expired, cache, histories, bounds>>
    BY <1>4 DEF CreateAccess
  <2> QED BY <1>0, <2>1, <2>2, <2>3 DEF TablesOK, Grows, Owned
<1>5. CASE FindActive(p)
  <2>1. torn' \subseteq Refreshes \union Codes
    BY <1>0, <1>5 DEF FindActive, Refuse, Quiet, TablesOK
  <2>2. UNCHANGED <<dbVars, tokenVars, cache, chosen, ended, redeemed, bounds>>
    BY <1>5 DEF FindActive, Refuse, Quiet
  <2> QED BY <1>0, <2>1, <2>2 DEF TablesOK, Grows, Owned
<1>6. CASE Deactivate(p)
  <2>1. At(p, "deactivate")
    BY <1>6 DEF Deactivate
  <2>2. c.token \in Refreshes /\ refresh[c.token] # Absent
    BY <2>1, Located DEF Knows, Informed
  <2>3. /\ refresh[c.token].user \in Users
        /\ refresh' = [x \in Refreshes |-> IF x = c.token
                                           THEN [user |-> refresh[c.token].user, active |-> FALSE]
                                           ELSE refresh[x]]
    BY <1>6, <2>2, RowForms DEF Deactivate
  <2>4. /\ UNCHANGED <<user, code, orgs, tokenVars, cache, chosen, redeemed, torn, bounds>>
        /\ ended' = [ended EXCEPT ![c.user] = @ + 1]
    BY <1>6 DEF Deactivate
  <2> DEFINE row == [user |-> refresh[c.token].user, active |-> FALSE]
  <2>5. row \in Refresh /\ row # Absent /\ row.user = refresh[c.token].user
    BY <2>3, RowsAreRows
  <2>6. refresh' = [x \in Refreshes |-> IF x = c.token THEN row ELSE refresh[x]]
    BY <2>3
  <2>a. c.user \in Users
    BY <2>1, <2>3, Located DEF Knows, Informed
  <2> HIDE DEF row, c
  <2>7. ended' \in [Users -> Nat]
    BY <1>0, <2>4, <2>a DEF TablesOK
  <2>8. TablesOK'
    BY <1>0, <2>4, <2>5, <2>6, <2>7 DEF TablesOK
  <2>9. Grows
    BY <1>0, <2>4, <2>5, <2>6 DEF Grows, TablesOK
  <2>b. \A r \in Refreshes : refresh'[r] # Absent => refresh[r] # Absent
    BY <2>2, <2>6
  <2>c. Owned'
    BY <1>0, <2>4, <2>9, <2>b DEF Owned, Grows, tokenVars
  <2> QED BY <2>8, <2>9, <2>c
<1>7. CASE CreateCode(p)
  <2>1. At(p, "create_code")
    BY <1>7 DEF CreateCode
  <2>2. c.user \in Users
    BY <2>1, Located, Known DEF Makes, MailOps
  <2>3. PICK k \in Codes : /\ code[k] = Absent
                           /\ code' = [code EXCEPT ![k] = [user |-> c.user, used |-> FALSE]]
    BY <1>7 DEF CreateCode
  <2>4. UNCHANGED <<user, refresh, orgs, tokenVars, cache, histories, bounds>>
    BY <1>7 DEF CreateCode
  <2> DEFINE row == [user |-> c.user, used |-> FALSE]
  <2>5. row \in Code /\ code' = [code EXCEPT ![k] = row]
    BY <2>2, <2>3, RowsAreRows
  <2> HIDE DEF row, c
  <2> QED BY <1>0, <2>3, <2>4, <2>5 DEF TablesOK, Grows, Owned
<1>8. CASE FindCode(p)
  <2>0. At(p, "find_code")
    BY <1>8 DEF FindCode
  <2>1. c.token \in Codes
    BY <2>0, Located DEF Makes, Knows, Informed
  <2>2. torn' \subseteq Refreshes \union Codes
    BY <1>0, <1>8, <2>1 DEF FindCode, Refuse, Quiet, TablesOK
  <2>3. UNCHANGED <<dbVars, tokenVars, cache, chosen, ended, redeemed, bounds>>
    BY <1>8 DEF FindCode, Refuse, Quiet
  <2> QED BY <1>0, <2>2, <2>3 DEF TablesOK, Grows, Owned
<1>9. CASE UseCode(p)
  <2>1. At(p, "use_code")
    BY <1>9 DEF UseCode
  <2>2. c.token \in Codes /\ code[c.token] # Absent
    BY <2>1, Located DEF Makes, Knows, Informed
  <2>3. /\ code[c.token].user \in Users
        /\ code' = [x \in Codes |-> IF x = c.token THEN [user |-> code[c.token].user, used |-> TRUE]
                                    ELSE code[x]]
    BY <1>9, <2>2, RowForms DEF UseCode
  <2>4. UNCHANGED <<user, refresh, orgs, tokenVars, cache, histories, bounds>>
    BY <1>9 DEF UseCode
  <2> DEFINE row == [user |-> code[c.token].user, used |-> TRUE]
  <2>5. row \in Code /\ row # Absent
    BY <2>3, RowsAreRows
  <2>6. code' = [x \in Codes |-> IF x = c.token THEN row ELSE code[x]]
    BY <2>3
  <2> HIDE DEF row, c
  <2> QED BY <1>0, <2>4, <2>5, <2>6 DEF TablesOK, Grows, Owned
<1>10. CASE SetVerified(p)
  <2>1. redeemed' \in [Codes -> Nat]
    BY <1>0, <1>10 DEF SetVerified, Redeem, TablesOK
  <2>2. UNCHANGED <<dbVars, tokenVars, cache, chosen, ended, torn, bounds>>
    BY <1>10 DEF SetVerified
  <2> QED BY <1>0, <2>1, <2>2 DEF TablesOK, Grows, Owned
<1>11. CASE SetPassword(p)
  <2>1. At(p, "set_password")
    BY <1>11 DEF SetPassword
  <2>2. /\ c.user \in Users /\ user[c.user] # Absent /\ c.new \in Passwords \union {Null}
    BY <2>1, Located, Known DEF Makes, MailOps, SessionOps, Knows, Informed
  <2>3. HasRow(c.user, c.new, user[c.user].current) /\ user[c.user].current \in Current
    BY <1>11, <2>2, RowForms DEF SetPassword
  <2>4. redeemed' \in [Codes -> Nat]
    BY <1>0, <1>11 DEF SetPassword, Redeem, TablesOK
  <2>5. UNCHANGED <<refresh, code, orgs, tokenVars, cache, chosen, ended, torn, bounds>>
    BY <1>11 DEF SetPassword
  <2>6. user' \in [Users -> User \union {Absent}] /\ \A u \in Users : user[u] # Absent => user'[u] # Absent
    BY <1>0, <2>2, <2>3, RowsAreRows DEF HasRow, TablesOK
  <2>7. TablesOK'
    BY <1>0, <2>4, <2>5, <2>6 DEF TablesOK
  <2>8. Grows /\ Owned'
    BY <1>0, <2>5, <2>6 DEF TablesOK, Grows, Owned, Refresh
  <2> QED BY <2>7, <2>8
<1>12. CASE CreateOrganization(p)
  <2>1. orgs' \subseteq Orgs
    BY <1>0, <1>12 DEF CreateOrganization, Refuse, Quiet, TablesOK
  <2>2. UNCHANGED <<user, refresh, code, tokenVars, cache, histories, bounds>>
    BY <1>12 DEF CreateOrganization, Refuse, Quiet
  <2> QED BY <1>0, <2>1, <2>2 DEF TablesOK, Grows, Owned
<1>13. CASE SetCurrent(p)
  <2>1. At(p, "set_current")
    BY <1>13 DEF SetCurrent
  <2>2. /\ c.user \in Users /\ user[c.user] # Absent /\ c.org \in Current
    BY <2>1, Located, Known DEF Makes, SessionOps, Current
  <2>3. HasRow(c.user, user[c.user].password, c.org) /\ user[c.user].password \in Passwords \union {Null}
    BY <1>13, <2>2, RowForms DEF SetCurrent
  <2>4. chosen' = [s \in Sessions |-> IF holder[s] = c.user THEN Null ELSE chosen[s]]
    BY <1>13 DEF SetCurrent
  <2>5. UNCHANGED <<refresh, code, orgs, tokenVars, cache, ended, redeemed, torn, bounds>>
    BY <1>13 DEF SetCurrent
  <2>6. user' \in [Users -> User \union {Absent}] /\ \A u \in Users : user[u] # Absent => user'[u] # Absent
    BY <1>0, <2>2, <2>3, RowsAreRows DEF HasRow, TablesOK
  <2>7. chosen' \in [Sessions -> Orgs \union {Null}]
    BY <1>0, <2>4 DEF TablesOK
  <2>8. TablesOK'
    BY <1>0, <2>5, <2>6, <2>7 DEF TablesOK
  <2>9. Grows /\ Owned'
    BY <1>0, <2>5, <2>6 DEF TablesOK, Grows, Owned, Refresh
  <2> QED BY <2>8, <2>9
<1>14. CASE UpdateCache(p)
  <2>1. c.seen \in Current
    BY <1>14, Known DEF UpdateCache
  <2>2. /\ cache' = [cache EXCEPT ![c.session] = c.seen]
        /\ chosen' = [chosen EXCEPT ![c.session] =
                        IF c.seen \notin Orgs \/ Overtaken(p) THEN Null ELSE c.seen]
        /\ UNCHANGED <<dbVars, tokenVars, ended, redeemed, torn, bounds>>
    BY <1>14 DEF UpdateCache
  <2> HIDE DEF c
  <2>3. cache' \in [Sessions -> Current \union {Absent}]
    BY <1>0, <2>1, <2>2 DEF TablesOK
  <2>4. chosen' \in [Sessions -> Orgs \union {Null}]
    BY <1>0, <2>2 DEF TablesOK
  <2> QED BY <1>0, <2>2, <2>3, <2>4 DEF TablesOK, Grows, Owned
<1>15. CASE Looks(p)
  BY <1>15, LooksQuiet, <1>q
<1> QED BY <1>1, <1>2, <1>3, <1>4, <1>5, <1>6, <1>7, <1>8, <1>9, <1>10, <1>11, <1>12, <1>13,
           <1>14, <1>15 DEF Step, Looks

\* A commit whose refresh raised keeps them too, and the request is over.
LEMMA LateStep ==
  ASSUME TypeOK, Control, NEW p \in Procs, FailAfter(p)
  PROVE  TablesOK' /\ Grows /\ Owned' /\ Over(p)
<1>0. TablesOK /\ Owned
  BY DEF TypeOK, TablesOK, Control
<1>a. /\ user \in [Users -> User \union {Absent}] /\ orgs \subseteq Orgs
      /\ refresh \in [Refreshes -> Refresh \union {Absent}]
      /\ code \in [Codes -> Code \union {Absent}] /\ torn \subseteq Refreshes \union Codes
      /\ chosen \in [Sessions -> Orgs \union {Null}] /\ redeemed \in [Codes -> Nat]
      /\ \A r \in Refreshes : refresh[r] # Absent => user[refresh[r].user] # Absent
  BY <1>0 DEF TablesOK, Owned
<1> DEFINE c == local[p]
<1> USE DEF dbVars, tokenVars, histories, bounds
<1>r. Running(p) /\ Stop(p)
  BY DEF FailAfter, CommitUser, CommitToken, At
<1>o. SUFFICES TablesOK' /\ Grows /\ Owned'
  BY <1>r, Moved
<1>f. faults' \in Nat /\ UNCHANGED <<tokenVars, cache, ended, requests, lapses>>
  BY <1>0 DEF FailAfter, TablesOK
<1> DEFINE Rows == /\ user' \in [Users -> User \union {Absent}] /\ orgs' \subseteq Orgs
                   /\ \A u \in Users : user[u] # Absent => user'[u] # Absent
           Effects == chosen' \in [Sessions -> Orgs \union {Null}] /\ redeemed' \in [Codes -> Nat]
<1>u. ASSUME Rows, Effects, UNCHANGED <<refresh, code, torn>>
      PROVE  TablesOK' /\ Grows /\ Owned'
  <2>1. TablesOK'
    BY <1>0, <1>f, <1>u DEF TablesOK
  <2>2. Grows /\ Owned'
    BY <1>0, <1>f, <1>u DEF TablesOK, Grows, Owned, Refresh
  <2> QED BY <2>1, <2>2
<1> HIDE DEF Rows, Effects
<1>1. CASE CommitUser(p)
  <2>0. UNCHANGED <<refresh, code, torn>>
    BY <1>1 DEF CommitUser
  <2>1. CASE At(p, "create_user") /\ user[c.user] = Absent /\ NewUser(c.user, c.password)
             /\ UNCHANGED <<orgs, chosen, redeemed>>
    <3>1. c.password \in Passwords \union {Null} /\ c.user \in Users
      BY <2>1, Located, Known DEF Makes, MailOps
    <3>2. Unset \in Current
      BY DEF Current
    <3> DEFINE row == [password |-> c.password, current |-> Unset]
    <3>3. row \in User /\ row # Absent
      BY <3>1, <3>2, RowsAreRows
    <3>4. user' = [user EXCEPT ![c.user] = row]
      BY <2>1 DEF NewUser
    <3> HIDE DEF row
    <3>5. user' \in [Users -> User \union {Absent}] /\ \A u \in Users : user[u] # Absent => user'[u] # Absent
      BY <1>0, <3>3, <3>4 DEF TablesOK
    <3>6. Rows /\ Effects
      BY <1>a, <2>1, <3>5 DEF Rows, Effects
    <3> QED BY <1>u, <2>0, <3>6
  <2>2. CASE At(p, "set_verified") /\ Redeem(c.token) /\ UNCHANGED <<user, orgs, chosen>>
    <3>1. redeemed' \in [Codes -> Nat]
      BY <1>0, <2>2 DEF Redeem, TablesOK
    <3>2. Rows /\ Effects
      BY <1>a, <2>2, <3>1 DEF Rows, Effects
    <3> QED BY <1>u, <2>0, <3>2
  <2>3. CASE At(p, "set_password") /\ user' = [user EXCEPT ![c.user].password = c.new]
             /\ Redeem(c.token) /\ UNCHANGED <<orgs, chosen>>
    <3>1. /\ c.user \in Users /\ user[c.user] # Absent /\ c.new \in Passwords \union {Null}
      BY <2>3, Located, Known DEF Makes, MailOps, SessionOps, Knows, Informed
    <3>2. HasRow(c.user, c.new, user[c.user].current) /\ user[c.user].current \in Current
      BY <2>3, <3>1, RowForms
    <3>3. redeemed' \in [Codes -> Nat]
      BY <1>0, <2>3 DEF Redeem, TablesOK
    <3>4. user' \in [Users -> User \union {Absent}] /\ \A u \in Users : user[u] # Absent => user'[u] # Absent
      BY <1>0, <3>1, <3>2, RowsAreRows DEF HasRow, TablesOK
    <3>5. Rows /\ Effects
      BY <1>a, <2>3, <3>3, <3>4 DEF Rows, Effects
    <3> QED BY <1>u, <2>0, <3>5
  <2>4. CASE (\E o \in Orgs \ orgs : orgs' = orgs \union {o}) /\ UNCHANGED <<user, chosen, redeemed>>
    <3>1. orgs' \subseteq Orgs
      BY <1>0, <2>4 DEF TablesOK
    <3>2. user' = user /\ chosen' = chosen /\ redeemed' = redeemed
      BY <2>4
    <3>3. Rows /\ Effects
      BY <1>a, <3>1, <3>2 DEF Rows, Effects
    <3> QED BY <1>u, <2>0, <3>3
  <2>5. CASE /\ At(p, "set_current") /\ user' = [user EXCEPT ![c.user].current = c.org]
             /\ chosen' = [s \in Sessions |-> IF holder[s] = c.user THEN Null ELSE chosen[s]]
             /\ UNCHANGED <<orgs, redeemed>>
    <3>1. /\ c.user \in Users /\ user[c.user] # Absent /\ c.org \in Current
      BY <2>5, Located, Known DEF Makes, SessionOps, Current
    <3>2. HasRow(c.user, user[c.user].password, c.org) /\ user[c.user].password \in Passwords \union {Null}
      BY <2>5, <3>1, RowForms
    <3>3. chosen' \in [Sessions -> Orgs \union {Null}]
      BY <1>0, <2>5 DEF TablesOK
    <3>4. user' \in [Users -> User \union {Absent}] /\ \A u \in Users : user[u] # Absent => user'[u] # Absent
      BY <1>0, <3>1, <3>2, RowsAreRows DEF HasRow, TablesOK
    <3>5. orgs' = orgs /\ redeemed' = redeemed
      BY <2>5
    <3>6. Rows /\ Effects
      BY <1>a, <3>3, <3>4, <3>5 DEF Rows, Effects
    <3> QED BY <1>u, <2>0, <3>6
  <2> QED BY <1>1, <2>1, <2>2, <2>3, <2>4, <2>5 DEF CommitUser
<1>2. CASE CommitToken(p)
  <2>0. UNCHANGED <<user, orgs, chosen, redeemed>>
    BY <1>2 DEF CommitToken
  <2> DEFINE Tokens == /\ refresh' \in [Refreshes -> Refresh \union {Absent}]
                       /\ \A r \in Refreshes : refresh[r] # Absent =>
                            refresh'[r] # Absent /\ refresh'[r].user = refresh[r].user
                       /\ \A r \in Refreshes : refresh'[r] # Absent =>
                            user[refresh'[r].user] # Absent
             Verifiers == /\ code' \in [Codes -> Code \union {Absent}]
                          /\ torn' \subseteq Refreshes \union Codes
                          /\ \A k \in Codes : code[k] # Absent => code'[k] # Absent
  <2>t. ASSUME Tokens, Verifiers
        PROVE  TablesOK' /\ Grows /\ Owned'
    <3>1. TablesOK'
      BY <1>0, <1>f, <2>0, <2>t DEF TablesOK
    <3>2. Grows /\ Owned'
      BY <1>0, <1>f, <2>0, <2>t DEF Grows, Owned
    <3> QED BY <3>1, <3>2
  <2> HIDE DEF Tokens, Verifiers
  <2>1. CASE /\ At(p, "create_token")
             /\ \E r \in Refreshes :
                  /\ refresh[r] = Absent
                  /\ refresh' = [refresh EXCEPT ![r] = [user |-> c.user, active |-> TRUE]]
             /\ UNCHANGED <<code, torn>>
    <3>1. c.user \in Users /\ user[c.user] # Absent
      BY <2>1, Located, Known DEF Makes, MailOps, Knows, Informed
    <3> DEFINE row == [user |-> c.user, active |-> TRUE]
    <3>2. row \in Refresh /\ row # Absent /\ row.user = c.user
      BY <3>1, RowsAreRows
    <3>3. PICK r \in Refreshes : refresh[r] = Absent /\ refresh' = [refresh EXCEPT ![r] = row]
      BY <2>1
    <3> HIDE DEF row
    <3>4. /\ refresh' \in [Refreshes -> Refresh \union {Absent}] /\ refresh'[r] = row
          /\ \A x \in Refreshes \ {r} : refresh'[x] = refresh[x]
      BY <1>0, <3>2, <3>3 DEF TablesOK
    <3>5. \A x \in Refreshes : refresh'[x] # Absent => user[refresh'[x].user] # Absent
      BY <1>0, <3>1, <3>2, <3>4 DEF Owned
    <3>6. code' = code /\ torn' = torn
      BY <2>1
    <3>7. \A x \in Refreshes : refresh[x] # Absent =>
            refresh'[x] # Absent /\ refresh'[x].user = refresh[x].user
      BY <3>3, <3>4
    <3>8. Tokens
      BY <3>4, <3>5, <3>7 DEF Tokens
    <3>9. Verifiers
      BY <1>a, <3>6 DEF Verifiers
    <3> QED BY <2>t, <3>8, <3>9
  <2>2. CASE /\ At(p, "create_code")
             /\ \E k \in Codes :
                  /\ code[k] = Absent
                  /\ code' = [code EXCEPT ![k] = [user |-> c.user, used |-> FALSE]]
             /\ UNCHANGED <<refresh, torn>>
    <3>1. c.user \in Users
      BY <2>2, Located, Known DEF Makes, MailOps
    <3> DEFINE row == [user |-> c.user, used |-> FALSE]
    <3>2. row \in Code
      BY <3>1, RowsAreRows
    <3>3. PICK k \in Codes : code[k] = Absent /\ code' = [code EXCEPT ![k] = row]
      BY <2>2
    <3> HIDE DEF row
    <3>4. /\ code' \in [Codes -> Code \union {Absent}]
          /\ \A x \in Codes : code[x] # Absent => code'[x] # Absent
      BY <1>0, <3>2, <3>3 DEF TablesOK
    <3>5. refresh' = refresh /\ torn' = torn
      BY <2>2
    <3>6. Tokens
      BY <1>a, <3>5 DEF Tokens
    <3>7. Verifiers
      BY <1>a, <3>4, <3>5 DEF Verifiers
    <3> QED BY <2>t, <3>6, <3>7
  <2>3. CASE /\ At(p, "deactivate") /\ refresh' = [refresh EXCEPT ![c.token].active = FALSE]
             /\ torn' = torn \union {c.token} /\ UNCHANGED code
    <3>1. c.token \in Refreshes /\ refresh[c.token] # Absent
      BY <2>3, Located DEF Knows, Informed
    <3> DEFINE row == [user |-> refresh[c.token].user, active |-> FALSE]
    <3>2. row \in Refresh /\ row # Absent /\ row.user = refresh[c.token].user
      BY <3>1, RowForms, RowsAreRows
    <3>3. refresh' = [x \in Refreshes |-> IF x = c.token THEN row ELSE refresh[x]]
      BY <2>3, <3>1, RowForms
    <3> HIDE DEF row, c
    <3>4. /\ refresh' \in [Refreshes -> Refresh \union {Absent}]
          /\ \A x \in Refreshes : /\ refresh[x] # Absent <=> refresh'[x] # Absent
                                  /\ refresh[x] # Absent => refresh'[x].user = refresh[x].user
      BY <1>0, <3>1, <3>2, <3>3 DEF TablesOK
    <3>5. torn' \subseteq Refreshes \union Codes
      BY <1>0, <2>3, <3>1 DEF TablesOK
    <3>6. \A x \in Refreshes : refresh'[x] # Absent => user[refresh'[x].user] # Absent
      BY <1>0, <3>4 DEF Owned
    <3>7. code' = code
      BY <2>3
    <3>8. \A x \in Refreshes : refresh[x] # Absent =>
            refresh'[x] # Absent /\ refresh'[x].user = refresh[x].user
      BY <3>4
    <3>9. Tokens
      BY <3>4, <3>6, <3>8 DEF Tokens
    <3>10. Verifiers
      BY <1>a, <3>5, <3>7 DEF Verifiers
    <3> QED BY <2>t, <3>9, <3>10
  <2>4. CASE /\ At(p, "use_code") /\ code' = [code EXCEPT ![c.token].used = TRUE]
             /\ torn' = torn \union {c.token} /\ UNCHANGED refresh
    <3>1. c.token \in Codes /\ code[c.token] # Absent
      BY <2>4, Located DEF Makes, Knows, Informed
    <3> DEFINE row == [user |-> code[c.token].user, used |-> TRUE]
    <3>2. row \in Code /\ row # Absent
      BY <3>1, RowForms, RowsAreRows
    <3>3. code' = [x \in Codes |-> IF x = c.token THEN row ELSE code[x]]
      BY <2>4, <3>1, RowForms
    <3> HIDE DEF row, c
    <3>4. /\ code' \in [Codes -> Code \union {Absent}]
          /\ \A x \in Codes : code[x] # Absent => code'[x] # Absent
      BY <1>0, <3>2, <3>3 DEF TablesOK
    <3>5. torn' \subseteq Refreshes \union Codes
      BY <1>0, <2>4, <3>1 DEF TablesOK
    <3>6. refresh' = refresh
      BY <2>4
    <3>7. Tokens
      BY <1>a, <3>6 DEF Tokens
    <3>8. Verifiers
      BY <1>a, <3>4, <3>5 DEF Verifiers
    <3> QED BY <2>t, <3>7, <3>8
  <2> QED BY <1>2, <2>1, <2>2, <2>3, <2>4 DEF CommitToken
<1> QED BY <1>1, <1>2 DEF FailAfter

-----------------------------------------------------------------------------
(* What the calls do to the request.                                       *)

\* The variables d are those of c but for what was loaded.
Alike(c, d) ==
  d \in Local /\ d.op = c.op /\ d.session = c.session /\ d.token = c.token /\ d.user = c.user

\* Assignments that keep the operation, the session, the token and the user.
LEMMA Altered ==
  ASSUME NEW c \in Local
  PROVE  /\ Alike(c, c)
         /\ \A v \in Current : /\ Alike(c, [c EXCEPT !.seen = v])
                               /\ Alike(c, Admitted(c, v))
         /\ \A v \in BOOLEAN : Alike(c, [c EXCEPT !.found = v])
         /\ \A v \in Orgs \union {Null} : Alike(c, [c EXCEPT !.org = v])
<1>1. Alike(c, c)
  BY DEF Alike
<1>2. ASSUME NEW v \in Current PROVE Alike(c, [c EXCEPT !.seen = v])
  BY Assigned DEF Var, Local, Alike
<1>3. ASSUME NEW v \in Current PROVE Alike(c, Admitted(c, v))
  <2> DEFINE t == IF v \in Orgs THEN v ELSE c.tenant
  <2>1. t \in Orgs \union {Null}
    BY DEF Local
  <2>2. Admitted(c, v) = Var(c.op, c.user, c.session, c.password, c.new, c.token, c.org, t, v, TRUE)
    BY Assigned
  <2> HIDE DEF t
  <2> QED BY <2>1, <2>2 DEF Var, Local, Alike
<1>4. ASSUME NEW v \in BOOLEAN PROVE Alike(c, [c EXCEPT !.found = v])
  BY Assigned DEF Var, Local, Alike
<1>5. ASSUME NEW v \in Orgs \union {Null} PROVE Alike(c, [c EXCEPT !.org = v])
  BY Assigned DEF Var, Local, Alike
<1> QED BY <1>1, <1>2, <1>3, <1>4, <1>5

\* The variables of no request have their types.
LEMMA BlankLocal == Blank \in Local
BY DEF Blank, Local, Current

\* A request that nothing happened to is still well placed.
LEMMA Stays ==
  ASSUME TypeOK, Control, Grows, NEW p \in Procs, NEW h, At(p, h)
  PROVE  Informed(local[p], h, user', refresh', code', holder')
<1>1. Informed(local[p], h, user, refresh, code, holder) /\ Makes(local[p].op, h)
  BY Located DEF Knows
<1>2. h \in {"create_token", "find_code", "use_code", "set_verified", "set_password"} =>
        local[p].user \in Users
  BY <1>1, Known DEF Makes, SessionOps, MailOps
<1> QED BY <1>1, <1>2 DEF Informed, Grows

\* Rows are not removed, so a request that does not move stays well placed.
LEMMA StaysPlaced ==
  ASSUME TypeOK, Control, Grows, NEW q \in Procs, todo'[q] = todo[q], local'[q] = local[q]
  PROVE  Placed(q)'
<1>1. CASE Running(q)
  <2>1. At(q, Head(todo[q]))
    BY <1>1 DEF At
  <2>2. Informed(local[q], Head(todo[q]), user', refresh', code', holder')
    BY <2>1, Stays
  <2> QED BY <1>1, <2>1, <2>2, Located DEF Placed, Running, Knows
<1>2. CASE ~Running(q)
  BY <1>2 DEF Control, Placed, Running
<1> QED BY <1>1, <1>2

\* The request is well formed and well placed after the step, as all others.
Settles(p) ==
  /\ todo' \in [Procs -> Seq(Calls)] /\ local' \in [Procs -> Local]
  /\ \A q \in Procs : Placed(q)'

\* Its variables are the same but for what was looked up, and one call comes
\* after the other.
Proceeds(p) ==
  LET h == Head(todo[p])
      n == Head(todo'[p])
  IN  todo'[p] # <<>> =>
        /\ local'[p].op = local[p].op /\ local'[p].session = local[p].session
        /\ h # "find_active" => local'[p].token = local[p].token
        /\ h \notin {"middleware", "find_refresh"} => local'[p].user = local[p].user
        /\ \/ Follows(h, n)
           \/ h = "lookup" /\ n \in Handling
           \/ h = "find_or_create" /\ n = "create_user"

\* Nothing else moves.
Alone(p) == \A q \in Procs \ {p} : todo'[q] = todo[q] /\ local'[q] = local[q]

\* How a call leaves its request and the others.
Lands(p) == Settles(p) /\ Proceeds(p) /\ Alone(p)

\* A request that is over has nothing to know.
LEMMA Ends ==
  ASSUME TypeOK, Control, Grows, NEW p \in Procs, Over(p)
  PROVE  Lands(p)
<1>1. todo \in [Procs -> Seq(Calls)] /\ local \in [Procs -> Local]
  BY DEF TypeOK
<1>2. \A q \in Procs \ {p} : Placed(q)'
  BY StaysPlaced DEF Over
<1>3. Placed(p)'
  BY DEF Over, Placed, Running
<1>4. <<>> \in Seq(Calls)
  OBVIOUS
<1>5. Settles(p)
  BY <1>1, <1>2, <1>3, <1>4, BlankLocal DEF Over, Settles
<1>6. Proceeds(p) /\ Alone(p)
  BY DEF Over, Proceeds, Alone
<1> QED BY <1>5, <1>6 DEF Lands

\* It goes on, or is over, with variables that fit what comes next.
LEMMA Arrives ==
  ASSUME TypeOK, Control, Grows, NEW p \in Procs, NEW h, At(p, h),
         NEW d \in Local, Went(p, d),
         d.op = local[p].op, d.session = local[p].session,
         h # "find_active" => d.token = local[p].token,
         h \notin {"middleware", "find_refresh"} => d.user = local[p].user,
         \A n : Follows(h, n) /\ Makes(d.op, n) => Informed(d, n, user', refresh', code', holder')
  PROVE  Lands(p)
<1>1. todo \in [Procs -> Seq(Calls)] /\ local \in [Procs -> Local]
  BY DEF TypeOK
<1>2. \A q \in Procs \ {p} : Placed(q)'
  BY StaysPlaced DEF Went
<1> DEFINE rest == Tail(todo[p])
<1>3. /\ d.op \in Ops /\ d.op \in AllOps
      /\ rest # <<>> => rest \in Remaining(d.op) /\ Follows(h, Head(rest)) /\ Makes(d.op, Head(rest))
      /\ rest \in Seq(Calls)
  <2>1. /\ d.op \in Ops /\ d.op \in AllOps /\ todo[p] \in Remaining(d.op) /\ Head(todo[p]) = h
    BY Located
  <2>2. rest # <<>> => rest \in Remaining(d.op) /\ Follows(h, Head(rest))
    BY <2>1, Remains
  <2>3. rest # <<>> => Makes(d.op, Head(rest)) /\ rest \in Seq(Calls)
    BY <2>1, <2>2, Remains
  <2> HIDE DEF rest
  <2>4. rest = <<>> => rest \in Seq(Calls)
    OBVIOUS
  <2> QED BY <2>1, <2>2, <2>3, <2>4
<1>4. todo'[p] = rest /\ local'[p] = IF rest = <<>> THEN Blank ELSE d
  BY DEF Went
<1> HIDE DEF rest
<1>5. Placed(p)'
  BY <1>3, <1>4 DEF Placed, Running, Knows
<1>6. todo' \in [Procs -> Seq(Calls)]
  BY <1>1, <1>3, <1>4 DEF Went
<1>7. local' \in [Procs -> Local]
  BY <1>1, <1>4, BlankLocal DEF Went
<1>8. Proceeds(p)
  <2>1. Head(todo[p]) = h
    BY DEF At
  <2> QED BY <1>3, <1>4, <2>1 DEF Proceeds
<1>9. Alone(p)
  BY DEF Went, Alone
<1> QED BY <1>2, <1>5, <1>6, <1>7, <1>8, <1>9 DEF Settles, Lands

\* Most calls change nothing of what the next one needs to know.
LEMMA Onward ==
  ASSUME TypeOK, Control, Grows, NEW p \in Procs, NEW h, At(p, h),
         NEW d, Alike(local[p], d), Went(p, d),
         h \notin {"middleware", "find_active", "find_refresh"},
         h \in {"check_password", "find_or_create", "create_user", "find_user"} =>
           user'[local[p].user] # Absent
  PROVE  Lands(p)
<1> DEFINE c == local[p]
<1>1. Informed(c, h, user', refresh', code', holder') /\ Makes(c.op, h) /\ h \in Calls
  BY Stays, Located
<1>2. d \in Local /\ d.op = c.op /\ d.session = c.session /\ d.token = c.token /\ d.user = c.user
  BY DEF Alike
<1>3. h = "check_code" => user'[c.user] # Absent
  BY <1>1, Known DEF Grows, Makes, SessionOps
<1> HIDE DEF c
<1>4. ASSUME NEW n, Follows(h, n), Makes(d.op, n)
      PROVE  Informed(d, n, user', refresh', code', holder')
  <2>1. n \notin {"deactivate", "create_access"}
    BY <1>1, <1>4 DEF Follows, Handling, Calls
  <2>2. n \in {"create_token", "find_code", "use_code", "set_verified", "set_password"} =>
          user'[c.user] # Absent
    BY <1>1, <1>3, <1>4 DEF Follows, Handling, Informed, Calls, c
  <2> QED BY <1>1, <1>2, <2>1, <2>2 DEF Informed
<1> QED BY <1>2, <1>4, Arrives DEF c

\* Every call leaves its request well placed.
LEMMA StepSettles ==
  ASSUME TypeOK, Control, NEW p \in Procs, Step(p)
  PROVE  Lands(p)
<1>1. Grows /\ TablesOK'
  BY TablesStep
<1> DEFINE c == local[p]
<1>2. Running(p) /\ c \in Local
  BY DEF TypeOK, Step, At, Middleware, Lookup, Load, Admit, Act, FindUser, FindNoUser, CheckPassword,
         CreateUser, FindOrCreate, CreateToken, FindRefresh, CreateAccess, FindActive, Deactivate,
         CreateCode, FindCode, UseCode, CheckCode, SetVerified, SetPassword, GetOrganization,
         CreateOrganization, GetUser, DeleteOrganization, SetCurrent, UpdateCache
<1>3. Alike(c, c)
  BY <1>2, Altered
<1>4. Stop(p) \/ Refuse(p) => Lands(p)
  BY <1>1, <1>2, Moved, Ends
<1>5. \A d : Continue(p, d) \/ Read(p, d) => Went(p, d)
  BY <1>2, Moved
<1>6. ASSUME NEW h, At(p, h), Went(p, c),
             h \notin {"middleware", "find_active", "find_refresh"},
             h \in {"check_password", "find_or_create", "create_user", "find_user"} =>
               user'[c.user] # Absent
      PROVE  Lands(p)
  BY <1>1, <1>3, <1>6, Onward
<1>7. user[c.user] # Absent /\ Quiet => user'[c.user] # Absent
  BY DEF Quiet, dbVars
<1>8. \A u \in Users : user[u] # Absent => user[u].current \in Current
  BY RowForms
<1> HIDE DEF c
<1>10. CASE Act(p) \/ UpdateCache(p) \/ SetPassword(p) \/ UseCode(p) \/ CreateCode(p)
            \/ Deactivate(p) \/ CreateAccess(p) \/ CreateToken(p)
  <2>1. \E h \in {"act", "update_cache", "set_password", "use_code", "create_code",
                 "deactivate", "create_access", "create_token"} : At(p, h) /\ Went(p, c)
    BY <1>10, <1>5 DEF Act, UpdateCache, SetPassword, UseCode, CreateCode, Deactivate,
                       CreateAccess, CreateToken, c
  <2> QED BY <1>6, <2>1
<1>11. CASE FindUser(p) \/ FindNoUser(p) \/ CheckPassword(p) \/ CheckCode(p)
  <2>1. \/ Refuse(p)
        \/ \E h :
             /\ At(p, h) /\ Read(p, c)
             /\ h \in {"find_user", "find_no_user", "check_password", "check_code"}
             /\ h \in {"find_user", "check_password"} => user[c.user] # Absent
    BY <1>11 DEF FindUser, FindNoUser, CheckPassword, CheckCode, c
  <2>2. CASE Refuse(p)
    BY <1>4, <2>2
  <2>3. ASSUME NEW h, At(p, h), Read(p, c),
               h \in {"find_user", "find_no_user", "check_password", "check_code"},
               h \in {"find_user", "check_password"} => user[c.user] # Absent
        PROVE  Lands(p)
    <3>1. Went(p, c) /\ Quiet
      BY <1>5, <2>3 DEF Read
    <3> QED BY <1>6, <1>7, <2>3, <3>1
  <2>4. CASE ~Refuse(p)
    <3>1. PICK h : /\ At(p, h) /\ Read(p, c)
                   /\ h \in {"find_user", "find_no_user", "check_password", "check_code"}
                   /\ h \in {"find_user", "check_password"} => user[c.user] # Absent
      BY <2>1, <2>4
    <3> QED BY <2>3, <3>1
  <2> QED BY <2>2, <2>4
<1>12. CASE CreateUser(p)
  <2>1. CASE Refuse(p)
    BY <1>4, <2>1
  <2>2. CASE Continue(p, c) /\ NewUser(c.user, c.password)
    <3>1. At(p, "create_user")
      BY <1>12 DEF CreateUser
    <3>2. c.user \in Users /\ c.password \in Passwords \union {Null}
      BY <3>1, Located, Known DEF Makes, MailOps, c
    <3>3. user'[c.user] # Absent
      <4>1. [password |-> c.password, current |-> Unset] # Absent
        BY <3>2, RowsAreRows DEF Current
      <4>2. user \in [Users -> User \union {Absent}]
        BY DEF TypeOK
      <4> QED BY <2>2, <3>2, <4>1, <4>2 DEF NewUser
    <3> QED BY <1>5, <1>6, <2>2, <3>1, <3>3
  <2> QED BY <1>12, <2>1, <2>2 DEF CreateUser, c
<1>13. CASE FindOrCreate(p)
  <2>1. At(p, "find_or_create")
    BY <1>13 DEF FindOrCreate
  <2>2. CASE user[c.user] # Absent /\ Read(p, c)
    <3>1. Went(p, c) /\ Quiet
      BY <1>5, <2>2 DEF Read
    <3> QED BY <1>6, <1>7, <2>1, <2>2, <3>1
  <2>3. CASE /\ todo' = [todo EXCEPT ![p] = <<"create_user">> \o Tail(@)]
             /\ UNCHANGED local /\ Quiet
    <3> DEFINE rest == <<"create_user">> \o Tail(todo[p])
    <3>1. /\ rest \in Remaining(c.op) /\ Head(rest) = "create_user" /\ c.op \in Ops
          /\ rest # <<>> /\ rest \in Seq(Calls)
      <4>1. /\ todo[p] \in Remaining(c.op) /\ Head(todo[p]) = "find_or_create"
            /\ c.op \in Ops /\ c.op \in AllOps
        BY <2>1, Located DEF c
      <4>2. rest \in Remaining(c.op) /\ Head(rest) = "create_user"
        BY <4>1, Remains
      <4> HIDE DEF rest
      <4> QED BY <4>1, <4>2, Remains
    <3>2. todo'[p] = rest /\ \A q \in Procs \ {p} : todo'[q] = todo[q]
      BY <2>3 DEF TypeOK
    <3>3. Informed(c, "find_or_create", user', refresh', code', holder')
      BY <1>1, <2>1, Stays DEF c
    <3> HIDE DEF rest
    <3>4. Placed(p)'
      BY <2>3, <3>1, <3>2, <3>3 DEF Placed, Running, Knows, Informed, c
    <3>5. \A q \in Procs \ {p} : Placed(q)'
      BY <1>1, <2>3, <3>2, StaysPlaced
    <3>6. todo' \in [Procs -> Seq(Calls)] /\ local' \in [Procs -> Local]
      BY <2>3, <3>1, <3>2 DEF TypeOK
    <3>7. Proceeds(p) /\ Alone(p)
      <4>1. Head(todo[p]) = "find_or_create"
        BY <2>1 DEF At
      <4> QED BY <2>3, <3>1, <3>2, <4>1 DEF Proceeds, Alone
    <3> QED BY <3>4, <3>5, <3>6, <3>7 DEF Settles, Lands
  <2> QED BY <1>13, <2>2, <2>3 DEF FindOrCreate, c
<1>14. CASE Load(p) \/ GetUser(p) \/ SetVerified(p)
  <2>1. PICK h \in {"load", "get_user", "set_verified"} : At(p, h)
    BY <1>14 DEF Load, GetUser, SetVerified
  <2>2. Went(p, [c EXCEPT !.seen = user[c.user].current])
    BY <1>5, <1>14 DEF Load, GetUser, SetVerified, c
  <2>3. c.user \in Users /\ user[c.user] # Absent
    BY <2>1, Located, Known DEF Makes, SessionOps, MailOps, Knows, Informed, c
  <2>4. Alike(c, [c EXCEPT !.seen = user[c.user].current])
    BY <1>2, <1>8, <2>3, Altered
  <2> QED BY <1>1, <2>1, <2>2, <2>4, Onward DEF c
<1>15. CASE Admit(p)
  <2>1. At(p, "admit") /\ Went(p, Admitted(c, c.seen))
    BY <1>5, <1>15 DEF Admit, c
  <2>2. Alike(c, Admitted(c, c.seen))
    BY <1>2, Altered DEF Local
  <2> QED BY <1>1, <2>1, <2>2, Onward DEF c
<1>16. CASE Lookup(p)
  <2>1. At(p, "lookup")
    BY <1>16 DEF Lookup
  <2>2. CASE Refuse(p)
    BY <1>4, <2>2
  <2>3. CASE Read(p, c)
    BY <1>5, <1>6, <2>1, <2>3
  <2>4. CASE /\ cache[c.session] # Absent
             /\ todo' = [todo EXCEPT ![p] = Tail(Tail(Tail(@)))]
             /\ local' = [local EXCEPT ![p] = Admitted(c, cache[c.session])]
    <3> DEFINE rest == Tail(Tail(Tail(todo[p])))
               d == Admitted(c, cache[c.session])
    <3>1. /\ rest \in Remaining(c.op) /\ Head(rest) \in Handling /\ c.op \in Ops
          /\ rest # <<>> /\ rest \in Seq(Calls) /\ Makes(c.op, Head(rest))
      <4>1. /\ todo[p] \in Remaining(c.op) /\ Head(todo[p]) = "lookup"
            /\ c.op \in Ops /\ c.op \in AllOps
        BY <2>1, Located DEF c
      <4>2. rest \in Remaining(c.op) /\ Head(rest) \in Handling
        BY <4>1, Remains
      <4> HIDE DEF rest
      <4> QED BY <4>1, <4>2, Remains
    <3>2. Informed(c, "lookup", user', refresh', code', holder') /\ c.op \in SessionOps
      BY <1>1, <2>1, Stays, Located DEF Makes, c
    <3>3. Alike(c, d)
      <4>1. cache[c.session] \in Current
        <5>1. c.session \in Sessions
          BY <3>2 DEF Informed
        <5> QED BY <2>4, <5>1 DEF TypeOK
      <4> QED BY <1>2, <4>1, Altered
    <3>4. /\ todo'[p] = rest /\ local'[p] = d
          /\ \A q \in Procs \ {p} : todo'[q] = todo[q] /\ local'[q] = local[q]
      BY <2>4 DEF TypeOK
    <3>5. local' \in [Procs -> Local] /\ todo' \in [Procs -> Seq(Calls)]
      BY <2>4, <3>1, <3>3 DEF TypeOK, Alike
    <3> HIDE DEF rest, d
    <3>6. Informed(d, Head(rest), user', refresh', code', holder')
      BY <3>1, <3>2, <3>3 DEF Alike, Informed, Handling
    <3>7. Placed(p)'
      BY <3>1, <3>3, <3>4, <3>6 DEF Placed, Running, Knows, Alike
    <3>8. \A q \in Procs \ {p} : Placed(q)'
      BY <1>1, <3>4, StaysPlaced
    <3>9. Proceeds(p) /\ Alone(p)
      <4>1. Head(todo[p]) = "lookup"
        BY <2>1 DEF At
      <4> QED BY <3>1, <3>3, <3>4, <4>1 DEF Proceeds, Alone, Alike, c
    <3> QED BY <3>5, <3>7, <3>8, <3>9 DEF Settles, Lands
  <2> QED BY <1>16, <2>2, <2>3, <2>4 DEF Lookup, c
<1>17. CASE Middleware(p)
  <2>1. At(p, "middleware")
    BY <1>17 DEF Middleware
  <2>2. CASE Refuse(p)
    BY <1>4, <2>2
  <2>3. CASE \E t \in Orgs \union {Null} :
               Read(p, [c EXCEPT !.user = holder[c.session], !.tenant = t])
    <3>1. PICK t \in Orgs \union {Null} :
                 Read(p, [c EXCEPT !.user = holder[c.session], !.tenant = t])
      BY <2>3
    <3> DEFINE d == [c EXCEPT !.user = holder[c.session], !.tenant = t]
    <3>2. /\ Informed(c, "middleware", user', refresh', code', holder') /\ c.op \in SessionOps
          /\ c.session \in Sessions /\ holder[c.session] # Null
      BY <1>1, <2>1, Stays, Located DEF Makes, Knows, Informed, c
    <3>3. holder[c.session] \in Users
      BY <3>2 DEF TypeOK
    <3>4. d = Var(c.op, holder[c.session], c.session, c.password, c.new, c.token, c.org, t, c.seen,
                  c.found)
      BY <1>2, Assigned
    <3> HIDE DEF d
    <3>5. /\ d \in Local /\ d.op = c.op /\ d.session = c.session /\ d.token = c.token
          /\ d.user = holder[c.session]
      BY <1>2, <3>3, <3>4 DEF Var, Local
    <3>6. holder'[c.session] = holder[c.session]
      BY <1>1, <3>2 DEF Grows
    <3>7. ASSUME NEW n, Follows("middleware", n)
          PROVE  Informed(d, n, user', refresh', code', holder')
      BY <3>2, <3>5, <3>6, <3>7 DEF Follows, Informed, SessionOps, MailOps
    <3>8. Went(p, d)
      BY <1>5, <3>1 DEF d
    <3> QED BY <1>1, <2>1, <3>5, <3>7, <3>8, Arrives DEF c
  <2> QED BY <1>17, <2>2, <2>3 DEF Middleware, c
<1>18. CASE FindRefresh(p)
  <2>1. At(p, "find_refresh")
    BY <1>18 DEF FindRefresh
  <2>2. CASE Refuse(p)
    BY <1>4, <2>2
  <2>3. CASE Read(p, [c EXCEPT !.user = refresh[c.token].user])
    <3> DEFINE d == [c EXCEPT !.user = refresh[c.token].user]
    <3>1. /\ Informed(c, "find_refresh", user', refresh', code', holder') /\ c.op = "refresh"
          /\ c.token \in Refreshes /\ refresh[c.token] # Absent
      BY <1>1, <2>1, Stays, Located DEF Makes, Knows, Informed, c
    <3>2. refresh[c.token].user \in Users
      BY <3>1, RowForms
    <3>3. d = Var(c.op, refresh[c.token].user, c.session, c.password, c.new, c.token, c.org, c.tenant,
                  c.seen, c.found)
      BY <1>2, Assigned
    <3> HIDE DEF d
    <3>4. /\ d \in Local /\ d.op = c.op /\ d.session = c.session /\ d.token = c.token
          /\ d.user = refresh[c.token].user
      BY <1>2, <3>2, <3>3 DEF Var, Local
    <3>5. refresh'[c.token].user = refresh[c.token].user
      BY <1>1, <3>1 DEF Grows
    <3>6. ASSUME NEW n, Follows("find_refresh", n)
          PROVE  Informed(d, n, user', refresh', code', holder')
      BY <3>1, <3>4, <3>5, <3>6 DEF Follows, Informed, SessionOps, MailOps
    <3>7. Went(p, d)
      BY <1>5, <2>3 DEF d
    <3> QED BY <1>1, <2>1, <3>4, <3>6, <3>7, Arrives DEF c
  <2> QED BY <1>18, <2>2, <2>3 DEF FindRefresh, c
<1>19. CASE FindActive(p)
  <2>1. At(p, "find_active")
    BY <1>19 DEF FindActive
  <2>2. CASE Refuse(p)
    BY <1>4, <2>2
  <2>3. CASE \E r \in Refreshes : /\ refresh[r] # Absent /\ refresh[r].user = c.user
                                 /\ Continue(p, [c EXCEPT !.token = r])
    <3>1. PICK r \in Refreshes : /\ refresh[r] # Absent /\ refresh[r].user = c.user
                                 /\ Continue(p, [c EXCEPT !.token = r])
      BY <2>3
    <3> DEFINE d == [c EXCEPT !.token = r]
    <3>2. Informed(c, "find_active", user', refresh', code', holder') /\ c.op = "logout"
      BY <1>1, <2>1, Stays, Located DEF Makes, c
    <3>3. d = Var(c.op, c.user, c.session, c.password, c.new, r, c.org, c.tenant, c.seen, c.found)
      BY <1>2, Assigned
    <3> HIDE DEF d
    <3>4. /\ d \in Local /\ d.op = c.op /\ d.session = c.session /\ d.token = r /\ d.user = c.user
      BY <1>2, <3>3 DEF Var, Local
    <3>5. refresh'[r] # Absent /\ refresh'[r].user = c.user
      BY <1>1, <3>1 DEF Grows
    <3>6. ASSUME NEW n, Follows("find_active", n)
          PROVE  Informed(d, n, user', refresh', code', holder')
      BY <3>2, <3>4, <3>5, <3>6 DEF Follows, Informed, SessionOps, MailOps
    <3>7. Went(p, d)
      BY <1>5, <3>1 DEF d
    <3> QED BY <1>1, <2>1, <3>4, <3>6, <3>7, Arrives DEF c
  <2> QED BY <1>19, <2>2, <2>3 DEF FindActive, c
<1>20. CASE FindCode(p)
  <2>1. At(p, "find_code") /\ (Continue(p, c) \/ Refuse(p))
    BY <1>20 DEF FindCode, c
  <2> QED BY <1>4, <1>5, <1>6, <2>1
<1>21. CASE GetOrganization(p) \/ DeleteOrganization(p)
  <2>1. ASSUME NEW h \in {"get_organization", "delete_organization"}, NEW v \in BOOLEAN,
               At(p, h), Read(p, [c EXCEPT !.found = v])
        PROVE  Lands(p)
    <3>1. Alike(c, [c EXCEPT !.found = v])
      BY <1>2, Altered
    <3>2. Went(p, [c EXCEPT !.found = v])
      BY <1>5, <2>1
    <3> QED BY <1>1, <2>1, <3>1, <3>2, Onward DEF c
  <2>2. CASE GetOrganization(p)
    <3> DEFINE v == c.org \in orgs
    <3>1. At(p, "get_organization") /\ Read(p, [c EXCEPT !.found = v])
      BY <2>2 DEF GetOrganization, c
    <3>2. v \in BOOLEAN
      OBVIOUS
    <3> HIDE DEF v
    <3> QED BY <2>1, <3>1, <3>2
  <2>3. CASE DeleteOrganization(p)
    <3>1. CASE Refuse(p)
      BY <1>4, <3>1
    <3>2. CASE Read(p, [c EXCEPT !.found = TRUE])
      <4>1. At(p, "delete_organization")
        BY <2>3 DEF DeleteOrganization
      <4> QED BY <2>1, <3>2, <4>1
    <3> QED BY <2>3, <3>1, <3>2 DEF DeleteOrganization, c
  <2> QED BY <1>21, <2>2, <2>3
<1>22. CASE CreateOrganization(p)
  <2>1. CASE Stop(p) \/ Refuse(p)
    BY <1>4, <2>1
  <2>2. CASE \E o \in Orgs : Continue(p, [c EXCEPT !.org = o])
    <3>1. PICK o \in Orgs : Continue(p, [c EXCEPT !.org = o])
      BY <2>2
    <3>2. Alike(c, [c EXCEPT !.org = o])
      BY <1>2, Altered
    <3>3. At(p, "create_organization") /\ Went(p, [c EXCEPT !.org = o])
      BY <1>5, <1>22, <3>1 DEF CreateOrganization
    <3> QED BY <1>1, <3>2, <3>3, Onward DEF c
  <2> QED BY <1>22, <2>1, <2>2 DEF CreateOrganization, c
<1>23. CASE SetCurrent(p)
  <2>1. CASE Stop(p)
    BY <1>4, <2>1
  <2>2. CASE Continue(p, [c EXCEPT !.seen = c.org])
    <3>1. Alike(c, [c EXCEPT !.seen = c.org])
      BY <1>2, Altered DEF Local, Current
    <3>2. At(p, "set_current") /\ Went(p, [c EXCEPT !.seen = c.org])
      BY <1>5, <1>23, <2>2 DEF SetCurrent
    <3> QED BY <1>1, <3>1, <3>2, Onward DEF c
  <2> QED BY <1>23, <2>1, <2>2 DEF SetCurrent, c
<1> QED BY <1>10, <1>11, <1>12, <1>13, <1>14, <1>15, <1>16, <1>17, <1>18, <1>19, <1>20, <1>21,
           <1>22, <1>23 DEF Step

-----------------------------------------------------------------------------
(* Types and places are kept.                                              *)

\* TypeOK and Control from their parts.
LEMMA Together ==
  /\ TablesOK /\ todo \in [Procs -> Seq(Calls)] /\ local \in [Procs -> Local] <=> TypeOK
  /\ \A p \in Procs : Settles(p) /\ TablesOK' /\ Owned' => TypeOK' /\ Control'
BY DEF TablesOK, TypeOK, Settles, Control

\* What a client may put into a request.
Asked(c) ==
  /\ c \in Local /\ c.op \in AllOps
  /\ c.op \in SessionOps => c.session \in Sessions
  /\ c.op \in MailOps => c.user \in Users
  /\ c.op = "refresh" => c.token \in Refreshes
  /\ c.op \in {"verify_email", "recover"} => c.token \in Codes
  /\ c.op \notin {"refresh", "verify_email", "recover"} => c.token = Null

\* A request that was received is well placed at its first call.
LEMMA ReceiveSettles ==
  ASSUME TypeOK, Control, NEW p \in Procs, NEW c, Asked(c), Receive(p, c)
  PROVE  TypeOK' /\ Control'
<1>1. TablesOK' /\ Owned' /\ Grows
  BY DEF Receive, TypeOK, TablesOK, Control, Owned, Grows, dbVars, tokenVars, histories
<1>2. /\ Script(c.op) \in Remaining(c.op) /\ Script(c.op) \in Seq(Calls) /\ Script(c.op) # <<>>
      /\ Head(Script(c.op)) \in {"check_password", "find_or_create", "find_no_user", "find_user",
                               "find_refresh", "middleware"}
      /\ Head(Script(c.op)) = "middleware" <=> c.op \in SessionOps
  BY Scripted, Remains DEF Asked
<1>3. /\ todo'[p] = Script(c.op) /\ local'[p] = c
      /\ \A q \in Procs \ {p} : todo'[q] = todo[q] /\ local'[q] = local[q]
  BY DEF Receive, TypeOK
<1>4. todo' \in [Procs -> Seq(Calls)] /\ local' \in [Procs -> Local]
  BY <1>2 DEF Receive, TypeOK, Asked
<1>5. Informed(c, Head(Script(c.op)), user', refresh', code', holder')
  <2>1. Null \notin Sessions
    BY AccountsAssumption
  <2>2. /\ c.op \in SessionOps => holder[c.session] # Null
        /\ c.token \in Codes => code[c.token] # Absent
        /\ c.token \in Refreshes => refresh[c.token] # Absent
        /\ UNCHANGED <<user, refresh, code, holder>>
    BY <2>1 DEF Receive, Asked, dbVars, tokenVars
  <2> QED BY <1>2, <2>2 DEF Informed, Asked
<1>6. Placed(p)'
  <2>1. c.op \in Ops
    BY DEF Receive
  <2> QED BY <1>2, <1>3, <1>5, <2>1 DEF Placed, Running, Knows
<1>7. \A q \in Procs \ {p} : Placed(q)'
  BY <1>1, <1>3, StaysPlaced
<1> QED BY <1>1, <1>4, <1>6, <1>7, Together DEF Settles

\* Every request of MailClient and SessionClient has the variables its operation needs.
LEMMA ClientAsks ==
  ASSUME NEW p \in Procs, Client(p)
  PROVE  \E c : Asked(c) /\ c.seen = Null /\ Receive(p, c)
<1> USE DEF Asked, Local, Current, Blank, AllOps, MailOps, SessionOps
<1>0. ASSUME NEW c, Receive(p, c) PROVE c.op \in Ops
  BY <1>0 DEF Receive
<1>1. ASSUME NEW op \in {"login", "register"}, NEW u \in Users, NEW w \in Passwords,
             Receive(p, [Blank EXCEPT !.op = op, !.user = u, !.password = w])
      PROVE  \E c : Asked(c) /\ c.seen = Null /\ Receive(p, c)
  <2> DEFINE c == [Blank EXCEPT !.op = op, !.user = u, !.password = w]
  <2>1. c.op \in Ops
    BY <1>0, <1>1
  <2>2. Asked(c) /\ c.seen = Null
    BY <2>1
  <2> HIDE DEF c
  <2> QED BY <1>1, <2>2 DEF c
<1>2. ASSUME NEW op \in {"oauth", "issue"}, NEW u \in Users,
             Receive(p, [Blank EXCEPT !.op = op, !.user = u])
      PROVE  \E c : Asked(c) /\ c.seen = Null /\ Receive(p, c)
  <2> DEFINE c == [Blank EXCEPT !.op = op, !.user = u]
  <2>1. c.op \in Ops
    BY <1>0, <1>2
  <2>2. Asked(c) /\ c.seen = Null
    BY <2>1
  <2> HIDE DEF c
  <2> QED BY <1>2, <2>2 DEF c
<1>3. ASSUME NEW u \in Users, NEW k \in Codes,
             Receive(p, [Blank EXCEPT !.op = "verify_email", !.user = u, !.token = k])
      PROVE  \E c : Asked(c) /\ c.seen = Null /\ Receive(p, c)
  <2> DEFINE c == [Blank EXCEPT !.op = "verify_email", !.user = u, !.token = k]
  <2>1. c.op \in Ops
    BY <1>0, <1>3
  <2>2. Asked(c) /\ c.seen = Null
    BY <2>1
  <2> HIDE DEF c
  <2> QED BY <1>3, <2>2 DEF c
<1>4. ASSUME NEW u \in Users, NEW k \in Codes, NEW w \in Passwords,
             Receive(p, [Blank EXCEPT !.op = "recover", !.user = u, !.token = k, !.new = w])
      PROVE  \E c : Asked(c) /\ c.seen = Null /\ Receive(p, c)
  <2> DEFINE c == [Blank EXCEPT !.op = "recover", !.user = u, !.token = k, !.new = w]
  <2>1. c.op \in Ops
    BY <1>0, <1>4
  <2>2. Asked(c) /\ c.seen = Null
    BY <2>1
  <2> HIDE DEF c
  <2> QED BY <1>4, <2>2 DEF c
<1>5. ASSUME NEW op \in SessionOps \ {"reset_password", "set_organization"}, NEW s \in Sessions,
             Receive(p, [Blank EXCEPT !.op = op, !.session = s])
      PROVE  \E c : Asked(c) /\ c.seen = Null /\ Receive(p, c)
  <2> DEFINE c == [Blank EXCEPT !.op = op, !.session = s]
  <2>1. c.op \in Ops
    BY <1>0, <1>5
  <2>2. Asked(c) /\ c.seen = Null
    BY <2>1
  <2> HIDE DEF c
  <2> QED BY <1>5, <2>2 DEF c
<1>6. ASSUME NEW s \in Sessions, NEW old \in Passwords, NEW new \in Passwords,
             Receive(p, [Blank EXCEPT !.op = "reset_password", !.session = s,
                                      !.password = old, !.new = new])
      PROVE  \E c : Asked(c) /\ c.seen = Null /\ Receive(p, c)
  <2> DEFINE c == [Blank EXCEPT !.op = "reset_password", !.session = s,
                              !.password = old, !.new = new]
  <2>1. c.op \in Ops
    BY <1>0, <1>6
  <2>2. Asked(c) /\ c.seen = Null
    BY <2>1
  <2> HIDE DEF c
  <2> QED BY <1>6, <2>2 DEF c
<1>7. ASSUME NEW s \in Sessions, NEW o \in Orgs,
             Receive(p, [Blank EXCEPT !.op = "set_organization", !.session = s, !.org = o])
      PROVE  \E c : Asked(c) /\ c.seen = Null /\ Receive(p, c)
  <2> DEFINE c == [Blank EXCEPT !.op = "set_organization", !.session = s, !.org = o]
  <2>1. c.op \in Ops
    BY <1>0, <1>7
  <2>2. Asked(c) /\ c.seen = Null
    BY <2>1
  <2> HIDE DEF c
  <2> QED BY <1>7, <2>2 DEF c
<1>8. ASSUME NEW r \in Refreshes,
             Receive(p, [Blank EXCEPT !.op = "refresh", !.token = r])
      PROVE  \E c : Asked(c) /\ c.seen = Null /\ Receive(p, c)
  <2> DEFINE c == [Blank EXCEPT !.op = "refresh", !.token = r]
  <2>1. c.op \in Ops
    BY <1>0, <1>8
  <2>2. Asked(c) /\ c.seen = Null
    BY <2>1
  <2> HIDE DEF c
  <2> QED BY <1>8, <2>2 DEF c
<1> QED
  <2>1. CASE MailClient(p)
    BY <2>1, <1>1, <1>2, <1>3, <1>4 DEF MailClient
  <2>2. CASE SessionClient(p)
    BY <2>2, <1>5, <1>6, <1>7, <1>8 DEF SessionClient
  <2> QED BY <2>1, <2>2 DEF Client

\* What happens besides calls: a call raises, a token expires, an entry leaves the cache.
Mishap ==
  \/ \E p \in Procs : Fail(p)
  \/ \E x \in Sessions \union Refreshes \union Codes : Expire(x)
  \/ \E s \in Sessions : Evict(s)

\* Faults and lapses keep types and places.
LEMMA MishapKeeps ==
  ASSUME TypeOK, Control, Mishap
  PROVE  TypeOK' /\ Control'
<1> USE DEF dbVars, tokenVars, histories, bounds
<1>1. UNCHANGED dbVars /\ UNCHANGED holder
  BY DEF Mishap, Fail, Expire, Evict
<1>2. Grows /\ Owned'
  BY <1>1 DEF Grows, Owned, Control
<1>3. TablesOK'
  <2>1. ASSUME NEW p \in Procs, Fail(p) PROVE TablesOK'
    BY <2>1 DEF Fail, TablesOK, TypeOK
  <2>2. ASSUME NEW x \in Sessions \union Refreshes \union Codes, Expire(x) PROVE TablesOK'
    BY <2>2 DEF Expire, TablesOK, TypeOK
  <2>3. ASSUME NEW s \in Sessions, Evict(s) PROVE TablesOK'
    BY <2>3 DEF Evict, TablesOK, TypeOK
  <2> QED BY <2>1, <2>2, <2>3 DEF Mishap
<1>4. ASSUME UNCHANGED <<todo, local>> PROVE TypeOK' /\ Control'
  <2>1. \A q \in Procs : Placed(q)'
    BY <1>2, <1>4, StaysPlaced
  <2> QED BY <1>2, <1>3, <1>4, <2>1 DEF TablesOK, TypeOK, Control
<1>5. ASSUME NEW p \in Procs, Fail(p) PROVE TypeOK' /\ Control'
  <2>1. Over(p)
    BY <1>5, Moved DEF Fail
  <2>2. Settles(p)
    BY <1>2, <2>1, Ends DEF Lands
  <2> QED BY <1>2, <1>3, <2>2, Together
<1> QED BY <1>4, <1>5 DEF Mishap, Expire, Evict

\* Types and places at the start.
LEMMA InitKept == Init => TypeOK /\ Control
<1> SUFFICES ASSUME Init PROVE TypeOK /\ Control
  OBVIOUS
<1>1. <<>> \in Seq(Calls)
  OBVIOUS
<1>2. TypeOK
  BY <1>1, BlankLocal DEF Init, TypeOK
<1>3. Control
  BY DEF Init, Control, Owned, Placed, Running
<1> QED BY <1>2, <1>3

\* The parts of the next-state relation.
LEMMA Parts ==
  ASSUME [Next]_vars
  PROVE  \/ \E p \in Procs : Client(p)
         \/ \E p \in Procs : Step(p)
         \/ \E p \in Procs : FailAfter(p)
         \/ Mishap
         \/ UNCHANGED vars
BY DEF Next, Mishap

\* Types and places are inductive.
LEMMA NextKept == TypeOK /\ Control /\ [Next]_vars => TypeOK' /\ Control'
<1> SUFFICES ASSUME TypeOK, Control, [Next]_vars PROVE TypeOK' /\ Control'
  OBVIOUS
<1>1. ASSUME NEW p \in Procs, Client(p) PROVE TypeOK' /\ Control'
  <2>1. PICK c : Asked(c) /\ Receive(p, c)
    BY <1>1, ClientAsks
  <2> QED BY <2>1, ReceiveSettles
<1>2. ASSUME NEW p \in Procs, Step(p) PROVE TypeOK' /\ Control'
  BY <1>2, TablesStep, StepSettles, Together DEF Lands
<1>3. CASE UNCHANGED vars
  <2>1. TypeOK'
    BY <1>3 DEF vars, dbVars, tokenVars, histories, bounds, TypeOK
  <2>2. Control'
    BY <1>3 DEF vars, dbVars, tokenVars, histories, bounds, Control, Owned, Placed, Running, Knows
  <2> QED BY <2>1, <2>2
<1>4. ASSUME NEW p \in Procs, FailAfter(p) PROVE TypeOK' /\ Control'
  BY <1>4, LateStep, Ends, Together DEF Lands
<1> QED BY <1>1, <1>2, <1>3, <1>4, Parts, MishapKeeps

\* Every variable has its type, which takes that no request reads a row that is not
\* there, be it the user of its token or the token itself, whatever was interleaved.
THEOREM TypeCorrect == Spec => []TypeOK
<1>1. Spec => [](TypeOK /\ Control)
  BY InitKept, NextKept, PTL DEF Spec
<1> QED BY <1>1, PTL

-----------------------------------------------------------------------------
(* Verification tokens.                                                    *)

\* A request that does not move stays where it was.
LEMMA Idle ==
  ASSUME NEW q \in Procs, todo'[q] = todo[q], local'[q] = local[q]
  PROVE  \A h : At(q, h)' <=> At(q, h)
BY DEF At, Running

\* What is known of a token stays true where nothing that it speaks of changes.
LEMMA CodesFrame ==
  ASSUME NEW k \in Codes, Redeemed(k), Used(k)' <=> Used(k), redeemed'[k] = redeemed[k],
         \A q \in Procs : /\ Redeeming(q, k)' <=> Redeeming(q, k)
                          /\ Redeeming(q, k) => (At(q, "use_code")' <=> At(q, "use_code"))
  PROVE  Redeemed(k)'
BY DEF Redeemed

\* After use_code the token takes its effect.
LEMMA AfterUse ==
  ASSUME NEW op \in {"verify_email", "recover"}, NEW s \in Remaining(op), Head(s) = "use_code"
  PROVE  Tail(s) # <<>> /\ Head(Tail(s)) \in {"set_verified", "set_password"}
<1>1. CASE op = "verify_email"
  <2>1. CASE s = <<"use_code", "set_verified", "create_token">>
    BY <2>1
  <2> QED BY <1>1, <2>1 DEF Remaining
<1>2. CASE op = "recover"
  <2>1. CASE s = <<"use_code", "set_password">>
    BY <2>1
  <2> QED BY <1>2, <2>1 DEF Remaining
<1> QED BY <1>1, <1>2

\* One comes to redeem a token by find_code and use_code only, and has done so
\* after set_verified and set_password.
LEMMA ToRedeem ==
  ASSUME TypeOK, Control, NEW p \in Procs, NEW h, At(p, h), Proceeds(p), NEW k \in Codes
  PROVE  /\ Redeeming(p, k)' => /\ h \in {"find_code", "use_code"} /\ local[p].token = k
                                /\ h = "find_code" <=> At(p, "use_code")'
         /\ h = "use_code" => ~At(p, "use_code")'
<1>1. Makes(local[p].op, h) /\ Knows(local[p], h) /\ Head(todo[p]) = h /\ h \in Calls
  BY Located
<1> DEFINE n == Head(todo'[p])
<1>2. ASSUME todo'[p] # <<>>
      PROVE  /\ local'[p].op = local[p].op
             /\ h # "find_active" => local'[p].token = local[p].token
             /\ \/ Follows(h, n)
                \/ h = "lookup" /\ n \in Handling
                \/ h = "find_or_create" /\ n = "create_user"
  BY <1>1, <1>2 DEF Proceeds
<1> HIDE DEF n
<1>3. \A m : At(p, m)' <=> todo'[p] # <<>> /\ n = m
  BY DEF At, Running, n
<1>4. h \in {"check_password", "check_code"} => local[p].token = Null
  BY <1>1 DEF Makes, Knows, Informed
<1>5. Null \notin Codes
  BY AccountsAssumption
<1>6. Redeeming(p, k)' => /\ todo'[p] # <<>> /\ local'[p].token = k
                          /\ n \in {"use_code", "set_verified", "set_password"}
  BY <1>3 DEF Redeeming
<1>7. todo'[p] # <<>> /\ n \in {"use_code", "set_verified", "set_password"} =>
        h \in {"find_code", "use_code", "check_password", "check_code"}
  BY <1>1, <1>2 DEF Follows, Handling, Calls
<1>8. todo'[p] # <<>> => /\ h = "find_code" => n = "use_code"
                         /\ h = "use_code" => n \in {"set_verified", "set_password"}
  BY <1>1, <1>2 DEF Follows, Handling
<1> QED BY <1>2, <1>3, <1>4, <1>5, <1>6, <1>7, <1>8

\* The calls that say nothing of verification tokens.
LEMMA OffCodes ==
  ASSUME TypeOK, NEW p \in Procs, Step(p),
         ~At(p, "find_code"), ~At(p, "use_code"), ~At(p, "set_verified"), ~At(p, "set_password")
  PROVE  /\ redeemed' = redeemed /\ torn \subseteq torn'
         /\ \A k \in Codes : Used(k)' <=> Used(k)
         /\ \E h : At(p, h)
<1> USE DEF dbVars, tokenVars, histories, bounds
<1>1. CASE CreateCode(p)
  <2>1. PICK k \in Codes : /\ code[k] = Absent
                           /\ code' = [code EXCEPT ![k] = [user |-> local[p].user, used |-> FALSE]]
    BY <1>1 DEF CreateCode
  <2>2. code \in [Codes -> Code \union {Absent}]
    BY DEF TypeOK
  <2>3. \A x \in Codes \ {k} : code'[x] = code[x]
    BY <2>1, <2>2
  <2>4. ~code'[k].used
    BY <2>1, <2>2
  <2>5. \A x \in Codes : Used(x)' <=> Used(x)
    BY <2>1, <2>3, <2>4 DEF Used
  <2> QED BY <1>1, <2>5 DEF CreateCode
<1>2. CASE Looks(p)
  BY <1>2, LooksQuiet DEF Quiet, Used, Looks, Middleware, Lookup, Load, Act, FindUser, FindNoUser,
     CheckPassword, FindOrCreate, FindRefresh, CheckCode, GetOrganization, GetUser,
     DeleteOrganization
<1>3. CASE Admit(p) \/ CreateUser(p) \/ CreateToken(p) \/ CreateAccess(p) \/ Deactivate(p)
           \/ CreateOrganization(p) \/ SetCurrent(p) \/ UpdateCache(p)
  BY <1>3 DEF Used, Admit, CreateUser, CreateToken, CreateAccess, Deactivate, CreateOrganization,
              SetCurrent, UpdateCache, Refuse, Quiet
<1>4. CASE FindActive(p)
  BY <1>4 DEF Used, FindActive, Refuse, Quiet
<1> QED BY <1>1, <1>2, <1>3, <1>4 DEF Step, Looks, FindCode, UseCode, SetVerified, SetPassword

\* Every step is a call.
LEMMA StepAt ==
  ASSUME NEW p \in Procs, Step(p)
  PROVE  /\ Running(p) /\ \E h : At(p, h)
         /\ At(p, "middleware") => Middleware(p)
         /\ At(p, "lookup") => Lookup(p)
         /\ At(p, "admit") => Admit(p)
         /\ At(p, "find_code") => FindCode(p)
         /\ At(p, "use_code") => UseCode(p)
         /\ At(p, "set_verified") => SetVerified(p)
         /\ At(p, "set_password") => SetPassword(p)
BY DEF Step, At, Middleware, Lookup, Load, Admit, Act, FindUser, FindNoUser, CheckPassword,
       CreateUser, FindOrCreate, CreateToken, FindRefresh, CreateAccess, FindActive, Deactivate,
       CreateCode, FindCode, UseCode, CheckCode, SetVerified, SetPassword, GetOrganization,
       CreateOrganization, GetUser, DeleteOrganization, SetCurrent, UpdateCache

\* Every call keeps what is known of verification tokens.
LEMMA CodesStep ==
  ASSUME TypeOK, Control, CodesInv, NEW p \in Procs, Step(p)
  PROVE  CodesInv'
<1> USE DEF dbVars, tokenVars, histories, bounds
<1>1. Control' /\ Proceeds(p) /\ Alone(p)
  BY TablesStep, StepSettles, Together DEF Lands
<1>2. ASSUME NEW k \in Codes, NEW q \in Procs \ {p}
      PROVE  /\ Redeeming(q, k)' <=> Redeeming(q, k)
             /\ \A h : At(q, h)' <=> At(q, h)
  BY <1>1, Idle DEF Alone, Redeeming
<1>3. SUFFICES ASSUME NEW k \in Codes \ torn' PROVE Redeemed(k)'
  BY DEF CodesInv
<1>4. k \in Codes
  OBVIOUS
<1>5. ASSUME torn \subseteq torn' PROVE Redeemed(k)
  BY <1>3, <1>5 DEF CodesInv
<1>t. redeemed \in [Codes -> Nat] /\ code \in [Codes -> Code \union {Absent}]
  BY DEF TypeOK
<1>6. CASE ~At(p, "find_code") /\ ~At(p, "use_code") /\ ~At(p, "set_verified")
           /\ ~At(p, "set_password")
  <2>1. Redeemed(k) /\ redeemed' = redeemed /\ (Used(k)' <=> Used(k))
    BY <1>5, <1>6, OffCodes
  <2>2. PICK h : At(p, h)
    BY <1>6, OffCodes
  <2>3. h \notin {"find_code", "use_code"}
    BY <1>6, <2>2
  <2>4. ~Redeeming(p, k) /\ ~Redeeming(p, k)'
    BY <1>1, <1>6, <2>2, <2>3, ToRedeem DEF Redeeming, At, Running
  <2> QED BY <1>2, <2>1, <2>4, CodesFrame
<1>7. CASE FindCode(p)
  <2>1. At(p, "find_code")
    BY <1>7 DEF FindCode
  <2>2. code' = code /\ redeemed' = redeemed /\ torn \subseteq torn'
    BY <1>7 DEF FindCode, Refuse, Quiet
  <2>3. Redeemed(k) /\ (Used(k)' <=> Used(k))
    BY <1>5, <2>2 DEF Used
  <2>4. ~Redeeming(p, k)
    BY <2>1 DEF Redeeming, At
  <2>5. CASE Redeeming(p, k)'
    <3>1. local[p].token = k /\ At(p, "use_code")'
      BY <1>1, <1>4, <2>1, <2>5, ToRedeem DEF Redeeming, At, Running
    <3>2. /\ ~code[k].used
          /\ ~\E q \in Procs : At(q, "use_code") /\ local[q].token = k
      <4>1. CASE Refuse(p)
        BY <2>1, <3>1, <4>1, Moved DEF Over, At, Running
      <4> QED BY <1>7, <3>1, <4>1 DEF FindCode
    <3>3. \A q \in Procs : ~Redeeming(q, k)
      <4>1. \A q \in Procs : Redeeming(q, k) => At(q, "use_code") /\ local[q].token = k
        BY <2>3, <3>2 DEF Redeemed, Used, Redeeming
      <4> QED BY <3>2, <4>1
    <3>4. \A q \in Procs \ {p} : ~Redeeming(q, k)'
      BY <1>2, <3>3
    <3>5. redeemed'[k] = 0 /\ ~Used(k)'
      BY <2>2, <2>3, <3>2 DEF Redeemed, Used
    <3> QED BY <3>1, <3>4, <3>5 DEF Redeemed
  <2>6. CASE ~Redeeming(p, k)'
    BY <1>2, <2>2, <2>3, <2>4, <2>6, CodesFrame
  <2> QED BY <2>5, <2>6
<1>8. CASE UseCode(p)
  <2>1. At(p, "use_code")
    BY <1>8 DEF UseCode
  <2>2. redeemed' = redeemed /\ torn' = torn
    BY <1>8 DEF UseCode
  <2>3. /\ local[p].token \in Codes /\ code[local[p].token] # Absent
        /\ local[p].op \in {"verify_email", "recover"}
        /\ local[p].op \in AllOps /\ todo[p] \in Remaining(local[p].op)
        /\ Head(todo[p]) = "use_code"
    BY <2>1, Located DEF Makes, Knows, Informed
  <2>4. \A x \in Codes : /\ code'[x] # Absent <=> code[x] # Absent
                         /\ code'[x].used = IF x = local[p].token THEN TRUE ELSE code[x].used
    <3> DEFINE row == [user |-> code[local[p].token].user, used |-> TRUE]
    <3>1. code' = [x \in Codes |-> IF x = local[p].token THEN row ELSE code[x]]
      BY <1>8, <2>3, RowForms DEF UseCode
    <3>2. row # Absent /\ row.used = TRUE
      BY <2>3, RowForms, RowsAreRows
    <3> HIDE DEF row
    <3> QED BY <2>3, <3>1, <3>2
  <2>5. Redeemed(k)
    BY <1>5, <2>2
  <2>6. CASE local[p].token = k
    <3>1. Redeeming(p, k)
      BY <2>1, <2>6 DEF Redeeming
    <3>2. ~Used(k) /\ redeemed[k] = 0
      BY <2>1, <2>5, <3>1 DEF Redeemed
    <3>3. Used(k)' /\ redeemed'[k] = 0
      BY <2>2, <2>3, <2>4, <2>6, <3>2 DEF Used
    <3>4. Redeeming(p, k)' /\ ~At(p, "use_code")'
      <4>1. Tail(todo[p]) # <<>> /\ Head(Tail(todo[p])) \in {"set_verified", "set_password"}
        BY <2>3, AfterUse
      <4>2. Went(p, local[p])
        BY <1>8, <2>1, Moved DEF UseCode, At
      <4> QED BY <2>6, <4>1, <4>2 DEF Went, Redeeming, At, Running
    <3>5. \A q \in Procs \ {p} : ~Redeeming(q, k)'
      BY <1>2, <2>5, <3>1 DEF Redeemed
    <3> QED BY <3>3, <3>4, <3>5 DEF Redeemed
  <2>7. CASE local[p].token # k
    <3>1. ~Redeeming(p, k) /\ ~Redeeming(p, k)'
      BY <1>1, <1>4, <2>1, <2>7, ToRedeem DEF Redeeming, At, Running
    <3>2. Used(k)' <=> Used(k)
      BY <2>4, <2>7 DEF Used
    <3> QED BY <1>2, <2>2, <2>5, <3>1, <3>2, CodesFrame
  <2> QED BY <2>6, <2>7
<1>9. CASE SetVerified(p) \/ SetPassword(p)
  <2>1. PICK h \in {"set_verified", "set_password"} : At(p, h)
    BY <1>9 DEF SetVerified, SetPassword
  <2>2. code' = code /\ torn' = torn /\ Redeem(local[p].token)
    BY <1>9 DEF SetVerified, SetPassword
  <2>3. Redeemed(k) /\ (Used(k)' <=> Used(k))
    BY <1>5, <2>2 DEF Used
  <2>4. ~Redeeming(p, k)'
    BY <1>1, <1>4, <2>1, ToRedeem DEF Redeeming, At, Running
  <2>5. CASE local[p].token = k
    <3>1. Redeeming(p, k) /\ ~At(p, "use_code")
      BY <2>1, <2>5 DEF Redeeming, At
    <3>2. Used(k) /\ redeemed[k] = 0
      BY <2>3, <3>1 DEF Redeemed
    <3>3. \A q \in Procs : ~Redeeming(q, k)'
      BY <1>2, <2>3, <2>4, <3>1 DEF Redeemed
    <3>4. redeemed'[k] = 1
      BY <1>t, <2>2, <2>5, <3>2 DEF Redeem
    <3> QED BY <2>3, <3>2, <3>3, <3>4 DEF Redeemed
  <2>6. CASE local[p].token # k
    <3>1. ~Redeeming(p, k) /\ redeemed'[k] = redeemed[k]
      BY <1>t, <2>2, <2>6 DEF Redeeming, Redeem
    <3> QED BY <1>2, <2>3, <2>4, <3>1, CodesFrame
  <2> QED BY <2>5, <2>6
<1> QED BY <1>6, <1>7, <1>8, <1>9, StepAt

\* A request whose commit was followed by a fault has taken the effect of its token,
\* has torn it, or has not touched it.
LEMMA CodesLate ==
  ASSUME TypeOK, Control, CodesInv, NEW p \in Procs, FailAfter(p)
  PROVE  CodesInv'
<1> USE DEF dbVars, tokenVars, histories, bounds
<1>1. Over(p)
  BY LateStep
<1>2. SUFFICES ASSUME NEW k \in Codes \ torn' PROVE Redeemed(k)'
  BY DEF CodesInv
<1>3. k \in Codes \ torn
  BY DEF FailAfter, CommitUser, CommitToken
<1>4. Redeemed(k)
  BY <1>3 DEF CodesInv
<1>5. ~Redeeming(p, k)'
  BY <1>1 DEF Redeeming, At, Running, Over
<1>6. \A q \in Procs \ {p} : /\ Redeeming(q, k)' <=> Redeeming(q, k)
                             /\ At(q, "use_code")' <=> At(q, "use_code")
  BY <1>1, Idle DEF Redeeming, Over
<1>t. redeemed \in [Codes -> Nat] /\ code \in [Codes -> Code \union {Absent}]
  BY DEF TypeOK
<1>7. CASE At(p, "set_verified") \/ At(p, "set_password")
  <2>1. code' = code /\ torn' = torn /\ Redeem(local[p].token)
    BY <1>7 DEF FailAfter, CommitUser, CommitToken, At
  <2>2. Used(k)' <=> Used(k)
    BY <2>1 DEF Used
  <2>3. CASE local[p].token = k
    <3>1. Redeeming(p, k) /\ ~At(p, "use_code")
      BY <1>7, <2>3 DEF Redeeming, At
    <3>2. Used(k) /\ redeemed[k] = 0
      BY <1>4, <3>1 DEF Redeemed
    <3>3. \A q \in Procs : ~Redeeming(q, k)'
      BY <1>4, <1>5, <1>6, <3>1 DEF Redeemed
    <3>4. redeemed'[k] = 1
      BY <1>t, <2>1, <2>3, <3>2 DEF Redeem
    <3> QED BY <2>2, <3>2, <3>3, <3>4 DEF Redeemed
  <2>4. CASE local[p].token # k
    <3>1. ~Redeeming(p, k) /\ redeemed'[k] = redeemed[k]
      BY <1>t, <2>1, <2>4 DEF Redeeming, Redeem
    <3> QED BY <1>4, <1>5, <1>6, <2>2, <3>1, CodesFrame
  <2> QED BY <2>3, <2>4
<1>8. CASE ~(At(p, "set_verified") \/ At(p, "set_password"))
  <2>1. redeemed' = redeemed
    BY <1>8 DEF FailAfter, CommitUser, CommitToken
  <2>2. ~Redeeming(p, k)
    <3>1. At(p, "use_code") => torn' = torn \union {local[p].token}
      BY DEF FailAfter, CommitUser, CommitToken, At
    <3> QED BY <1>8, <3>1 DEF Redeeming
  <2>3. Used(k)' <=> Used(k)
    <3>1. CASE code' = code
      BY <3>1 DEF Used
    <3>2. CASE At(p, "create_code") /\ CommitToken(p)
      <4>1. PICK x \in Codes : /\ code[x] = Absent
                              /\ code' = [code EXCEPT ![x] = [user |-> local[p].user, used |-> FALSE]]
        BY <3>2 DEF CommitToken, At
      <4>2. \A y \in Codes \ {x} : code'[y] = code[y]
        BY <1>t, <4>1
      <4>3. ~code'[x].used
        BY <1>t, <4>1
      <4> QED BY <1>3, <4>1, <4>2, <4>3 DEF Used
    <3>3. CASE At(p, "use_code") /\ CommitToken(p)
      <4>1. /\ code' = [code EXCEPT ![local[p].token].used = TRUE]
            /\ torn' = torn \union {local[p].token}
        BY <3>3 DEF CommitToken, At
      <4>2. k # local[p].token
        BY <4>1
      <4>3. code'[k] = code[k]
        BY <1>3, <1>t, <4>1, <4>2
      <4> QED BY <4>3 DEF Used
    <3> QED BY <3>1, <3>2, <3>3 DEF FailAfter, CommitUser, CommitToken
  <2> QED BY <1>4, <1>5, <1>6, <2>1, <2>2, <2>3, CodesFrame
<1> QED BY <1>7, <1>8

\* Nothing is redeemed at the start.
LEMMA CodesInit == Init => CodesInv
BY DEF Init, CodesInv, Redeemed, Redeeming, Used, At, Running

\* CodesInv is inductive, given types and places.
LEMMA CodesKept == TypeOK /\ Control /\ CodesInv /\ [Next]_vars => CodesInv'
<1> SUFFICES ASSUME TypeOK, Control, CodesInv, [Next]_vars PROVE CodesInv'
  OBVIOUS
<1> USE DEF dbVars, tokenVars, histories, bounds
<1>1. ASSUME UNCHANGED <<code, redeemed, todo, local, torn>> PROVE CodesInv'
  BY <1>1 DEF CodesInv, Redeemed, Redeeming, Used, At, Running
<1>2. ASSUME NEW p \in Procs, Client(p) PROVE CodesInv'
  <2>1. PICK c : Asked(c) /\ Receive(p, c)
    BY <1>2, ClientAsks
  <2>2. UNCHANGED <<code, redeemed, torn>>
    BY <2>1 DEF Receive
  <2>3. /\ todo'[p] = Script(c.op)
        /\ \A q \in Procs \ {p} : todo'[q] = todo[q] /\ local'[q] = local[q]
    BY <2>1 DEF Receive, TypeOK
  <2>4. Head(Script(c.op)) \in {"check_password", "find_or_create", "find_no_user", "find_user",
                               "find_refresh", "middleware"}
    BY <2>1, Scripted DEF Asked
  <2>5. ASSUME NEW k \in Codes \ torn PROVE Redeemed(k)'
    <3>1. ~Redeeming(p, k) /\ ~Redeeming(p, k)'
      BY <1>2, <2>3, <2>4 DEF Redeeming, At, Running, Client
    <3>2. \A q \in Procs \ {p} : /\ Redeeming(q, k)' <=> Redeeming(q, k)
                                 /\ At(q, "use_code")' <=> At(q, "use_code")
      BY <2>3, Idle DEF Redeeming
    <3>3. Redeemed(k) /\ (Used(k)' <=> Used(k)) /\ redeemed'[k] = redeemed[k]
      BY <2>2, <2>5 DEF Used, CodesInv
    <3> QED BY <3>1, <3>2, <3>3, CodesFrame
  <2> QED BY <2>2, <2>5 DEF CodesInv
<1>3. ASSUME NEW p \in Procs, Fail(p) PROVE CodesInv'
  <2>1. UNCHANGED <<code, redeemed>> /\ torn \subseteq torn'
    BY <1>3 DEF Fail
  <2>2. Over(p)
    BY <1>3, Moved DEF Fail
  <2>3. ASSUME NEW k \in Codes \ torn' PROVE Redeemed(k)'
    <3>1. Redeemed(k) /\ (Used(k)' <=> Used(k)) /\ redeemed'[k] = redeemed[k]
      BY <2>1, <2>3 DEF Used, CodesInv
    <3>2. \A q \in Procs \ {p} : /\ Redeeming(q, k)' <=> Redeeming(q, k)
                                 /\ At(q, "use_code")' <=> At(q, "use_code")
      BY <2>2, Idle DEF Redeeming, Over
    <3>3. ~Redeeming(p, k)'
      BY <2>2 DEF Redeeming, At, Running, Over
    <3>4. Redeeming(p, k) => At(p, "use_code")
      BY <1>3, <2>3 DEF Fail, Redeeming
    <3>5. CASE Redeeming(p, k)
      <4>1. ~Used(k) /\ redeemed[k] = 0
        BY <3>1, <3>4, <3>5 DEF Redeemed
      <4>2. \A q \in Procs : ~Redeeming(q, k)'
        BY <3>1, <3>2, <3>3, <3>5 DEF Redeemed
      <4> QED BY <3>1, <4>1, <4>2 DEF Redeemed
    <3>6. CASE ~Redeeming(p, k)
      BY <3>1, <3>2, <3>3, <3>6, CodesFrame
    <3> QED BY <3>5, <3>6
  <2> QED BY <2>3 DEF CodesInv
<1>4. ASSUME NEW p \in Procs, Step(p) PROVE CodesInv'
  BY <1>4, CodesStep
<1>5. CASE UNCHANGED vars
  BY <1>1, <1>5 DEF vars
<1>6. ASSUME NEW p \in Procs, FailAfter(p) PROVE CodesInv'
  BY <1>6, CodesLate
<1> QED BY <1>1, <1>2, <1>3, <1>4, <1>5, <1>6, Parts DEF Mishap, Expire, Evict

\* A verification token has its effect once, and is not used up without it, but for
\* two requests that looked at it at once and for one cut short.
THEOREM CodesOnce == Spec => []RedeemedOnce
<1>1. TypeOK /\ CodesInv => RedeemedOnce
  BY DEF TypeOK, CodesInv, RedeemedOnce, Redeemed, Redeeming, Used
<1>2. Spec => [](TypeOK /\ Control /\ CodesInv)
  BY InitKept, NextKept, CodesInit, CodesKept, PTL DEF Spec
<1> QED BY <1>1, <1>2, PTL

-----------------------------------------------------------------------------
(* Refresh tokens.                                                         *)

\* What is known of refresh tokens stays true where none becomes inactive and nobody
\* else is about to end one.
LEMMA RefreshFrame ==
  ASSUME RefreshInv, Grows, torn \subseteq torn', ended' = ended,
         \A u \in Users : Inactive(u)' = Inactive(u),
         \A r \in Refreshes : refresh[r].active => refresh'[r].active,
         \A q \in Procs, r \in Refreshes : Ending(q, r)' => Ending(q, r)
  PROVE  RefreshInv'
<1>1. \A u \in Users : Untorn(u)' => Untorn(u)
  BY DEF Untorn, Grows
<1> QED BY <1>1 DEF RefreshInv

\* Only find_active leads to deactivate, and deactivate is the last call.
LEMMA ToEnd ==
  ASSUME TypeOK, Control, NEW p \in Procs, NEW h, At(p, h), Proceeds(p), NEW r
  PROVE  Ending(p, r)' => h = "find_active"
<1>1. Head(todo[p]) = h /\ h \in Calls
  BY Located
<1> DEFINE n == Head(todo'[p])
<1>2. Ending(p, r)' => todo'[p] # <<>> /\ n = "deactivate"
  BY DEF Ending, At, Running
<1>3. todo'[p] # <<>> => \/ Follows(h, n)
                         \/ h = "lookup" /\ n \in Handling
                         \/ h = "find_or_create" /\ n = "create_user"
  BY <1>1 DEF Proceeds
<1> HIDE DEF n
<1> QED BY <1>1, <1>2, <1>3 DEF Follows, Handling, Calls

\* Every call keeps what is known of refresh tokens.
LEMMA RefreshStep ==
  ASSUME TypeOK, Control, RefreshInv, NEW p \in Procs, Step(p)
  PROVE  RefreshInv'
<1> USE DEF dbVars, tokenVars, histories, bounds
<1>1. Control' /\ Proceeds(p) /\ Alone(p) /\ Grows
  BY TablesStep, StepSettles, Together DEF Lands
<1>2. \A q \in Procs \ {p}, r \in Refreshes : Ending(q, r)' <=> Ending(q, r)
  BY <1>1, Idle DEF Alone, Ending
<1>3. \E h : At(p, h)
  BY StepAt
<1>4. ~At(p, "find_active") => \A r \in Refreshes : ~Ending(p, r)'
  BY <1>1, <1>3, ToEnd
<1>5. refresh \in [Refreshes -> Refresh \union {Absent}] /\ ended \in [Users -> Nat]
  BY DEF TypeOK
<1>6. ASSUME refresh' = refresh, ended' = ended, torn \subseteq torn', ~At(p, "find_active")
      PROVE  RefreshInv'
  <2>1. \A u \in Users : Inactive(u)' = Inactive(u)
    BY <1>6 DEF Inactive
  <2> QED BY <1>1, <1>2, <1>4, <1>6, <2>1, RefreshFrame
<1>7. CASE FindActive(p)
  <2>1. At(p, "find_active")
    BY <1>7 DEF FindActive
  <2>2. refresh' = refresh /\ ended' = ended /\ torn \subseteq torn'
    BY <1>7 DEF FindActive, Refuse, Quiet
  <2>3. \A u \in Users : Inactive(u)' = Inactive(u)
    BY <2>2 DEF Inactive
  <2>4. CASE Refuse(p)
    <3>1. \A r \in Refreshes : ~Ending(p, r)'
      BY <2>1, <2>4, Moved DEF At, Running, Ending, Over
    <3> QED BY <1>1, <1>2, <2>2, <2>3, <3>1, RefreshFrame
  <2>5. CASE ~Refuse(p)
    <3>1. PICK r0 \in Refreshes :
            /\ refresh[r0].active
            /\ Continue(p, [local[p] EXCEPT !.token = r0])
            /\ torn' = IF \E q \in Procs : At(q, "deactivate") /\ local[q].token = r0
                       THEN torn \union {r0} ELSE torn
      BY <1>7, <2>5 DEF FindActive
    <3>2. \A r \in Refreshes : Ending(p, r)' => r = r0
      <4>1. Went(p, [local[p] EXCEPT !.token = r0]) /\ local[p] \in Local
        BY <2>1, <3>1, Moved, Located DEF At
      <4>2. [local[p] EXCEPT !.token = r0].token = r0
        BY <4>1 DEF Local
      <4> DEFINE d == [local[p] EXCEPT !.token = r0]
      <4> HIDE DEF d
      <4> QED BY <4>1, <4>2 DEF Went, Ending, At, Running, d
    <3>3. ~\E r \in Refreshes : Ending(p, r)
      BY <2>1 DEF Ending, At
    <3>4. ASSUME NEW r \in Refreshes \ torn', NEW q \in Procs, NEW o \in Procs, Ending(q, r)'
          PROVE  refresh'[r].active /\ (Ending(o, r)' => q = o)
      <4>1. r \notin torn /\ r \in Refreshes
        BY <2>2, <3>4
      <4>2. CASE r = r0
        <5>1. \A x \in Procs \ {p} : ~Ending(x, r)'
          BY <1>2, <3>1, <3>4, <4>2 DEF Ending
        <5> QED BY <2>2, <3>1, <3>4, <4>2, <5>1
      <4>3. CASE r # r0
        BY <1>2, <2>2, <3>2, <3>4, <4>1, <4>3 DEF RefreshInv
      <4> QED BY <4>2, <4>3
    <3>5. \A u \in Users : Untorn(u)' => Untorn(u)
      BY <1>1, <2>2 DEF Untorn, Grows
    <3> QED BY <2>2, <2>3, <3>4, <3>5 DEF RefreshInv
  <2> QED BY <2>4, <2>5
<1>8. CASE Deactivate(p)
  <2> DEFINE c == local[p]
             r0 == local[p].token
             u0 == local[p].user
  <2>1. At(p, "deactivate")
    BY <1>8 DEF Deactivate
  <2>2. r0 \in Refreshes /\ refresh[r0] # Absent /\ refresh[r0].user = u0
    BY <2>1, Located DEF Knows, Informed
  <2>3. torn' = torn /\ ended' = [ended EXCEPT ![u0] = @ + 1] /\ u0 \in Users
    BY <1>8, <2>2, RowForms DEF Deactivate
  <2>4. /\ \A r \in Refreshes \ {r0} : refresh'[r] = refresh[r]
        /\ refresh'[r0] # Absent /\ refresh'[r0].user = u0 /\ ~refresh'[r0].active
    <3> DEFINE row == [user |-> refresh[r0].user, active |-> FALSE]
    <3>1. refresh' = [x \in Refreshes |-> IF x = r0 THEN row ELSE refresh[x]]
      BY <1>8, <2>2, RowForms DEF Deactivate
    <3>2. row # Absent /\ row.user = u0 /\ ~row.active
      BY <2>2, <2>3, RowsAreRows
    <3> HIDE DEF row, r0, u0
    <3> QED BY <2>2, <3>1, <3>2
  <2>5. Ending(p, r0) /\ ~At(p, "find_active")
    BY <2>1 DEF Ending, At
  <2> HIDE DEF r0, u0
  <2>6. ASSUME NEW r \in Refreshes \ torn', NEW q \in Procs, NEW o \in Procs, Ending(q, r)'
        PROVE  refresh'[r].active /\ (Ending(o, r)' => q = o)
    <3>1. q # p /\ Ending(q, r) /\ r \notin torn /\ r \in Refreshes
      BY <1>2, <1>4, <2>3, <2>5, <2>6
    <3>2. r # r0
      BY <2>5, <3>1 DEF RefreshInv
    <3>3. Ending(o, r)' => Ending(o, r)
      BY <1>2, <1>4, <2>5, <3>1
    <3> QED BY <2>4, <3>1, <3>2, <3>3 DEF RefreshInv
  <2>7. ASSUME NEW u \in Users PROVE Inactive(u)' = IF u = u0 THEN Inactive(u) \union {r0} ELSE Inactive(u)
    <3>1. \A r \in Refreshes : r \in Inactive(u)' <=> r \in Inactive(u) \/ (u = u0 /\ r = r0)
      BY <2>2, <2>4 DEF Inactive
    <3>2. Inactive(u)' \subseteq Refreshes /\ Inactive(u) \subseteq Refreshes
      BY DEF Inactive
    <3> QED BY <2>2, <3>1, <3>2
  <2>8. ASSUME NEW u \in Users PROVE IsFiniteSet(Inactive(u)')
    <3>1. IsFiniteSet(Inactive(u))
      BY DEF RefreshInv
    <3>2. IsFiniteSet(Inactive(u) \union {r0})
      BY <3>1, FS_AddElement
    <3> QED BY <2>7, <3>1, <3>2
  <2>9. ASSUME NEW u \in Users, Untorn(u)' PROVE Cardinality(Inactive(u)') = ended'[u]
    <3>1. Untorn(u)
      BY <1>1, <2>3, <2>9 DEF Untorn, Grows
    <3>2. IsFiniteSet(Inactive(u)) /\ Cardinality(Inactive(u)) = ended[u]
      BY <3>1 DEF RefreshInv
    <3>3. CASE u = u0
      <4>1. r0 \notin torn
        BY <2>2, <3>1, <3>3 DEF Untorn
      <4>2. refresh[r0].active
        BY <2>2, <2>5, <4>1 DEF RefreshInv
      <4>3. r0 \notin Inactive(u)
        BY <4>2 DEF Inactive
      <4>4. Cardinality(Inactive(u) \union {r0}) = Cardinality(Inactive(u)) + 1
        BY <3>2, <4>3, FS_AddElement
      <4>5. ended'[u] = ended[u] + 1
        BY <1>5, <2>3, <3>3
      <4>6. Inactive(u)' = Inactive(u) \union {r0}
        BY <2>7, <3>3
      <4> QED BY <3>2, <4>4, <4>5, <4>6
    <3>4. CASE u # u0
      BY <1>5, <2>3, <2>7, <3>2, <3>4
    <3> QED BY <3>3, <3>4
  <2> QED BY <2>6, <2>8, <2>9 DEF RefreshInv
<1>9. CASE CreateToken(p)
  <2>1. PICK r0 \in Refreshes :
          refresh[r0] = Absent /\ refresh' = [refresh EXCEPT ![r0] = [user |-> local[p].user, active |-> TRUE]]
    BY <1>9 DEF CreateToken
  <2>2. ended' = ended /\ torn' = torn /\ ~At(p, "find_active")
    BY <1>9 DEF CreateToken, At
  <2>3. refresh'[r0].active /\ \A r \in Refreshes \ {r0} : refresh'[r] = refresh[r]
    BY <1>5, <2>1
  <2>4. ASSUME NEW u \in Users PROVE Inactive(u)' = Inactive(u)
    BY <2>1, <2>3 DEF Inactive
  <2> QED BY <1>1, <1>2, <1>4, <2>2, <2>3, <2>4, RefreshFrame
<1>10. CASE Looks(p) \/ Admit(p) \/ CreateUser(p) \/ CreateAccess(p) \/ CreateCode(p) \/ FindCode(p)
            \/ UseCode(p) \/ SetVerified(p) \/ SetPassword(p) \/ CreateOrganization(p)
            \/ SetCurrent(p) \/ UpdateCache(p)
  <2>1. ~At(p, "find_active")
    BY <1>10 DEF Looks, At, Middleware, Lookup, Load, Admit, Act, FindUser, FindNoUser,
         CheckPassword, CreateUser, FindOrCreate, FindRefresh, CreateAccess,
         CreateCode, FindCode, UseCode, CheckCode, SetVerified, SetPassword, GetOrganization,
         CreateOrganization, GetUser, DeleteOrganization, SetCurrent, UpdateCache
  <2>2. refresh' = refresh /\ ended' = ended /\ torn \subseteq torn'
    BY <1>10, LooksQuiet DEF Admit, CreateUser, CreateAccess, CreateCode, FindCode, UseCode,
         SetVerified, SetPassword, CreateOrganization, SetCurrent, UpdateCache, Refuse, Quiet
  <2> QED BY <1>6, <2>1, <2>2
<1> QED BY <1>7, <1>8, <1>9, <1>10 DEF Step, Looks

\* A logout whose commit was followed by a fault has torn the token it ended.
LEMMA RefreshLate ==
  ASSUME TypeOK, Control, RefreshInv, NEW p \in Procs, FailAfter(p)
  PROVE  RefreshInv'
<1> USE DEF dbVars, tokenVars, histories, bounds
<1>1. Over(p) /\ Grows
  BY LateStep
<1>2. \A r \in Refreshes : ~Ending(p, r)'
  BY <1>1 DEF Ending, At, Running, Over
<1>3. \A q \in Procs \ {p}, r \in Refreshes : Ending(q, r)' <=> Ending(q, r)
  BY <1>1, Idle DEF Ending, Over
<1>4. ended' = ended /\ torn \subseteq torn'
  BY DEF FailAfter, CommitUser, CommitToken
<1>5. refresh \in [Refreshes -> Refresh \union {Absent}]
  BY DEF TypeOK
<1>6. CASE refresh' = refresh
  <2>1. \A u \in Users : Inactive(u)' = Inactive(u)
    BY <1>6 DEF Inactive
  <2> QED BY <1>1, <1>2, <1>3, <1>4, <1>6, <2>1, RefreshFrame
<1>7. CASE CommitToken(p) /\ At(p, "create_token")
  <2>1. PICK r0 \in Refreshes :
          refresh[r0] = Absent /\ refresh' = [refresh EXCEPT ![r0] = [user |-> local[p].user, active |-> TRUE]]
    BY <1>7 DEF CommitToken, At
  <2>2. refresh'[r0].active /\ \A r \in Refreshes \ {r0} : refresh'[r] = refresh[r]
    BY <1>5, <2>1
  <2>3. ASSUME NEW u \in Users PROVE Inactive(u)' = Inactive(u)
    BY <2>1, <2>2 DEF Inactive
  <2> QED BY <1>1, <1>2, <1>3, <1>4, <2>2, <2>3, RefreshFrame
<1>8. CASE CommitToken(p) /\ At(p, "deactivate")
  <2> DEFINE r0 == local[p].token
             u0 == local[p].user
  <2>1. r0 \in Refreshes /\ refresh[r0] # Absent /\ refresh[r0].user = u0
    BY <1>8, Located DEF Knows, Informed
  <2>2. torn' = torn \union {r0} /\ refresh' = [refresh EXCEPT ![r0].active = FALSE]
    BY <1>8 DEF CommitToken, At
  <2>3. /\ \A r \in Refreshes \ {r0} : refresh'[r] = refresh[r]
        /\ refresh'[r0] # Absent /\ refresh'[r0].user = u0 /\ ~refresh'[r0].active
    <3> DEFINE row == [user |-> refresh[r0].user, active |-> FALSE]
    <3>1. refresh' = [x \in Refreshes |-> IF x = r0 THEN row ELSE refresh[x]]
      BY <2>1, <2>2, RowForms
    <3>2. row # Absent /\ row.user = u0 /\ ~row.active
      BY <2>1, RowForms, RowsAreRows
    <3> HIDE DEF row, r0, u0
    <3> QED BY <2>1, <3>1, <3>2
  <2> HIDE DEF r0, u0
  <2>4. ASSUME NEW r \in Refreshes \ torn', NEW q \in Procs, NEW o \in Procs, Ending(q, r)'
        PROVE  refresh'[r].active /\ (Ending(o, r)' => q = o)
    <3>1. q # p /\ Ending(q, r) /\ r \notin torn /\ r \in Refreshes /\ r # r0
      BY <1>2, <1>3, <2>2, <2>4
    <3>2. Ending(o, r)' => Ending(o, r)
      BY <1>2, <1>3, <3>1
    <3> QED BY <2>3, <3>1, <3>2 DEF RefreshInv
  <2>5. ASSUME NEW u \in Users PROVE Inactive(u)' = IF u = u0 THEN Inactive(u) \union {r0} ELSE Inactive(u)
    <3>1. \A r \in Refreshes : r \in Inactive(u)' <=> r \in Inactive(u) \/ (u = u0 /\ r = r0)
      BY <2>1, <2>3 DEF Inactive
    <3>2. Inactive(u)' \subseteq Refreshes /\ Inactive(u) \subseteq Refreshes
      BY DEF Inactive
    <3> QED BY <2>1, <3>1, <3>2
  <2>6. ASSUME NEW u \in Users PROVE IsFiniteSet(Inactive(u)')
    <3>1. IsFiniteSet(Inactive(u))
      BY DEF RefreshInv
    <3>2. IsFiniteSet(Inactive(u) \union {r0})
      BY <3>1, FS_AddElement
    <3> QED BY <2>5, <3>1, <3>2
  <2>7. ASSUME NEW u \in Users, Untorn(u)' PROVE Cardinality(Inactive(u)') = ended'[u]
    <3>1. Untorn(u)
      BY <1>1, <1>4, <2>7 DEF Untorn, Grows
    <3>2. u # u0
      BY <2>1, <2>2, <2>3, <2>7 DEF Untorn
    <3> QED BY <1>4, <2>5, <3>1, <3>2 DEF RefreshInv
  <2> QED BY <2>4, <2>6, <2>7 DEF RefreshInv
<1> QED BY <1>6, <1>7, <1>8 DEF FailAfter, CommitUser, CommitToken

\* Nobody has logged out at the start.
LEMMA RefreshInit == Init => RefreshInv
<1> SUFFICES ASSUME Init PROVE RefreshInv
  OBVIOUS
<1>1. \A u \in Users : Inactive(u) = {}
  BY DEF Init, Inactive
<1>2. \A p \in Procs, r \in Refreshes : ~Ending(p, r)
  BY DEF Init, Ending, At, Running
<1>3. \A u \in Users : ended[u] = 0
  BY DEF Init
<1> QED BY <1>1, <1>2, <1>3, FS_EmptySet DEF RefreshInv

\* RefreshInv is inductive, given types and places.
LEMMA RefreshKept == TypeOK /\ Control /\ RefreshInv /\ [Next]_vars => RefreshInv'
<1> SUFFICES ASSUME TypeOK, Control, RefreshInv, [Next]_vars PROVE RefreshInv'
  OBVIOUS
<1> USE DEF dbVars, tokenVars, histories, bounds
<1>1. ASSUME refresh' = refresh, ended' = ended, torn \subseteq torn',
             \A q \in Procs, r \in Refreshes : Ending(q, r)' => Ending(q, r)
      PROVE  RefreshInv'
  <2>1. \A u \in Users : Inactive(u)' = Inactive(u) /\ (Untorn(u)' => Untorn(u))
    BY <1>1 DEF Inactive, Untorn
  <2> QED BY <1>1, <2>1 DEF RefreshInv
<1>2. ASSUME NEW p \in Procs, Client(p) PROVE RefreshInv'
  <2>1. PICK c : Asked(c) /\ Receive(p, c)
    BY <1>2, ClientAsks
  <2>2. UNCHANGED <<refresh, ended, torn>>
    BY <2>1 DEF Receive
  <2>3. /\ todo'[p] = Script(c.op)
        /\ \A q \in Procs \ {p} : todo'[q] = todo[q] /\ local'[q] = local[q]
    BY <2>1 DEF Receive, TypeOK
  <2>4. Head(Script(c.op)) # "deactivate"
    BY <2>1, Scripted DEF Asked
  <2>5. \A r \in Refreshes : ~Ending(p, r)'
    BY <2>3, <2>4 DEF Ending, At, Running
  <2>6. \A q \in Procs \ {p}, r \in Refreshes : Ending(q, r)' <=> Ending(q, r)
    BY <2>3, Idle DEF Ending
  <2> QED BY <1>1, <2>2, <2>5, <2>6
<1>3. ASSUME NEW p \in Procs, Fail(p) PROVE RefreshInv'
  <2>1. UNCHANGED <<refresh, ended>> /\ torn \subseteq torn'
    BY <1>3 DEF Fail
  <2>2. Over(p)
    BY <1>3, Moved DEF Fail
  <2>3. \A r \in Refreshes : ~Ending(p, r)'
    BY <2>2 DEF Ending, At, Running, Over
  <2>4. \A q \in Procs \ {p}, r \in Refreshes : Ending(q, r)' <=> Ending(q, r)
    BY <2>2, Idle DEF Ending, Over
  <2> QED BY <1>1, <2>1, <2>3, <2>4
<1>4. ASSUME NEW p \in Procs, Step(p) PROVE RefreshInv'
  BY <1>4, RefreshStep
<1>5. ASSUME UNCHANGED <<refresh, ended, torn, todo, local>> PROVE RefreshInv'
  <2>1. \A q \in Procs, r \in Refreshes : Ending(q, r)' <=> Ending(q, r)
    BY <1>5, Idle DEF Ending
  <2> QED BY <1>1, <1>5, <2>1
<1>6. CASE UNCHANGED vars
  BY <1>5, <1>6 DEF vars
<1>7. ASSUME NEW p \in Procs, FailAfter(p) PROVE RefreshInv'
  BY <1>7, RefreshLate
<1> QED BY <1>2, <1>3, <1>4, <1>5, <1>6, <1>7, Parts DEF Mishap, Expire, Evict

\* Each successful logout ends one session, and nothing else ends one, but for two at
\* a time that end the same and for one whose update raised after its commit.
THEOREM LogoutsEnd == Spec => []LogoutEnds
<1>1. RefreshInv => LogoutEnds
  <2> SUFFICES ASSUME RefreshInv, NEW u \in Users PROVE
        LET Of == {r \in Refreshes : refresh[r] # Absent /\ refresh[r].user = u}
        IN  Of \intersect torn = {} => Cardinality({r \in Of : ~refresh[r].active}) = ended[u]
    BY DEF LogoutEnds
  <2> DEFINE Of == {r \in Refreshes : refresh[r] # Absent /\ refresh[r].user = u}
  <2>1. {r \in Of : ~refresh[r].active} = Inactive(u)
    BY DEF Inactive
  <2>2. Of \intersect torn = {} => Untorn(u)
    BY DEF Untorn
  <2>3. Untorn(u) => Cardinality(Inactive(u)) = ended[u]
    BY DEF RefreshInv
  <2> QED BY <2>1, <2>2, <2>3
<1>2. Spec => [](TypeOK /\ Control /\ RefreshInv)
  BY InitKept, NextKept, RefreshInit, RefreshKept, PTL DEF Spec
<1> QED BY <1>1, <1>2, PTL

-----------------------------------------------------------------------------
(* The choice of an organization.                                          *)

\* A choice stays told if it is stored and cached as before, and nobody comes to
\* cache another.
LEMMA ToldStays ==
  ASSUME NEW s \in Sessions, Told(s), chosen'[s] = chosen[s],
         chosen[s] # Null =>
           /\ holder'[s] = holder[s] /\ user'[holder[s]].current = user[holder[s]].current
           /\ cache'[s] \in {cache[s], Absent, chosen[s]}
           /\ \A q \in Procs : Caches(q, s)' => \/ Caches(q, s) /\ local'[q].seen = local[q].seen
                                                \/ local'[q].seen = chosen[s]
  PROVE  Told(s)'
<1>1. CASE chosen[s] = Null
  BY <1>1 DEF Told
<1>2. CASE chosen[s] # Null
  BY <1>2 DEF Told
<1> QED BY <1>1, <1>2

\* A request that does not move caches what it would have cached.
LEMMA CachesStill ==
  ASSUME NEW q \in Procs, todo'[q] = todo[q], local'[q] = local[q],
         NEW s \in Sessions, holder'[s] = holder[s]
  PROVE  /\ Caches(q, s)' <=> Caches(q, s)
         /\ local'[q].seen = local[q].seen
BY Idle DEF Caches

\* The user is about to be cached only after he was loaded or updated.
LEMMA ToCache ==
  ASSUME TypeOK, Control, NEW p \in Procs, NEW h, At(p, h), Proceeds(p),
         NEW s \in Sessions, Caches(p, s)'
  PROVE  h \in {"load", "set_current", "set_verified"}
<1>1. Makes(local[p].op, h) /\ Head(todo[p]) = h /\ h \in Calls
  BY Located
<1> DEFINE n == Head(todo'[p])
<1>2. /\ todo'[p] # <<>> /\ n \in {"admit", "update_cache", "create_token"}
      /\ n = "create_token" => local'[p].op = "verify_email"
  BY DEF Caches, At, Running
<1>3. /\ local'[p].op = local[p].op
      /\ \/ Follows(h, n)
         \/ h = "lookup" /\ n \in Handling
         \/ h = "find_or_create" /\ n = "create_user"
  BY <1>1, <1>2 DEF Proceeds
<1> HIDE DEF n
<1> QED BY <1>1, <1>2, <1>3 DEF Follows, Handling, Calls, Makes

\* Only set_current changes what a user has chosen.
LEMMA ChoiceStays ==
  ASSUME TypeOK, Control, NEW p \in Procs, Step(p), ~At(p, "set_current"),
         NEW u \in Users, user[u] # Absent
  PROVE  user'[u].current = user[u].current
<1> USE DEF dbVars, tokenVars, histories, bounds
<1>1. CASE CreateUser(p)
  <2>1. user \in [Users -> User \union {Absent}]
    BY DEF TypeOK
  <2>2. CASE NewUser(local[p].user, local[p].password) /\ user[local[p].user] = Absent
    <3>1. u # local[p].user
      BY <2>2
    <3> QED BY <2>1, <2>2, <3>1 DEF NewUser
  <2> QED BY <1>1, <2>2 DEF CreateUser, Refuse, Quiet
<1>2. CASE SetPassword(p)
  <2>1. At(p, "set_password")
    BY <1>2 DEF SetPassword
  <2>2. user[local[p].user] # Absent /\ local[p].user \in Users
    BY <2>1, Located, Known DEF Knows, Informed, Makes, MailOps, SessionOps
  <2>3. HasRow(local[p].user, local[p].new, user[local[p].user].current)
    BY <1>2, <2>2, RowForms DEF SetPassword
  <2> QED BY <2>3 DEF HasRow
<1>3. CASE user' = user
  BY <1>3
<1>4. CASE Looks(p)
  BY <1>3, <1>4, LooksQuiet DEF Quiet
<1> QED BY <1>1, <1>2, <1>3, <1>4 DEF Step, Looks, Admit, CreateToken, CreateAccess, FindActive,
     Deactivate, CreateCode, FindCode, UseCode, SetVerified, CreateOrganization, SetCurrent,
     UpdateCache, Refuse, Quiet

\* Who works in a session, and that he has a row.
LEMMA Holds ==
  ASSUME TypeOK, Control, NEW s \in Sessions, holder[s] # Null
  PROVE  holder[s] \in Users /\ user[holder[s]] # Absent
BY DEF TypeOK, Control, Owned

\* What a request that has just looked the user up has seen.
LEMMA SeenNow ==
  ASSUME TypeOK, Control, ChosenInv, NEW p \in Procs, Proceeds(p), NEW h, At(p, h),
         h \in {"load", "set_verified"}, Went(p, [local[p] EXCEPT !.seen = user[local[p].user].current]),
         NEW s \in Sessions, chosen[s] # Null, holder'[s] = holder[s], Caches(p, s)'
  PROVE  local'[p].seen = chosen[s]
<1> DEFINE c == local[p]
           d == [c EXCEPT !.seen = user[c.user].current]
<1>1. c \in Local /\ Makes(c.op, h) /\ Knows(c, h) /\ Head(todo[p]) = h
  BY Located
<1>2. d.seen = user[c.user].current /\ d.session = c.session /\ d.user = c.user /\ d.op = c.op
  BY <1>1 DEF Local
<1> HIDE DEF d
<1>3. todo'[p] # <<>>
  BY DEF Caches, At, Running
<1>4. local'[p] = d
  BY <1>3 DEF Went, d
<1>5. Head(todo'[p]) = "create_token" =>
        ~At(p, "admit")' /\ ~At(p, "update_cache")'
  BY DEF At
<1>6. CASE c.session = s /\ c.op \in SessionOps
  <2>1. c.user = holder[s]
    BY <1>1, <1>6 DEF Knows, Informed
  <2> QED BY <1>2, <1>4, <2>1 DEF ChosenInv, Told
<1>7. CASE d.user = holder[s]
  BY <1>2, <1>4, <1>7 DEF ChosenInv, Told
<1>8. (c.session = s /\ c.op \in SessionOps) \/ d.user = holder[s]
  <2>1. \/ At(p, "admit")' /\ d.session = s
        \/ At(p, "update_cache")' /\ d.session = s
        \/ d.user = holder[s]
    BY <1>4 DEF Caches
  <2>2. At(p, "admit")' \/ At(p, "update_cache")' => d.op \in SessionOps
    <3>1. h = "load" => c.op \in SessionOps
      BY <1>1 DEF Makes
    <3>2. h = "set_verified" => c.op \in {"verify_email", "verify_two_fa"}
      BY <1>1 DEF Makes
    <3>3. "verify_two_fa" \in SessionOps
      BY DEF SessionOps
    <3>4. h = "set_verified" /\ c.op = "verify_email" => ~At(p, "admit")' /\ ~At(p, "update_cache")'
      <4>1. ASSUME h = "set_verified", c.op = "verify_email"
            PROVE  Head(Tail(todo[p])) = "create_token"
        <5>1. todo[p] \in Remaining("verify_email")
          BY <4>1, Located
        <5>2. CASE todo[p] = <<"set_verified", "create_token">>
          BY <5>2
        <5> QED BY <1>1, <4>1, <5>1, <5>2 DEF Remaining
      <4>2. todo'[p] = Tail(todo[p])
        BY DEF Went
      <4> QED BY <4>1, <4>2 DEF At
    <3> QED BY <1>2, <3>1, <3>2, <3>3, <3>4
  <2> QED BY <1>2, <2>1, <2>2
<1> QED BY <1>6, <1>7, <1>8

\* Every call keeps what is known of choices.
LEMMA ChosenStep ==
  ASSUME TypeOK, Control, ChosenInv, NEW p \in Procs, Step(p)
  PROVE  ChosenInv'
<1> USE DEF dbVars, tokenVars, histories, bounds
<1>1. Control' /\ Proceeds(p) /\ Alone(p) /\ Grows
  BY TablesStep, StepSettles, Together DEF Lands
<1>2. /\ chosen \in [Sessions -> Orgs \union {Null}]
      /\ cache \in [Sessions -> Current \union {Absent}]
      /\ user \in [Users -> User \union {Absent}] /\ Null \notin Orgs
  BY AccountsAssumption DEF TypeOK
<1>3. SUFFICES ASSUME NEW s \in Sessions PROVE Told(s)'
  BY DEF ChosenInv
<1>4. Told(s)
  BY DEF ChosenInv
<1>5. chosen[s] # Null => /\ holder[s] # Null /\ holder'[s] = holder[s]
                          /\ holder[s] \in Users /\ user[holder[s]] # Absent
                          /\ user[holder[s]].current = chosen[s]
  BY <1>1, <1>4, Holds DEF Told, Grows
<1>6. ASSUME NEW q \in Procs \ {p}, holder'[s] = holder[s]
      PROVE  (Caches(q, s)' <=> Caches(q, s)) /\ local'[q].seen = local[q].seen
  BY <1>1, <1>6, CachesStill DEF Alone
<1>7. Running(p) /\ \E h : At(p, h)
  BY StepAt
<1>8. CASE SetCurrent(p)
  <2> DEFINE c == local[p]
  <2>1. At(p, "set_current")
    BY <1>8 DEF SetCurrent
  <2>2. /\ c.op \in SessionOps /\ c.user \in Users /\ user[c.user] # Absent
        /\ c.user = holder[c.session]
    BY <2>1, Located, Known DEF Makes, SessionOps, Knows, Informed
  <2>3. HasRow(c.user, user[c.user].password, c.org)
    BY <1>8, <2>2, RowForms DEF SetCurrent
  <2>4. chosen'[s] = IF holder[s] = c.user THEN Null ELSE chosen[s]
    BY <1>8 DEF SetCurrent
  <2>5. cache' = cache
    BY <1>8 DEF SetCurrent
  <2>6. CASE holder[s] = c.user
    BY <2>4, <2>6 DEF Told
  <2>7. CASE holder[s] # c.user
    <3>1. ~(chosen[s] # Null /\ Caches(p, s)')
      <4>1. SUFFICES ASSUME Caches(p, s)', chosen[s] # Null PROVE FALSE
        OBVIOUS
      <4>2. todo'[p] # <<>>
        BY <4>1 DEF Caches, At, Running
      <4>3. /\ local'[p].session = c.session /\ local'[p].op = c.op /\ local'[p].user = c.user
            /\ holder'[s] = holder[s]
        BY <1>1, <1>5, <2>1, <4>1, <4>2 DEF Proceeds, At
      <4>4. "verify_email" \notin SessionOps
        BY DEF SessionOps
      <4>5. local'[p].session = s
        BY <2>2, <4>1, <4>3, <4>4 DEF Caches
      <4> QED BY <2>2, <2>7, <4>3, <4>5
    <3>2. chosen[s] # Null => user'[holder[s]].current = user[holder[s]].current
      BY <1>5, <2>3, <2>7 DEF HasRow
    <3> QED BY <1>4, <1>5, <1>6, <2>4, <2>5, <2>7, <3>1, <3>2, ToldStays
  <2> QED BY <2>6, <2>7
<1>9. CASE UpdateCache(p)
  <2> DEFINE c == local[p]
  <2>1. At(p, "update_cache")
    BY <1>9 DEF UpdateCache
  <2>2. /\ c.session \in Sessions /\ c.user = holder[c.session] /\ holder[c.session] # Null
    BY <2>1, Located DEF Makes, SessionOps, Knows, Informed
  <2>3. /\ cache' = [cache EXCEPT ![c.session] = c.seen]
        /\ chosen' = [chosen EXCEPT ![c.session] =
                        IF c.seen \notin Orgs \/ Overtaken(p) THEN Null ELSE c.seen]
        /\ holder' = holder /\ user' = user
    BY <1>9 DEF UpdateCache
  <2>4. ~Caches(p, s)'
    BY <1>1, <2>1, ToCache
  <2>5. CASE s = c.session
    <3>1. chosen'[s] = IF c.seen \notin Orgs \/ Overtaken(p) THEN Null ELSE c.seen
      BY <1>2, <2>3, <2>5
    <3>2. CASE c.seen \notin Orgs \/ Overtaken(p)
      BY <3>1, <3>2 DEF Told
    <3>3. CASE c.seen \in Orgs /\ ~Overtaken(p)
      <4>1. chosen'[s] = c.seen /\ cache'[s] = c.seen /\ user'[holder'[s]].current = c.seen
        BY <1>2, <2>2, <2>3, <2>5, <3>1, <3>3 DEF Overtaken
      <4>2. \A q \in Procs \ {p} : Caches(q, s) => local[q].seen = c.seen
        BY <2>2, <2>5, <3>3 DEF Overtaken, Caches
      <4>3. \A q \in Procs : Caches(q, s)' => local'[q].seen = c.seen
        BY <1>6, <2>3, <2>4, <4>2
      <4>4. holder'[s] # Null
        BY <2>2, <2>3, <2>5
      <4> QED BY <4>1, <4>3, <4>4 DEF Told
    <3> QED BY <3>2, <3>3
  <2>6. CASE s # c.session
    <3>1. chosen'[s] = chosen[s] /\ cache'[s] = cache[s]
      BY <1>2, <2>3, <2>6
    <3> QED BY <1>4, <1>6, <2>3, <2>4, <3>1, ToldStays
  <2> QED BY <2>5, <2>6
<1>10. CASE Load(p) \/ SetVerified(p)
  <2>1. PICK h \in {"load", "set_verified"} : At(p, h)
    BY <1>10 DEF Load, SetVerified
  <2>2. Went(p, [local[p] EXCEPT !.seen = user[local[p].user].current])
    BY <1>7, <1>10, Moved DEF Load, SetVerified
  <2>3. chosen' = chosen /\ cache' = cache /\ user' = user
    BY <1>10 DEF Load, SetVerified, Read, Quiet
  <2>4. chosen[s] # Null /\ Caches(p, s)' => local'[p].seen = chosen[s]
    BY <1>1, <1>5, <2>1, <2>2, SeenNow
  <2> QED BY <1>4, <1>5, <1>6, <2>3, <2>4, ToldStays
<1>11. CASE Admit(p)
  <2>1. At(p, "admit")
    BY <1>11 DEF Admit
  <2>2. /\ chosen' = chosen /\ user' = user
        /\ cache' = [cache EXCEPT ![local[p].session] = local[p].seen]
    BY <1>11 DEF Admit
  <2>3. ~Caches(p, s)'
    BY <1>1, <2>1, ToCache
  <2>4. chosen[s] # Null => cache'[s] \in {cache[s], chosen[s]}
    BY <1>2, <1>4, <2>1, <2>2 DEF Told, Caches
  <2> QED BY <1>4, <1>5, <1>6, <2>2, <2>3, <2>4, ToldStays
<1>12. CASE CreateToken(p)
  <2>1. At(p, "create_token")
    BY <1>12 DEF CreateToken
  <2>2. PICK s0 \in Sessions :
          /\ holder[s0] \in {Null, local[p].user}
          /\ cache' = IF local[p].op = "verify_email" THEN [cache EXCEPT ![s0] = local[p].seen]
                      ELSE cache
    BY <1>12 DEF CreateToken, NewAccess
  <2>3. chosen' = chosen /\ user' = user
    BY <1>12 DEF CreateToken
  <2>4. ~Caches(p, s)'
    BY <1>1, <2>1, ToCache
  <2>5. chosen[s] # Null => cache'[s] \in {cache[s], chosen[s]}
    <3>1. CASE s = s0 /\ chosen[s] # Null /\ local[p].op = "verify_email"
      <4>1. Caches(p, s)
        BY <1>5, <2>1, <2>2, <3>1 DEF Caches
      <4> QED BY <1>2, <1>4, <2>2, <3>1, <4>1 DEF Told
    <3>2. CASE s # s0 \/ local[p].op # "verify_email"
      BY <1>2, <2>2, <3>2
    <3> QED BY <3>1, <3>2
  <2> QED BY <1>4, <1>5, <1>6, <2>3, <2>4, <2>5, ToldStays
<1>13. CASE ~SetCurrent(p) /\ ~UpdateCache(p) /\ ~Load(p) /\ ~SetVerified(p) /\ ~Admit(p)
            /\ ~CreateToken(p)
  <2>1. chosen' = chosen /\ cache' = cache
    <3>1. CASE Looks(p)
      BY <3>1, LooksQuiet DEF Quiet
    <3> QED BY <1>13, <3>1 DEF Step, Looks, CreateUser, CreateAccess, FindActive, Deactivate,
          CreateCode, FindCode, UseCode, SetPassword, CreateOrganization, Refuse, Quiet
  <2>2. PICK h : At(p, h) /\ h \notin {"load", "set_current", "set_verified"}
    BY <1>13 DEF Step, At, Middleware, Lookup, Load, Admit, Act, FindUser, FindNoUser,
         CheckPassword, CreateUser, FindOrCreate, CreateToken, FindRefresh, CreateAccess,
         FindActive, Deactivate, CreateCode, FindCode, UseCode, CheckCode, SetVerified,
         SetPassword, GetOrganization, CreateOrganization, GetUser, DeleteOrganization,
         SetCurrent, UpdateCache
  <2>3. ~Caches(p, s)'
    BY <1>1, <2>2, ToCache
  <2>4. chosen[s] # Null => user'[holder[s]].current = user[holder[s]].current
    <3>1. ~At(p, "set_current")
      BY <2>2 DEF At
    <3> QED BY <1>5, <3>1, ChoiceStays
  <2> QED BY <1>4, <1>5, <1>6, <2>1, <2>3, <2>4, ToldStays
<1> QED BY <1>8, <1>9, <1>10, <1>11, <1>12, <1>13

\* A choice that was stored, and then a fault, is told to nobody.
LEMMA ChosenLate ==
  ASSUME TypeOK, Control, ChosenInv, NEW p \in Procs, FailAfter(p)
  PROVE  ChosenInv'
<1> USE DEF dbVars, tokenVars, histories, bounds
<1>1. Over(p)
  BY LateStep
<1>2. cache' = cache /\ holder' = holder
  BY DEF FailAfter
<1>3. ASSUME NEW s \in Sessions
      PROVE  \A q \in Procs : Caches(q, s)' => Caches(q, s) /\ local'[q].seen = local[q].seen
  <2>1. ~Caches(p, s)'
    BY <1>1 DEF Caches, At, Running, Over
  <2>2. \A q \in Procs \ {p} : Caches(q, s)' => Caches(q, s) /\ local'[q].seen = local[q].seen
    BY <1>1, <1>2, CachesStill DEF Over
  <2> QED BY <2>1, <2>2
<1>4. SUFFICES ASSUME NEW s \in Sessions PROVE Told(s)'
  BY DEF ChosenInv
<1>5. Told(s)
  BY DEF ChosenInv
<1>6. chosen[s] # Null => /\ holder[s] \in Users /\ user[holder[s]] # Absent
  BY <1>5, Holds DEF Told
<1>7. user \in [Users -> User \union {Absent}] /\ chosen \in [Sessions -> Orgs \union {Null}]
  BY DEF TypeOK
<1>8. CASE user' = user /\ chosen' = chosen
  BY <1>2, <1>3, <1>5, <1>8, ToldStays
<1>9. CASE CommitUser(p) /\ At(p, "create_user")
  <2>1. chosen' = chosen /\ NewUser(local[p].user, local[p].password) /\ user[local[p].user] = Absent
    BY <1>9 DEF CommitUser, At
  <2>2. chosen[s] # Null => user'[holder[s]].current = user[holder[s]].current
    BY <1>6, <1>7, <2>1 DEF NewUser
  <2> QED BY <1>2, <1>3, <1>5, <2>1, <2>2, ToldStays
<1>10. CASE CommitUser(p) /\ At(p, "set_password")
  <2>1. chosen' = chosen /\ user' = [user EXCEPT ![local[p].user].password = local[p].new]
    BY <1>10 DEF CommitUser, At
  <2>2. user[local[p].user] # Absent /\ local[p].user \in Users
    BY <1>10, Located, Known DEF Knows, Informed, Makes, MailOps, SessionOps
  <2>3. HasRow(local[p].user, local[p].new, user[local[p].user].current)
    BY <2>1, <2>2, RowForms
  <2>4. chosen[s] # Null => user'[holder[s]].current = user[holder[s]].current
    BY <1>6, <2>3 DEF HasRow
  <2> QED BY <1>2, <1>3, <1>5, <2>1, <2>4, ToldStays
<1>11. CASE CommitUser(p) /\ At(p, "set_current")
  <2> DEFINE c == local[p]
  <2>1. /\ user' = [user EXCEPT ![c.user].current = c.org]
        /\ chosen'[s] = IF holder[s] = c.user THEN Null ELSE chosen[s]
    BY <1>11 DEF CommitUser, At
  <2>2. c.user \in Users /\ user[c.user] # Absent
    BY <1>11, Located, Known DEF Makes, SessionOps
  <2>3. HasRow(c.user, user[c.user].password, c.org)
    BY <2>1, <2>2, RowForms
  <2>4. CASE holder[s] = c.user
    BY <2>1, <2>4 DEF Told
  <2>5. CASE holder[s] # c.user
    <3>1. chosen[s] # Null => user'[holder[s]].current = user[holder[s]].current
      BY <1>6, <2>3, <2>5 DEF HasRow
    <3> QED BY <1>2, <1>3, <1>5, <2>1, <2>5, <3>1, ToldStays
  <2> QED BY <2>4, <2>5
<1> QED BY <1>8, <1>9, <1>10, <1>11 DEF FailAfter, CommitUser, CommitToken

\* Nobody has chosen at the start.
LEMMA ChosenInit == Init => ChosenInv
BY DEF Init, ChosenInv, Told

\* ChosenInv is inductive, given types and places.
LEMMA ChosenKept == TypeOK /\ Control /\ ChosenInv /\ [Next]_vars => ChosenInv'
<1> SUFFICES ASSUME TypeOK, Control, ChosenInv, [Next]_vars PROVE ChosenInv'
  OBVIOUS
<1> USE DEF dbVars, tokenVars, histories, bounds
<1>1. ASSUME UNCHANGED <<user, holder, chosen>>,
             \A s \in Sessions : cache'[s] \in {cache[s], Absent},
             \A q \in Procs, s \in Sessions :
               Caches(q, s)' => Caches(q, s) /\ local'[q].seen = local[q].seen
      PROVE  ChosenInv'
  BY <1>1, ToldStays DEF ChosenInv
<1>2. ASSUME NEW p \in Procs, Client(p) PROVE ChosenInv'
  <2>1. PICK c : Asked(c) /\ Receive(p, c)
    BY <1>2, ClientAsks
  <2>2. UNCHANGED <<user, holder, chosen, cache>>
    BY <2>1 DEF Receive
  <2>3. /\ todo'[p] = Script(c.op)
        /\ \A q \in Procs \ {p} : todo'[q] = todo[q] /\ local'[q] = local[q]
    BY <2>1 DEF Receive, TypeOK
  <2>4. Head(Script(c.op)) \notin {"admit", "update_cache", "create_token"}
    BY <2>1, Scripted DEF Asked
  <2>5. \A s \in Sessions : ~Caches(p, s)'
    BY <2>3, <2>4 DEF Caches, At, Running
  <2>6. \A q \in Procs \ {p}, s \in Sessions :
          Caches(q, s)' => Caches(q, s) /\ local'[q].seen = local[q].seen
    BY <2>2, <2>3, CachesStill
  <2> QED BY <1>1, <2>2, <2>5, <2>6
<1>3. ASSUME NEW p \in Procs, Fail(p) PROVE ChosenInv'
  <2>1. UNCHANGED <<user, holder, chosen, cache>>
    BY <1>3 DEF Fail
  <2>2. Over(p)
    BY <1>3, Moved DEF Fail
  <2>3. \A s \in Sessions : ~Caches(p, s)'
    BY <2>2 DEF Caches, At, Running, Over
  <2>4. \A q \in Procs \ {p}, s \in Sessions :
          Caches(q, s)' => Caches(q, s) /\ local'[q].seen = local[q].seen
    BY <2>1, <2>2, CachesStill DEF Over
  <2> QED BY <1>1, <2>1, <2>3, <2>4
<1>4. ASSUME NEW p \in Procs, Step(p) PROVE ChosenInv'
  BY <1>4, ChosenStep
<1>5. ASSUME UNCHANGED <<user, holder, chosen, todo, local>>,
             \A s \in Sessions : cache'[s] \in {cache[s], Absent}
      PROVE  ChosenInv'
  <2>1. \A q \in Procs, s \in Sessions :
          Caches(q, s)' => Caches(q, s) /\ local'[q].seen = local[q].seen
    BY <1>5, CachesStill
  <2> QED BY <1>1, <1>5, <2>1
<1>6. ASSUME NEW s \in Sessions, Evict(s) PROVE ChosenInv'
  <2>1. \A t \in Sessions : cache'[t] \in {cache[t], Absent}
    BY <1>6 DEF Evict, TypeOK
  <2> QED BY <1>5, <1>6, <2>1 DEF Evict
<1>7. CASE UNCHANGED vars
  BY <1>5, <1>7 DEF vars
<1>8. ASSUME NEW x, Expire(x) PROVE ChosenInv'
  BY <1>5, <1>8 DEF Expire
<1>9. ASSUME NEW p \in Procs, FailAfter(p) PROVE ChosenInv'
  BY <1>9, ChosenLate
<1> QED BY <1>2, <1>3, <1>4, <1>6, <1>7, <1>8, <1>9, Parts DEF Mishap

\* Where a request leaves the dependencies behind, it acts for the choice.
LEMMA ReadsStep ==
  ASSUME TypeOK, Control, ChosenInv, NEW p \in Procs, Step(p),
         Authenticating(p), Running(p)', ~Authenticating(p)', chosen[local[p].session] # Null
  PROVE  local'[p].tenant = chosen[local[p].session]
<1> DEFINE c == local[p]
           s == c.session
<1>1. PICK h \in {"middleware", "lookup", "load", "admit"} : At(p, h)
  BY DEF Authenticating
<1>2. /\ c \in Local /\ c.op \in SessionOps /\ s \in Sessions /\ holder[s] # Null
      /\ Makes(c.op, h) /\ Head(todo[p]) = h
      /\ h # "middleware" => c.user = holder[s]
  BY <1>1, Located DEF Makes, Knows, Informed
<1>3. /\ chosen[s] \in Orgs /\ Absent \notin Orgs
      /\ user[holder[s]].current = chosen[s] /\ cache[s] \in {Absent, chosen[s]}
      /\ Caches(p, s) => c.seen = chosen[s]
  <2>1. chosen[s] \in Orgs
    BY <1>2 DEF TypeOK
  <2>2. Absent \notin Orgs
    BY AccountsAssumption DEF Current
  <2>3. Told(s)
    BY <1>2 DEF ChosenInv
  <2> QED BY <2>1, <2>2, <2>3 DEF Told
<1>4. Proceeds(p) /\ todo'[p] # <<>>
  BY StepSettles DEF Lands, Running
<1>5. ~Over(p) /\ ~Refuse(p)
  <2>1. ~Over(p)
    BY <1>4 DEF Over
  <2> QED BY <1>1, <2>1, Moved DEF At
<1>6. \A d : Went(p, d) => local'[p] = d
  BY <1>4 DEF Went
<1>7. \A n \in {"middleware", "lookup", "load", "admit"} : Head(todo'[p]) # n
  BY <1>4 DEF Authenticating, At, Running
<1>8. h # "load"
  <2>1. SUFFICES ASSUME h = "load" PROVE FALSE
    OBVIOUS
  <2>2. Follows("load", Head(todo'[p]))
    BY <1>2, <1>4, <2>1 DEF Proceeds
  <2> QED BY <1>7, <2>2 DEF Follows
<1>9. CASE h = "middleware"
  <2>1. Middleware(p)
    BY <1>1, <1>9, StepAt
  <2>2. Read(p, [c EXCEPT !.user = holder[s], !.tenant = chosen[s]])
    BY <1>3, <1>5, <2>1 DEF Middleware
  <2>3. local'[p] = Var(c.op, holder[s], c.session, c.password, c.new, c.token, c.org, chosen[s],
                        c.seen, c.found)
    <3> DEFINE d == [c EXCEPT !.user = holder[s], !.tenant = chosen[s]]
    <3>1. local'[p] = d
      BY <1>1, <1>6, <2>2, Moved DEF At
    <3>2. d = Var(c.op, holder[s], c.session, c.password, c.new, c.token, c.org, chosen[s],
                  c.seen, c.found)
      <4>1. ASSUME NEW u, NEW t, NEW x \in Local
            PROVE  [x EXCEPT !.user = u, !.tenant = t] =
                     Var(x.op, u, x.session, x.password, x.new, x.token, x.org, t, x.seen, x.found)
        BY Assigned
      <4> QED BY <1>2, <4>1
    <3> HIDE DEF d
    <3> QED BY <3>1, <3>2
  <2> QED BY <2>3 DEF Var
<1>10. CASE h = "lookup"
  <2>1. Lookup(p)
    BY <1>1, <1>10, StepAt
  <2>2. ~Read(p, c)
    <3>1. SUFFICES ASSUME Read(p, c) PROVE FALSE
      OBVIOUS
    <3>2. todo'[p] = Tail(todo[p])
      BY <1>1, <3>1, Moved DEF At, Went
    <3>3. c.op \in AllOps /\ todo[p] \in Remaining(c.op)
      BY <1>1, Located
    <3>4. Follows("lookup", Head(todo'[p]))
      <4>1. Head(todo[p]) = "lookup" /\ Tail(todo[p]) # <<>>
        BY <1>2, <1>4, <1>10, <3>2
      <4>2. Follows(Head(todo[p]), Head(Tail(todo[p])))
        BY <3>3, <4>1, Remains
      <4> QED BY <3>2, <4>1, <4>2
    <3> QED BY <1>7, <3>4 DEF Follows
  <2>3. cache[s] # Absent /\ local' = [local EXCEPT ![p] = Admitted(c, cache[s])]
    BY <1>5, <2>1, <2>2 DEF Lookup
  <2>4. local'[p] = Admitted(c, chosen[s])
    BY <1>3, <2>3 DEF TypeOK
  <2>5. local'[p] = Var(c.op, c.user, c.session, c.password, c.new, c.token, c.org,
                        IF chosen[s] \in Orgs THEN chosen[s] ELSE c.tenant, chosen[s], TRUE)
    BY <1>2, <2>4, Assigned
  <2> QED BY <1>3, <2>5 DEF Var
<1>11. CASE h = "admit"
  <2>1. Admit(p)
    BY <1>1, <1>11, StepAt
  <2>2. c.seen = chosen[s]
    BY <1>1, <1>3, <1>11 DEF Caches
  <2>3. local'[p] = Admitted(c, chosen[s])
    BY <1>1, <1>6, <2>1, <2>2, Moved DEF Admit, At
  <2>4. local'[p] = Var(c.op, c.user, c.session, c.password, c.new, c.token, c.org,
                        IF chosen[s] \in Orgs THEN chosen[s] ELSE c.tenant, chosen[s], TRUE)
    BY <1>2, <2>3, Assigned
  <2> QED BY <1>3, <2>4 DEF Var
<1> QED BY <1>1, <1>8, <1>9, <1>10, <1>11

\* Any other step leaves the request where it is, or over.
LEMMA ReadsNext ==
  ASSUME TypeOK, Control, ChosenInv, Next, NEW p \in Procs,
         Authenticating(p), Running(p)', ~Authenticating(p)', chosen[local[p].session] # Null
  PROVE  local'[p].tenant = chosen[local[p].session]
<1>1. todo'[p] # todo[p]
  BY DEF Authenticating, At, Running
<1>2. Running(p)
  BY DEF Authenticating, At
<1>3. ASSUME NEW q \in Procs, Step(q) PROVE local'[p].tenant = chosen[local[p].session]
  <2>1. p = q
    BY <1>1, <1>3, StepSettles DEF Lands, Alone
  <2> QED BY <1>3, <2>1, ReadsStep
<1>4. \A q \in Procs : ~Client(q)
  <2>1. SUFFICES ASSUME NEW q \in Procs, Client(q) PROVE FALSE
    OBVIOUS
  <2>2. PICK c : Receive(q, c)
    BY <2>1, ClientAsks
  <2>3. p # q
    BY <1>2, <2>1 DEF Client
  <2> QED BY <1>1, <2>2, <2>3 DEF Receive, TypeOK
<1>5. \A q \in Procs : ~Fail(q)
  <2>1. SUFFICES ASSUME NEW q \in Procs, Fail(q) PROVE FALSE
    OBVIOUS
  <2>2. Over(q)
    BY <2>1, Moved DEF Fail
  <2> QED BY <1>1, <2>2 DEF Over, Running
<1>6. (\A x : ~Expire(x)) /\ (\A s : ~Evict(s))
  BY <1>1 DEF Expire, Evict
<1>7. \A q \in Procs : ~FailAfter(q)
  <2>1. SUFFICES ASSUME NEW q \in Procs, FailAfter(q) PROVE FALSE
    OBVIOUS
  <2>2. Over(q)
    BY <2>1, LateStep
  <2> QED BY <1>1, <2>2 DEF Over, Running
<1> QED BY <1>3, <1>4, <1>5, <1>6, <1>7 DEF Next

\* Once a session was told its organization, its requests act for it until the user
\* chooses again.
THEOREM ReadsOwnWrites == Spec => ReadYourWrites
<1>1. ASSUME TypeOK, Control, ChosenInv, [Next]_vars
      PROVE  [\A p \in Procs :
                LET s == local[p].session
                IN  Authenticating(p) /\ Running(p)' /\ ~Authenticating(p)' /\ chosen[s] # Null
                    => local'[p].tenant = chosen[s]]_vars
  BY <1>1, ReadsNext
<1>2. Spec => [](TypeOK /\ Control /\ ChosenInv)
  BY InitKept, NextKept, ChosenInit, ChosenKept, PTL DEF Spec
<1> QED BY <1>1, <1>2, PTL DEF Spec, ReadYourWrites

=============================================================================
