------------------------------ MODULE Accounts ------------------------------
(***************************************************************************)
(* Users, their tokens and the cache of users: modules/auth/router.py,     *)
(* modules/auth/service.py, common/dependencies.py, and the handlers of    *)
(* modules/organizations/router.py that choose the organization a user     *)
(* works in.                                                               *)
(*                                                                         *)
(* One call of a model's classmethod is one transaction.  The cache is a   *)
(* dictionary of the process, read and written between two awaits.  Of a   *)
(* cached user only attributes["organization_id"] is kept, the one column  *)
(* that is both written by requests and read from the cache to decide      *)
(* something.  Nothing ever clears is_active, and the checks of the        *)
(* verified address and of the second factor are commented out.            *)
(***************************************************************************)
EXTENDS Integers, Sequences, FiniteSets

CONSTANTS
  Procs,                    \* request tasks
  Users,                    \* users, each with an address of his own
  Passwords,
  Orgs,                     \* organization ids
  Sessions,                 \* access tokens; the same user's of one second are equal
  Refreshes, Codes,         \* refresh tokens and verification tokens, with their rows
  Null,                     \* None
  Unset,                    \* attributes without an organization_id
  Absent,                   \* no such row, no such entry
  Ops,                      \* the operations of an instance
  MaxRequests,              \* bound: requests received
  MaxFaults,                \* bound: awaited calls that raise
  MaxLapses,                \* bound: tokens that expire, entries that leave the cache
  MaxEvents                 \* bound: all of these together

MailOps == {"login", "oauth", "register", "issue", "verify_email", "recover"}
SessionOps == {"logout", "reset_password", "visit", "set_organization",
               "create_organization", "delete_workspace", "verify_two_fa"}

Current == Orgs \union {Null, Unset}

\* `password` is Null for a user who came through OAuth.
User == [password : Passwords \union {Null}, current : Current]
Refresh == [user : Users, active : BOOLEAN]
Code == [user : Users, used : BOOLEAN]

ASSUME AccountsAssumption ==
  /\ Ops \subseteq MailOps \union SessionOps \union {"refresh"}
  /\ MaxRequests \in Nat /\ MaxFaults \in Nat /\ MaxLapses \in Nat
  /\ MaxEvents \in Nat
  /\ Absent \notin User \union Refresh \union Code \union Current
  /\ Null \notin Users \union Passwords \union Orgs \union Sessions
                 \union Refreshes \union Codes \union {Unset}
  /\ Unset \notin Orgs

VARIABLES
  user, refresh, code,      \* sys_users, refresh_tokens, email_verifications
  orgs,                     \* sys_organizations: rows there are, deleted or not
  holder,                   \* whom an access token was made for
  cache,                    \* user_cache
  expired,                  \* tokens whose time is over
  todo, local,              \* calls a request has left, its variables
  chosen,                   \* what a session was last told to work in (a history)
  ended,                    \* successful logouts (a history)
  redeemed,                 \* what a verification token has done (a history)
  torn,                     \* tokens two tasks held at once, or half used (a history)
  requests, faults, lapses  \* consumed bounds

dbVars == <<user, refresh, code, orgs>>
tokenVars == <<holder, expired>>
histories == <<chosen, ended, redeemed, torn>>
bounds == <<requests, faults, lapses>>
vars == <<dbVars, tokenVars, cache, todo, local, histories, bounds>>

\* `tenant` is the organization the request acts for, `seen` the choice of the
\* user as the request has loaded it.
Blank == [op |-> Null, user |-> Null, session |-> Null, password |-> Null,
          new |-> Null, token |-> Null, org |-> Null, tenant |-> Null,
          seen |-> Null, found |-> FALSE]

\* The calls of the requests.
Calls == {"middleware", "lookup", "load", "admit", "act", "find_user", "find_no_user",
          "check_password", "create_user", "find_or_create", "create_token",
          "find_refresh", "create_access", "find_active", "deactivate", "create_code",
          "find_code", "use_code", "check_code", "set_verified", "set_password",
          "get_organization", "create_organization", "get_user", "delete_organization",
          "set_current", "update_cache"}

Local == [op : Ops \union {Null}, user : Users \union {Null},
          session : Sessions \union {Null}, password : Passwords \union {Null},
          new : Passwords \union {Null},
          token : Refreshes \union Codes \union {Null}, org : Orgs \union {Null},
          tenant : Orgs \union {Null}, seen : Current, found : BOOLEAN]

TypeOK ==
  /\ user \in [Users -> User \union {Absent}]
  /\ refresh \in [Refreshes -> Refresh \union {Absent}]
  /\ code \in [Codes -> Code \union {Absent}]
  /\ orgs \subseteq Orgs
  /\ holder \in [Sessions -> Users \union {Null}]
  /\ cache \in [Sessions -> Current \union {Absent}]
  /\ expired \subseteq Sessions \union Refreshes \union Codes
  /\ todo \in [Procs -> Seq(Calls)]
  /\ local \in [Procs -> Local]
  /\ chosen \in [Sessions -> Orgs \union {Null}]
  /\ ended \in [Users -> Nat] /\ redeemed \in [Codes -> Nat]
  /\ torn \subseteq Refreshes \union Codes
  /\ requests \in Nat /\ faults \in Nat /\ lapses \in Nat

Init ==
  /\ user = [u \in Users |-> Absent]
  /\ refresh = [r \in Refreshes |-> Absent]
  /\ code = [c \in Codes |-> Absent]
  /\ orgs = {} /\ expired = {}
  /\ holder = [s \in Sessions |-> Null]
  /\ cache = [s \in Sessions |-> Absent]
  /\ todo = [p \in Procs |-> <<>>]
  /\ local = [p \in Procs |-> Blank]
  /\ chosen = [s \in Sessions |-> Null]
  /\ ended = [u \in Users |-> 0] /\ redeemed = [c \in Codes |-> 0] /\ torn = {}
  /\ requests = 0 /\ faults = 0 /\ lapses = 0

-----------------------------------------------------------------------------
(* Requests.                                                               *)

Authenticate == <<"middleware", "lookup", "load", "admit">>

\* set_organization and create_organization
Choosing == <<"set_current", "update_cache">>

Script(op) ==
  CASE op = "login" -> <<"check_password", "create_token">>
    [] op = "oauth" -> <<"find_or_create", "create_token">>
    [] op = "register" -> <<"find_no_user", "create_user", "create_code">>
    [] op = "issue" -> <<"find_user", "create_code">>
    [] op = "verify_email" -> <<"find_user", "find_code", "use_code", "set_verified",
                                "create_token">>
    [] op = "recover" -> <<"find_user", "find_code", "use_code", "set_password">>
    [] op = "refresh" -> <<"find_refresh", "create_access">>
    [] op = "logout" -> Authenticate \o <<"find_active", "deactivate">>
    [] op = "reset_password" -> Authenticate \o <<"check_password", "set_password">>
    [] op = "visit" -> Authenticate \o <<"act">>
    [] op = "set_organization" -> Authenticate \o <<"get_organization">> \o Choosing
    [] op = "create_organization" -> Authenticate \o <<"create_organization">> \o Choosing
    [] op = "verify_two_fa" ->
         Authenticate \o <<"get_user", "check_code", "set_verified", "update_cache">>
    [] op = "delete_workspace" ->
         <<"middleware", "get_user", "delete_organization", "set_current", "update_cache">>

\* Bounds.
Affordable == requests + faults + lapses < MaxEvents

Running(p) == todo[p] # <<>>
At(p, step) == Running(p) /\ Head(todo[p]) = step

\* The request goes on with the variables l.
Continue(p, l) ==
  /\ todo' = [todo EXCEPT ![p] = Tail(@)]
  /\ local' = [local EXCEPT ![p] = IF Len(todo[p]) = 1 THEN Blank ELSE l]

Stop(p) ==
  /\ todo' = [todo EXCEPT ![p] = <<>>]
  /\ local' = [local EXCEPT ![p] = Blank]

Quiet == UNCHANGED <<dbVars, tokenVars, cache, histories, bounds>>

\* An error answer.
Refuse(p) == Stop(p) /\ Quiet

Read(p, l) == Continue(p, l) /\ Quiet

\* Tokens were issued before they are presented.
Receive(p, c) ==
  /\ c.op \in Ops
  /\ c.session # Null => holder[c.session] # Null
  /\ c.token \in Codes => code[c.token] # Absent
  /\ c.token \in Refreshes => refresh[c.token] # Absent
  /\ requests' = requests + 1
  /\ todo' = [todo EXCEPT ![p] = Script(c.op)]
  /\ local' = [local EXCEPT ![p] = c]
  /\ UNCHANGED <<dbVars, tokenVars, cache, histories, faults, lapses>>

\* An awaited call raises, and has changed nothing.
Fail(p) ==
  /\ Running(p)
  /\ faults < MaxFaults /\ Affordable
  /\ faults' = faults + 1
  /\ Stop(p)
  /\ torn' = IF local[p].token \in Codes /\ (At(p, "set_verified") \/ At(p, "set_password"))
             THEN torn \union {local[p].token} ELSE torn
  /\ UNCHANGED <<dbVars, tokenVars, cache, chosen, ended, redeemed, requests, lapses>>

\* A token reaches its expires_at.
Expire(x) ==
  /\ x \notin expired
  /\ x \in Sessions => holder[x] # Null
  /\ x \in Refreshes => refresh[x] # Absent
  /\ x \in Codes => code[x] # Absent
  /\ lapses < MaxLapses /\ Affordable
  /\ lapses' = lapses + 1
  /\ expired' = expired \union {x}
  /\ UNCHANGED <<dbVars, holder, cache, todo, local, histories, requests, faults>>

\* Five minutes after its last request, or when the cache is full.
Evict(s) ==
  /\ cache[s] # Absent
  /\ lapses < MaxLapses /\ Affordable
  /\ lapses' = lapses + 1
  /\ cache' = [cache EXCEPT ![s] = Absent]
  /\ UNCHANGED <<dbVars, tokenVars, todo, local, histories, requests, faults>>

-----------------------------------------------------------------------------
(* AuthMiddleware and validate_user.                                       *)

Valid(s) == s \notin expired

\* Faulty: takes what the attributes hold for an organization.
FaultyMiddleware(p) ==
  LET c == local[p]
      u == holder[c.session]
  IN /\ At(p, "middleware")
     /\ \/ /\ Valid(c.session)
           /\ Read(p, [c EXCEPT !.user = u, !.tenant = user[u].current])
        \/ ~Valid(c.session) /\ Refuse(p)

\* The organization the user has now, until validate_user puts its own.
Middleware(p) ==
  LET c == local[p]
      u == holder[c.session]
      o == user[u].current
  IN /\ At(p, "middleware")
     /\ \/ /\ Valid(c.session)
           /\ Read(p, [c EXCEPT !.user = u, !.tenant = IF o \in Orgs THEN o ELSE Null])
        \/ ~Valid(c.session) /\ Refuse(p)

\* The user is known from here on; an organization of his goes before that
\* of the middleware.
Admitted(c, seen) ==
  [c EXCEPT !.seen = seen, !.found = TRUE,
            !.tenant = IF seen \in Orgs THEN seen ELSE c.tenant]

\* get_user_by_token: a cached user goes back to the cache at once.
Lookup(p) ==
  LET c == local[p]
  IN /\ At(p, "lookup")
     /\ \/ ~Valid(c.session) /\ Refuse(p)
        \/ /\ Valid(c.session) /\ cache[c.session] # Absent
           /\ todo' = [todo EXCEPT ![p] = Tail(Tail(Tail(@)))]
           /\ local' = [local EXCEPT ![p] = Admitted(c, cache[c.session])]
           /\ Quiet
        \/ Valid(c.session) /\ cache[c.session] = Absent /\ Read(p, c)

\* What find_one returns may be old when the request gets to run again.
Load(p) ==
  At(p, "load") /\ Read(p, [local[p] EXCEPT !.seen = user[local[p].user].current])

Admit(p) ==
  LET c == local[p]
  IN /\ At(p, "admit")
     /\ Continue(p, Admitted(c, c.seen))
     /\ cache' = [cache EXCEPT ![c.session] = c.seen]
     /\ UNCHANGED <<dbVars, tokenVars, histories, bounds>>

\* Any other handler.
Act(p) == At(p, "act") /\ Read(p, local[p])

-----------------------------------------------------------------------------
(* Users and their tokens.                                                 *)

FindUser(p) ==
  /\ At(p, "find_user")
  /\ \/ user[local[p].user] # Absent /\ Read(p, local[p])
     \/ user[local[p].user] = Absent /\ Refuse(p)

FindNoUser(p) ==
  /\ At(p, "find_no_user")
  /\ \/ user[local[p].user] = Absent /\ Read(p, local[p])
     \/ user[local[p].user] # Absent /\ Refuse(p)

\* user_login, reset_password.
CheckPassword(p) ==
  LET c == local[p]
      right == user[c.user] # Absent /\ user[c.user].password = c.password
  IN /\ At(p, "check_password")
     /\ \/ right /\ Read(p, c)
        \/ ~right /\ Refuse(p)

NewUser(u, password) ==
  user' = [user EXCEPT ![u] = [password |-> password, current |-> Unset]]

\* The address is unique.
CreateUser(p) ==
  LET c == local[p]
  IN /\ At(p, "create_user")
     /\ \/ /\ user[c.user] = Absent
           /\ NewUser(c.user, c.password)
           /\ Continue(p, c)
           /\ UNCHANGED <<refresh, code, orgs, tokenVars, cache, histories, bounds>>
        \/ user[c.user] # Absent /\ Refuse(p)

\* oauth_callback
FindOrCreate(p) ==
  LET c == local[p]
  IN /\ At(p, "find_or_create")
     /\ \/ user[c.user] # Absent /\ Read(p, c)
        \/ /\ user[c.user] = Absent
           /\ todo' = [todo EXCEPT ![p] = <<"create_user">> \o Tail(@)]
           /\ UNCHANGED local
           /\ Quiet

\* An access token is new, or that of another token of the same second.
NewAccess(u, s) ==
  /\ holder[s] \in {Null, u} /\ s \notin expired
  /\ holder' = [holder EXCEPT ![s] = u]

\* create_token; verify_email_token caches the user it has just updated.
CreateToken(p) ==
  LET c == local[p]
  IN /\ At(p, "create_token")
     /\ \E r \in Refreshes, s \in Sessions :
          /\ refresh[r] = Absent
          /\ refresh' = [refresh EXCEPT ![r] = [user |-> c.user, active |-> TRUE]]
          /\ NewAccess(c.user, s)
          /\ cache' = IF c.op = "verify_email" THEN [cache EXCEPT ![s] = c.seen] ELSE cache
     /\ Continue(p, c)
     /\ UNCHANGED <<user, code, orgs, expired, histories, bounds>>

FindRefresh(p) ==
  LET c == local[p]
      found == refresh[c.token].active /\ c.token \notin expired
  IN /\ At(p, "find_refresh")
     /\ \/ found /\ Read(p, [c EXCEPT !.user = refresh[c.token].user])
        \/ ~found /\ Refuse(p)

CreateAccess(p) ==
  /\ At(p, "create_access")
  /\ \E s \in Sessions : NewAccess(local[p].user, s)
  /\ Continue(p, local[p])
  /\ UNCHANGED <<dbVars, expired, cache, histories, bounds>>

\* Faulty: takes any refresh token of the user.
FaultyFindActive(p) ==
  LET c == local[p]
      Of == {r \in Refreshes : refresh[r] # Absent /\ refresh[r].user = c.user}
  IN /\ At(p, "find_active")
     /\ \/ \E r \in Of : Read(p, [c EXCEPT !.token = r])
        \/ Of = {} /\ Refuse(p)

\* logout ends some session of the user, not the one it comes from.
FindActive(p) ==
  LET c == local[p]
      Active == {r \in Refreshes : /\ refresh[r] # Absent
                                   /\ refresh[r].user = c.user
                                   /\ refresh[r].active}
  IN /\ At(p, "find_active")
     /\ \/ \E r \in Active :
             /\ Continue(p, [c EXCEPT !.token = r])
             /\ torn' = IF \E q \in Procs : At(q, "deactivate") /\ local[q].token = r
                        THEN torn \union {r} ELSE torn
             /\ UNCHANGED <<dbVars, tokenVars, cache, chosen, ended, redeemed, bounds>>
        \/ Active = {} /\ Refuse(p)

Deactivate(p) ==
  LET c == local[p]
  IN /\ At(p, "deactivate")
     /\ refresh' = [refresh EXCEPT ![c.token].active = FALSE]
     /\ ended' = [ended EXCEPT ![c.user] = @ + 1]
     /\ Continue(p, c)
     /\ UNCHANGED <<user, code, orgs, tokenVars, cache, chosen, redeemed, torn, bounds>>

\* generate_verification, resend_verification_token.
CreateCode(p) ==
  /\ At(p, "create_code")
  /\ \E k \in Codes :
       /\ code[k] = Absent
       /\ code' = [code EXCEPT ![k] = [user |-> local[p].user, used |-> FALSE]]
  /\ Continue(p, local[p])
  /\ UNCHANGED <<user, refresh, orgs, tokenVars, cache, histories, bounds>>

\* verify_email_token, forgot_password_verify; the type is not asked for.
FindCode(p) ==
  LET c == local[p]
      k == c.token
      found == ~code[k].used /\ code[k].user = c.user /\ k \notin expired
  IN /\ At(p, "find_code")
     /\ \/ /\ found
           /\ torn' = IF \E q \in Procs : At(q, "use_code") /\ local[q].token = k
                      THEN torn \union {k} ELSE torn
           /\ Continue(p, c)
           /\ UNCHANGED <<dbVars, tokenVars, cache, chosen, ended, redeemed, bounds>>
        \/ ~found /\ Refuse(p)

\* Faulty: the token stays unused.
FaultyUseCode(p) == At(p, "use_code") /\ Read(p, local[p])

UseCode(p) ==
  /\ At(p, "use_code")
  /\ code' = [code EXCEPT ![local[p].token].used = TRUE]
  /\ Continue(p, local[p])
  /\ UNCHANGED <<user, refresh, orgs, tokenVars, cache, histories, bounds>>

Redeem(k) ==
  redeemed' = IF k \in Codes THEN [redeemed EXCEPT ![k] = @ + 1] ELSE redeemed

\* verify_two_fa: whether the code fits the secret.
CheckCode(p) == At(p, "check_code") /\ (Read(p, local[p]) \/ Refuse(p))

\* email_verified_at or is_2fa_verified, which nobody reads; the row comes
\* back fresh.
SetVerified(p) ==
  LET c == local[p]
  IN /\ At(p, "set_verified")
     /\ Redeem(c.token)
     /\ Continue(p, [c EXCEPT !.seen = user[c.user].current])
     /\ UNCHANGED <<dbVars, tokenVars, cache, chosen, ended, torn, bounds>>

\* reset_password, forgot_password_verify
SetPassword(p) ==
  LET c == local[p]
  IN /\ At(p, "set_password")
     /\ user' = [user EXCEPT ![c.user].password = c.new]
     /\ Redeem(c.token)
     /\ Continue(p, c)
     /\ UNCHANGED <<refresh, code, orgs, tokenVars, cache, chosen, ended, torn, bounds>>

-----------------------------------------------------------------------------
(* The organization a user works in.                                       *)

\* set_organization answers 404 only after the user was updated.
GetOrganization(p) ==
  /\ At(p, "get_organization")
  /\ Read(p, [local[p] EXCEPT !.found = local[p].org \in orgs])

\* Membership models what may stand in the way.  The new organization is
\* chosen if the user, as he was loaded, has never chosen one.
CreateOrganization(p) ==
  LET c == local[p]
  IN /\ At(p, "create_organization")
     /\ \/ \E o \in Orgs \ orgs :
             /\ orgs' = orgs \union {o}
             /\ IF c.seen = Unset THEN Continue(p, [c EXCEPT !.org = o]) ELSE Stop(p)
             /\ UNCHANGED <<user, refresh, code, tokenVars, cache, histories, bounds>>
        \/ Refuse(p)

\* delete_workspace, verify_two_fa: User.get.
GetUser(p) ==
  At(p, "get_user") /\ Read(p, [local[p] EXCEPT !.seen = user[local[p].user].current])

\* Marking the row deleted is Membership's; a user who was in another
\* organization when he was loaded stays there.
DeleteOrganization(p) ==
  LET c == local[p]
  IN /\ At(p, "delete_organization")
     /\ \/ c.tenant \in orgs /\ c.seen = c.tenant /\ Read(p, [c EXCEPT !.found = TRUE])
        \/ ~(c.tenant \in orgs /\ c.seen = c.tenant) /\ Refuse(p)

\* User.update returns the row as it is after the commit.
SetCurrent(p) ==
  LET c == local[p]
      l == [c EXCEPT !.seen = c.org]
  IN /\ At(p, "set_current")
     /\ user' = [user EXCEPT ![c.user].current = c.org]
     /\ chosen' = [s \in Sessions |-> IF holder[s] = c.user THEN Null ELSE chosen[s]]
     /\ IF c.found THEN Continue(p, l) ELSE Stop(p)
     /\ UNCHANGED <<refresh, code, orgs, tokenVars, cache, ended, redeemed, torn, bounds>>

\* A request is about to cache another choice for the session, or another
\* choice has been stored.
Overtaken(p) ==
  LET c == local[p]
      Caches(q) == \/ /\ At(q, "admit") \/ At(q, "update_cache")
                      /\ local[q].session = c.session
                   \/ /\ At(q, "create_token")
                      /\ local[q].op = "verify_email" /\ local[q].user = c.user
  IN \/ user[c.user].current # c.seen
     \/ \E q \in Procs \ {p} : Caches(q) /\ local[q].seen # c.seen

\* Faulty: leaves the user that the session had cached.
FaultyUpdateCache(p) ==
  LET c == local[p]
  IN /\ At(p, "update_cache")
     /\ chosen' = [chosen EXCEPT ![c.session] =
                     IF c.seen \notin Orgs \/ Overtaken(p) THEN Null ELSE c.seen]
     /\ Continue(p, c)
     /\ UNCHANGED <<dbVars, tokenVars, cache, ended, redeemed, torn, bounds>>

\* update_user_cache; the request is over.
UpdateCache(p) ==
  LET c == local[p]
  IN /\ At(p, "update_cache")
     /\ cache' = [cache EXCEPT ![c.session] = c.seen]
     /\ chosen' = [chosen EXCEPT ![c.session] =
                     IF c.seen \notin Orgs \/ Overtaken(p) THEN Null ELSE c.seen]
     /\ Continue(p, c)
     /\ UNCHANGED <<dbVars, tokenVars, ended, redeemed, torn, bounds>>

-----------------------------------------------------------------------------
(* BaseModel's create and update commit, then refresh the row they return. *)

\* The commits on the tables of users and organizations.
CommitUser(p) ==
  LET c == local[p]
  IN /\ \/ /\ At(p, "create_user") /\ user[c.user] = Absent
           /\ NewUser(c.user, c.password)
           /\ UNCHANGED <<orgs, chosen, redeemed>>
        \/ /\ At(p, "set_verified")
           /\ Redeem(c.token)
           /\ UNCHANGED <<user, orgs, chosen>>
        \/ /\ At(p, "set_password")
           /\ user' = [user EXCEPT ![c.user].password = c.new]
           /\ Redeem(c.token)
           /\ UNCHANGED <<orgs, chosen>>
        \/ /\ At(p, "create_organization")
           /\ \E o \in Orgs \ orgs : orgs' = orgs \union {o}
           /\ UNCHANGED <<user, chosen, redeemed>>
        \/ /\ At(p, "set_current")
           /\ user' = [user EXCEPT ![c.user].current = c.org]
           /\ chosen' = [s \in Sessions |-> IF holder[s] = c.user THEN Null ELSE chosen[s]]
           /\ UNCHANGED <<orgs, redeemed>>
     /\ UNCHANGED <<refresh, code, torn>>

\* Those on the tables of tokens: a logout then ends a session without success, a
\* verification token is used up without effect.
CommitToken(p) ==
  LET c == local[p]
  IN /\ \/ /\ At(p, "create_token")
           /\ \E r \in Refreshes :
                /\ refresh[r] = Absent
                /\ refresh' = [refresh EXCEPT ![r] = [user |-> c.user, active |-> TRUE]]
           /\ UNCHANGED <<code, torn>>
        \/ /\ At(p, "create_code")
           /\ \E k \in Codes :
                /\ code[k] = Absent
                /\ code' = [code EXCEPT ![k] = [user |-> c.user, used |-> FALSE]]
           /\ UNCHANGED <<refresh, torn>>
        \/ /\ At(p, "deactivate")
           /\ refresh' = [refresh EXCEPT ![c.token].active = FALSE]
           /\ torn' = torn \union {c.token}
           /\ UNCHANGED code
        \/ /\ At(p, "use_code")
           /\ code' = [code EXCEPT ![c.token].used = TRUE]
           /\ torn' = torn \union {c.token}
           /\ UNCHANGED refresh
     /\ UNCHANGED <<user, orgs, chosen, redeemed>>

\* The refresh raises: the change stays, the answer is an error.
FailAfter(p) ==
  /\ faults < MaxFaults /\ Affordable
  /\ faults' = faults + 1
  /\ CommitUser(p) \/ CommitToken(p)
  /\ Stop(p)
  /\ UNCHANGED <<tokenVars, cache, ended, requests, lapses>>

-----------------------------------------------------------------------------
Step(p) ==
  \/ Middleware(p) \/ Lookup(p) \/ Load(p) \/ Admit(p) \/ Act(p)
  \/ FindUser(p) \/ FindNoUser(p) \/ CheckPassword(p) \/ CreateUser(p)
  \/ FindOrCreate(p) \/ CreateToken(p) \/ FindRefresh(p) \/ CreateAccess(p)
  \/ FindActive(p) \/ Deactivate(p) \/ CreateCode(p) \/ FindCode(p) \/ UseCode(p)
  \/ CheckCode(p) \/ SetVerified(p) \/ SetPassword(p)
  \/ GetOrganization(p) \/ CreateOrganization(p) \/ GetUser(p)
  \/ DeleteOrganization(p) \/ SetCurrent(p) \/ UpdateCache(p)

\* What clients may ask for.
MailClient(p) ==
  \/ \E op \in {"login", "register"}, u \in Users, w \in Passwords :
       Receive(p, [Blank EXCEPT !.op = op, !.user = u, !.password = w])
  \/ \E op \in {"oauth", "issue"}, u \in Users :
       Receive(p, [Blank EXCEPT !.op = op, !.user = u])
  \/ \E u \in Users, k \in Codes :
       Receive(p, [Blank EXCEPT !.op = "verify_email", !.user = u, !.token = k])
  \/ \E u \in Users, k \in Codes, w \in Passwords :
       Receive(p, [Blank EXCEPT !.op = "recover", !.user = u, !.token = k, !.new = w])

SessionClient(p) ==
  \/ \E op \in SessionOps \ {"reset_password", "set_organization"}, s \in Sessions :
       Receive(p, [Blank EXCEPT !.op = op, !.session = s])
  \/ \E s \in Sessions, old, new \in Passwords :
       Receive(p, [Blank EXCEPT !.op = "reset_password", !.session = s,
                                !.password = old, !.new = new])
  \/ \E s \in Sessions, o \in Orgs :
       Receive(p, [Blank EXCEPT !.op = "set_organization", !.session = s, !.org = o])
  \/ \E r \in Refreshes : Receive(p, [Blank EXCEPT !.op = "refresh", !.token = r])

Client(p) ==
  /\ ~Running(p)
  /\ requests < MaxRequests /\ Affordable
  /\ MailClient(p) \/ SessionClient(p)

Next ==
  \/ \E p \in Procs : Client(p) \/ Step(p) \/ Fail(p) \/ FailAfter(p)
  \/ \E x \in Sessions \union Refreshes \union Codes : Expire(x)
  \/ \E s \in Sessions : Evict(s)

Spec == Init /\ [][Next]_vars

=============================================================================
