# A verification project for the ChatBoq backend

ChatBoq is a multi-tenant customer-support backend: FastAPI and SQLAlchemy over
PostgreSQL, Redis for caching and publish/subscribe, python-socketio for live
chat, dramatiq workers for mail and APScheduler for the SLA check. This
directory holds TLA+ modules of the parts that carry its logic, TLC
configurations that check small instances of them, and TLAPS proofs of what
matters most for instances of every size.

Run a check with `tlc -config X.cfg M` and a proof with `tlapm M.tla`; the table
under "What each run checks" names module and configuration.

Paths below leave out the leading `src/src/`, except where a file lies elsewhere.


## 1. The system

### Processes

| process | started as | what runs in it |
| --- | --- | --- |
| backend | `uvicorn src.main:socket_app` | HTTP requests, Socket.IO handlers, background tasks, `redis_listener`; one event loop, so tasks interleave at awaits |
| dramatiq worker | `src.tasks` | mails, socket broadcasts of tickets |
| scheduler | `python -m src.config.scheduler` | `check_sla_breach` every ten seconds, one run at a time |

They share the database and Redis and nothing else. Every `await Model.x()`
(`common/models.py`) opens a session of its own and commits, so a handler with
five such calls is five transactions, and every other task may run between two
of them. No row is locked, and hardly any check-then-act pair is backed by a
constraint. That is the common hazard of the whole code, and why almost every
module here has "one call of a classmethod" as its step.

### Components

| component | state | operations | interacts with |
| --- | --- | --- | --- |
| SLA arithmetic (`modules/ticket/services/sla.py`) | none | percentages, levels | SLA monitoring |
| SLA monitoring (`tasks/sla_task.py`, `config/scheduler.py`, alerting half of `sla.py`) | local state of a run, `ticket_alerts` | find the closed status, load tickets, tell, record, mail | reads tickets, statuses and SLAs of all organizations; sockets over Redis; mail queue |
| Ticket desk (`modules/ticket/services/{ticket,status,priority,sla,mixins}.py`) | tickets, statuses, priorities, SLAs, notes, audit log | create, confirm, edit, delete; settings | tenant context; mail queue |
| Chat presence (`websocket/`) | `is_online`, sids in Redis, Socket.IO rooms | connect, disconnect, join, leave | database, Redis, `redis_listener`, visit logs |
| Chat messages (`modules/chat`, chat routes of `modules/visitor/router.py`, `events/message_event.py`) | conversations, messages, members, `last_message` | send, edit, see, resolve, join, open | Redis channel, sockets, background tasks |
| Ticket conversations and mail worker (`modules/ticket/services/conversation.py`, `tasks/ticket_task.py`, `modules/sendgrid`) | ticket messages, their versions, the queue, the mails on the ticket's log | send, edit, list, replies by mail; mail, broadcast | desk, queue, SendGrid |
| Organizations, membership and invitations (`modules/organizations`) | organizations, members, invitations | create, edit, delete, invite, accept, reject | users, cache of users |
| Staff (`modules/organizations`, `modules/team`) | roles, shifts and access levels of members, teams | update a member, assign, set levels, create a team | members |
| Catalogue of roles and permissions (`modules/organizations`, `modules/staff_management`, `common/dependencies.py`) | roles, the permissions they grant | create, edit, delete, check | staff |
| Authentication (`modules/auth`, `common/dependencies.py`) | users with the organization they work in, refresh and verification tokens, `user_cache` | register, log in and out, refresh, verify, recover, choose an organization, 2FA | everything behind `get_current_user` |
| Tenant context (`middleware/`, `services/cors_cache_service.py`) | context variables, cached organizations | set per request | everything behind TenantModel |
| Visitors (`modules/visitor`, `events/customer_event.py`) | customers, visits, the visit named in a customer's attributes | create, visit, delete a visit, list | presence, background tasks |

Left aside for good: uploads (I/O to Cloudinary), the catalogue routes of
`modules/admin`, settings and wiring, seeds, migrations and templates. They have
no behaviour of their own. `PROJECT.json` lists every component with its status.

### What is hard, and what makes a component correct

* **SLA monitoring**: a run is a long chain of awaits over rows that others
  change; the row that prevents a second alert is written after the alert is
  broadcast and before it is mailed; a run can end at every await, and no run
  knows of the one before it. Correct: an alert is recorded once and mailed at
  most once per receiver, it is justified by a deadline that really ran out, and
  a ticket that stays overdue is alerted in the end.
* **Ticket desk**: requests of several organizations validate in one await and
  write in another; deletions are guarded by a question asked earlier; an edit
  with assignees merges a stale snapshot; the log is written after the change it
  records. Correct: nothing of an organization refers to a row of another, the
  log and the answers tell the truth, and no row in use is deleted.
* **Chat presence**: connect and disconnect handlers of several tabs interleave,
  and Engine.IO can call the disconnect handler while the connect handler still
  runs. No count of sockets is kept. Visits reach the customer by
  background tasks that nobody orders. Correct: a flag, a room, what a client was
  told or the visit that ends is wrong only after the interleavings and failures
  that are known to break it.
* **Chat messages**: a message, a resolution, a seen mark and an edit race; the
  copy to `last_message` is a background task; publications are lost silently; few
  handlers ask whose conversation they were given. Correct: a customer's message
  reopens the conversation, reaches those it is for, and is heard only in its room
  and by agents of its organization, and `last_message` is current whenever writers
  took turns.
* **Membership**: invitations are looked for in one await and stored in another,
  accepted and rejected by requests that overlap, and accepted in two commits.
  Correct: nobody becomes a member uninvited, whoever accepted is a member, a
  processed invitation stays so, and an owner belongs to the workspace.
* **Staff**: an update deletes and creates a dozen rows one by one and can end
  after each; the only lead of a team is looked for before it is made. Correct:
  an update that ran alone leaves exactly what was asked for, and second leads,
  roles, levels, grants and teams or roles of one name come only from overtaken
  requests and from those that name an entry twice.
* **Authentication**: a verification token is looked at in one await, marked used
  in the next and has its effect in a third; of a user, the organization he works
  in is kept in the database and in the cache of every session, and the tenant of
  a request comes from either. Correct: a session acts for the organization it
  chose last, a token and a logout work once, unless requests overlap on the row or
  a call raises after its commit.
* **Ticket conversations**: a message, its versions, its mail and the log of the
  mail are written in separate awaits of a request and of an actor that dramatiq
  runs again when it dies. Correct: versions are numbered without gaps and hold
  what the message said, pages of the list miss nothing, a mail shows the message
  it was sent for, the log tells what became of it, and no accepted mail is lost.
* **The cache of organizations** (not modelled): a value is tested and read in two
  awaits.

`PROJECT.json` lists the hazards one by one, each at its line.


## 2. Modules

| module | models | state and actions |
| --- | --- | --- |
| `SlaTiming` | percentages and levels of `sla.py` | operators only |
| `AlertLedger` | abstract specification: what alerting promises | `told`, `rows`, `mails`; Tell, Record, Mail |
| `SlaMonitor` | the job, beside the changes that agents and customers commit meanwhile | `pc`, `picked`, `todo`, `cur`, `level`, `kind`, `unsent` are the local variables of a run, one action per await |
| `SlaMonitorProps`, `MCSlaMonitor` | properties, instances | refines `AlertLedger` |
| `SlaMonitorProofs` | proofs | see section 4 |
| `TicketDesk`, `TicketDeskProps`, `MCTicketDesk` | the ticket desk | `row`, `ticket`, `logs` are tables; `todo[p]` is what a request still has to do, `local[p]` its variables; one action per call of a classmethod, two for `Model.delete` (`SelectRow`, which answers 404, and `DeleteRow`, which does not mind that the row is gone) |
| `TicketDeskProofs` | proofs | see section 4 |
| `ChatPresence`, `ChatPresenceProps`, `MCChatPresence` | connect, disconnect and visits | `con[s]`, `dis[s]` are the steps the two handlers of a socket still have to do; `visit` is a table, `copying` are background tasks, `logOf` the attributes they write |
| `ChatPresenceProofs` | proofs | see section 4 |
| `ChatMessages`, `ChatMessagesProps`, `MCChatMessages` | messages and conversations | `todo[p]`, `local[p]` as for the desk; `tasks` are background tasks, `bus` is Redis, `inbox` what sockets received |
| `ChatMessagesProofs` | proofs | see section 4 |
| `Membership`, `MembershipProps`, `MCMembership` | organizations, invitations, members | `org`, `member`, `invitation` are tables; `todo`, `local` as for the desk |
| `MembershipProofs` | proofs | see section 4 |
| `Staff`, `StaffProps`, `MCStaff` | roles, shifts, levels and teams of members, and the catalogue of roles | tables likewise (`role` and `grant` are the catalogue); a step of `todo[p]` is a record that names the row it is about, because `update_member` goes through the rows it has loaded |
| `StaffProofs` | proofs | see section 4 |
| `Accounts`, `AccountsProps`, `MCAccounts` | users, tokens, the cache of users | `user`, `refresh`, `code`, `orgs` are tables, `holder` says whom an access token was made for, `cache` is `user_cache`; `todo`, `local` as for the desk |
| `AccountsProofs` | proofs | see section 4 |
| `MailDelivery` | abstract specification: what the queue of mails promises | `accepted`, `handed`, `rows`, `settled`; Accept, HandOver, Record, Settle |
| `TicketConversation`, `TicketConversationProps`, `MCTicketConversation` | messages of tickets, their versions, the mail worker | `table`, `stamp`, `texts`, `versions` are the messages; `req[r]` is a request at its next call, `task[r]` what it put on the queue; refines `MailDelivery` |
| `TicketConversationProofs` | proofs | see section 4 |

`Membership` and `Staff` both read `org_members` and both delete members; each
has a table of its own of what it needs of them, and they are not composed.
`TicketDesk` ends at the queue and `TicketConversation` begins there: the mail of
a confirmation, a request `confirm`, is a mail of its queue like the others.

Handlers with a straight sequence of awaits are modelled by a script, a sequence
of step names chosen when the request comes in (`Script`, `Connecting`,
`Leaving`), and one action per step name that takes its head off. Early returns,
refusals and exceptions empty the sequence. `SlaMonitor`, which loops, has a
program counter.

### Abstractions

* A commit and the flush before it are one step. Where `create` and `update` read
  the row again after the commit, that call can raise with the change made: `Refresh`
  of the desk, `FailAfter` of the accounts, failed calls of ticket conversations.
  `delete` looks for the row in one await and deletes it in another: two steps where
  somebody can come between them and it makes a difference (the desk). Reads that
  nothing is decided on (payloads, the sender's sid) are part of the step next to them.
* SLA monitoring: what agents and customers do to a ticket meanwhile is one step
  each. An edit may bring back the ticket as it was loaded before, as `session.merge`
  does; `delete_sla` finds no ticket of the SLA, but some may come to it before it
  deletes, so it may delete any.
* Row ids are never issued twice; so are socket ids.
* Names, mails, contents and colours are model values or left out. A `text` of a
  message is a number that tells versions apart.
* Tickets: attachments, teams, location, department and the list operations are
  left out; the category `reopened`, which no code reads, too. The mail step of
  the desk ends at the queue.
* Presence: one organization, one conversation per customer. The Redis sets of a
  conversation's sids are written and never read, and are left out; so are typing
  events, which keep no state, and `agent_join_conversation`, which nobody calls. Of a
  customer's attributes only the visit they name is kept, of a visit whether it was
  left and deleted. `skip_sid` names the author's socket, which in the modelled rooms
  would never be affected.
* Messages: attachments and listing are left out; everybody has one socket. As in
  the code, a conversation can be opened for a customer of any organization, a
  message of any organization edited or marked as seen, and a customer may sit in the
  room of another's conversation.
* Membership: the roles an invitation offers (one of them may be missing), the
  attributes of users and the cache of users are left out; the tenant of a request
  is any organization there is; an address belongs to one user, so the branch of
  `accept_invitation` that registers one is never taken; names of organizations
  are not changed by `update_workspace`.
* Staff: roles, days and permissions of a request are lists, in which an entry may come
  twice; permissions are a table that only the seeds write, and of the three flags of a
  grant it is kept whether any is set; of access levels the lead and one other are told
  apart. Teams keep their names, as no route changes them. `remove_assign_role` passes
  an id to `soft_delete`, which takes a condition, so it always ends in an error: that
  is how `FindRole` models it.
* Accounts: tokens of a user are told apart by what they are for, and the access
  tokens he gets in one second are equal, as they are in the code. Of a cached
  user only `attributes["organization_id"]` is kept, the one column that requests
  write and others read from the cache; `is_active` is never cleared. Who may
  create and delete organizations is a matter of `Membership`: here a creation may
  be refused, and a deletion only takes the choice of the deleting user back.
  Verifying a second factor writes the user back into the cache and is modelled
  for that; generating and disabling one, and edits of the profile, write columns
  that nobody else decides on and are left out.
* Ticket conversations: a request stores or changes one message and names the text
  it brings. A call that raises may have committed, since `create` and `update`
  read the row again after the commit. dramatiq gives a task up after 20 retries,
  which `MaxFaults` (at most 19) keeps out of the model. Authors, attachments and
  the layout of mails are left out, but for how many messages the template shows.
* Elsewhere, authentication has succeeded before a modelled request begins. Requests under
  `/tickets/confirm` and of customers run without the context of a user, which
  the desk models.
* Environment assumptions: APScheduler runs one instance of a job at a time; the
  foreign keys and unique constraints of the models hold in the database;
  Socket.IO never issues a sid twice and drops what is sent to a closed socket.


## 3. What each run checks

| run | module, cfg | shows |
| --- | --- | --- |
| `sla_alerts` | MCSlaMonitor, SlaAlerts | `TypeOK`, the refinement `LedgerSpec`, and `AlertJustified`: with edits, a failed await or a crash anywhere in a run; `LevelIsExact`: neither truncation nor the two ways to saturate (`>=` and `>`) moves a level |
| `sla_progress` | MCSlaMonitor, SlaProgress | `OverdueAlerted` under fairness, across the failure of a run |
| `sla_orphan` | MCSlaMonitor, SlaOrphan | violation of `EveryTicketChecked` |
| `sla_closed` | MCSlaMonitor, SlaClosed | violation of `ClosedSkipped` |
| `desk_tenants` | MCTicketDesk, DeskTenants | `TypeOK`, `SameTenant`, `AuditBacked`, `AnswerHonest`, `DeletedUnused`: two requests at once, two organizations, one failing await |
| `desk_activated` | MCTicketDesk, DeskActivated | violation of `StaysActivated` |
| `chat_presence` | MCChatPresence, ChatPresence | `TypeOK`, `FlagExplained`, `ViewAgrees`, `LatestTabJoined`, `EndsNewest`: sockets, handlers and visits in every order |
| `chat_messages` | MCChatMessages, ChatMessages | `TypeOK`, `ReopenedByCustomer`, `LastMessageCurrent`, `HeardByItsAudience`, `MembersBounded` |
| `membership` | MCMembership, Membership | `TypeOK`, `NoTwins`, `MembersInvited`, `AcceptedJoined`, `OwnerBelongs`, `ProcessedStays` |
| `staff` | MCStaff, Staff | `TypeOK`, `NoTwins`, `SameTenant`, `UpdateExact`: of members and of the catalogue |
| `accounts` | MCAccounts, Accounts | `TypeOK`, `ReadYourWrites`, `LogoutEnds`, `RedeemedOnce` |
| `conversation` | MCTicketConversation, Conversation | `TypeOK`, `HistoryKept`, `PagesComplete`, `ShownAsStored`, `LogTruth`, and the refinement `DeliverySpec`, with its liveness: a call failing or the worker dying anywhere |

`CHECK_DEADLOCK FALSE` everywhere: requests, edits, sockets and faults are
bounded, and a system whose clients have gone has nothing to do.

Every property is backed by a mutant, a definition `Faulty...` next to the one it
mutates, that breaks it in its run.

### What the violations say

* `EveryTicketChecked`: "Checks the sla breach of every tickets"
  (`tasks/sla_task.py:20`). Deleting an SLA sets `sla_id` of its tickets to NULL,
  `ticket.sla.response_time` raises, and each run ends at that ticket.
* `ClosedSkipped`: "getting the default ticket status with close_status set by
  organization" (`tasks/sla_task.py:29`). One closed status of any organization
  is excluded for all.
* `StaysActivated`: "Your ticket has been activated."
  (`modules/ticket/services/ticket.py:241`). An edit that names assignees merges
  the ticket as it read it, and takes a confirmation in between back.

Some statements one would expect were found not to hold and are stated in the
weaker form that does:

* A status, priority or SLA in use can be deleted by a request that asked before
  it came into use; `DeletedUnused` excepts the tickets that another request has
  written. The guards also take a query that failed for an empty answer
  (`modules/ticket/services/status.py:183`), and delete; the property excepts runs
  with a failure. Even without one, `delete_sla` asks for tickets of the SLA's
  priority, and misses the tickets of an SLA that was moved to another priority.
* `create_priorities` takes a list, commits one priority at a time, and answers
  an error when a later name is taken: the earlier ones stay. `AnswerHonest`
  says that an error means that not all of the list was committed, and nothing
  when one thing was asked for. A call that fails breaks even this: `create` and
  `update` commit, then refresh, and when the refresh raises the answer is an error
  although the row is there. Of deletions it holds all the same.
* Two deletions of one row that overlap both find it, both answer success and both
  reach the log (`common/models.py:185-192`). So success of a deletion, and its
  entry, mean that this request or one it overlapped has deleted the row, which is
  what `AnswerHonest` and `AuditBacked` say (`DeletedOnce`).
* Two confirmations of a ticket can both succeed, and neither reaches the log
  (`/tickets/confirm` has no tenant); an update of a row that has gone is answered
  and logged. `AuditBacked` and `AnswerHonest` except these.
* `is_online` is wrong after a page reload (off although a tab is open), after a
  connect that was cut short, raised or was refused late (on although no tab is open,
  or off although one is), and after an `on_disconnect` whose look-up or update
  failed, an error that is swallowed (on, until it is written again: `stuck`).
  `FlagExplained` says that nothing else makes it wrong.
* `redis_publish` swallows errors, so a client may miss a change of somebody's
  state. `ViewAgrees` excepts the people whose last event was lost or never
  published (`unsaid`), until the next event about them is published.
* `customer_join_conversation` gives up when it finds no sid, and swallows its
  errors. `LatestTabJoined` excepts the sockets that left or whose connect or join
  failed (`apart`).
* A visit that ends, or is deleted after it ended, is copied to the customer again
  (`events/customer_event.py:14`), in whatever order the tasks run. So the attributes
  can name an old visit; the next disconnect then ends that one, and the newest is
  never ended. `EndsNewest` says that it takes visits that crossed, the deletion of a
  visit that was left, or a background task that failed. A customer without a visit
  makes the disconnect raise before it tells anybody.
* An edit or a seen mark of an old message makes it the conversation's last
  message (`LastMessageCurrent` speaks of the message changed last), and
  overlapping writers leave any of theirs.
* An agent can have two memberships of one conversation; `MembersBounded` says
  that it takes overlapping joins.
* The deletion of a ticket does not reach the log, although
  `modules/ticket/services/ticket.py:180` says "saving to the log": `save_to_log`
  does not find a ticket that was just deleted. `AuditBacked` asks for
  completeness of the other entries only.
* The edit of a message by an agent does not reach the other agents: its payload
  has no `organization_id`, so their room is never found.
* No handler asks whether the customer of a new conversation belongs to the
  organization, or whether the message to edit or to mark as seen does, and the
  organization of a seen mark is what the client sends. So tenants do hear of each
  other's conversations: a customer of one is seated in that of another, and agents
  of any organization can be told of a seen mark. What `HeardByItsAudience` says is
  that whoever hears of a conversation sits in its room or is an agent of its
  organization, seen marks excepted for agents, and that no customer is sent what a
  customer did.
* A rejected or accepted invitation can be accepted (again) by the signed-in user,
  with a membership more each time; `ProcessedStays` and `MembersInvited` say what
  is left. The accept link with the right token ends in an UnboundLocalError.
* `update_organization` refuses a domain only if it is spelled differently from
  the one in use, and `update_workspace` checks none; `NoTwins` excepts edited
  organizations. An invitation whose mail could not be sent stays pending and
  blocks the next one.
* A team can get two leads, a member a role twice, by overlapping requests, and a
  member a role twice, or a role a permission twice, by one request whose list names
  it twice, which no schema refuses. Both kinds are called `loose`: `NoTwins` excepts
  the rows they wrote, and `UpdateExact` speaks of the others. Removing a member's
  level deletes the first of his rows, of any team and possibly one that was
  deleted before. An update of a member that fails half-way leaves him without
  the roles deleted so far; `UpdateExact` is about updates that come to an end.
* A role's update goes through the grants it names. Those it leaves out keep their
  rows and flags and only leave the list in the role's attributes, and
  `POST /permission-groups` still shows them; `ExactRole` speaks of the list. Names
  of roles are unique by look-then-write only. `delete_role` answers success when
  the organization has no such role, the role rows of members stay, and `get_roles`
  lists the roles of all organizations.
* A chosen organization reaches other sessions of the user only when their cached
  user goes, and `validate_user` renews it with every request; `ReadYourWrites` is
  about the session that chose. A request that had loaded the user before may
  still cache him afterwards, and hide the choice from the session itself; the
  property excepts it.
* `set_organization` stores the choice before it answers 404 for an organization
  that does not exist. After `delete_workspace` the user keeps a choice of None,
  so the next organization he creates is not chosen for him.
* `logout` ends some refresh token of the user, not that of the session it comes
  from, and the access token stays valid; `LogoutEnds` counts only, and excepts a
  deactivation that was committed and then raised. A new password ends no session.
* A verification token serves both to verify an address and to set a password,
  whatever it was sent for, and does it twice for two requests that look at it
  before either marks it; `RedeemedOnce` excepts these, and a handler cut short
  between its two updates or right after one of them, which loses the token or has
  the effect with an error for an answer.
* `generate_2fa_otp` decides by the cached user whether there is a secret already;
  asked again while the user cached before is still there, it replaces the secret
  that was just enrolled.
* `save_in_versions` keeps the versions of a message "for consistency and audit for
  admin to later fall back" (`modules/ticket/services/conversation.py:255`). A
  customer's reply gets no version 1, so an edit of it loses what he wrote; two
  edits that overlap store one number twice, or leave a newest version that is not
  the text in use. `HistoryKept` says what holds: numbers without a gap, texts the
  message really had, and all of them when no writers overlapped or failed.
* Pages of the list are cut by id and sorted by `created_at`, which are given in
  different awaits: messages stored in crossed order can be missed
  (`PagesComplete` excepts them). `list_messages` looks the ticket up in all
  organizations.
* The log says "sent" of a mail that SendGrid refused, because the error is
  swallowed; it says "failed" of one that left when the row that says "sent" could
  not be written; and a worker that died after the mail left, with the ticket
  deleted before the next try, leaves "failed" alone. `LogTruth` lists these. A mail
  may leave twice for the first and the last reason (`ShownAsStored`).
* The template shows the last four of an unordered query, so a mail may not show
  the message it is about on a ticket with more than that. Agents' own messages
  are broadcast to nobody: `events/ticket_message_event.py` is never imported.

### Bounds

| instance | bounds | why it is enough |
| --- | --- | --- |
| SlaAlerts | 1 ticket, 3 statuses, 2 receivers, SLA times 2 and 4, clock to 5, 2 edits, 1 fault | both kinds, both levels, a run cut short between any two awaits and a later run that repeats it; for SLAs of other lengths `LevelIsExact` is proved |
| SlaProgress, SlaOrphan | 2 tickets, 2 SLAs, 3 edits (a confirmation of each ticket and one change) | one ticket starves the other |
| SlaClosed | 2 organizations with a closed status each | the wrong one can be picked |
| DeskTenants | 2 organizations, 2 tasks, 2 requests, 1 fault, 2 to 4 ids of each kind, lists of up to 2 statuses or priorities. The constraint `MCBound` lets ticket edits and notes name the ticket that exists, and an edit of a status change one column at a time | each pair of handlers interleaves at every await, with and without a failure; a third concurrent request only adds to what the second may change |
| ChatPresence | 2 sockets of a customer and 1 of an agent, each connecting once; `MaxCuts` 1: one person has a connect cut short; `MaxFaults` 1: one person has a disconnect or an event that fails; 2 visits. `MCBound`: either there are no visits, or no connect is cut and no join fails and nobody leaves a conversation, and then either no agent comes or the customer has one visit, copied before | reload, second tab, timeout during connect, with somebody watching; agents and cuts neither read nor write visits, but for a customer without one, whose disconnect raises; two visits are enough to cross |
| ChatMessages | 2 tasks; `MCBound`: requests, faults and conversations sum up to 4, i.e. 3 requests, or 2 and a fault, on one conversation, or an opened second one; a customer of the other organization listens too | overlapping pairs, and one request before or after |
| Membership | 2 tasks, 1 organization with its founder and a pending invitation, 3 ids of each kind, 2 users; `MCBound`: 3 requests, or 2 and a fault | an invitation meets two overlapping requests before or after a third |
| Staff | 2 tasks, 2 requests, 1 fault, 2 members of one organization, requests of two, 2 teams, 4 roles (1 of each organization, 2 to be made), 2 permissions, 1 day; `MCBound`: two levels of a request are about different members, an update names a role, two, or one twice, the first of two grants allows nothing and the second some, and requests on the catalogue and others, which touch no common table, do not meet; 10 ids of parts, 4 of levels and 6 of grants suffice for these | an update cut short and repeated, each pair of handlers at every await |
| Accounts | 2 tasks; a registered user with 2 sessions, 2 refresh tokens and a code, one who is not registered, room for 1 more of each token; 3 organizations, one stored; `MaxEvents`: 3 requests, or 2 and a failure or a lapse, of which `MCBound` lets the third concern sessions and the cache only | a session chooses while another request fills its cache, and is asked afterwards; two requests redeem one code or end one session |
| Conversation | 1 ticket, 3 requests, of which the first has stored a message and is about to have it mailed; 1 worker, 1 fault, mails that show 1 message | two requests overlap on a message of a third; a failure or a crash at every call; a mail with more messages than it shows |

Histories (`cut`, `overlap`, `apart`, `fresh`, `disturbed`, `twins`, `chosen`, ...) record
what the properties need of the past. No action's guard reads them, but for `cut`,
`stuck` and `unsaid`, which double as bounds on whose connects are cut (`MaxCuts`)
and whose disconnects and events fail (`MaxFaults`).

### Fairness

`sla_progress` and `sla_orphan` state weak fairness of the clock and of the job as
a whole. The interval trigger fires again and again, and a run that
does not fail takes its next step, because nothing in it waits for another
process. Failures are bounded, so some run is the last to fail. Nothing is
assumed of agents and customers.

`conversation` states weak fairness of the worker on each task: docker-compose
keeps a dramatiq worker on `src.tasks` running, a task that raised or whose worker
died goes back to the queue and is tried again, and faults are bounded. Nothing is
assumed of requests, so what follows is about mails the queue has accepted.


## 4. What is proved

`SlaMonitorProofs`, for every set of tickets, statuses, SLAs and receivers, every
set of SLA times and every bound:

| theorem | states |
| --- | --- |
| `TypeCorrect` | `Spec => []TypeOK` |
| `AlertInvariant` | `Spec => []AlertInv` |
| `AlertsOnce` | `Spec => []AlertedOnce` |
| `LevelsExact` | `Spec => []LevelIsExact` |
| `AlertsJustified` | `Spec => AlertJustified` |
| `ImplementsLedger` | `Spec => LedgerSpec`: the job implements `AlertLedger` |

`AlertedOnce` is not inductive: it says nothing of the alert a run holds between
its look for a row and the write of one. `AlertInv` adds what is true at each
await: the alert under way has no row until `StoreAlert`, it has been announced
by then, and the receivers still to come have no mail. `TypeOK` and `AlertInv`
are preserved together, because the types of `Alert` depend on `cur # Null` and a
reached level, which `AlertInv` records per program counter. Each step then maps
to a step of `AlertLedger` (`Broadcast` to Tell, `StoreAlert` to Record,
`SendMail` to Mail) or to a stutter. The only assumption is
`SlaMonitorAssumption` on the constants: SLA times are positive, which
`sla_schemas.check_time_negative` enforces, and `Null` is none of the values.

`LevelsExact` needs no more than that a ticket was opened in the past: `OpenedInPast`
keeps the elapsed time a natural number, and the rest is arithmetic on truncated
quotients, done once for both percentages. `Justified` carries this on to the record:
the level found for a deadline of the ticket under way is reached, and stays so as the
clock goes on, whatever is edited meanwhile.

`MembershipProofs`, for any number of tasks, rows and users and every choice of
operations:

| theorem | states |
| --- | --- |
| `TypeCorrect` | `Spec => []TypeOK` |
| `AcceptanceJoins` | `Spec => []AcceptedJoined` |
| `OwnersBelong` | `Spec => []OwnerBelongs` |
| `InvitationsJoin` | `Spec => []MembersInvited` |
| `TwinsOnlyByRace` | `Spec => []NoTwins` |
| `ProcessedStay` | `Spec => ProcessedStays` |

`AcceptedJoined` needs to know, of every request, how it came where it is. `Left`
lists what may be left of each script, `Params` what each operation was given, and
`Control`, per request, that the rows it names exist, that a founder about to be
made an owner has stored the organization, and that an acceptance about to write
the status has made its membership. `MemberInv`, all of these with
`AcceptedJoined`, is preserved together with `TypeOK`: `Tables` shows what each
action does to the rows (they stay, and belong to whom they did; nobody else
accepts), `Own` that the request that moves keeps `Control`, `Others` that an
insert, which marks all other requests as overtaken, takes nothing from theirs.
The other four start from there. `Writes` says exactly what a step writes, `Comes`
which call of a script comes before which. `OwnerInv` follows an owner from the
choice of him, when he is a member, to the write of him. `InvitedInv` follows a
membership back to the invitation or the foundation it came from; its part `Sole`
says that only one request acts on an undisturbed invitation, by a link only while
it is pending, and `ProcessedStays` is read off it too. `TwinInv` keeps what a request
has made sure of until an insert overtakes it (`Unseen`).
The assumptions are `MembershipAssumption`: ids of organizations are none of
invitations, `Null` and `Absent` no values of the tables.

`ChatPresenceProofs`, for any number of people, sockets and visits:

| theorem | states |
| --- | --- |
| `TypeCorrect` | `Spec => []TypeOK` |
| `FlagCorrect` | `Spec => []FlagExplained` |
| `LatestJoined` | `Spec => []LatestTabJoined` |
| `NewestEnded` | `Spec => []EndsNewest` |
| `ToldRight` | `Spec => []ViewAgrees` |

All five rest on `Known`: the types, how far the two handlers of each socket have come
(`Handlers`), and that visits and what names them agree (`Rows`). `Rest` says that what
a handler has left is an end of its script, and `Taken` that a step taken is not left
any more; `ConnectStep` and `LeaveStep` read off the scripts what else is, or is no
longer, to come at each step. `Untouched` and `Moves` then let each step be looked at
for its own socket only. On top of `Known`, each property has a strengthening of its
own. `FlagKept` says who accounts for a flag while handlers run: a connection, an
on_disconnect that has not reached its update, or one that could not make it (`stuck`),
and of a person without overlap at most one socket is being served. `TabKept` follows
the socket registered last from its registration to the room: from the moment it finds
a sid it can only be its own. `VisitsKept` says that only the newest visit of a
customer is on its way to the attributes, or is there already. `WordKept` looks at the
bus: unless a handler owes the event about a flag it has set (`Owes`), the last event
about a person that is still under way says what the flag says, and if there is none,
every room was told so or has heard nothing (`LastWord`), of everybody who is not
`unsaid`; with `FlagKept`, the flag a handler set is still there when it publishes. The
only assumption is `PresenceAssumption`: agents and customers, ids and None are told
apart.

`ChatMessagesProofs`, for any finite number of tasks and any number of
conversations, messages and people:

| theorem | states |
| --- | --- |
| `TypeCorrect` | `Spec => []TypeOK` |
| `CustomersReopen` | `Spec => []ReopenedByCustomer` |
| `LastMessageKept` | `Spec => []LastMessageCurrent` |
| `AudienceHears` | `Spec => []HeardByItsAudience` |
| `MembershipsBounded` | `Spec => []MembersBounded` |

All five rest on `Known`: the types; that what a request has left is a rest of its
script (`Follows`); that the conversation and the message it is about are stored, from
the step on that finds or makes them (`Informed`); and that a conversation's last
change was of a message of its own (`Touched`). `Acts` says how a step moves its own
task, `Holds` which variables it may change, `Effects` what it writes, `Grown` that
rows are never taken away. Each property then has a strengthening. `FreshInv`: a
customer's request that looked its conversation up after the last resolution finds it
open, or remembers that it was resolved and has yet to open it. `LastInv`: a
conversation that is not disturbed has one writer at most, and its last message is what
was changed last, but for a copy still in a background task or a seen mark still in a
request; an idle conversation has neither. `HeardInv` with `Homes`: the event of a
message that was published without a fault is on the bus or has arrived, the customer
who had a seat still has it, and whatever is on the bus or in an inbox is about a
stored conversation and of its organization, but for seen marks, and was heard on a
seat of the conversation or by staff of the organization. `Counts`: the memberships
there are and the joins that found none and will add one are together no more than the
joins that were ever under way at once. `ChatAssumption` says that everybody has an
organization, that agents are not customers, and that None and missing rows are no
values.

`AccountsProofs`, for any number of requests, users, tokens and faults:

| theorem | states |
| --- | --- |
| `TypeCorrect` | `Spec => []TypeOK` |
| `CodesOnce` | `Spec => []RedeemedOnce` |
| `LogoutsEnd` | `Spec => []LogoutEnds` |
| `ReadsOwnWrites` | `Spec => ReadYourWrites` |

`Control` lists for each operation what it may have left and what its variables hold
there (`Informed`), and says whose tokens the stored ones are (`Owned`). It is
inductive with `TypeOK`: `TablesStep` shows that tables only grow and rows keep their
owners, `StepSettles` that the request that takes a step stays informed,
`ReceiveSettles`, `MishapKeeps` and `LateStep` the same of new requests, of faults and
of commits whose refresh raised. On it rest
three invariants. `CodesInv`: of a verification token whose redemption was not cut
short, one request at most is past the look-up, and the effect comes after the token
is marked used, once. `RefreshInv`: a refresh token that a
request is about to deactivate is still active and only this request does it, unless
two logouts met at it, so that the inactive tokens of a user are as many as his
logouts. `ChosenInv`: the organization a session chose is
stored, and in the cache, if there is an entry, or on the way there with everybody
who is about to cache the user. `ReadYourWrites` is an action property: with
`ChosenInv`, a request that answers with the organization answers with this one.

`TicketDeskProofs`, for any finite number of request tasks and any organizations,
rows, requests and faults:

| theorem | states |
| --- | --- |
| `TypeCorrect` | `Spec => []TypeOK` |
| `NothingShared` | `Spec => []SameTenant` |
| `LogBacked` | `Spec => []AuditBacked` |
| `AnswersHonest` | `Spec => []AnswerHonest` |

None of the last three is inductive, for a handler validates a row in one call and
relies on it several calls later, when the row may be gone. `Known` carries what it has
found out: the ids a request holds were issued to its organization, or the check of
them is still to come (`Facts`); the snapshot an edit will merge back is sound in the
same sense. Ids are issued once, so this outlives the rows. That something a ticket
points at is also still stored is left to the foreign keys, which `Tables` and the
guards of the writes stand for. `Rest` says of the calls left what their order is:
checks before writes, a log entry right after its commit and nowhere else, the mail
last; `Scripted` that each script is of this form, and `Rounds` where the commits of a
request on settings are, counted from the end. With `Known`, `Backed` is inductive: an
entry in the log, or a request whose next call is to write it, for every commit at most
(updates and deletions of rows aside), and for each row created or deleted one at
least, as long as nothing failed; `Numbers` shows how the set of waiting requests,
which is finite, grows and shrinks with a step. So is `Counted`: the commits of a
request on settings are those due when as many calls are left, and what was committed
in the end fits the answer (`Answered`). The silent update of a row that is gone and
the second of two deletions are the places where an entry has no commit, and both
properties say so; `Gone` says of deletions that whatever is logged, about to be, or
answered as a success was deleted by a request. The assumption is
`TicketDeskAssumption`: finitely many tasks, ids of different tables are different, and
`Null` and `Absent` are no values.

`TicketConversationProofs`, for any requests, tickets, number of workers and bound on
faults:

| theorem | states |
| --- | --- |
| `TypeCorrect` | `Spec => []TypeOK` |
| `HistoryIsKept` | `Spec => []HistoryKept` |
| `ShownStored` | `Spec => []ShownAsStored` |
| `LogTells` | `Spec => []LogTruth` |
| `ImplementsDelivery` | `Spec => DeliveryInTurn`: the worker implements the safety part of `MailDelivery` |

`Control` says where requests, tasks and messages can be. `History` says how the
versions of a message grow while its writers interleave: their numbers have no gap,
their texts are some the message had, and until writers overlap or fail there is one
at most, who brings the one version that is missing. `Mailed` says
what the log knows of each mail at each station of its task, and is what a step of
the worker needs to be a step of `MailDelivery` or a stutter.

`StaffProofs`, for any finite number of roles and days, any number of tasks,
organizations, members, teams and faults, and every choice of operations:

| theorem | states |
| --- | --- |
| `TypeCorrect` | `Spec => []TypeOK` |
| `TenantSafe` | `Spec => []SameTenant` |
| `RowsSingle` | `Spec => []NoTwins` |
| `AskedAndDone` | `Spec => UpdateExact` |

The invariant has two halves. `SInv` is about what a request knows and nobody can take
away. `Shape` says that the steps a request has left are a rest of a script of its
operation: of which kind each step is and about which row (`Fit`), and what comes
after what (`Then`). `Looked` and `Found` say that the member, the level, the role or
the grant a step is about was looked up in the organization of the request, and
`Kept`, a fact of every step, that rows which were found never leave their
organization. `SameTenant` follows, although no request looks twice. `NoTwins` needs
the other half, which others can take away: `Fresh` says of a request that is not
`loose`, that is nobody overtook it and it names nothing twice, that what it found
missing is missing still. `Fits` is what a look-up finds
out for the next step (no role of the member, no team or role of the name, no rival
for the lead, no level to update), `Cover` that the parts which `update_member` will
give were not there, or will be deleted before, `Ungranted` that a new role, or a
permission without a grant, is granted next. A commit by anybody marks the others as
overtaken, so `Gather` leaves one request to look at, that which moves.

`UpdateExact` is about the last of many commits, and what the others did is no longer
to be seen by then. `XInv` keeps the account, again of requests that are not `loose`:
what the tables hold now and what the steps left will do to them add up to what was
asked. For `update_member`, `Dealt` says that the parts which the steps left will make
(`Gives`), together with those of the member that they will not delete (`Stay`), are
the roles and days of the request, no two alike; for `create_role` and `update_role`,
`Listing` says that the grants written so far, with those still to be written
(`Allots`), are the permissions and flags asked for, of different permissions. Each
step moves one item from one side of the sum to the other: `DealtRest` and
`ListingRest` for the steps that move none, and a lemma for each step that does. A
part that is made must not be one that a step will still delete, hence `PartIds`, and
not one that is there already, which is `Cover` of the invariant above. With no step
left the sum is what the property says (`UpdateDone`, `RoleDone`). That nobody else
can end the request is `DoneStep`; `Apart` says that a step changes no table under a
request that it does not mark as overtaken. TLC checked `XInv` on the instance of
`staff` before it was proved.

The attempt to prove an earlier form of `NoTwins`, which excused two leads of a team
only if one of their two rows was itself written by an overtaken request, failed
for a reason, and TLC found the run: when a member has two levels in a team, one of
them the lead, written by overtaken requests, a later request that nobody overtakes
is shown one of them and may update the other, so that two leads are two rows that
were written in peace. The property now excuses the leads of a team with such a row
(`Contended`).

Only model-checked:

* `DeletedUnused` of the ticket desk: it excuses a deletion by what the running or the
  last request of a task has written, and so says what it means only of instances with
  no more requests than tasks, like that of `desk_tenants`;
* `PagesComplete` of `TicketConversation`: what the recursive definition of pages
  computes, which takes an induction over data;
* liveness (`OverdueAlerted`, `EveryTicketChecked`, the fair half of
  `DeliverySpec`), which is out of the prover's reach.

## 5. Plan

In this order; each entry names what it composes or refines.

1. A `ChatMessages` whose seats are those of `ChatPresence`, instead of a fixed
   socket per person.
2. `WorkspaceCache`: the cache of organizations behind the tenant of a customer's
   request, with expiry.
3. Invitations with roles, and the names of guests.

To keep the number of runs down, violations are described in section 3 instead of
having a run once a later module needs it.
