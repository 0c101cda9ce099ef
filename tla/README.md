# Verification of the SPACE server

SPACE is a GraphQL and Server-Sent Events server written in Go, on MySQL, Redis
and an object store.  It runs as several identical instances.  This directory
holds TLA+ models of the parts in which instances, goroutines, transactions and
faults interact, the TLC configurations that check them on small instances, and
TLAPS proofs of what matters most for every value of the constants.

`PROJECT.json` names, for every definition that models code, the lines it stands
for; it also lists the hazards that the properties are aimed at.

To check a run: `tlc -config SSE_faults.cfg MCSSE` (every run's module is in
`PROJECT.json`).  To check the proofs of a module: `tlapm SSEProofs.tla`.

## 1. Inventory

| Component | State it keeps | Operations | What is hard | Module |
|---|---|---|---|---|
| SSE notifications (`internal/sse`, `infra/redis/sse_*`, `internal/transport/ssehttp`) | counter and history per user in Redis; clients and channels per instance; the tab's last id | publish, fan out, deliver, subscribe, replay, write, unsubscribe | replay meets live delivery; loss on the way; full channels; reconnection to another instance | `SSE` |
| Course import job (`internal/courseimport`, `infra/redis/course_import_store.go`) | lock with token and expiry, status record; a Tracker per instance | start, heartbeat, progress, watchdog, finish, shutdown, load | the lock expires under a run; late answers; crash | `CourseImport` |
| Activity archive (`internal/activityarchive`, `infra/mysql/activity_archive_repository.go`) | rows and records in MySQL, objects in storage | archive a month, expire, remove orphans | two stores without a common transaction; a run that has lost its lock | `ActivityArchive`, `ActivityHistory` |
| Reading a chat (`usecase/chat/read.go`, `usecase/room`, `infra/mysql/message_*`) | messages, read positions in two tables | send, delete, mark as read, count, page | numbers are issued before they are visible; whole seconds; several devices | `ChatReading` |
| GraphQL subscriptions (`graph/subscription_stream.go`, `internal/pubsub`, `infra/redis/bus.go`) | reference counts and topic list per instance, channels per stream | publish, subscribe, forward, recheck access, end | counting races; lost signals; a removed member keeps reading | `Subscriptions` |
| Community membership (`usecase/community`, `usecase/room`) | `rooms`, `room_users` | create, join, leave, change members | two owners go at once; a join races a deletion | `Accounts` |
| Account lifecycle (`usecase/user`) | `users`, `user_accounts` | withdraw, log in again, delete, purge, freeze, change a password | the purge races the login; ownership of what is left behind; stale writes | `Accounts` |
| Chat events (`usecase/chat`, `graph/chat_events.go`, `internal/async`) | messages, reactions, threads and their announcements; the slots of the runner | send, edit, delete, react, create, rename, close and delete a thread, publish, notify | commit and event are two steps; a full runner; a notification that fails; mentions that two paths announce | `ChatEvents` |
| Course synchronisation (`usecase/course/sync_*.go`, `infra/mysql/course_sync_repository.go`) | `courses`, `course_sync_reviews` | read, plan, write, ask, decide; courses entered and deleted by hand | the plan is older than the transaction; codes and keys that are reused; repeated syncs | `CourseSync` |
| Timetables (`infra/mysql/timetable_repository.go`) | `timetables` | register, replace a semester, remove | a sync moves a course under a timetable | `CourseSync` |
| Sessions and password reset (`internal/auth`, `usecase/user`, `infra/redis`) | `credentials_version`; marks, tickets, codes and reset tokens in Redis | login, refresh, logout, verify, watch a connection, change or reset a password | rotation races; a password changes while another is compared; a connection outlives its session | `Sessions` |
| Login guard, registration, email codes | attempt counters, single-use codes | count, lock, verify | counters at their limit | planned |
| Terms broadcast, WebSocket limit, rate limiter, caches, maintenance flag | small, each in Redis or in memory | claim, count, expire | several instances; counters at their limit | planned |
| Posts, favourites, blocks, reports, polls, questions, announcements, inquiries | MySQL tables | mostly one statement per request | little interleaving of their own | not modelled |
| Resolvers, generated code, storage, mail, scraper, configuration, migrations | none | mapping and I/O | nothing for a model checker | not modelled |

How they interact: every request passes `ValidateAndVerifyToken` (`Sessions`), and the
streams of `SSE` and `Subscriptions` end when its watch says so; what changes
who may read a room (`Accounts`: leave, kick, withdraw) publishes the access signal
that `Subscriptions` reacts to; chat writes publish to the same bus; notifications
(a new owner, a message) go out over `SSE`; the job of `CourseImport` ends in the sync
of `CourseSync`, and a job that has lost its lock is why two syncs may overlap there; the
messages that `ChatEvents` publishes are what `ChatReading` numbers and counts; a purged account deletes its activity
rows while `ActivityArchive` may be archiving them (this meeting is in the model of
the archive, as `DeleteActivityHistory`).  The modules are separate because these
links are single messages or rows whose loss the receiving model already allows.

## 2. Plan

Done, in this order: `SSE`, `CourseImport`, `ActivityArchive`, `ChatReading`,
`Subscriptions`, `Accounts`, then `CourseSync`, `ChatEvents`, the abstract
`ActivityHistory` and `Sessions`; proofs for all of them, and for the refinement.

Next, most important first:

1. **Login guard and registration**: the counters of `loginguard`, the codes of
   `email_otp_repository.go`.
2. **Terms broadcast**: one of several instances claims a scheduled broadcast.
3. **WebSocket limit, rate limiter, caches, maintenance flag**.
4. **DM rooms** (`FindOrCreateDMRoom`, `delete_orphaned_dm.go`) as a part of
   `Accounts`.

A theorem still worth proving: that `CourseImport` implements an abstract lock.

## 3. Conventions

Each component has a module with its state, one action per step of the code and
its properties; `MC<module>` gives TLC its constants; `<module>Proofs` holds the
theorems, `CourseProofs` those of `CourseImport` and `CourseSync`.  A step of the model is one atomic operation of the code: a Redis command
or script, an SQL statement or the commit of a transaction, or a section under a
mutex.  What happens between two of them may be anything another actor does.
Definitions marked "Wrong:" are plausible bugs; putting one in the place of the
definition that follows it makes TLC report the property it was written for, which
shows that the property depends on the code.

All bounds are named (`MaxPublished`, `MaxClock`, `MaxFaults`, ...) and appear in
guards.  Runs end because of these bounds, so deadlock is not checked.

## 4. The modules

### SSE

`counter` and `history` are the Redis keys of a user, `wire` the Pub/Sub messages
under way to each instance, `clients` the map of each `Broker`, `ch` a client's
channel, `last` the tab's `Last-Event-ID`.  `PublishToUser` is `sseAppendScript`,
`FanoutPublish` the PUBLISH after it, `DeliverLocal` the send under `b.mu` that
drops rather than waits, `Subscribe` and `Replay` the two halves of a connection,
`WriteMissed` and `WriteLive` the handler.  Faults: a failed PUBLISH, a message lost
while an instance reconnects to Redis, a failed replay, an expired history, a flush
of Redis, a restarted instance.

Replay's LRANGE and GET are one read; losing only the counter of a user is left out
(`Flush` loses all of it).  The in-process store used without Redis is left out.

### CourseImport

`lock`, `lockAge`, `shared` are the keys in Redis; `local` and `runToken` a Tracker;
`phase` where each run is, `contact` the time since it last extended its lock.  Time
counts heartbeat intervals; a step that waits for one Redis call only is shorter than
an interval.  `Heartbeat`, `ReportProgress`, `Stall` (the watchdog), `Conclude`,
`Finish`, `Shutdown` and `Restart` follow `tracker.go`.

### ActivityArchive

A row is a user and an hour.  `pc` walks each instance through `RunOnce`: the MySQL
lock, the scan, the file, the upload, the verification, the finalizing transaction,
expiry, orphans.  Every call may fail, the upload also by storing a damaged object
or an intact one that it reports as failed; the connection that holds the lock may
be lost while its run goes on; the process may stop.  `ASSUME` asks for
`Grace > RunTimeout`, as `orphanGracePeriod` (2 h) and `runTimeout` (30 min) have it.

`ActivityHistory` says what all this is for, without lock, file, upload or failure: an
hour is in the database, a month past its retention moves to an archive in one step and
only once, an archive goes when its life is over, an account takes its hours in the
database with it.  `ActivityArchive` is shown to implement it (`KeepsHistory`) with the
clock, the rows and the users as they are, and with the records, each seen with the rows
of the object it points to (`Archives`), for the archives.

### ChatReading

`messages` holds what has been inserted, with its state: pending, live, deleted or
rolled back.  `MarkAsRead`, `ResolveReadMessageID` and `StoreLastRead` are the three
statements of marking; `row`, `lastId` and `lastAt` a position in either table.
`ListMessages` and `AnswerMessages` are a page and its two boundary probes.  The
`afterTime` cursor, which only chooses where a first page starts, is left out; the
sender's right to post is taken as checked before.

### Subscriptions

`refs` and `wanted` are `Bus.refs` and the topics Redis is asked for, `chan` the
channels of `PubSub.Subscribe`, `stage` the loop of `subscription_stream.go`.  A
value goes out by `Publish`, through Redis, `Receive`, one `Hand` per channel,
`TakeValue`, the recheck and `SendOut`.  Membership changes, the signal may be lost
with the connection or dropped by a full channel.  Encoding and the conversion of
values are left out.

### Accounts

`status`, `account`, `since` are `users.status`, the existence of a `user_accounts`
row and `users.deactivated_at`; `room` and `role` the communities and `room_users`.
A request takes one of the kinds in `Op` and goes on from lock to lock: `row`, `mine`
and `held` are the users row, the user's membership rows and the rooms whose rows it
has locked, gaps included.  Writes become visible at the commit, which is one action;
`Fail` ends a request anywhere.  `Successors` leaves the order among active members
open.  InnoDB's locks on parent rows are left out, which only adds behaviours.

`SaveCredentials` writes back the status it read, as the code does, so the model also
reaches states such as a purged user who is "active" without an account.

### CourseSync

`courses`, `reviews` and `entries` are the tables; `job` is what a sync has read before
its transaction.  `PlanCourseSync` and the operators before it are `sync_plan.go`: pure
functions of the rows, the syllabus, the decisions and the current term, whose result is
a set of facts (update, create, gone, forced, retire, review, applied).  `SyncReads`
takes the snapshot, `SyncCommits` is the transaction from `LockCourses` to the commit.
It needs a result in which no two rows have one `dedup_key` (`KeysUnique`).  MySQL checks
the key row by row, so an order of writes may fail where the result would be unique;
`SyncFails` is possible at any time, and `NextSyncFits` is stated with `KeysClash`, which
forbids that a write meets a key in any order.  Administrators
decide (`ResolveReview`), enter and delete courses; students register (`Upsert`), replace and
remove.  A name and its campus suffix are two fields; a slot stands for day and period.
The bookkeeping of a run and the notifications of students whose entry was removed are
left out; a dry run changes no table that is modelled.

### ChatEvents

A request reads and checks, commits and publishes in three steps (`SendMessage`,
`SaveMessage`, `PublishSent`, and so on); `requests` holds what it carries from one to
the next.  `shown` is what an open screen makes of `message:added`, `message:updated` and
`message:deleted`; the number of replies on a thread's card, the list of threads and the
reactions are fetched when an event arrives, so the model only keeps whether an event is
still to come (`cardStale`, `listStale`, `reactionsStale`).  `tasks` are the slots of the
runner, `RunTask` the notifications with each of their failures.  `calls`, `overlapped`,
`lost`, `torn` and `missed` are history variables that the properties compare with.
The bus to the screens is in `Subscriptions`, which may lose an event; here it does not.

### Sessions

`account`, `status`, `hash` and `version` are the rows of one user; `marked` is the
`revoked:` keys, `tickets`, `code` and `resets` the single-use keys.  A grant is the pair
of tokens one answer hands out; tokens carry a random id, so each is told apart by its
grant.  `pc` walks each request from one query or command to the next, `call` holds what
it has read: the row that a login compares, the row that `SaveCredentials` writes back.
A request with an access token is verified in three steps (`VerifyMark`, `VerifyUser`,
`VerifyVersion`) and then does what it came for; an open connection goes through the same
steps again and again.  Every step may fail; a lost answer leaves what was written.
`era`, `stopped`, `dead` and `changed` are history: an era ends with a new password or a
withdrawal, and a session of an earlier era is over.

A chosen password differs from all before it (bcrypt salts the hash, so even the same
password moves the version on).  A lost mail is a code nobody gives; `TryBeginRequest` and
the counter of wrong codes only restrict what the model allows at any time.  Left out: the
login guard, the registration, a change of the email address, and administrators' sessions,
which carry no version.  Expiry comes at any time, with one exception that the code gives:
the mark of a token is set for the time the token has left.

## 5. What the runs check

| Run | Instance | Properties |
|---|---|---|
| `SSE_faults` | 2 instances, 2 publishers, 1 tab, history 1, channel 1, 2 events, 1 fault | `NothingFallsBetween`, `LiveAtMostOnce`, `DeliveryNeverStalls`, `OwedArrives` |
| `SSE_dropped` | 1 tab, channel 1, 4 events, no fault | `ReconnectCatchesUp` is **violated** |
| `CourseImport_runs` | 2 runs, 2 instances, lock of 2 intervals, stall after 1 | `InContactHolds`, `OnlyHolderWrites`, `LockIsFreed`, `ShownRunningEnds` |
| `ActivityArchive_runs` | 1 user, 2 instances, months of 2 hours, 5 hours, 3 objects, 1 fault | `RecordsHaveObjects`, `KeepsHistory`, `OldRowsLeave`, `OrphansGo` |
| `ChatReading_runs` | 2 authors, a reader, a room and a course room, 2 messages, 2 seconds; or 1 pager, pages of 2, 5 messages | `LaterIsUnread`, `CountsAgree`, `PagingMissesOnlyLate`, `PositionNeverBack` |
| `Subscriptions_shared` | 2 streams on 1 server, 2 values | `BusFollowsStreams`, `InOrder` |
| `Subscriptions_access` | 1 stream, 2 values, 2 changes of membership, 2 ticks | `SignalComesFirst`, `RecheckBounds`, `CancelledEnds`, `WarnedEnds`, `HandedArrives` |
| `Accounts_requests` | 2 users, 2 communities, 2 requests at a time, grace 1, 1 tick | `OwnerUntilGone`, `GoneOnlyAlone`, `HandedOver`, `PurgeNeedsGrace` |
| `Accounts_invisible` | 3 users, 1 community, 1 request at a time | `NoInvisibleOwnersOnly` is **violated** |
| `CourseSync_runs` | 3 syllabi, 2 syncs, 2 terms, 1 student with 2 entries, 1 manual course | `KeysDescribeRows`, `NextSyncFits`, `SyncSettles`, `NoNewOverlap`, `UnregistersForAnother` |
| `ChatEvents_requests` | 2 users, 3 kinds of room, 3 requests, 2 at a time, 2 messages, 1 slot, 1 fault | `ShownSettles`, `LookedUpSettles`, `NeverToldTwice`, `MentionedAreTold`, `CardMatchesThread` |
| `Sessions_requests` | 1 account, 4 requests, 2 at a time, 1 connection, 2 token pairs, 2 changes of the password, 1 code, the first pair may expire | `DeadStaysDead`, `UsedOnce`, `WatchEnds` |

Properties that are proved for all constants and that a stronger one of the run implies
or rests on (the type invariants, `NoRowLost`, `HistoryIsRun`, `ClientsMatchConnections`,
`StatusIsHolders`, `TrackerShowsItsRun`, `OnePlace`, `RecentStaysInDb`,
`PositionInRoom`) are not repeated in the runs.

Why the bounds are enough.  SSE: a history of 1 with 2 events trims, a channel of 1
with 2 events overflows, two publishers can overtake each other, and a tab can move
between instances.  CourseImport: with a lock of 2 intervals one missed heartbeat
keeps it and two lose it; two runs overlap on one instance or on two.
ActivityArchive: 5 hours hold a month, its retention, an archive's expiry and a grace
period, and 3 objects a first upload, a repeated one and one of the other instance.
ChatReading: two messages commit in either order within or across the second of a
mark; five messages make three pages.  The positions of a room and a pager
share no state but the messages, so the run has one of them at work at a time
(`OneAtATime`).  Several devices of a user are in the theorems,
not in the run.  Subscriptions: two streams meet at a count of 1; a second change of
membership brings the member back.  Accounts: two requests are the two sides of each
race; two communities order the locks of a withdrawal.  CourseSync: the three syllabi
differ from each other by moved slots, a code that is gone, given to another course with
another name or reissued with slots of its own, a course that changes semester and a row
listed twice; a second sync meets what the first one and a decision left behind.
ChatEvents: two requests are the two sides of a race, the third makes what they race
on; one slot is full with one task.  Sessions: two requests are the two sides of a race,
and four in all make, for instance, a login or a reset, a change beside it and a request
with what came of both; two unavailable checks stand for the ten of the code.  A
password changes at most twice, and `DeadStaysDead` needs one change.

Fairness.  `CourseImport`: time passes and every goroutine takes its next step, but a
job need not return and a process need not restart.  `ActivityArchive`: the daily job
starts again and a run goes on while its process lives; faults are bounded.
`Subscriptions`: each stream's loop, the receiver of each server and the reader of a
client that has not gone away go on.  `SSE`: the publishers and the receiver of an
instance go on; tabs may stop reading for good, and only `OwedArrives` assumes
(`HandlerFairness`) that handlers go on.  `Sessions`: the goroutine of `WatchSession` goes
on while its connection is open, and its queries end with an answer or an error.  Nothing is assumed of users.

### Disagreements with the code's own comments

* `SSE_dropped`: `broker.go:264` and its log line say that an event dropped on a full
  channel is replayed on reconnection.  A later event moves the tab's id past it, and
  the replay starts after that id.
* `Accounts_invisible`: `delete_user.go:325` hands over so that no community has only
  owners whom nobody sees.  A second owner who withdraws within the grace period of
  the first one hands over to nobody, because the first one's row still says owner.

Cases of the models that a comment denies, without a run of their own:

* `course_import_store.go:73` gives the lock back at once when the save fails.  When a
  shutdown cancelled the context (`Shutdown` before `SaveRunning`), the release fails as
  well, and the lock stays until it expires; `LockIsFreed` holds because it does.
* The comment above `UpsertReview` (`course_sync_repository.go:253`) says that a decision
  is never overwritten, because no question is planned where one is known.  The decisions
  are read before the transaction (`sync_courses.go:95`): `SyncReads`, `ResolveReview`,
  `SyncCommits` sets the review back to PENDING.
* `timetable_repository.go:59` keeps one course per slot.  `ReplaceForSemester` looks at
  one semester and at full-year courses: it adds a full-year course beside a course of
  the other semester in the same slot.  `NoNewOverlap` leaves this action out.
* The same promise fails when two syncs meet, which a lost import lock allows.
  `movedCourseIDs` (`sync_courses.go:321`) compares the plan with the rows that were read
  before the transaction.  A sync that moves back what another one moved meanwhile does
  not know it, does not look for conflicts, and two courses of a student may end in one
  slot.  `NoNewOverlap` and `UnregistersForAnother` leave such a sync out (`Overtaken`).
* `sync_plan.go:26` and `:29` leave to the administrator what the comparison cannot decide,
  but the next sync may decide it.  When a code is reissued and its slots are ambiguous, the rows whose
  slots match move to the new code after the answer SAME and the others wait for the answer
  to SLOT_AMBIGUOUS.  The next sync finds the new code in the table and asks no longer: it
  creates the missing rows.  It does so too when a question on a reissued code stops being
  asked because another gone code fits as well.  `SyncSettles` allows a repeated sync to
  create such rows (a new code, left out the first time), and nothing else of its own.
* A group of courses is known by the name of the course with the lowest id, which may be a
  discontinued one (`olds[0]` in `planGroup`).  While such a leftover differs in name and
  teacher from the syllabus, the answer SAME to CODE_REUSED is carried out once more at every
  sync, and a DIFFERENT from an earlier use of the code may be carried out on courses that a
  reissue has just given to it.  `SyncSettles` excepts a plan that carries out an answer.
* `threads.go:216` deletes the announcement in the transaction that deletes the thread.
  `SoftDeleteMessage` (`message_store.go:106`) does not use the transaction: when
  `DeleteRoom` fails, the thread stays without its announcement (`torn`).

Seen while modelling, without a run of their own, because no document claims the
opposite or because the reach is small: two publishers can fan out in the opposite
order of their ids, and a tab that reconnects in between misses the earlier event; a
`Last-Event-ID` from before a loss of Redis may look valid afterwards (`sse_store.go:165`); a room marked
as read while empty stores a time only, so a message of the same second counts as read; a message
that commits late, below a page already fetched, is not found by paging on;
`updateCredentials` may undo a withdrawal, a freeze or a purge that happened since it
read the status; a community created while its creator is purged has no owner
(`INSERT IGNORE`, `community_repository.go:71`); a profile saved with the credentials
read before a password reset puts the old hash back, and the version moves on once more, so
that everybody has to sign in with the old password; a request whose token is logged out
and expires while it is being verified is let in, because the mark ends with the token
(`DeadStaysDead` leaves this moment out); a refresh whose answer is lost has used its token
up and the client has to log in; a failed purge in a full batch of 100 ends that day's loop early;
two co-owners who withdraw at once may be a deadlock for InnoDB to resolve; an edit of a
message that was deleted meanwhile still replaces its mentions, is published and
notifies; two edits at once may notify somebody twice or be published in the opposite
order (`overlapped`); a rename and a closing of a thread at once undo each other; the
guard against mass discontinuation counts the courses that a sync has just created when
it is repeated.

## 6. What is proved

Each theorem holds for all values of the constants that satisfy the named `ASSUME` of
its module.  Every proof is `Init => IInv`, `IInv /\ [Next]_vars => IInv'`, `IInv =>
property`; action properties follow from `IInv` and one step.

* **SSEProofs**: `TypeCorrect`, `HistoryRun`, `ClientsMatch`, `NoGap`
  (`NothingFallsBetween`).  The invariant adds that events in a history are past calls,
  that only an answered replay has events to write, and that a tab without connection
  has resumed from nothing.  The heart is that `Subscribe` registers before `Replay`
  reads: an event is either in the history that is read or on the wire to a registered
  tab.  `AtMostOnce` (`LiveAtMostOnce`) has a second invariant: each publisher
  holds a call of its own, already published (`Serials`), so an event is on the wire to an
  instance, or in a channel there, once (`WireOnce`, `ChanOnce`).
* **CourseProofs**, the job: `TypeCorrect`, `Exclusion` (`InContactHolds`),
  `HoldersStatus`, `TrackerIsRight`, `WritesAreHolders`.  Added: a run between its SET
  NX and its registration has a fresh lock.
* **CourseProofs**, the sync: `SyncTypeCorrect`, `KeysDescribe` (`KeysDescribeRows`),
  `SyncFits` (`NextSyncFits`), `OneCoursePerSlot` (`NoNewOverlap`), `RemovedForAnother`
  (`UnregistersForAnother`).  The invariant `SyncIInv` says that the key of a row is the one
  its fields give, or that of its own id once it is retired or made by hand (`Described`);
  that keys are unique; and that what each sync has read is `Described` as well, however
  old.  It needs what `PlanCourseSync` answers for a whole syllabus.  A plan is a union of
  parts, one for each pair of an old and a new code (`PlanParts`), which share no course
  and no row (`PartsApart`); a part writes each course and each row once and takes a listed
  key only from the course that has it or retires that course (`PartFits`), and so does the
  plan (`PlanFits`).  `TransactionIs` carries this through the five writes of the
  transaction: every row is one that the old table had, an update or a new one, and has
  its key.  A row whose semester is over keeps slot and key; its code must not change, which
  holds because such a group is never matched as reissued.  `FindSlotConflicts` is a
  recursion over the entries in order; that its answer exists and what it says
  (`ConflictsExist`, `ConflictsAre`) is an argument about the least counterexample in place
  of induction.  Entries and courses a sync did not move stay as they were (`MovedAre`), so two
  entries that share a slot afterwards shared it before.
* **CourseProofs**, a sync and the same sync again: `SyncRepeats` (`SyncSettles`).  The
  table after the first sync is told row by row (`RowsAfter`): a course that the plan
  names belongs to one part, which alone says what became of it (`OwnFacts`, `CreatedOf`,
  `UpdatedOf`).  The second plan is then followed group by group.  Courses whose place a
  listed row has show that row already, so updating them writes nothing (`AfterAgain`,
  `NewAgain`).  The rows without such a course are none, or those of a new code that was
  left out, or they face courses without a place of which no single pair is left to find
  (`GroupSettles`; by cases on what the first plan did with the group: `FreshSettles`,
  `AnewSettles`, `SlotsSettle`, and `AskedAgain` where a question stands).  `Repeated`
  puts the groups and the reissued codes together.
* **ActivityArchiveProofs**: `TypeCorrect`, `ObjectsStay`, `RowsSurvive`,
  `RowsInOnePlace`, `RecentRowsStay`.  Added: keys are issued once (`Keys`, `Distinct`),
  an object between upload and record belongs to one run (`Own`), a verified object
  stays as read while its run is in time (`Intact`), what was listed as expired or
  orphaned is old enough (`Listed`, `Old`), a file holds the rows of its month
  (`Files`, `Closed`, `Purged`).  `Grace > RunTimeout` is what keeps the cleanup off
  an object that is about to be recorded.  `HistoryKept` is the refinement, `Spec =>
  KeepsHistory`: with the same invariant every step of `ActivityArchive` is a step of
  `ActivityHistory` or none.  `FinalizeActivityArchive` is `Archive`, because the object
  it records is intact and holds exactly what it deletes, and `DeleteArchiveRecord` is
  `Expire`, because nobody else's record goes with it; uploads and cleanups change no
  archive because `RecordsHaveObjects` holds.
* **ChatReadingProofs**: `TypeCorrect`, `PositionsInRoom`, `LaterMessagesUnread`,
  `PositionsAdvance`.  Added: a position is within the numbers issued when it was
  resolved, and what a device is about to store was checked.  `CountsAlwaysAgree`
  (`CountsAgree`) rests on `TimeHasRow`: a stored time
  needs a row.  `PagingComplete`
  (`PagingMissesOnlyLate`): what lies between the two ends of a pager's pages it has, or
  it came late.  That a page has no hole is an argument about the least message that is
  missing, which `WFMin` of the library gives without induction.
* **AccountsProofs**: `LocksHold`, `TypeCorrect`, `OwnersRemain`, `DeletedAlone`,
  `WithdrawHandsOver`, `GraceKept`.  The invariant says what the row locks are for: no
  two transactions have a row (`Exclusive`), so what was read under a lock is still so
  (`Accurate`), a transaction that ends an account knows every room it owns (`Owned`),
  and the purge it was allowed is still allowed (`Lawful`).
* **SessionsProofs**: `Inductive`, `TypeCorrect`, `DeadSessionsStayOut`
  (`DeadStaysDead`), `SingleUse` (`UsedOnce`).  `VersionCounts`: `credentials_version`
  counts the password changes and withdrawals of an account, and the version in a token
  or in the hands of a request is that of its time; `MarksStop`: Redis marks every token
  that was used up or logged out and has not expired; `SignedIsStopped` and
  `RefreshIsStopped`: a request begun with a dead token has still to pass the step that
  stops it; `OneChild`: a refresh token has one successor, and then it is marked or
  expired, because `ConsumeToken` sets its mark once; `CodeInOnePlace`: a reset code
  waits, is in the hands of the one request that took it, or is used.
* **SubscriptionsProofs**: `Inductive`, `TypeCorrect`, `BusFollows`
  (`BusFollowsStreams`), `Ordered` (`InOrder`), `SignalsFirst` (`SignalComesFirst`),
  `RecheckInTime` (`RecheckBounds`).  `Refs`: the count of a topic is the number of
  streams that count on it (a cardinality, so that a stream that ends is one less), and
  a topic is listed while it is positive; `Routed`: a channel holds its own topic's
  values and a server serves its own streams; `HoldsOne`, `InQueues` and `OnTheWire`:
  what is on the wire, in a channel, in a stream's hand and sent keeps the order of
  publishing; `Timely`: a value let through was published within an interval of the last
  check, and a user without access has passed none since but the one at the stream's
  start; `Warnings`: a signal waits in the channel until the warned stream ends, and no
  value it bars is held or sent.
* **ChatEventsProofs**: `Inductive`, `TypeCorrect`, `CardFollowsThread`
  (`CardMatchesThread`), `LookedUpIsFresh` (`LookedUpSettles`), `ShownIsStored`
  (`ShownSettles`), `ToldOnce` (`NeverToldTwice`), `EverybodyIsTold`
  (`MentionedAreTold`).  `OneCard`, `RequestsFit`: there is one announcement, known to
  every request that works on the thread; `StaleIsTold`: whatever is stale, a request is
  about to tell; `OneHand`, `ScreensFollow`: a message whose requests never overlapped is
  in the hands of one, and the screen is what that request leaves; `Accounted`:
  notifications sent, tasks waiting and requests that have yet to publish add up to the
  reasons to notify, unless one was lost.  Every action is first reduced to one of
  fifteen shapes (`Shapes`) and the invariant shown shape by shape.

Assumptions on the constants, beside types: `SyllabusAssumption` says that the courses
from before the syncs have different keys, as the unique index demands, and that the
values for "no code" and "no name" are none of the listed ones; `SessionsAssumption` and
`ChatAssumption` take the model values apart from numbers and records and the bounds for numbers;
`Request` of `ChatEvents` is finite, because it counts requests.  TLC evaluates them on
every run.

Only model-checked: everything about liveness (`DeliveryNeverStalls`, `OwedArrives`,
`LockIsFreed`, `ShownRunningEnds`, `OldRowsLeave`, `OrphansGo`, `CancelledEnds`,
`WarnedEnds`, `HandedArrives`, `WatchEnds`), which is out of the prover's reach.  Every
other property of a passing run is stated by a theorem above.

## 7. What is not modelled

Listed with reasons in `PROJECT.json`: the planned components of section 2, requests
that are one SQL statement, generated code, pure I/O and wiring.  Within the modelled
components: bodies, media and encryption of messages; the work of the import job
outside the sync (fetching and parsing pages); the record of a sync's changes; NG words,
stamps, blocks and membership in `ChatEvents`; posts, media, notifications and the batch loop of a purge; the daily schedule
and its retry; community names, icons and child rooms.
