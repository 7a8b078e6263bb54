# Verification of the Gangwon sports passport API

TLA+ models of the FastAPI service in `src/app`, TLC runs that check them on
small instances and TLAPS proofs about them. Every definition of a module is a
translation of the code named for it in `PROJECT.json` ("map"); this file says
what the parts are, what is checked and proved, and what is left out.

## 1. The system

A member of the service has an account and one passport. They take photos at
the places of a mission (a *course* of one or more *stamps*), submit them as
proofs, reviewers approve them, approved proofs become collected stamps, fully
approved missions earn badges, and stamps and badges can be exchanged for
rewards. All state is in one MySQL database behind SQLAlchemy sessions; the
server runs many handlers at once, in one or several processes. The exceptions
are the rate limiter, the administrators' one-time codes and the weather caches, which
live in the memory of a process, and the photos, which live in an object store.

| component | state | operations | what makes it correct |
|---|---|---|---|
| transactions (`config/database.py`) | the session of each request | begin, commit after the handler returned, roll back on an exception | nothing of a failed handler stays |
| tee reward (`*/passport_reward.py`) | campaign row, claim rows | claim, patch, account deletion | a bounded number of places, one each, never given twice |
| proofs, reviews, badge awards (`*/stamp_submission.py`) | submissions, collected stamps and badges | submit, approve, reject | an approved proof is collected and earns its badges exactly once |
| badge rules (`services/badge_rules.py`) | none | facts of completed missions to rules | counts missions, not rows; never loses a badge |
| collected stamps and badges (`*/collected.py`) | the same rows | create, update, remove by administrators | unique keys against reviews |
| community feed (`*/stamp_submission.py`) | share flags, likes, comments, follows | share, hide, delete, like, comment, follow | a deleted post stays deleted; actions are idempotent |
| passports (`*/passport.py`) | one row a user | create, move, remove | one passport a user |
| accounts (`*/auth.py`, `services/oauth.py`) | users, social accounts | signup, login, social login, profile, onboarding | identities are never merged; a username is set once |
| password recovery (`services/auth.py`) | reset codes | request, confirm, change | a code that was delivered stays usable until replaced or used |
| member rewards, saved activities, history (`*/me.py`) | claims, bookmarks | claim, fulfil, save, remove, page | one claim a milestone |
| tourism synchronization (`jobs/sync_tourism.py`, `repositories/activity.py`) | activities, sync_state | daily changes, full snapshots, removal of duplicates | no day is skipped, a failure changes nothing |
| rate limiter (`deps/rate_limit.py`) | counters in memory | allow | the limit per window, bounded memory |
| administrators' login (`admin.py`) | one-time codes in memory | login, verify, logout | attempts are bounded, a code is used once |
| stamp catalogue and its pages (`*/stamp.py`, `*/stampbook.py`, `repositories/passport.py`, `repositories/activity.py`) | catalogue, stamps, courses and their stops | seeding, CRUD; stamp book, missions, list of places | one stamp an entry; the pages agree |
| places (`*/activity.py`, `place_quality.py`) | activities | classification, edits, the rule of what a list shows | a failed lookup erases nothing; no place is shown twice or lost |
| recommendation (`services/recommendation.py`, `repositories/course.py`) | none, and the mission that is saved | candidates, sample, fallback course, the model's course | a course fits the time and has one main experience |
| weather (`services/weather.py`) | two caches in memory | forecast, fallback provider | an answer is no older than promised |
| revisions (`alembic/versions`) | the release that is installed | upgrade, downgrade | members keep what they earned; what was closed stays closed |
| storage, mail, OAuth clients | external | calls | failures are reported |

Interactions. Reviews write rows the tee reward, the member rewards and the
stamp book read; administrators edit those rows directly; deleting an account
or a passport cascades into all of them. Synchronization hides activities and
so closes missions to submissions. Handlers share nothing but the database:
what keeps
them apart are row locks (`FOR UPDATE`), unique keys, foreign keys
and the isolation of MySQL, whose default, REPEATABLE READ, is what the code
runs under because it sets none.

What is hard here: two handlers interleaving around a check and a write; a
check repeated under a lock that still sees the old snapshot; locks taken in
opposite orders; a commit whose outcome is unknown; a retry after a lost answer;
rows that disappear under a handler; an administrator's edit in the middle of a
review. `PROJECT.json` ("hazards") lists them with their lines.

Pieces of `PROJECT.json`: *components* (all parts, modelled or not), *runs*,
*mutants* (for each property a plausible error of the code that breaks it), *map*
(definition to source lines), *findings*, *hazards*, *theorems*. Operators whose
comment begins with "Mutant:" are those errors; no specification uses them.

## 2. The modules

| module | what it is |
|---|---|
| `TeeAllocation` | what the tee reward promises: places given out one by one, without locks or transactions |
| `TeeReward` | the handlers of the tee reward as transactions; refines `TeeAllocation` |
| `BadgeRules` | `badge_rules.py` as operators: the facts of completed missions to the rules they earn |
| `BadgeTally` | the loop of `badge_progress` over rows in any order, against `BadgeRules` |
| `ProofReview` | proofs, reviews, badge awards, the administrators' edits of collected rows, deletion of passports; uses `BadgeRules` |
| `Feed` | visibility, captions, deletion, likes, comments, follows of the community feed |
| `Accounts` | signup, social login, the upgrade of placeholder addresses, the one-time username |
| `PasswordReset` | recovery codes of one account |
| `TourismSync` | the daily changes of the tourism API and the date they have reached |
| `SourceSync` | the rest of a synchronization run: the files of the other sources, the retired mountain list, the removal of duplicates; and which rows the lists show |
| `PlaceRows` | one item of the tourism API: its classification, what a refresh keeps of its row, the edits of administrators; `PlaceWorlds` are its small inputs |
| `Recommendation` | candidates, sample, the search of the fallback course, the check of the language model's course, the mission made of it |
| `Catalogue` | seeding of the stamp catalogue, edits of places and courses, and three pages that must agree on them |
| `Members` | reward claims, saved places, passports and their owners |
| `Migrations` | the revisions that rewrite missions, in any order of upgrades and downgrades, while members and administrators work |
| `RateLimiter`, `AdminOtp`, `Weather` | the three parts whose state is in the memory of a process |
| `TeeReward_proofs`, `Accounts_proofs`, `Feed_proofs`, `TourismSync_proofs`, `SourceSync_proofs` | theorems about one module each |
| `MCProofsPosts_proofs`, `MCAccess_proofs`, `MCRows_proofs` | theorems about the parts of a bundle: `BadgeTally`, `ProofReview` and (from `Feed_proofs`) `Feed`; `PasswordReset`, `AdminOtp`, `Weather` and `RateLimiter`; `Members`, `PlaceRows`, `Migrations`, `Catalogue` and `Recommendation` |
| `MC*` | the small instances: symmetry sets, courses, facts, places |

Three MC modules bundle modules that share no row: `MCProofsPosts` (`ProofReview`, `Feed`,
`BadgeTally`), `MCAccess` (`Accounts`, `PasswordReset`, `AdminOtp`, `RateLimiter`, `Weather`)
and `MCRows` (`Recommendation`, `Members`, `Catalogue`, `PlaceRows`, `Migrations`). Their
variable `part`, chosen once, says which module a behaviour is of; the variables of
the others stay as they began. A bundle is a union of state spaces, not a
composition: nothing is claimed about parts that run together, which is why only
parts without a common row are bundled. Where modules do interact the composition is
inside one module: administrators' edits and deletions within `ProofReview`, the deletion
of accounts within `TeeReward`, the tourism API and the list rules within `SourceSync`,
badges and passports within `Members`.

### How a handler becomes actions

All transactional modules are built alike. The tables are the variables of
committed state. A request `r` has a program counter `pc[r]` and what its session
holds (a draft of a row, a snapshot, what it was asked). One action is one step
between two points at which another transaction can act: a statement that reads,
a statement that locks, the commit. `End` is the end of `get_session`
(`config/database.py:13`): the commit or the rollback, with every lock released.
`Abort` is that rollback at any point: a crash of the process, a lost connection, a
lock wait that timed out. `Collide` and the `Fail...` and `Refuse...` actions are
the errors the code or the database raises, with what the code then does.

Locks are predicates over `pc` (variables in `TeeReward` only): a request holds the
row lock from the step that takes it until its end. A lock step is enabled when nobody else holds
the row, and reads the committed row. A plain read sees what the constant
`Isolation` says: the snapshot of the transaction's first read under REPEATABLE
READ (what MySQL gives the service, which sets no level), the committed tables
under READ COMMITTED. Several properties hold under one level only; the runs say
which. Unique and foreign keys are guards of the inserting step, and violating one
is an action of its own.

### Correspondence

- `TeeReward`: `is_open`, `claimed_count` are the campaign row (`models/passport_reward.py:29`),
  `claims` the claim rows, `accounts` the users, `stamps` what `stamp_count`
  counts; `voided` and `confirmed` are histories for the properties: places whose
  rows went with their account, places a member was told of. `LockCampaign`,
  `ReturnExisting`, `Refuse`, `Qualify`, `Create` and `Commit` follow
  `claim` line by line; `CreateFails` and `Reread` are its IntegrityError path,
  `CommitUnknown` the commit whose answer is lost. `PatchLock`, `PatchCommit` are
  `update`. `DeleteAccount` is the administrators' deletion with its cascade.
- `BadgeRules` and `BadgeTally`: sports, courses and places are values; a row is a
  fact of `completed_mission_facts`. `BadgeProgress` is declarative; `Joins` and
  `Read` are the loop.
- `ProofReview`: `status` of each possible proof (passport, stamp, try), `collected` the
  rows of `collected_stamps` and `collected_badges`, `revoked` those
  administrators took out, `passports` those that exist. `Submit`, `SubmitLock`,
  `Insert` are `create` with its two calls of `_target`; `ReviewLock`, `ApproveLock`,
  `CheckCollected`, `CollectStamp`, `AwardBadges`, `Commit` are `review` and `approve`.
- `Feed`: a post is a row of status, visibility, caption and deletion; likes,
  follows and comments are marks of an actor on a target. One `Look` is the first,
  unlocked read of the handler, `LockOwned`/`LockActor` the lock, `Check` the second
  read, `Insert`/`Delete`/`Write` the statement.
- `Accounts`: `account` and `social` are `users` and `social_accounts`. A placeholder
  address is the identity it is made from; the code makes it from provider and id,
  so two identities never share one. The `Look...` steps end in `Start`, which keeps
  the session's row and its snapshot of who has the address; `isolation` is the
  configured level, chosen once at the start.
- `PasswordReset`: `code` are the rows, in the order of their ids. `Retire` is the
  UPDATE that marks the codes of the account as used: it locks all its rows and the gap
  behind them, and gap locks do not exclude each other, so two first requests
  meet in a deadlock, which `DeadlockVictim` ends. The mail is sent inside a
  savepoint (`MailFailed` rolls back to it), before the commit.
- `SourceSync`: `at` is the step of a run, `got` what the step has read, `known`, `active`
  and `shown` the rows and their two flags; `accepted` is a history, the last list of a
  source that was taken over. `Fetch`, `TakeOver` and `Reject` are one round of the loop over
  sources, `SearchDuplicates` and `HideDuplicates` the last block. `TourDay` stands for
  `TourismSync`. `Available` is `_available` of the queries with `_discovery_quality`: the
  lists look for duplicates of their own, by other spellings of a verified name.
- `PlaceRows`: `run` and `patch` are sessions between their read and their write; a
  write touches only the columns that changed, as SQLAlchemy's does.
- `Recommendation`: a place is a record of what the rules look at; it lies on a road, so that
  distances are differences. The random draws are nondeterministic choices over the
  places of positive weight. What the code sorts by a tuple is `Sorted` by that tuple. `BeginRoute`,
  `GrowRoute` and `EndRoute` are the search of the
  fallback course, place by place; the language model's answer is any sequence of candidates.
- `Catalogue`: a seeding's session keeps what it found (`Findings`); the pages are
  operators over the committed tables.
- `Members`: every request is a read (`...Read`) in its snapshot and a write (`...Write`)
  under the keys of the moment; `saved` holds ids, so that a row that was
  removed and saved again is another row.
- `Migrations`: an action `Up..` or `Down..` is one revision in its transaction.
- `RateLimiter`: an entry holds the time that is left instead of its end; `ages` and `later` are
  histories. `AdminOtp`: a code is numbered as it is drawn, `mailing` is a login waiting for the
  thread that sends its mail. `Weather`: time is in minutes, the answers are the slots.
- `TourismSync`: `upstream` is the provider, `row` the activities of that source,
  `last` the date in `sync_state`. `Apply` is the nested transaction of a day: the
  rows and the date together. `Written` is `_sync_items` followed by
  `hide_upstream_ids`.

## 3. What the runs show

Twelve runs, one for each question; `PROJECT.json` lists their properties.

| run | instance | what it shows |
|---|---|---|
| `tee_safety` | 3 members, 3 requests, 2 places | one place a member, none after the close; a confirmed place stays; `TeeAllocation` (numbered without gaps, never given twice) is implemented |
| `proofs_posts` | *proofs*: 1 passport, a course of 2 stamps, 2 requests, 3 edits by administrators; *posts*: 1 post, 3 requests; *tally*: 12 rows of 7 courses in every order | an approved proof is collected, the badge of the last two is awarded once and only for approved proofs, a verdict is final; a deletion is final, verdicts and feed columns stay apart, comments are of public posts; the loop computes the declared sets and more missions never lose a badge |
| `review_live` | 1 stamp, 2 proofs of it, 2 badges, 2 requests, 2 edits | every request ends |
| `review_pending` | the same place, two submissions | **violated**: two proofs become pending |
| `feed_marks` | 2 members, 1 post, 2 requests, READ COMMITTED | likes and follows never collide and have the effect asked for; every request ends |
| `feed_follow` | 2 members, REPEATABLE READ | **violated**: a repeated follow fails on a duplicate key |
| `access` | *accounts*: 3 accounts, a Kakao and a Google identity, 2 addresses, 2 names, 2 requests, both isolation levels; *reset*: 3 requests, 4 codes; *otp*: 2 browsers, 3 codes; *limiter*: 3 clients, 2 entries, 3 calls a window; *weather*: 2 spots of one cell, an hour from two start times, 1 fallback entry | every account can be logged in to, identities and established addresses stay; one delivered code is valid; a code signs in once; the window's limit holds and an active client is dropped only for others that called since; a forecast is as new as promised |
| `sync_days` | 1 place, 1 festival, 2 runs, 4 days | whatever was modified up to the recorded date is mirrored; the synchronization reaches yesterday again |
| `source_files` | 6 rows of three sources, a beach under two spellings | a place disappears for a named reason only; a beach whose better row is gone is in the lists again |
| `sync_festival` | as `sync_days` | **violated**: a festival stays hidden |
| `rows` | *course*: 9 places, 8 requests; *member*: 2 users, 2 passports, 2 requests, 1 milestone; *book*: 2 entries, 2 seedings, 4 numbers of places and 3 of stamps, 1 course; *item*: 21 states of an item; *release*: 1 member, 10 revisions, 5 stamps, 2 proofs | a recommended course fits and has one main experience; a mission is the course that was recommended; nothing decided earlier takes a claim, a saved place or a passport back; overlapping seedings make one stamp an entry; the pages agree; a failed lookup erases nothing; upgrades keep progress and a closure stands |
| `sources_edit` | 1 item, 1 administrator | **violated**: a place of another category keeps a sport |

Bounds. Two requests show every race of two transactions; where three matter
(the last place of the tee reward, a verdict between two edits of a post, a
third recovery request behind two in a deadlock) there are three. `Tries` bounds
the proofs of one stamp: a race needs two. `MaxEdits` bounds the rows that
administrators touch: one to put a row in a review's way, one to take out, one to move.
`MaxCodes` bounds the codes, four being one more than the requests. `MaxDay` is 4: a
first run, a missed day, the day it is made up for and the day after. Three
accounts allow two racing first logins beside an established member. In the
file sources, a row that all three sources have is the smallest case in which a
duplicate's survivor can change twice; lines 2 to 4 make a list that may shrink by half
and one that may not; the bundle leaves out the mountains, whose retirement is one
assignment. A third client makes the limiter's table of two overflow. Two seedings
of two entries need four place numbers: the second one's rows are refused, or made
after a deletion. The hour of the weather crosses a base time
in one start and midnight in the other. The revisions have one own mission at version 17 (an event
stamp while the place has none, up to version 15) and the explorer badges at version 33.
The small constants of the recommendation (`MaxCoherent`, `MaxAI`, `MinTheme` for 30, 10 and 3)
let nine places overflow each sample. `CHECK_DEADLOCK FALSE` is said in two bundles: the tally
ends when all rows are read and a course when it is answered.
Symmetry is used in safety runs only, over sets whose members no definition distinguishes.

Fairness. Liveness is checked in `review_live`, `feed_marks`, `sync_days` and `source_files`.
For requests it is strong fairness of `Handle(r)`: the event loop runs every handler
that is ready, and InnoDB grants a row lock to the oldest waiting request, so a lock that is
free again and again is got. Nothing is assumed of arrivals, crashes or
administrators. The detection of deadlocks is an action the database performs
(`DeadlockVictim`); without it the runs fail, which is their mutant. For the
synchronization: the timer starts a run each day (weak fairness of `StartRun`) and
the provider does not fail for ever (strong fairness of `Fetch` and `Apply`).
In `source_files` the timer keeps starting runs (weak fairness of `Run`), and a file that is
published is from time to time fetched whole and taken over (strong fairness): a
source that fails for ever, or a process that dies at the same step of every run, is
excluded. `BeachReturns` asks for the end of a run, since within one the row is active
for a moment whatever the search of duplicates decides.
`CatchesUp` is conditional on the province keeping a place to show, since a first list
without one is refused. `NewDay` waits for the runs at work: they begin after 8 o'clock
and do not last until midnight; that is an assumption about the environment.

## 4. Findings

- **A second pending proof** (`review_pending`). `create` repeats its checks under the
  passport's lock, but the repeated SELECTs read the snapshot of the first,
  unlocked ones, because the isolation level is left at REPEATABLE READ. Two
  submissions at the same time are both accepted.
- **Repeated follows and likes fail** (`feed_follow`). The same order of reads: the lock
  of the actor that should "serialize actions" comes after the snapshot. `feed_marks`
  shows that READ COMMITTED makes the comment true.
- **Festivals of a missed day** (`sync_festival`). A festival that is shown again on a
  day whose run failed stays hidden after the day was processed again.
- **A sport of a tour place** (`sources_edit`). The PATCH of an activity checks category and
  sport against a row it read without a lock and writes one of the columns; a run that
  classifies the place anew between them leaves what the schema refuses.

More disagreements and limits of the code that have no run of their own, each visible in a module:

- `docs/kakao-email.md:20` says that "concurrent email-uniqueness conflicts roll back only the
  email update"; under REPEATABLE READ the lookup after the conflict
  (`repositories/auth.py:98`) still finds nobody and the login fails (`Accounts!FailReplace`).
- Two confirmations of a recovery code that overlap both set their password, as
  `ResetPassword` does not look at the code again (`repositories/auth.py:146`).
- Seeding: a place of the catalogue has no source, so its key holds nothing
  back. A seeding that read before another one ran, and writes after the new stamp was
  deleted, makes a second place of the entry; `Catalogue!disturbed` is this case.
- Moving a passport (`services/passport.py:42`) loses a race as an unhandled IntegrityError;
  saving a place that was just deleted is a foreign key's error reported as 409, "already saved".
  After a move the same badges make a reward eligible for another member, and a claim an
  administrator sets back to `eligible` can neither be claimed nor listed as new.
- The mark `has_mission` of the list of places does not ask whether the course is visible, its
  filter does; missions are listed when they are published although a stop is hidden. The stamp
  book calls a stamp available whose place the lists leave out because it has ended or is
  spelled twice.
- A row whose name and district equal those of a row outside of Gangwon may be hidden for it by the
  search for duplicates, while the lists do not show the other (`SourceSync!Returns` assumes
  there is none).
- An answer of the language model with an empty list of choices is an IndexError that is not
  caught (`services/recommendation.py:621`); an item of the weather service without a field is
  a KeyError outside the handler (`services/weather.py`), and `weather_cache` is never emptied.
- Revision 0017 raises when two stamps of its events have no catalogue stamp; with its stamps go
  an administrator's own stops of them, and a member may have two pending proofs of one stamp
  afterwards. A downgrade of 0033 or 0044 unpublishes missions which the next upgrade leaves so.

## 5. What is proved

All theorems hold for every value of the constants: any number of members, requests,
places, courses, rules, reviewers, files, days, calls. What they assume are the ASSUMEs of the
modules, which TLC evaluates for each instance: a null value is not among the data; kinds
of items do not overlap and a sport's aliases are its own (`AliasAssumption`,
`KindsAssumption`, `SeparateAssumption`); bounds are numbers; and, where a part needs it,
what the table or the code gives it: ids are unique numbers (`PlacesAssumption`,
`EntriesAssumption`), the limits of the recommendation leave room for what it reserves
(`SampleAssumption`), the order of duplicates is total (`OrderAssumption`), the sources'
lists are of their own rows (`FilesAssumption`), and the edits of a place that are looked at
leave its summary and notes alone and make no event of it (`PatchAssumption`). Every safety and
action property of a passing run has its theorem; the theorem's name is in `PROJECT.json`.

The arguments, module by module. Each rests on an inductive invariant: the property alone
is not one, because it says nothing of what a request has read and still relies on.

- `TeeReward_proofs`: `TypeCorrect`, `PlacesAreNumbered`, `OnePlaceEach`,
  `ConfirmationIsDurable`, `FulfilmentRecorded`, `FulfilmentNeverBackwards`,
  `ClosedMeansClosed`, and `Refinement` to `TeeAllocation`. The invariant `IInv` says
  that locks match the requests' places (`LockInv`), that what a request read under
  a lock is still true (`RequestInv`), and that claims belong to existing accounts
  (`AccountInv`): without `RequestInv` the count could have moved between check
  and commit.
- `MCProofsPosts_proofs`, rules: `LoopIsExact`, `NothingLost`, `TrekkingCountsMissions`, and
  `EarnedGrows`, the monotonicity of the rules on which `NoLostBadge` rests: a
  reviewer may award from the facts of an earlier moment because later facts
  only add rules.
- `MCProofsPosts_proofs`, reviews: `TypeCorrect`, `StampsCollected`, `NoBadgeLost`,
  `VerdictsAreFinal`, `BadgesAreEarned`, and `OnePendingUnderReadCommitted`: what
  `review_pending` refutes under REPEATABLE READ holds under READ COMMITTED. The core of
  `IInv` is `ApprovalInv`: under the passport's lock an approval's view has exactly the approved
  proofs, and its draft covers its stamp and every badge the proof completes; `MutexInv`
  and `StatusInv` keep others from changing either. `EarnedInv` adds that what a draft
  awards is earned by the proofs that are approved once it commits.
- `Feed_proofs`: `TypeCorrect`; `DeletionIsFinal` and `ColumnsKeptApart` for both isolation
  levels, from locks that have one holder and drafts that agree with the locked row
  (`JobInv`, `PostInv`); `NoDuplicateKey` and `AskedIsDone` under READ COMMITTED, where
  what an actor's lock protects is what the second read saw (`ActorInv`);
  `CommentsWerePublic` under REPEATABLE READ, where the list is of the snapshot in which
  the post was public (`ListInv`). The hypothesis on the level is written in the theorem:
  under the other level TLC refutes the first two (`feed_follow`). `DeletionStands`,
  `VerdictsAndEditsApart` and `CommentsOfPublicPosts` of `MCProofsPosts_proofs` are these for
  the bundle that TLC runs.
- `Accounts_proofs`: `AccountsTypeCorrect`, `AccountsStayReachable`, `IdentitiesKept`,
  `EstablishedEmailsKept`, `UsernamesSetOnce`, for every isolation level. `IInv` adds to
  `EveryAccountReachable` that identities belong to existing accounts (`SocialInv`), that a
  row lock has one holder (`MutexInv`), and that under it the placeholder
  (`UpgradeInv`) and the missing username (`NameInv`) are still what was read. Two
  lemmas carry all actions: `GoesOnSafe` for steps that write nothing and `WritesRowSafe`
  for those that write one row and end.
- `MCAccess_proofs`: `OneCodeIsValid` and `DeliveredCodesKept` (a request between its UPDATE and
  its end excludes the others from the account's rows, and what it does not commit leaves the
  earlier code: `ResetLocks`, `ResetWork`); `OneLogin` (`OtpInv`: a code has one place, in
  one login whose mail is being sent, pending, or among those that have signed somebody in); `ForecastStaysCurrent` (`WeatherInv`: an entry's
  slot is near its end, whenever it was written); `WindowsHold` and `NobodyIsStarved`
  (`LimiterInv`: a client has one entry; whoever stands behind it has called since,
  `TableInv`; the entry's count is that of the client's last calls, and there were fewer than the
  limit before them in the window, `AgesInv`). That an active client is dropped only for as many
  others as the table holds follows from the positions: those behind it are different
  clients, so their number is the length of the table.
- `TourismSync_proofs`: `TypeCorrect`, `NoDaySkipped`. `IInv` adds to `CaughtUp` that
  the day a run works on is over (`RunInv`), that its list is still what the provider shows but
  for what was modified since today began (`ListInv`), and that the days before the one it
  works on are done (`DoneInv`). That they are recorded would not be enough: another run that
  is behind sets the date back meanwhile.
- `SourceSync_proofs`: `NothingVanishesUnnamed`. `IInv`: what a run has in hand are
  lines of the source whose turn it is (`HandInv`), the rows of a source that members may see
  are of its last accepted list (`ListedInv`), whose size is the one the next list is compared
  with (`CountInv`), and the rows the run is about to hide are the duplicates of those that
  members see (`ChosenInv`); the survivor of a group of duplicates exists because the order
  is total.
- `MCRows_proofs`, members: `ClaimsAndSavesStand` (`ClaimInv`: a claim has a time of fulfilment
  exactly when it is completed, and an administrator's locked row is the stored one).
- `MCRows_proofs`, places: `GuidanceAndNotesStand` (`PlaceInv`: row, summary and metadata tell
  the routes of the last lookup that worked; what a run has read of summary and metadata is
  still so, although an administrator writes other columns meanwhile).
- `MCRows_proofs`, revisions: `ClosedUntil0051` (`ClosureInv`: a closed mission is of a version
  0050 made, and there is no way back before it), `ProgressSurvives` (`MissionInv`: stops,
  stamps and what members collected refer to each other; 0013 meets no mission of its name).
- `MCRows_proofs`, catalogue: `OnePlaceEach` (`CatalogueInv`: what a seeding found of an entry
  is still so or its insert is refused by the stamp's key, `FoundInv`; an entry has
  one place and its stamps are of that place, `SettledInv`; an entry whose stamp was deleted
  while a seeding ran is excepted, as in `SeededOnce`), `PagesSayTheSame` (from the types of the tables: three queries
  written in three files are the same predicate).
- `MCRows_proofs`, courses: `CoursesFit`, `MainIsOne`, `PurposesKept`, `MissionsAreCourses`
  (`RecommendInv`: every route begins with an anchor, goes on with places that are no
  activity, and is a course at each step; the candidates fit in the time one by one). The
  lemmas before them are about the operators: a finite set sorted by different keys has
  each member once (`SortedIs`), sums of sequences (`SumUnfolds`, `SumOfMore`, by the least
  counterexample instead of induction), what is reserved lies before the cut
  (`BeforeTheCut`), a fallback's main stop is its first (`MainIsTheFirst`).

A theorem about a bundle names its specification (`AccessSpec`, `RowsSpec`, `SidesSpec`), of
which each part's own specification is a consequence (`PartsSpec`, `RowsParts`).

Only model-checked: the liveness properties (`EveryRequestEnds` of `ProofReview` and `Feed`,
`CatchesUp`, `BeachReturns`), which need fairness and ENABLED and are out of the prover's reach;
and the four violated runs, whose counterexamples TLC gives.

## 6. What is not modelled

Within the modelled parts: validation of uploaded objects; listings and pages other than those
in `Catalogue`; deletion of accounts by administrators outside the tee reward; the other fields
of a profile and the consents; password changes of a member who is logged in; the paging of the
provider's lists (one step) and the retries of one request; the conversion of fields that no
rule looks at; geocoding of addresses (`_fill_locations`). A history page sorts by time alone, so
rows of equal times may move between pages. The revisions that only change addresses of
pictures or visibility of single rows (0018 to 0032, 0034, 0035, 0045), the repair of the
revision table, and MySQL's commit after each DDL statement, which makes a failed revision half
applied, are not in `Migrations`.

Whole parts: storage, mail and OAuth clients are external calls, whose failures are actions of
the modules that call them; tokens, permissions, routes and schemas are pure functions of a
request; the trails job is a retired import of fixed data.

## 7. Plan

No module with a theorem uses RECURSIVE, and each invariant is a conjunction of named parts.

1. Done: the modules of section 2 and the proofs of section 5.
2. Next proofs: that `Members`, `Catalogue` and `Feed` implement tables whose operations are
   single steps, as `TeeReward` implements `TeeAllocation`; of `Recommendation`, that the
   search ends (its variant is the starts that are left and the places of the route).
3. Next modules: the deletion of accounts in `Accounts` and `Feed`; edits of the stops of a
   published course in `ProofReview`; the pages of the feed.
