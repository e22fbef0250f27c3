# TLA+ models of the DDDance backend

DDDance is a Go backend for learning dances from video. Users upload dances, film
themselves, have an ML service score the attempt against the original, save attempts to
their profile, and challenge each other to duels. This directory holds TLA+ modules for
the parts of the backend whose correctness depends on the order of concurrent steps, the
TLC configurations that check them on small instances, and proofs, checked by TLAPS, that
their invariants hold for any number of users, requests, events and replicas.

All paths below are relative to `src/internal/pkg/` unless they start with `src/`.

## 1. The system and its parts

The backend is one HTTP server (`src/cmd/main`, one to three replicas in Kubernetes) and a
set of small processes: an authentication service and a notification service reached by
gRPC, and workers that consume Kafka topics. State lives in PostgreSQL, Redis, an S3
object store and, a little, in the memory of a process. **Almost nothing runs in a
transaction**: a handler issues one statement after the other, each atomic by itself, and
logs most failures instead of returning them. Each HTTP request has its own goroutine, so
anything may happen between two statements of a handler. That is what the models are
about.

| Component | State | Operations | What must hold | Modelled by |
|---|---|---|---|---|
| **Duels** (`users/usecase/duel_usecase.go`, `users/repo/pg/duel_pg.go`) | table `duels`, foreign keys into `saved_attempts`, `dances` | challenge, accept, decline, submit an attempt to one duel or to all active ones, expiry job (every 15 minutes), notices | right winner, scores from the players' own attempts, no result without acceptance, finished duels do not change, every duel ends, outcomes told once and truthfully | `Duel`, `DuelLifecycle` |
| **Attempts and comparison** (`comparison/`, `users/repo/pg/pg_comparison.go`) | `compare_tasks`, `dance_attempts`, `saved_attempts`, videos and ML results in S3 | compare, poll, save, unsave, sweep of expired videos, tops and leaderboards | the stored score is the one ML measured, no attempt is lost or counted twice, a saved video stays, an unsaved one goes | `Attempts` |
| **Dances** (`dance/usecase/usecase.go`, `users/repo/pg/pg_dance.go`) | `dances`, `dance_uploads`, `search_history`, a cached top | upload, moderation, finalization by a poll, publish, unpublish, delete, views | a publication is withdrawn by a moderator, a linked account or an overtaken poll only, who is told of an approval can watch, every upload has its uploader, a deletion leaves nothing but late results | `Uploads`; views in `Views`, the top in `CandidateCache` |
| **Kafka transport** (`kafka/`) | offsets of consumer groups | publish without waiting, fetch, handle, commit | an event is committed only after its handler returned; it may come late, twice or never | `Delivery` |
| **Workers** (`src/cmd/*-worker`) | `activity_feed`, streak keys in Redis, achievements, views in memory | one handler per topic, periodic flush and reminders | redelivery changes nothing, a day counts once, nothing is lost but where something fails | `Streaks`, `Likes`, `Views` |
| **Likes** (`social/`) | `dance_likes` | toggle | a like reaches the feed and the achievements of its author | `Likes` |
| **Achievements** (`users/usecase/achievement_usecase.go`) | `user_achievements` | check and award | awarded when reached, told once | `Likes` |
| **Recommendation** (`recommendation/`) | lists of published dances in memory, feeds in Redis | recommend, invalidate | old lists go | `CandidateCache` (the lists) |
| **Friendships** (`profile/`), **notifications** (`notifications/`), **authentication** (`auth/`), **Telegram bot**, **rate limiting**, **server-sent events** | their tables and counters | single statements | – | not modelled, see section 6 |
| Helpers, configuration, generated code | none of their own | | | – |

### How they meet

* A duel submission needs an attempt that comparison has *recorded* for the player
  (`dance_attempts`), reads its score from the ML result in S3, and *saves* it
  (`saved_attempts`) so that the foreign key of the duel holds. Removing a saved attempt,
  or deleting a dance, nulls columns of duels behind the back of requests that are in
  progress.
* Saving an attempt publishes `attempt.saved`, from which the streak worker counts days; a
  toggled like publishes `like.toggled`, which the feed and the achievements workers take;
  a watched dance publishes `dance.viewed`, which the analytics worker collects. An event
  is published by a goroutine of its own after the statement it tells of, and nothing
  waits for it.
* A dance must be `published` to be challenged on; uploads become visible through
  moderation and through the client's polls, and the poll that finds an upload processed
  invalidates the lists of candidates of its own process.
* Every replica runs the periodic jobs (expiry of duels, sweep of videos) by itself,
  without a leader, and keeps its own lists in memory.

### What is hard here

Read-then-write handlers that race each other (duel submissions, saves, likes, uploads);
foreign-key actions that change a row between a handler's read and its write; the same
job on several replicas; two-step claims that a crash can cut in half; errors that are
logged and taken for "not found"; at-least-once delivery, in any order, to handlers that
keep their own notes of what they have counted; batches that live only in memory; caches
that a query under way fills again. The hazards, each with its line and the properties
aimed at it, are listed in `PROJECT.json`.

## 2. The modules

| Module | Models | Lines of code it stands for |
|---|---|---|
| `DuelLifecycle` | the abstract specification: what one duel may live through | – |
| `Catalogue`, `AttemptRows` | the tables the duels share with the rest of the backend, as the duels see them; `Duel` is built over them, `Uploads` and `Attempts` implement them | `createDB.sql`, the statements that write them |
| `Duel` | duels, detailed | `duel_usecase.go`, `duel_pg.go`, `sql/duels/*.sql`, the foreign keys in `createDB.sql` |
| `Attempts` | comparison, task, saving, removing, sweep | `comparison/usecase/usecase.go`, `pg_comparison.go` and its SQL |
| `Uploads` | the life of uploaded dances: upload, moderation, processing, polls, publication, deletion | `dance/usecase/usecase.go`, `pg_dance.go` and its SQL |
| `Delivery` | the way of an event; extended by the next three | `kafka/producer.go`, `kafka/consumer.go` |
| `Streaks` | streaks and their reminders | `src/cmd/streak-worker/main.go` |
| `Likes` | likes, the feed, achievements | `social/usecase/usecase.go`, `pg_social.go`, `achievement_usecase.go`, two workers |
| `Views` | views of dances | `RecordDanceView`, `src/cmd/analytics-worker/main.go` |
| `CandidateCache` | a list kept in memory by requests that share a query | `recommendation/usecase/usecase.go`, `GetTopDances` |
| `DuelProofs`, `AttemptsProofs`, `UploadsProofs`, `DeliveryProofs`, `StreaksProofs`, `LikesProofs`, `ViewsProofs`, `CandidateCacheProofs` | theorems about the module of that name | – |
| `MCDuel`, `MCAttempts`, `MCUploads`, `MCStreaks`, `MCLikes`, `MCViews`, `MCCandidateCache` | instances for TLC, and the bounds of its runs | – |

The grain is the same everywhere: **one action per SQL statement, Redis command,
object-store call or gRPC call**, with the Go code between two of them folded into the one
before or after. A request occupies a *slot*: a record with a program counter `pc`, the
arguments, and the copies of rows it has read. The number of slots bounds how many
requests run at the same time, never how many run in total. A failing call is an action of
its own (`RequestError`, `Fail`, `SweepFail`, `ToggleFail`) or a second outcome of the
call, allowed where `Fragile` says so. A call that fails may have had its effect where the
caller cannot know (a lost answer to an INCR, a SETNX, a COMMIT).

Where the code tolerates a loss, a **history variable names who was hit** (`unmeasured`,
`foreign`, `overtaken`, `late`, `failed`, `spoiled`, `unrenewed`, `missed`, `lost`): a property then speaks of all
others, so that it says at the same time what survives failures and that nothing else goes
wrong. Only properties read histories; no guard does.

### Duel

State: `duels` (rows with status, players, attempts, scores, winner, consents,
publicity and whether the deadline has passed), `saved`, `recorded` and `catalog` (what
duels need of the other tables), `req`, `job` (the ids an expiry pass has updated and not
announced yet), `notes` and `repeated` (what was announced, and what more than once), and
the history variables `credited` and `accepted` that only properties read.

| Code | Actions |
|---|---|
| `CreateDuel` | `CreateCheck` (dance published, no open duel), `CreateInsert`, `Notify` |
| `AcceptDuel`, `DeclineDuel` | `AnswerRead`, `AnswerWrite`, `Notify` |
| `SubmitDuelAttempt`, `SubmitAttemptToActiveDuels` | `SubmitBegin`, then per duel `SubmitRead`, `EnsureSaved`, `SubmitWrite`, `Notify` |
| `update_duel_status.sql` | `Updatable` (its WHERE), `Updated` (its SET) |
| `RunExpireJob`, `expire_duels.sql` | `ExpireDuels`, `ExpireNotify` |
| `ON DELETE SET NULL` | `Forget` inside `UnsaveAttempt` and `DeleteDance` |
| environment | `PassDeadline`, `RecordAttempt`, `SaveAttempt`, `UnsaveAttempt`, `SetDanceStatus`, `DeleteDance`, `Crash` |

**Composition.** What the rest of the backend does to the tables that duels share with it
is not invented by `Duel`: its environment actions are the actions of `Catalogue` (a dance
is published, withdrawn, deleted for good) and of `AttemptRows` (an attempt is recorded
once, saved under its dance, removed), joined with what the foreign keys do to duels in the
same statement. `Uploads` implements the first (`Catalog`, seeing of a status only whether
it is `published` or `deleted`), and `Attempts` the second (`Tables`, forgetting users,
scores and videos): theorems `CatalogueImplemented` and `TablesImplemented` in section 4. So
no behaviour of those components, in whatever order their requests and failures come,
reaches the duels as a step that `Duel` leaves out. `Attempts` looks at one dance that
stays: that deleting a dance takes its attempts away is in `Duel!DeleteDance` alone. That
the owner of an attempt is a constant of `Duel` is `RowsKeepTheirUser` of `Attempts`.

`SubmitWrite` uses the snapshot the handler read: `Submission` computes status, attempts,
scores and winner from it, and the UPDATE overwrites every result column with them,
provided the row is still open and the submitter's own attempt column is still NULL. When
an attempt it carries over has been removed meanwhile, the foreign key makes the UPDATE
fail. Those two guards are all that protects the row, and the proofs show that they are
enough for everything except the finding below.

`HasOpenDuel` and the INSERT of `CreateDuel` are two statements with no unique index
behind them, so that two challenges may pass the check together: `OpenTwinsBounded` says
how far that goes. Notices are handed over after the statement they tell of, from the copy
of the row in the handler; `NoticesTellTheOutcome` says that they are true nevertheless.

### Attempts

State: `video`, `aged` and `ml` (the object store: the user's video, whether it is older
than its time to live, and the ML result), `task`, `recorded` and `saved` (rows of
`compare_tasks`, `dance_attempts`, `saved_attempts`), `req`, `sweep` (the video each
replica has decided to delete), and histories: `told`, `claimedBy`, `unmeasured`,
`foreign`, `overtaken`.

| Code | Actions |
|---|---|
| `CompareDanceFromBuffer` | `Upload`, `Enqueue`, `PersistTask`, `DiscardVideo` |
| `GetTaskStatus`, `finalizeCompareTask` | `PollClaim`, `RecordPolled` |
| `SaveAttempt` | `SaveBegin`, `SaveLoad`, `SaveNote`, `SaveLook`, `SaveUpsert`, `SavePrune`, `SaveTell` |
| `UnsaveAttempt` | `UnsaveBegin`, `UnsaveDelete`, `UnsaveErase` |
| `EnsureSavedAttemptForDuel` | `EnsureSaved` |
| `CleanupExpiredUserVideos` | `SweepCheck`, `SweepDelete`, `SweepFail` |
| environment (ML, time) | `MLFinish`, `Age` |

An attempt lies in the folder of its maker; one made without an account has a folder of its
own. **Nothing in the code keeps a request to its user's own attempts**: `SaveAttempt`,
`UnsaveAttempt` and the poll take any id, and the reels (`getReelsAttemptsQuery.sql`,
`src/internal/models/reelsAttempt.go`) and the duels show the ids of others. So the actions
take any user and any attempt. What the folders decide is modelled where the code looks into
them: `loadAuthoritativeResult` finds a result only for the maker or where there is no maker
(`MayFind`), and so for anybody else the score is the one that user's client reports, written
over the row of whoever saved the attempt, who stays its user. `foreign` names attempts saved
that way, the exception of `MeasuredScoresStay` and `SavedIsRecorded`: the comment at
`comparison/usecase/usecase.go:250` means to take the client's score only where there is no
result, but one that lies in another's folder is not looked for. A user who saves the attempt
of another never finds a row of their own and is told the result with every save; `told` counts for each
user, and `ResultToldBounded` bounds it for the user whose row it is. The lock around the
enqueueing of an id is not modelled: the id was drawn at random a moment before, and nobody
else holds it.

### Uploads

State: `status` (the rows of `dances`), `files` (which of them were uploaded as a file, and
so have a `video_path`), `maker` (who uploads), `uploaders` (`dance_uploads`), `ml` (the
processing tasks of each dance), `results` (`results/<id>/` in the object store),
`notices`, `req`, and two histories: `late` (results that came after the deletion) and
`failed` (dances for which some call failed that nobody repeats).

| Code | Actions |
|---|---|
| `UploadDance`, `UploadDanceByURL` | `Upload`, `Moderate`, `Enqueue`, `Create`, `Link` |
| `GetTaskStatus`, `FinalizeUploadTask` | `PollRead`, `PollSettle` or `PollHold`, `Link`, `PollAnnounce` |
| `UpdateDanceStatus` | `DecideRead`, `DecideWrite`, `DecidePath`, then in a goroutine `Requeue`, `Wait`, `Tell`, `Insert` |
| `PublishDance`, `UnpublishDance`, `DeleteDance` | `OwnerRead`, `OwnerSet`, `OwnerDelete`, `Purge` |
| `ClaimDanceUploads` | `Claim` |
| a failing statement, a stopping process | `Fail` |
| environment (ML) | `MLFinish` |

A dance that is approved out of moderation is processed by a goroutine that outlives its
request; it keeps the slot of the moderator, so that a slot stands for a request *and the
work it leaves behind*. An upload's own task is called `"upload"`, the tasks that approvals
start have the ids of `Rework`. `Wait` may give up while a task is still running: that is
the ten-minute deadline of `waitForProcessing`. `SetStatus` has no guard on the old status
because the UPDATE has none; every property of this module is about what that leaves
standing.

**Who is linked** to a dance is anybody who asks. `ClaimDanceUploads` links the caller to
whatever dances the request names, and a poll takes the dance from its query string and the
task from its path, which need not belong together: any finished task lets it settle any
dance that is not final yet and links whoever polls (`PollRead` asks for a row and a status
only, `PollHold` for some task that was held back). An account that is linked may publish,
withdraw and delete the dance. So `PublicationKept` does not say that only the maker of a
dance withdraws it; it says that the account that does is linked *at that moment*, which was
read one statement earlier.

### Delivery, and the three modules built on it

`Delivery` has no specification of its own: it holds the steps of an event, which
`Streaks`, `Likes` and `Views` join with steps of their own.

| Code | Operators |
|---|---|
| `PublishAsync`, `Publish` | `Published` (the caller goes on), `Arrive` (the brokers have it; the writer may not learn of it and send again), `GiveUp` (only logged) |
| `Consumer.Subscribe`: `FetchMessage` | `Taken` |
| `CommitMessages` | `Committed`: it covers any of the events handled before, or fails, which is only logged |
| an error of the brokers, a new process | `Reread`: what is not committed comes again |

The producer's balancer ignores the key, so that two events of one user may lie in two
partitions; how they are spread is left open: a consumer takes *any* event of its queue,
and a commit covers *any* earlier ones. That allows every order the partitions can
produce. The brokers are taken for reliable: what has arrived stays.

**Streaks** (`streak`, `last`, `marked`: three Redis keys per user; `streakTo` and `lastTo`,
the days on which the first two run out; `hand` and `round`: the consumer and the hourly
reminders, which run side by side). `handleAttemptSaved` is `Take` (the date), `Get`, `Incr`
or `Reset`, `Note` (SET of the second key), `Renew` and `Keep` (EXPIRE of the one and of the
other), `TellMilestone`, `Commit`; `runStreakReminders` is `RoundStart`, `RoundCheck`,
`RoundMark`, `RoundRead`, `RoundTell`, `RoundEnd`. `ExpireStreak` and `ExpireLast` are the
ends of the two times to live: a key that got 48 hours goes at some time on the day after
tomorrow. INCR renews nothing, so the streak depends on `Renew`. The code notes the day it
*handles* an event on, not the day the attempt was made: an event that is handled after
midnight counts for the wrong day or resets the streak, one that fails half way may count
twice, and `spoiled` names the users this has happened to. `unrenewed` names those for whom
`Renew` failed, or did not happen before the worker stopped (the event that comes again finds
its day noted and renews nothing) or before a midnight after which the key may run out: their
streak may be gone while its day is still noted, and then counts from 1 again.

**Likes** (`likes`, `feed`, `unlocked`: three tables; `hand`: two consumers; `check`: any
number of checks of achievements). `ToggleLike` is `ToggleInsert` and then `ToggleDelete`
or `ToggleAnnounce`; the consumers are `Take`, `FeedInsert` or a check, `Commit`,
`Restart`; `CheckAndUnlockAchievements` is `CheckStart` (or `Take`), `CheckStats`,
`CheckUnlock` per achievement, `CheckTell`. Who uploaded which dance is fixed. The event
tells of the *first* uploader only, the statistics count the likes of *all* uploaders;
`ReachedIsUnlocked` is stated for the likes whose events go to the account.

**Views** (`keys` in Redis, `memory` and `flush` of the worker, `table`). `RecordDanceView`
is `Record` or, when the process stops after SETNX, `RecordCrash`; the consumer is `Take`,
`Add`, `Commit`; `flushViews` is `FlushDrain`, `FlushBegin`, `FlushInsert`, `FlushCommit`;
`Stop`, `StopFlush`, `Start` are an orderly stop with its last flush, `Kill` any other. A
view is committed to Kafka when it is in memory, up to 30 seconds before it is written, and
`flushViews` drains the memory before it begins its transaction: `lost` names the views that
a failure dropped, and `ViewsAreKept` says that there are no others. One INSERT stands for
the INSERTs of a batch, since the first that fails aborts the transaction for all.

### CandidateCache

`items` and `fresh` are a list and its age, `version` counts how often the published dances
in the database have changed, so that a list is the number of the version it was read from,
and `flight` is the singleflight group (a library, modelled from its use).

| Code | Actions |
|---|---|
| `candidateCache.load`, `GetTopDances` | `Look`, then `Lead` or `Join`; the leader goes on with `Fetch`, `Store`, `Land` |
| the caller | `Return` |
| `InvalidateCache` | `Invalidate` |
| the time to live; the database | `Expire`; `Change` |

One module stands for three lists: the two of the recommendations, and the top of the
dances, which differs in never being invalidated. `InvalidateCache` is called by the poll
that finds an upload processed and makes it private, in the process of that poll, and not
when a dance is published or withdrawn; `Change` therefore happens without it.

## 3. What the runs check

| Run | Question | Result |
|---|---|---|
| `duel_race` | Two requests of any kind race each other and the expiry jobs of two replicas, while owners save and remove their attempts. Is the winner right, is nothing scored before acceptance, is every outcome told once, do finished duels stay, is the whole thing a `DuelLifecycle`? And how many open duels may one pair have on a dance? | holds; never more than requests at a time |
| `duel_ends` | Statements fail, answers get lost, the replica crashes, dances are deleted. Does every duel end, and is what was told true? | holds |
| `duel_asked_twice` | Is a player whose submission is stored never asked for another? | **violated**, finding 1 |
| `attempts_race` | Two users want one attempt, of one of them or made without an account; polls, saves, removals and duels' saves interleave. Is the score ML's, is what is saved recorded, do rows keep their user, how often is that user told? | holds, but for the scores of attempts saved out of another's folder |
| `attempts_swept` | Requests die half way and sweeps fail. Is every unneeded video deleted in the end, and who may take a video that a profile shows? | holds; only a call overtaken by the save |
| `attempts_claimed` | Can the client's score replace the measured one? | **violated**, finding 2 |
| `uploads_race` | Two requests of any kind race on one dance while ML works and any call may fail. Does every upload get its uploader, who may withdraw a publication, who is told of an approval, what does a deletion leave behind? | holds; a moderator, an account linked at that moment, an overtaken poll |
| `uploads_unwatchable` | Has every published dance a video? | **violated**, finding 3 |
| `streaks_race` | Events come late, twice or never, Redis fails, the worker stops anywhere, each key runs out by itself, reminders run beside it. Do streaks count the days that were danced, each once, and is nobody told twice? | holds, but for users an event of whom was lost, late or cut short, or whose streak was not renewed |
| `likes_race` | Toggles of one and of two accounts overlap, their events reach two workers in any order, another check of the same author runs. Do likes reach the feed, are achievements unlocked when reached and told once? | holds |
| `views_race` | Views are recorded, collected and written while calls fail and the worker stops or is killed. Where may a view be lost, and are all others written? | holds: at failures and stops |
| `cache_race` | Requests share a list that expires, is invalidated and grows old. Do answers go back, does an invalidation hold, does an old list stay? | holds, but for a query under way at the invalidation |

Every property has a mutant of the code that breaks it (section `mutants` of
`PROJECT.json`): a definition such as `UpdatableAnyStatus` is the guard with a plausible
bug in it, and stands before the definition it distorts.

### Bounds, and why they are enough

* `duel_race` is two instances in one (`RaceOrTwins`). In one (`OneDuel`), a single duel
  with two players, one attempt each with different scores, two request slots, two
  replicas. Duels interact only through `HasOpenDuel` and through the fan-out, which
  handles one duel after the other. The race for one row needs two requests; three add no
  new pair of stale reader and writer, and the proofs cover any number. `RaceBound` keeps
  the dance published and the attempts recorded (`DancesStay`), makes `u1` the challenger (`FirstChallenges`; the
  other half is symmetric), makes submitters consent (`AllConsent`; consent is explored in
  `duel_ends`) and looks only at submissions of the owner (`OwnersSubmit`; others are
  refused in `MaySubmit`, and explored in `duel_ends`). In the other (`TwinBound`), three
  ids and two requests, so that a third twin would be possible if the bound were wrong; no
  attempts, since an open duel needs none.
* `duel_ends`: one failing request at a time, a crashing replica, both consents, deleted
  dances. Liveness needs no race: whatever a request does, the ticker must end the duel.
* `attempts_race`: two users, two slots, and one attempt, of `u1` or of nobody (`OneAttempt`:
  attempts meet in no statement). No video expires (`VideosStay`) and saves keep the video
  (`SavesWithVideo`): these properties do not look at videos, and `attempts_swept` has those
  that do. `OthersToldOnce` stops where a user has been told twice of a row that is another's:
  the code sets no bound there, and no property speaks of that user.
* `attempts_swept`: one attempt of one user, since a video belongs to one attempt and the
  sweep looks at each alone; a slot that fails, a slot that does not, a sweep that fails.
  `OneRacer` lets the second request begin only while the failing one is idle or about to
  take a video, which are the races the property is about; the actions that fairness is
  assumed of never leave the bound, so that it cuts no behaviour short of them.
* `uploads_race`: one dance (no statement touches two), two users (a maker and one who
  claims or polls), two slots, of which either may fail, and two tasks beyond the upload's
  own: a moderator can approve twice. `TasksOrAccounts` explores the second of them while one
  account is concerned with the dance: tasks belong to no account. Deadlock is not checked because the instance has one id,
  which is used up when the dance is deleted; the backend never runs out of ids.
  `uploads_unwatchable` needs one user, one slot and no failure.
* `streaks_race`: one user (keys of two never meet), three events, three days, a milestone
  at two: three days are what a streak, a gap and a new streak take. `CountsBound` stops
  counting one above the number of days; `Unspoiled` follows a user of whom an event was lost
  for two days, without reminders, and only as long as the streak was renewed (the properties
  then say nothing of that user, but the worker goes on for others); and `ThirdSaveEarly` explores three attempts within two days or two within three.
* `likes_race`: two accounts, one dance, two events, levels 1 and 2, one other check. The
  two consumers share nothing but the likes, so that `RaceBound` explores one of them at a
  time, and one trouble (a missed like, an event sent twice, a failed commit) at a time.
* `views_race`: two views and two events; `OneView` is one view recorded again, `Smooth` two
  views without losses. The two together contain every pair of adding and draining.
* `cache_race`: three requests (one leads, one joins, one comes later) and one change. An
  answer goes back or not by comparing two versions.
* `streaks_race`, `likes_race` and `views_race` do not check deadlock: the events and days
  of the instance are used up; those of the backend are not.
* `TellBound` in `Attempts` stops the counter of announcements one above what the property
  allows. Scores are 1 and 2 (one of them a tie where two attempts of `u1` exist): only
  their order matters.

### Fairness

Safety runs use `Spec`, without fairness; `Uploads`, `Streaks` and `Likes` have only those.
The other four state the fairness condition of an action `A` by its guard: `[]<>~Guard \/
[]<><<A>>_vars` is `WF_vars(A)`, and `<>[]~Guard \/ []<><<A>>_vars` is `SF_vars(A)`, when
`Guard` holds where `A` is enabled. Every guard used is the whole guard of its action (a
conjunct of it, followed by assignments that can always be made). The proofs can use that
form, whereas they cannot look into `ENABLED`; the lemmas `FairnessIs...` of the proof
modules say that it is WF or SF, given that the guards are right.

* `Duel!FairSpec` assumes that the ticker of `runDuelExpireJob` (`src/cmd/main/main.go`)
  keeps running the job (weak fairness of `ExpireDuels`, `ExpireNotify`) and that time
  passes (`PassDeadline`). Nothing is assumed of players and requests: none has to finish.
  That every replica's ticker goes on is more than the end of duels needs: the proof uses
  those of one.
* `Attempts!FairSpec` assumes that time passes (`Age`), and strong fairness of the sweep:
  its ticker comes back for ever, each pass lists all videos again, so a video that is
  expired and unsaved again and again at the time of a pass is looked at, and the deletion
  *of each video* does not fail every time. The last is stated for every attempt: that some
  deletion succeeds again and again would let one video fail for ever beside others.
* `Views!FairSpec` (most of whose actions end what makes them possible, so that weak fairness
  is just that their guards are false again and again) assumes that a publishing ends, by its timeout at the latest, that the
  consumer takes and adds an event which is there again and again (strong fairness: it may
  be stopped and killed, though not each time at the same point), that the 30-second ticker
  finds its turn (strong fairness of `FlushDrain`), that a flush and a stop come to an end,
  and that a stopped worker is started again (`restart: unless-stopped` in
  `src/docker-compose.yaml`). No statement is assumed to succeed: what fails is lost, and
  `ViewsAreWritten` says so.
* `CandidateCache!FairSpec` assumes that time passes (`Expire`) and that a request that has
  begun goes on: its query ends, with or without an answer.

## 4. What is proved

`tlapm M.tla`, for each of the eight proof modules, checks these theorems for every value of
the constants that satisfies the assumption of its module (`DuelAssumption` and so on: the
owners and scores of attempts are functions into the right sets, `None` is no proper value,
slots, requests, users and dances are finite where the theorems count them).

**Duel.** The inductive invariant `IInv` is about rows *and copies of rows*. `RowOK` says
of one row what the safety properties need: statuses and NULLs fit together, scores are
those of the players' own attempts, a completed row has an unbeaten winner, and publicity
needs both consents. The properties alone are not inductive, because a submission decides
from an old copy; so `IInv` demands of each request that its copy, *however old*, satisfies
`RowOK`, and that it agrees with the row in what never changes (the players and, until it
is deleted, the dance). A submission computed from such a copy is a correct row by itself,
whatever has happened to the stored row since, and the UPDATE replaces all result columns
together, so the result is never a mixture of two submissions. That the old copy may be
*obsolete* is harmless for these properties and is what the first finding is about. From
`IInv` follow `TypeCorrect`, `WinnerCorrect`, `ScoresCorrect`, `AcceptedFirst`,
`PublicCorrect` and, as action properties, `EndingsKept`. `Refinement` shows that each step
of `Duel` is a step of `DuelLifecycle` or a stutter: the mapping sends the three statuses of
a duel in play to `live` and forgets the result columns until the duel is completed.

Two more invariants stand on `IInv`. `TwinInv` *counts*: the open duels of a challenger, an
opponent and a dance, and the requests that have passed the check and will insert another,
are together no more than the requests; a new one enters only while there is no open duel,
when all of them are requests (`TwinsBounded`). `TInv` is about notices: an outcome that a
handler or a job is still to tell was not told and has no second teller, because the status
it tells of was written by one UPDATE that found another status; and what it will say is so
and stays so (`NoticesTrue`, `ToldOnce`).

`DuelsEnd` is liveness: `Replicas # {}` and `FairSpec` imply that every duel ends. An open
duel stays open or is over (`OpenUntilOver`, from the refinement), and one past its deadline
stays past it (`AgedUntilOver`: only a new row resets it). Take one replica. Its pass, if it
has something to tell, comes to tell it; then it is ready while the duel is late, and
nothing but its own next pass makes it busy again, which ends *every* late duel, whatever
other replicas, requests and failures do in between.

**Attempts.** `TypeCorrect`, `RowsCorrect` and `VideosCorrect` hold whatever fails. The
invariant of the last says who may be about to take a video that will be shown: those whom
`overtaken` already names, since a save passes them between their look and their deletion;
and that ML knows of every saved attempt, so that no upload discards its video.
The others need one kind of call not to fail, and hold whatever else does; each theorem
names its own as a condition on the steps of the behaviour:

| Theorem | Condition | Without it |
|---|---|---|
| `MeasuredCorrect` | `ResultsAreRead`: a save reads the ML result that is where it looks | the client's score is stored (finding 2) |
| `SavedCorrect` | `ResultsAreRead`, `ScoresAreNoted`: it also records what it read | a saved attempt is not in `dance_attempts` |
| `ClaimedCorrect` | `ClaimsAreKept`: a poll that claimed a task goes on to record | the claim is used up and the attempt lost |
| `ToldCorrect` | `RowsAreFound`: a save learns whether its row is there | the result is announced with every save |

Each condition follows from `Fragile = {}` (`NoneFails`), which is what `attempts_race`
explores. The first two except `unmeasured` and `foreign` besides, and the
last is about the user whose row it is. `ScoreInv` adds to the first two what each slot
carries: a save past `SaveLoad` on an attempt that is no such exception holds the measured
score, and past `SaveNote` its attempt is recorded. `ToldCorrect` counts: announcements made
to the row's user and requests that will make one are no more than the slots.

`VideosSwept` is liveness: with at least one sweeper, `FairSpec` implies that a video which no
profile shows goes in the end, whatever requests do and whichever calls fail. A video that
never went and was never shown would grow old for good, be eligible whenever the sweeper is
free, which it is again and again, be chosen again and again, and so be deleted.

`TablesImplemented`: each step of `Attempts` is one step of `AttemptRows` or does not show in
it. An upsert of a row that is there, a second record of an attempt and a removal of
somebody else's row are stutters; it is `RecordedType` (a record never changes a row) that
makes `recorded` grow only.

**Uploads.** All five properties of `uploads_race` are theorems, for any number of users,
dances, requests and tasks and whatever calls fail, since the histories `late` and
`failed` name the exceptions. The inductive invariant adds to the two state invariants
what a slot may be doing (`Plain` and `Apt`, slot by slot: a poll carries a status that is
not final, a slot about to tell of an approval works on a dance whose results are there or
that is deleted, a request past `Upload` carries the dance's maker, an account that was found
to be an uploader still is one unless the dance is deleted, because links are only ever
added) and what
`DancesOK` says of each dance: only one that has had a row has uploaders, and a finished
task has its results until the dance is deleted. The two action properties
follow from `Apt` of the one slot that moves. `CatalogueImplemented` rests on the same: an
`UPDATE` finds a row or changes nothing (`SetStatus`), so that a deleted dance stays deleted
although no handler looks, and `Plain` says that `Create` brings no dance back or into sight.

**Streaks.** All five properties, for any number of users, events and days, failures and
stops included, for all users but those the histories except: `spoiled` (an event was lost,
late or not handled to the end) for the first three, and `unrenewed` besides for how far a
streak reaches back and for milestones told twice. The invariant relates an event to the key
that notes it: every event is still on its way, or counted, or of a streak long over
(`StreakOK`, `WholeOK`); past its first read the event in hand is of today, and the streak it
will be added to ended yesterday (`CountOK`); and a streak that was renewed outlives the day
on which it can be continued (`KeysOK`). Together they make two separate Redis keys correct.
Redelivery is harmless because a day that is noted is found noted. That a milestone is told
once rests on `MilestonesOK`: once a user was told of *n* days, no count of that day comes to
*n* again.

**Likes.** All four properties, for any number of accounts, dances, requests, checks and
events. `ReachedIsUnlocked` is not inductive, since a like may be taken back while another
is checked: `PartsAreUnlocked` says it of *every part* of an author's likes, each of which
has a member that may still unlock what the part has reached; a like that is removed only
makes parts disappear. `ChecksOK` (no two checks have unlocked the same row) gives
`AchievementToldOnce`.

**Views.** `TypeCorrect` and `ViewsKept`: the invariant adds that every event on its way has
been published, so that reading it again gives a view. `ViewsWritten` is liveness:
`FairSpec` implies that the view of every event sent is written or lost in the end. A view
moves from station to station (sent, queued, in hand, in memory, in a batch) and never back
but to the queue (`ViewGoes`). What makes each next step possible *again and again*, as
strong fairness asks, are lemmas of their own: flushes end (`FlushesEnd`), the consumer's
hands are empty (`HandsEmpty`), and from these that a worker which stops comes to be up with
empty hands (`ConsumerReady`, through the phases of a stop).

**CandidateCache.** `AnswersCorrect` and `InvalidationCorrect`, besides the types. The
singleflight group runs one query (`OneFlight`); while it is under way, what was answered
came from the list, so that what the query has read is not older than the list nor than any
answer (`ListOK`, `FlightOK`); and a list from before the last invalidation was on its way
at one (`CurrentOK`). With two queries at a time the older could be stored last.
`AnswersRenewed` is liveness: `FairSpec` implies that, once the published dances change no
more, every caller comes to be answered with the present ones for good. From then on no
step makes an older list (`NothingOlder`), so that three things go one after the other and
none comes back: the query that read before (`OldQueryEnds`, since `MayGo` holds of a leader
until it lands), the list it stored (it expires), and the answers given from it.

**Delivery.** `DeliveryStepType`, which the three modules built on it cite.

**Only model-checked.** Every property of every passing run is also a theorem. What rests on
TLC, or on reading, is: that the guards in the fairness conditions are where the actions
are enabled, since tlapm does not reason about `ENABLED`; the three runs that expect a
violation, whose counterexamples only TLC gives; and that the properties are not vacuous,
which the mutants show.

## 5. Findings

1. **A stored submission is erased by the rival's** (`duel_asked_twice`). Both players
   submit after reading the row as `active`. Each computes a *first* submission with NULLs
   for the other side; the later UPDATE passes its guard (status open, own column NULL) and
   sets the other's attempt and score to NULL. The first player, whose submission was
   accepted and announced, is listed by `GET /duels/active` again, which
   `users/delivery/http/duel_handlers.go:90` describes as the duels where it is the user's
   turn. Nothing wrong is ever recorded, which is why the proved properties hold, but the
   player has to dance again or the duel expires.
2. **An unreadable ML result counts as a missing one** (`attempts_claimed`).
   `loadAuthoritativeResult` returns nil after any error of the object store, so
   `SaveAttempt` stores the score the client reports although a measured one exists;
   `comparison/usecase/save_attempt_test.go:73` says the measured score wins when it exists.

3. **An approved dance is published before it has a video** (`uploads_unwatchable`).
   `users/repo/pg/sql/getHistoryQuery.sql:1` takes `published` to mean that
   `results/{id}/video.mp4` can be played. `UpdateDanceStatus` writes `published` first and
   starts the processing of a dance that was held back afterwards, in a goroutine whose
   failure is only logged; until it is done, and for good when it fails, the dance is
   listed without a video. `PublishDance` does not look at the status either.

## 6. Not modelled

Within the modelled components: titles, difficulty and search history of dances; the read
paths (histories, public lists, statistics, leaderboards, tips), which change nothing; the
texts of notices. The leaderboard in Redis is updated with `ZADD GT`, which keeps the better
score whatever the order. `attempt.improved` compares with the best score read at the start
of the save; two saves at once may both announce, or neither, and nothing is stored on its
account. Of the feed and achievements workers only the consumers of `like.toggled` are
modelled: the others insert rows of the same kind with the same statement, and the
achievements that count something else compare another number of the same statistics.
PostgreSQL statements are taken as atomic and as isolated as single statements are; the
conflict of two UPDATEs of one row is the order in which they run.

Known and left without a property: the sweep asks with the id of the video's folder, which
for an attempt made without an account is the id of the attempt and no user's: the video
goes when it is old, even if a user has saved the attempt with it; the profile links to the
user's own folder, and the properties speak of videos there. An attempt that is saved by a
user who did not make it keeps the score that user's client reports, since
`loadAuthoritativeResult` looks for the result in the folder of the *caller* and in the
attempt's own only; that it is the one exception while no call fails is what
`MeasuredScoresStay` and `SavedIsRecorded` show. A processed dance leaves `processing` only by a client's poll, so that one whose client never asks again
stays there: no fairness of the code would change that, and a liveness property would only
state that clients poll.

Whole components:

* **Friendships** (`profile/`): each request is one or two statements on one row. The table
  is unique by sender and receiver, not by pair, so that two users asking each other get two
  rows, whatever the order; what a model could add is what the schema says. Removing a friend
  sends a notice of kind `friend_removed` (`profile/usecase/usecase.go:291`), which the
  CHECK of the table `notifications` (`src/build/sql/createDB.sql:195`) does not list.
* **Notifications service**: stores each notice with one INSERT and pushes it. `Duel`,
  `Uploads` and `Streaks` model which notices are handed over, once and truthfully.
* **Authentication and sessions**: a token carries the version of its account, and each
  request compares it with the row. What matters is cryptography and validation of input.
* **Telegram bot**: a link code is stored and redeemed by single statements; the rest reads.
* **Rate limiting**: a token bucket of a library, and a counter in Redis per window.
* **Server-sent events**: a counter of connections under a mutex, released by `defer`.
* **Recommendation**, apart from the lists in memory: scores and the feeds a worker stores
  in Redis depend on data, not on the order of events.
* **HTTP plumbing, configuration, metrics, generated code**: no state of their own.
