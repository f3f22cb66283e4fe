# Verification of the daily.dev API

TLA+ models of the parts of this repository where concurrency, retries and
money meet, TLC configurations that check them on small instances, and TLAPS
proofs of the results that matter most. Paths are relative to the repository.

## 1. The system

The repository is the daily.dev API: a Fastify server with a GraphQL schema
(`src/schema`), REST and webhook routes (`src/routes`), Pub/Sub workers
(`src/workers`, started by `src/background.ts`), a change-data-capture worker
that turns row changes into events (`src/workers/cdc/primary.ts`) and cron
jobs (`src/cron`). State lives in Postgres (TypeORM entities), Redis
(counters, caches, locks) and in services it calls: njord (the ledger of
Cores, the platform currency), skadi (ads), Paddle and Apple (payments).

Three facts about the runtime shape everything below.

- Any number of processes run the same handler at the same time. A handler
  reads a row, awaits, and writes later: the row it decided on is a snapshot.
- Pub/Sub and webhooks deliver at least once and in no particular order. A
  worker that throws is delivered its message again; one that returns is not.
- A database transaction does not cover the calls to njord, skadi or Redis
  that are made inside it: a rollback or a crash undoes the rows only.

### Inventory

| Component | State it keeps | Operations | Talks to | What is hard | What makes it correct |
|---|---|---|---|---|---|
| Cores purchase (`common/paddle/cores`, `routes/webhooks/paddle`) | `user_transaction` row per checkout | five webhook handlers, cleaning cron | Paddle, njord | stale snapshots, lost notifications, rollback after the credit | a payment is credited once, with its amount; success means credited |
| Awards and transfers (`common/njord.ts`) | `user_transaction`, `user_post`, `user_comment`, counters kept by triggers, balance cache | awardPost, awardComment, awardSquad, awardUser, sayThanksForAward, getBalance | njord, Redis | check before the transaction, refused rows, locks, crash after the transfer | markers, rows, counters and the ledger agree |
| Campaigns (`common/campaign`, `workers/campaignUpdatedAction.ts`) | `campaign`, `flags.campaignId` of a post or source | start, stop, Completed and statistics events | skadi, njord, Pub/Sub | external calls before and inside transactions, late events | a boosted post shows its own active campaign; refunds are what was left |
| Squads and moderation (`schema/sources.ts`, `schema/posts.ts`, `common/post.ts`, `workers/cdc/primary.ts`) | `source_member`, the two gates of a source, `source_post_moderation` | join, leave, step down, roles, blocks, gates; submit, edit, delete, decide; publish, drain the queue | CDC, Pub/Sub | roles and rows checked before they are written, at-least-once publishing, approvals that are dropped or refused | a squad keeps an admin, a block holds, what is approved and can be posted is published once and nothing else is |
| Channel digests (`common/channelDigest`, `workers/withRedisDoneLock.ts`) | done marker and lock in Redis, digest posts | one generation per schedule | Redis, Pub/Sub, bragi | lock expiry, marker checked before the lock | one digest per schedule, no post twice, none lost |
| Interest runs (`workers/interest`) | `interest_run`, findings | schedule, claim, complete, fail, reclaim | Pub/Sub, agent service | leases, redelivery, crashed workers | one live run per interest, one notification |
| Worker jobs (`workers/job`) | `worker_job` parent and children | create batch, execute, complete parent | Pub/Sub | redelivery of a running job, two last children | a batch ends, after its jobs, with the right status |
| Contributions (`common/contribution`, `routes/private/contributions.ts`) | submissions, payments, milestones, their Redis cache | submit, review, pay, divide, stamp, poll | njord, Pub/Sub, Redis | reviews that overtake payments, two writers of the cache | a submission is paid once with the points it had; no cent is lost |
| Quests, achievements (`schema/quests.ts`, `common/quest`) | `user_quest`, rotations, experience | progress, claim, milestone synchronisation | njord, CDC | concurrent progress, reward before claim, deadlock | a quest is paid once, progress is not lost |
| Reading streaks (`common/users.ts`, `workers/newView.ts`, cron) | `user_streak`, actions, Redis key of the lost streak | view, reset, freeze, recover | Redis, njord, CDC | cron against views and queries, paid recovery, weekends | a streak is as long as it was read; only a missed day resets it |
| Subscriptions (`common/paddle/plus` and siblings, `plusSubscription.ts`) | `subscriptionFlags` | created, updated, cancelled, gifted | Paddle, Apple | events out of order, tokens revoked after | the last event wins; no tokens without Plus |
| Apple purchase (`common/apple`) | `user_transaction` | notification | njord, App Store | fresh id per notification | a purchase is credited once |
| At-most-once senders (`userBoughtCores.ts`, `dedupedSend`) | `emailSent`, `lastSendDate` | send, revert | e-mail | mark, send, revert under redelivery | no two mails, none lost |
| Opportunities, live rooms, highlights, notifications, votes, ledger, feeds, boot | their tables | mostly one-row writes and reads | several | see `PROJECT.json` | see `PROJECT.json` |

`PROJECT.json` lists every component with its sources, also those that are
not modelled and why, and the hazards found at their lines.

Components meet in three places: the `user_transaction` table and njord
(purchases, awards, campaigns, quests and streaks all insert a row and then ask
njord to move Cores under the row's id), Pub/Sub (CDC publishes row changes,
workers react), and Redis. CDC itself is a dispatcher: the handlers that matter
are actions of the component whose rows they react to (`detectContribution...`
in `Contributions`, `setRestoreStreakCache` in `ReadingStreak`,
`processApprovedModeratedPost` and `approvePending` in `Squads`).

## 2. Modules

| Module | Models | Code |
|---|---|---|
| `CoresPurchase` | a Cores checkout from Paddle's notifications to the credit | `common/paddle/cores/*`, `routes/webhooks/paddle/index.ts`, `cron/cleanStaleUserTransactions.ts` |
| `CreditOnce` | what a purchase promises: a paid checkout is credited at most once with its amount | abstract specification |
| `CoresPurchase_proofs` | theorems about `CoresPurchase` | |
| `CoresAward` | awards of posts, comments, squads and users, thanks, counters | `common/njord.ts`, two trigger migrations |
| `CoresAward_proofs` | theorems about `CoresAward` | |
| `Campaign` | starting, stopping and completing a boost | `common/campaign/*`, `workers/campaignUpdatedAction.ts`, `schema/campaigns.ts` |
| `InterestRun` | the runs of one interest: requests, leases, reclaim, completion, notification | `workers/interest/userInterestRun.ts`, `cron/interestScheduledRun.ts`, `schema/interests.ts`, `entity/InterestRun.ts`, `common/pubsub.ts` |
| `StreakCalendar` | days, weekends, what counts as missed | `common/users.ts`, `common/date.ts`, `common/streak.ts` |
| `ReadingStreak` | views, the cron, queries, freezes and paid recovery of one streak | `common/users.ts`, `entity/user/UserStreak*.ts`, `workers/newView.ts`, `cron/updateCurrentStreak.ts`, `schema/users.ts`, `workers/cdc/primary.ts` |
| `ReadingStreak_proofs` | theorems about `StreakCalendar` and `ReadingStreak` | |
| `ChannelDigest` | runs of a digest, the done marker, the lock, the window of posts | `workers/withRedisDoneLock.ts`, `common/channelDigest/generate.ts`, `cron/channelDigests.ts` |
| `ChannelDigest_proofs` | theorems about `ChannelDigest` | |
| `WorkerJobs` | a batch of jobs and their messages | `workers/job/jobExecute.ts`, `routes/outbound/jobRpc.ts`, `entity/WorkerJob.ts` |
| `Workers_proofs` | theorems about `InterestRun` and `WorkerJobs` | |
| `Quests` | progress, claims and milestones of one user's quests | `common/quest/*`, `schema/quests.ts` |
| `Quests_proofs` | theorems about `Quests` | |
| `ContributionSplit` | how a payment is divided | `common/contribution/index.ts` |
| `Contributions` | submissions, reviews, payments, milestones and their cache | `common/contribution/index.ts`, `routes/private/contributions.ts`, `schema/contributions.ts` |
| `Campaigns_proofs` | theorems about `Campaign` and `Contributions` | |
| `Squads` | members and roles, gates, the queue of submissions | `schema/sources.ts`, `schema/posts.ts`, `common/post.ts`, `roles.ts`, `workers/cdc/primary.ts` |
| `Squads_proofs` | theorems about `Squads` | |
| `MC...` | instances for TLC: value functions, and the symmetry of `CoresPurchase` | |

Two conventions run through the modules. A request or worker has a place (`pc`)
and what it read or was given (`snap`, `work`, `job`, `seen`); every await between
a read and a write is a place of its own, and what the code does between two
awaits is one action. A history variable, commented so, records the situations in
which the code gives up a promise (a race it does not guard against, a failure
after an external call); a property then says that the promise holds otherwise,
and the situation itself is in the model, reachable and counted.

### CoresPurchase

Paddle is external: `paddle[c]` is the state of a checkout (open, billed, paid,
completed, failed) with its amount and a clock, and every change publishes a
notification. `events` are the notifications not yet answered; Paddle sends one
again until it is answered and the order is free. A handler (`pc`, `job`,
`seen`) takes a notification, reads the row (`Receive`), and then acts on what
it saw: `HandleCreated`, `HandlePaid`, `HandleFailed`, `HandleUpdated` are the
four status handlers with their guards and the upsert, `BeginCompleted`,
`PurchaseCores`, `RefuseTransfer`, `SkipNjord`, `CommitCompleted` the crediting
transaction. `txn[h]` is the row the transaction has written and nobody else
sees; `Locked` is the row lock it holds. `njord` keeps `ledger`, a set of
transfers keyed by the row's id: a repeated key changes nothing. Failures throw;
the webhook answers 200 all the same, which consumes the notification
(`routes/webhooks/paddle/index.ts:82`), except for a crash. `Clean` is the cron
that deletes rows that never got past `created`. `forgotten` is a history
variable: checkouts whose key was lost when a transaction that had inserted a
fresh row was rolled back after njord applied it.

`CreditOnce` has two variables that matter, what is due and what was credited.
`CoresPurchase` implements it under a refinement mapping (`ImplementsCreditOnce`)
in which a payment is due when Paddle took it and the credit is the ledger.

### CoresAward

`funds` and `ledger` are njord. A request reads whether it may award
(`StartAward`), writes its rows unseen (`WriteAward`, waiting for the locks of
the `user_post` row and of the `source` row its trigger updates), transfers,
and commits. The triggers are part of the commit: `PostCounted` compares the
old with the new marker, `SquadCounted` counts every inserted row. A refusal
rolls back and saves a failed row on another connection (`SaveRefused`), which
fires the insert trigger again. `FailAward` is an exception or a crash at any
point; `orphaned` remembers transfers it cut off from their row. Squads pay
their first eligible admin: the choice of the admin is the constant `Receiver`.

### Campaign

`campaigns` and `flag` are what is committed. A start reads the flag outside
its transaction, starts the campaign with skadi inside it, writes (waiting for
the row of the post), charges and commits. A stop reads the campaign, cancels
it with skadi, and only then opens the transaction that refunds. `usdToCores`
is modelled by what it does: a whole number of cents times 100, rounded down,
may be one Core short. Skadi answers an error when asked to cancel a campaign
that does not run, spends the budget while it runs, and publishes `Completed`
when it ends, also after a cancellation (the worker's comment and tests expect
that). Events stay until acknowledged; an acknowledgement may be lost.

### InterestRun

One interest; every interest has runs, findings and requests of its own.
`runs` is the table `interest_run` with its two unique indexes (`Conflict`),
`request[r]` whether the request of a run is published and not yet
acknowledged, `findings` the findings of the interest. `SendCommand` is the
user's command and the first run of a new interest; `CronStart`, `CronInsert`
and `CronPublish` are the three statements of the hourly cron, which may
publish the same request again. A worker (`pc`, `job`, `content`) reads the
interest (`Receive`), fails what is stale (`Reclaim`), claims its run (`Claim`,
`ClaimBusy`, `ClaimUnavailable`), runs the agent, reads what is new
(`ReadFindings`), completes run and findings in one transaction if it still
holds the lease (`Complete`, `Abandon`), and notifies (`NotifyUser`,
`MarkNotified`). A redelivery that finds the run completed and not marked
notifies again (`ReadUnavailable`, `Republish`).

The lease is the pair of `status = running` and the start time the claim wrote.
A start time is named by the worker that wrote it: a worker has one claim at a
time, so two leases that differ in the code differ in the model. Time is one
bit per running run, `stale`, set by `Age` and cleared when the run ends or is
claimed again. Pub/Sub keeps a request until it is acknowledged (`Ack`); `Drop`
is a throw or the death of the process. A second delivery at the same time, or
after the acknowledgement, counts as a failure. `publishEvent` logs the errors
of Pub/Sub and returns (`common/pubsub.ts:120`), so a publication that fails is
lost and its caller goes on as if it had not.

### ReadingStreak and StreakCalendar

`StreakCalendar` is the pure part: days are numbers, `WeekStart` is the reader's
first day of the week, and `shouldResetStreak`, `getMissedStreakDays` and
`checkRestoreValidity` are the functions of those names. `ReadingStreak` is one
reader over a few days. `ReadPost` publishes a view message, `BeginView` and
`WriteView` process it; `BeginCheck` is the read of the hourly cron or of a query
of the streak, which then either resets (`clearUserStreak`) or spends one freeze
per missed day, each a conditional update of its own (`tryConsumeStreakFreeze`,
`FreezesGone`). `setRestoreStreakCache` is the CDC handler that offers the reset
streak for Cores, `BeginRecover`, `CommitRecover` and `ForgetRecover` are the paid
recovery: check, transaction, deletion of the key. `NextDay` is midnight for the
reader and expires the key. `stale` names the handlers whose snapshot is no
longer the committed state. Once one of them writes, or a view is processed after
midnight, the history is `Disorder` and the promises of an orderly past end; the
constraint `Orderly` stops the search one step later, since nothing is claimed
from there on.

### ChannelDigest

Time is a counter that posts, runs and digests advance. `CheckDone`, `TakeLock`
and `LockBusy` are the prologue of `withRedisDoneLock`: the marker, then `SET NX`
with an expiry; `ReadPrevious`, `findDigestPosts` and `createDigestPost` the
generation with its window; `MarkDone` and `Release` the epilogue, which deletes
the lock without asking whose it is. `ExpireLock` may happen at any moment of a
run, since nothing bounds how long the summary takes. `Fail` throws (and
releases), `Crash` does not. `Schedule` may lose its publication: the run is in `lost`.
So is a run for which the cron, or a delivery (`NoDefinition`, which is acknowledged
without a digest), finds the definition disabled; `Switch` disables and enables it, by
hand, since no code writes the flag. A delivery whose time cannot be read
(`workers/generateChannelDigest.ts:54`) does not occur: the cron prints the date itself.

### WorkerJobs

`startBatch` stores a batch with its jobs and publishes a message per job (the
loss of one is counted among the faults). `ReceiveJob`, `StartJob`, `EndJob` are
`jobExecute`; `CountRemaining`, `CountFailed`, `EndBatch` are
`checkParentCompletion`, three statements without a transaction. A second
delivery is just another `ReceiveJob` of an unacknowledged message. `twice` holds
batches of which two workers had one job at once.

### Quests

`row` is committed, `txn` what a claim has written and nobody else sees. `Deliver`
takes an event; `updateExistingUserQuestProgress`, `insertNewUserQuestProgress`
and `RetryUpdate` are the conditional update, the insert that may conflict and the
second update; `ReadMilestone`, `CountQuests`, `WriteMilestone` the synchronisation of
the milestone, which an event, a claim or a view of the quests runs. `LockQuest`,
`applyQuestRewards`, `MarkClaimed` and `Commit` are a claim. Row locks of quests and
of the profile are modelled (`Locked`, `ProfileLocked`), and with them the deadlock
of a claim that goes for the milestone while the milestone's claim goes for the
profile: Postgres aborts one of the two (`BreakDeadlock`).

### Contributions and ContributionSplit

A submission is checked against the limit (`CheckLimit`) and inserted later. A
review is checked and written later (`BeginReview`, `WriteReview`). A payment locks
the approved, unpaid submissions (`LockSubmissions`) and divides them in its
transaction (`CommitPayment`): `ContributionSplit` is that arithmetic, in cents, by
largest remainder among users and evenly among the causes of each.
`SumPoints`, `detectContributionMilestones` and `cacheLastReachedMilestone` are the
milestone worker, `getLastReachedMilestone` and `queryLastReachedMilestone` the poll of the
header that fills a cold cache; `ExpireCache` empties it. The publication of an approval
may be lost (`Publish`); `untold` holds from then on.

### Squads

One public squad. `Change` begins every mutation of a member: the guard on the
caller's role holds now, the write comes later (`SetRole`) and is unconditional, as in
the code. Only `demoteSelf` runs in a transaction that reads the role again, and,
for an admin, locks the admins and counts them (`LockAdmins`); `Free` makes every
other write of a role wait for those rows. The gates are edited field by field
(`BeginEdit` validates what the edit would make of the squad it read, `editSquad`
merges into what is there). The queue: `createSourcePostModeration`,
`editSourcePostModeration` and `deleteSourcePostModeration` are the author's, all
checked before and written later; `moderateSourcePosts` decides only what is pending
in the update itself. An approval, and the end of moderation, are CDC messages
(`approvals`, `opened`) that handlers take (`BeginPublish`, `BeginOpen`), work off
(`processApprovedModeratedPost`, `approvePending`) and acknowledge. `approvals` is a
sequence per submission, since Pub/Sub keeps the messages of one row in order
(`.infra/common.ts:147`): `Handling` holds the next one back until one is acknowledged.
A message carries what was in the row (`content`), and what becomes of it depends on
that: a post (`CreatePost`); nothing, and it is acknowledged, for a share of neither a
post nor a link (`Dismiss`); or the handler throws, at this and every delivery, because
the link is no URL or the shared post is gone (`Refuse`). None of this was asked when
the submission was made (`Validated`). `Fail` is an error that passes; it delivers
again, after the post was created as well. `reopened` (an edit was written over an
approval) and `repeated` (the handler failed after it was done) are histories the
code does not guard against.

## 3. Runs

All bounds are constants of the modules. `MaxFailures` bounds what goes wrong
from outside (failures, crashes, lost publications), `MaxRows`, `MaxCampaigns`,
`MaxRuns` the ids handed out, `MaxOpened` the checkouts opened, `MaxNotices` their
notifications, `MaxChanges` the changes of members and gates and the edits of
submissions together, `MaxReviews` and `MaxPayments` what their names say.

| Run | Instance | Shows |
|---|---|---|
| `cores_purchase` | one checkout whose amount may change, 2 handlers, 4 notifications, one failure | the refinement of `CreditOnce`: the checkout is credited at most once, with its amount |
| `cores_purchase_rules` | a plain checkout, one with a test discount or one of a barred user, 2 handlers, fair | the checks after the write leave no success without Cores and no credit for the discount; a completed payment is credited unless its handler failed |
| `cores_award` | 2 requests at a time of 3 users, 3 awards, one failure, fair | every transfer has its row, the counter is the awards, one award per post and user; every request ends |
| `campaign` | 2 handlers, one post, 2 campaigns, 2 failures, fair | refunds are what was left and are paid; an ended campaign frees its post |
| `interest_run` | 2 workers, 2 runs, one finding, one failure or duplicate, fair | findings are delivered once, notices are true, requests end |
| `reading_streak` | Thursday to Monday, the cron and 2 requests, one failure, fair cron | a streak is what was read, gaps are covered, freezes and restores that were paid for hold, resets have a cause, a broken streak ends |
| `reading_streak_freezes` | violation: 2 days, one request and the cron | two handlers spend two freezes on one missed day |
| `channel_digest` | 2 deliveries of 2 runs, a definition that may be disabled, one post, one failure, fair | no post twice, none lost, a run is done in the end |
| `worker_jobs` | 3 workers, a batch of none, one or three jobs, one failure, fair | the status of a batch tells its jobs; a batch ends |
| `quests` | 2 requests, 2 quests and a milestone, one failure, fair | rewards and claims agree, milestones are earned, events count once, quests complete |
| `contributions` | 2 users, one review, 2 payments, 2 requests, one failure, fair | a payment is of its submissions and is divided to the cent; milestones are cached and stamped |
| `squads` | 2 admins of whom one may submit a post, 2 requests, one handler, 2 changes, one failure, fair | stepping down leaves an admin, blocks hold, an approval becomes one post if it has something to post, the queue is drained |

The runs check what is worth exploring on an instance. Properties that are proved
for all constants, and that TLC confirmed before they were proved, are not run
again: the types of the modules with theorems but `Quests`, `ReadingStreak` and
`Contributions`, `CreditedOnce` and `CreditMatchesPayment` of `CoresPurchase`, `AwardIsPaid`, `StatusTellsPayment` and
`ThankedOnce` of `CoresAward`, `FlagIsActive`, `CampaignIsCharged` and
`CancelledIsFinal` of `Campaign`, `CompletedIsFinal` of `InterestRun`,
`OneGenerates` of `ChannelDigest`, `BatchEndsLast` and `EndedBatchStays` of
`WorkerJobs`, `PendingIsUnpublished` of `Squads`.

Why the bounds are enough: every hazard listed needs two actors and at most one
or two failures. A second handler or worker makes every interleaving of two
snapshots; two campaigns of one post, two runs of one interest and two changes of a
squad are what late events, leases, and an edit or a decision between the read and
the write of another need; two admins are the least of whom both may step down at
once; three workers are the least with which two end the last jobs of a batch while a third repeats one; Thursday
to Monday holds a weekday missed before, inside and after a weekend. The theorems
cover any number of checkouts, posts, campaigns, runs, workers, members and
submissions, so that what distinct ones might do to each other is not left to the
instance. Symmetry (of the handlers) is used in `cores_purchase` only, which checks no
liveness. `CHECK_DEADLOCK FALSE` is set because the bounded environment really
stops: all checkouts settle, or no id is left.

Fairness. A handler that runs goes on (Node does not drop a running request) and
Postgres grants row locks in the order of the requests: weak fairness of a handler's
own steps where nothing it waits for can be taken again and again before it, strong
fairness in `CoresAward` and `Campaign`, where it can. Paddle and
Pub/Sub deliver a message that is not answered again: strong fairness of delivery
per message where the processes may be busy with other requests, weak otherwise. In
`InterestRun` time passes (weak fairness of `Age`) and the hourly cron comes again
while the interest is active (strong fairness of `CronStart`); in `ReadingStreak` only
the cron is fair. In `Squads` a message that is refused is delivered again and again and
takes a handler each time; messages of other rows are not kept from being delivered
by it, which is strong fairness of `BeginOpen` and, per submission, of `BeginPublish`.
Nothing obliges a user, a moderator or Paddle to do anything, and
failures are never fair.

The violation run, `reading_streak_freezes`, states what a comment and a test of the
repository say and shows that the code does something else: one missed day costs two
freezes. `PROJECT.json` quotes the lines under `findings`.

Places where the code does less than a reader may expect, and which the models
contain as named exceptions rather than as runs of their own:

- a `success` row of a purchase is overwritten by a later notification (the upsert
  of `common/paddle/cores/processing.ts` has no condition on the status);
- two requests of one user for one award are both paid when they overlap
  (`overlapped` in `CoresAward`), and a refused squad award is counted by the trigger;
- a Completed event handled late clears the flag of a newer campaign;
- an interest run stores `notifiedAt` although the publication failed, and may surface a
  finding that no completed run delivers;
- two edits of a squad at once, each of one gate and each valid for the squad it read,
  leave both gates on (`editSquad` merges into what the other wrote), although the
  comment at `schema/sources.ts:2828` says that "a partial update cannot leave the
  squad moderated and reputation-gated at once": that is true of one update. No property
  is stated of the gates, since without such pairs it would restate the edit's check;
- an edit of a submission overtakes its approval, and the post is then published
  while the submission waits again (`reopened` in `Squads`);
- an approved share of neither a post nor a link is dropped without a post
  (`common/post.ts:1125`), and one whose link is no URL is thrown at every delivery
  (`common/post.ts:1087`), with whatever comes after it for the same row waiting behind it
  (`Stuck`); `ApprovedIsPublished` speaks of approvals that have something to post;
- a digest that is disabled when the cron comes, or when a message of the run is
  delivered, may have no digest for that run, though it is enabled again later;
- a message that moderation ended, handled after moderation is on again, approves
  what was submitted since: `approvePending` reads the rows, not the gate.

## 4. Proofs

Everything is proved for all values of the constants, from the `ASSUME`s the
modules state.

- `CoresPurchase_proofs`: `TypeCorrect`; `NoDoubleCredit` (`CreditedOnce`) from
  `KeyInv`, which says which ids can be in the ledger: of a row that is stored,
  being inserted by an open transaction, or forgotten; `CreditIsPaid` from
  `PaymentInv`, which ties the amount in a row, a snapshot and a notification to
  what Paddle took; `SuccessHasCores` from `SuccessInv`, which adds what an
  open transaction owes; and `PurchaseRefinesCreditOnce`, the refinement, step
  by step. None of the invariants is inductive alone: a handler acts on a
  snapshot, so the invariant must say what snapshots and open transactions may
  hold.
- `CoresAward_proofs`: `TypeCorrect`, `ShownAwardIsPaid`, `StatusIsTrue`,
  `TransferIsRecorded` and `ThanksOnce` from one invariant: the id of an award is the
  request's own until its row is committed (`OwnId`), it is paid exactly when the
  request is about to commit (`PaysOnce`), and nothing is stored or paid under ids not
  handed out yet (`Fresh`). `CounterIsAwards` follows the marker that a commit
  replaces. `PaidForOnce` (`AwardedOnce`) needs more: a user whose requests for a post
  did not overlap has one at a time (`Alone`), which goes on only while the post is
  not marked (`Unmarked`), and a transfer leaves the marker behind (`Marked`).
- `Campaigns_proofs` about `Campaign`: `TypeCorrect`, `FlagShowsActive`, `CampaignWasPaid`,
  `CancelledForGood`, `NoOverRefund`, `CancelledWasSettled`. `StartInv` says that a
  start in progress has an id of its own that no row has; `RefInv` that a stop or
  an event knows the post of its campaign; `SettleInv` that a campaign cancelled
  with skadi is in the hands of at most one stop. The types are proved together
  with `StartInv` and `RefInv`, since ending a campaign that is not there would
  leave its row malformed. About `Contributions`: `ContributionTypeCorrect`, from
  `ContributionTypes`, which says what a request has at hand in each place (`Fits`) and
  that payments and messages under way stay within what there is of them (`Bounded`).
  `PaymentsAreOfSubmissions` (`PaymentIsOfSubmissions`) needs `Locking`: the rows a
  payment holds are unpaid and of no other payment, and what a request is about to
  insert is nobody else's, so that no commit or insertion touches a paid row; a review
  may, and is then in `overtaken`. `PaymentsAreDivided` (`PaymentIsDivided`) is arithmetic.
  What a sum over a set is, and that it may be taken part by part, is proved by induction
  over a set of sets (`SubsetInduction`), since no prover instantiates a theorem whose
  parameter is a predicate. Exactly `k` of the elements of a row have fewer than `k`
  before them (`Ranking`), so that the remainder of a split (`SplitIsWhole`) and the cents
  left over among the users (`AllocationIsWhole`) are all handed out, one each, and only to
  users who lost by rounding: no user is then off by a cent or more. `UserPart` and
  `AllocationsDivide` put the parts together. `CacheHasLastMilestone`
  (`CacheFollowsMilestones`) follows from `Caught`: while nothing was missed, whoever is
  about to write the cache knows the last milestone. The two modules share no state;
  only their theorems are kept together. TLC has checked `ContributionTypes`, `Locking`,
  `Caught` and the invariant of the division on the instance of the run.
- `Workers_proofs` about `InterestRun`: `TypeCorrect`, `CompletedForGood`, `DeliveredAtMostOnce`,
  `NoticesTellTheRun`. `RowInv` says that requests and workers refer to rows that
  exist; `LeaseInv` that one run is running, that what completed runs deliver is
  surfaced, and that what the holder of the lease read is still new, which is
  why a worker that lost its lease cannot deliver it again; `TellInv` that a
  worker about to notify holds what its completed run delivers. `Kept` is the
  step property the last two need: nothing but `notifiedAt` of a completed run
  ever changes. About `WorkerJobs`: `BatchTypeCorrect`, `NoJobLeftBehind`,
  `FailureIsTold`, `EndIsFinal`. The invariant says that what a worker has counted as
  ended has ended and stays so, unless the batch is in `twice`. The two modules share
  nothing but Pub/Sub; only their theorems are kept together.
- `Squads_proofs`: `TypeCorrect`; `AdminRemains` and `BlockHolds` from `MemberInv`, that
  a request which holds the admins' rows knows an admin besides the one who steps
  down, and that no request of a user who was blocked writes his own role;
  `NothingUnapproved` and `OnePost` from `QueueInv`, in which an approval has one
  token: a message in its sequence, a handler that has taken it, or the post. The four kinds of
  steps (members, gates, queue, handlers) have a frame lemma each, so that every
  invariant is checked against the steps that can disturb it only.
- `Quests_proofs`: `TypeCorrect` from `Types`, which adds what each place of a request
  has at hand (`Doing`) and what a transaction may have written (`Written`).
  `RewardedOnce` (`RewardsAreClaims`) from `Claims`: a row lock has one holder
  (`Exclusive`) and a claim between its lock and its commit holds the row it found
  claimable (`Claiming`); then from `Paying` and `Points`. `MilestoneEarned`
  (`MilestoneIsEarned`) from `Milestones`: whatever a request has read of the milestone
  or counted of the quests (`Reads`) is still covered by the quests claimed now, since
  claimed quests stay claimed. `EventsCountOnce` (`ProgressIsEvents`) from
  `Progressing`: the events that were counted (`Settled`) lie between those handled and
  those begun, one request has each event (`OneHand`), and the progress follows the
  settled ones (`Counting`). All but the first of these invariants are about what two
  transactions may know of each other, so that none is inductive without the locks;
  TLC has checked them on the instance of the run.
- `ChannelDigest_proofs`: `TypeCorrect`; `OneWorkerGenerates`, from the invariant that a
  worker between lock and release is the one the lock names, unless a lock overran;
  `DigestedOnce` (`PostDigestedOnce`), from `Windows`: the one worker that generates
  has read the last digest, so that its window begins after every digest there is; and
  `DoneIsDigested` (`PostsAreDigested`), from `Digested`, which assumes nothing of the
  locks. A digest of a run answers for the posts before it, as far as that run and
  those after it have to (`Past`), and a worker inherits this with the window it reads
  (`Before`), adds what it finds (`Gathered`) and hands it on with its own digest.
  `Clock` orders the runs, the posts and the digests in time.
- `ReadingStreak_proofs`: `ResetIffDayMissed`, that a streak is reset exactly if
  there is a missed weekday, and `RestoreMissesOneDay`, that a streak that may be
  restored missed at most one day, for every day and both weeks; `TypeCorrect`; and
  `GapsCovered`, `StreaksAreRead`, `PurchasesAreHeld` and `ResetsAreMissed` from one
  invariant of orderly histories, `Kept`. Its parts: the row and its days (`Row`,
  `Covered`, `Paid`), what a handler has read as long as it is not stale (`Fresh`),
  and what becomes of a reset (`Changes`, `Cached`, `Tokens`). A reset that may be
  restored is one token: it is in the queue of change data capture, then in the Redis
  key, then in the request that restores it. A reset in the queue behind another one
  has missed two weekdays (`Old`), so that `RestoreMissesOneDay` keeps it from being
  offered; a restore that has been made keeps the key of the same window from being
  used again (`Spent`), which rests on `Windows`, how long a restore lasts. Neither
  `GapsAreCovered` nor `PurchasesHold` is inductive without these: a recover makes
  days stand that it has not read, and a key may outlive midnight on a weekend. TLC has
  checked `Kept` on instances with both week starts.

Liveness is model-checked only: it and `ENABLED` are out of the prover's reach. The
recursive sums of `ContributionSplit` are folds over sets; their facts are proved for
every finite set, as told above.

## 5. What is left out

Everywhere: request validation, formatting, notifications, logging, analytics and
authentication. By component:

- Awards: the balance cache. Campaigns: the statistics of each event.
- Interest runs: the agent, requests without a run id (nothing publishes one), the
  copy of the last run in `user_interest`, findings of deleted posts, changes of the
  output modes while a run is under way.
- Streaks: the total streak, alerts, opting out of streaks, changes of the weekend or
  the time zone, readers without a view.
- Channel digests: the text, the choice of sources, audio and notification; posts that
  become visible, or get their channel, only after the window they were created in
  (`common/channelDigest/generate.ts:116`): the model's posts can be digested from the
  start, so `PostsAreDigested` says nothing of the others; and times that cannot be read.
- Worker jobs: single jobs (a batch without a parent), queries, what a job does.
- Quests: rotation periods, quests for Plus and the introduction, reputation rewards,
  achievements, the other milestone events.
- Contributions: the founding award, rewards, the referral award, the cooldown,
  changes of the preferred causes.
- Squads: private squads and invitations, system moderators, content preferences,
  posts that need no approval, edits of published posts and their approval (a row with a
  `postId`), their screening, polls,
  Slack, deletion of squads.

Hazards seen in components, or parts, that are not modelled: two transfers whose
cache writes are not awaited may leave the older balance in the cache
(`common/njord.ts:302`, for a minute); two starts of one post's campaign
(`common/campaign/post.ts:76`, the check-then-write of awards in another table), and
skadi started before the charge (`common/campaign/post.ts:107`); a founding award
paid in a transaction that may roll back (`common/contribution/founding.ts:86`); Apple's
repeated notifications, credited under a fresh id each (`common/apple/purchase.ts:226`);
the e-mail of a purchase and the personalized digest, marked or checked apart from
the sending (`workers/transactions/userBoughtCores.ts:48`, `workers/personalizedDigest.ts`); the
order of Plus events (`common/paddle/plus/processing.ts`).

The components with status `not_modelled` are input and output or one-row writes
without state worth exploring, or are next in the plan; `PROJECT.json` says which.
Most of the repository's lines are query building, templates, mappings of payloads,
schema history and tests' fixtures, which no state machine of this kind has anything to
say about: the modules cover the protocols, a small share of the lines.

## 6. Plan

1. The founding award and Apple purchases, which have the shape of `CoresPurchase`
   and `Quests` (a transfer inside a transaction that may fail), and
   `PlusSubscription` (order of events, tokens).
2. The at-most-once senders, and the balance cache.
3. A composition of the modules that share njord, showing that keys of different
   components never meet, and an abstract "each run once, each finding once" that
   `InterestRun` implements.
