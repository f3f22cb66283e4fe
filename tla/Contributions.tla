---------------------------- MODULE Contributions ----------------------------
(***************************************************************************)
(* The contribution campaign.  Users submit actions for points, the team   *)
(* reviews the submissions and pays what is approved and unpaid to causes; *)
(* milestones of the approved points are stamped by a worker, and the last *)
(* one is cached for the header that polls it.                             *)
(*                                                                         *)
(* Only the payment locks what it has read.  The limit of an action, a     *)
(* review and the milestones are decided on a read and written later.      *)
(***************************************************************************)
EXTENDS ContributionSplit, Sequences

CONSTANTS
  Users,           \* numbered in the order of their ids
  Causes,          \* active causes, numbered likewise
  Preferences,     \* causes each user supports
  Submissions,     \* submissions that users may make, of one action
  Owner,           \* user of each submission
  MaxPerUser,      \* active submissions a user may have
  ActionPoints,    \* points of the action
  Verdicts,        \* what a review may say: a status, and points or none
  Amounts,         \* cents a payment may have
  Milestones,      \* points of each milestone
  Requests,        \* requests and messages handled at the same time
  MaxReviews,      \* bound: reviews
  MaxPayments,     \* bound: payments
  MaxFaults        \* bound: exceptions, crashes, lost publications

ASSUME UserAssumption ==
  Users \subseteq Nat /\ Causes \subseteq Nat /\ IsFiniteSet(Causes) /\ Causes # {}
ASSUME PreferenceAssumption == Preferences \in [Users -> SUBSET Causes]
ASSUME SubmissionAssumption == Owner \in [Submissions -> Users] /\ ActionPoints \in Nat \ {0}
ASSUME AmountAssumption == Amounts \subseteq Nat \ {0} /\ Milestones \subseteq Nat \ {0}
ASSUME MilestoneAssumption == IsFiniteSet(Milestones)
ASSUME UsageAssumption == MaxPerUser \in Nat
ASSUME BoundAssumption == {MaxReviews, MaxPayments, MaxFaults} \subseteq Nat

Active == {"approved", "flagged"}
Statuses == Active \cup {"rejected"}

ASSUME VerdictAssumption ==
  \A v \in Verdicts : v.status \in Statuses /\ v.points \subseteq Nat /\ Cardinality(v.points) <= 1

VARIABLES
  submission,  \* contribution_submission: status, points and number of the payment
  payment,     \* contribution_payment: a sequence, numbered by position
  reached,     \* milestones with reachedAt
  cache,       \* the last reached milestone in Redis
  messages,    \* contribution-action-completed messages not acknowledged
  place,       \* where each request is
  work,        \* what it works on
  reviews, faults,   \* so far
  overtaken,   \* history: submissions whose review was written after they were paid
  untold,      \* history: approved points nobody was told of: an approved submission was
               \* given more, or the publication of an approval failed
  missed       \* history: a milestone was stamped while an older one was on its way to
               \* the cache, or its worker failed before it was cached

rows == <<submission, payment>>
milestoneVars == <<reached, cache, messages>>
histVars == <<reviews, faults, overtaken, untold, missed>>
contributionVars == <<rows, milestoneVars, place, work, histVars>>

NoSubmission == [status |-> "none", points |-> 0, payment |-> 0]
Cold == -1     \* the cache is empty
NoMilestone == 0

NoWork ==
  [submissions |-> {}, verdict |-> [status |-> "none", points |-> {}],
   amount |-> 0, total |-> 0, message |-> FALSE]

Places ==
  {"idle", "insert", "review", "lock", "pay", "stamp", "query", "cache", "ack"}

Submitted == [status : Statuses, points : Nat, payment : 0..MaxPayments]

ContributionTypeOK ==
  /\ submission \in [Submissions -> Submitted \cup {NoSubmission}]
  /\ Len(payment) <= MaxPayments
  /\ \A s \in Submissions : submission[s].payment <= Len(payment)
  /\ reached \subseteq Milestones /\ cache \in {Cold, NoMilestone} \cup Milestones
  /\ messages \in Nat
  /\ place \in [Requests -> Places]
  /\ reviews \in 0..MaxReviews /\ faults \in 0..MaxFaults
  /\ overtaken \subseteq Submissions
  /\ {untold, missed} \subseteq BOOLEAN

ContributionInit ==
  /\ submission = [s \in Submissions |-> NoSubmission] /\ payment = <<>>
  /\ reached = {} /\ cache = Cold /\ messages = 0
  /\ place = [r \in Requests |-> "idle"] /\ work = [r \in Requests |-> NoWork]
  /\ reviews = 0 /\ faults = 0
  /\ overtaken = {} /\ untold = FALSE /\ missed = FALSE

GoOn(r, to) == place' = [place EXCEPT ![r] = to]
StartRequest(r, to, what) == place[r] = "idle" /\ GoOn(r, to) /\ work' = [work EXCEPT ![r] = what]
End(r) == GoOn(r, "idle") /\ work' = [work EXCEPT ![r] = NoWork]

-----------------------------------------------------------------------------
(* Submissions and their review.                                           *)

Approved(s) == submission[s].status = "approved"
PointsOf(S) == SumFunction([s \in S |-> submission[s].points])
ApprovedPoints == PointsOf({s \in Submissions : Approved(s)})
Paid(s) == submission[s].payment # 0
Unpaid == {s \in Submissions : Approved(s) /\ ~Paid(s)}

\* The rows a payment has locked, from its read to its commit.
LockedBy(r) == IF place[r] = "pay" THEN work[r].submissions ELSE {}
LockedRow(s) == \E r \in Requests : s \in LockedBy(r)

ActionUsage(u) == Cardinality({s \in Submissions : Owner[s] = u /\ submission[s].status \in Active})

\* submitContributionAction: the limit is checked, ...
CheckLimit(r, s) ==
  /\ submission[s] = NoSubmission /\ \A v \in Requests : s \notin work[v].submissions
  /\ ActionUsage(Owner[s]) < MaxPerUser
  /\ StartRequest(r, "insert", [NoWork EXCEPT !.submissions = {s}])
  /\ UNCHANGED <<rows, milestoneVars, histVars>>

\* An approval is published by the worker that follows the rows.  publishEvent
\* swallows the errors of Pub/Sub: a publication that fails is lost.
Publish(approves) ==
  IF ~approves THEN UNCHANGED <<messages, faults>>
  ELSE \/ messages' = messages + 1 /\ UNCHANGED faults
       \/ faults < MaxFaults /\ faults' = faults + 1 /\ UNCHANGED messages

\* ... the submission is inserted, and its insertion published.
InsertSubmission(r) ==
  /\ place[r] = "insert"
  /\ submission' = [s \in Submissions |->
       IF s \in work[r].submissions
       THEN [status |-> "approved", points |-> ActionPoints, payment |-> 0] ELSE submission[s]]
  /\ Publish(TRUE)
  /\ untold' = (untold \/ faults' # faults)
  /\ End(r)
  /\ UNCHANGED <<payment, reached, cache, reviews, overtaken, missed>>

\* A review is refused if the submission is paid.  It may leave the points alone.
BeginReview(r, s, verdict) ==
  /\ submission[s] # NoSubmission /\ ~Paid(s)
  /\ reviews < MaxReviews /\ reviews' = reviews + 1
  /\ StartRequest(r, "review", [NoWork EXCEPT !.submissions = {s}, !.verdict = verdict])
  /\ UNCHANGED <<rows, milestoneVars, faults, overtaken, untold, missed>>

\* The update is by id.  It is published when it approves the submission.
WriteReview(r, s) ==
  LET w == work[r].verdict
      points == IF w.points = {} THEN submission[s].points ELSE CHOOSE n \in w.points : TRUE
      approves == w.status = "approved" /\ ~Approved(s)
  IN /\ place[r] = "review" /\ s \in work[r].submissions
     /\ ~LockedRow(s)
     /\ submission' = [submission EXCEPT ![s].status = w.status, ![s].points = points]
     /\ Publish(approves)
     /\ overtaken' = IF Paid(s) THEN overtaken \cup {s} ELSE overtaken
     /\ untold' = \/ untold \/ faults' # faults
                  \/ w.status = "approved" /\ Approved(s) /\ points > submission[s].points
     /\ End(r)
     /\ UNCHANGED <<payment, reached, cache, reviews, missed>>

-----------------------------------------------------------------------------
(* finalizeContributionPayment: one statement locks and sums up what is    *)
(* approved and unpaid; payment, allocations and submissions commit at once. *)

Finalizing == {r \in Requests : place[r] \in {"lock", "pay"}}

\* The statement finds its rows, of which it pays.
BeginPayment(r, amount) ==
  /\ Unpaid # {}
  /\ Len(payment) + Cardinality(Finalizing) < MaxPayments
  /\ StartRequest(r, "lock", [NoWork EXCEPT !.submissions = Unpaid, !.amount = amount])
  /\ UNCHANGED <<rows, milestoneVars, histVars>>

\* Mutant of StillUnpaid: the rows are those found before the wait.
AsFound(r) == work[r].submissions

\* FOR UPDATE: a row that was locked is looked at again when its lock is gone.
StillUnpaid(r) == work[r].submissions \cap Unpaid

LockSubmissions(r) ==
  /\ place[r] = "lock"
  /\ \A s \in work[r].submissions : ~LockedRow(s)
  /\ IF PointsOf(StillUnpaid(r)) = 0
     THEN End(r)
     ELSE GoOn(r, "pay") /\ work' = [work EXCEPT ![r].submissions = StillUnpaid(r)]
  /\ UNCHANGED <<rows, milestoneVars, histVars>>

\* A user without a preference supports every active cause.
CausesOf == [u \in Users |-> IF Preferences[u] = {} THEN Causes ELSE Preferences[u]]

UserPoints(S) ==
  [u \in {Owner[s] : s \in S} |-> PointsOf({s \in S : Owner[s] = u})]

Payment(S, amount) ==
  [total |-> PointsOf(S), amount |-> amount,
   allocations |->
     getContributionPaymentAllocations(UserPoints(S), amount, PointsOf(S), CausesOf)]

\* Mutant of CommitPayment: the payment itself is not saved.
CommitUnsaved(r) ==
  LET S == work[r].submissions
  IN /\ place[r] = "pay"
     /\ submission' = [s \in Submissions |->
          IF s \in S THEN [submission[s] EXCEPT !.payment = Len(payment) + 1] ELSE submission[s]]
     /\ End(r)
     /\ UNCHANGED <<payment, milestoneVars, histVars>>

CommitPayment(r) ==
  LET S == work[r].submissions
  IN /\ place[r] = "pay"
     /\ payment' = Append(payment, Payment(S, work[r].amount))
     /\ submission' = [s \in Submissions |->
          IF s \in S THEN [submission[s] EXCEPT !.payment = Len(payment) + 1] ELSE submission[s]]
     /\ End(r)
     /\ UNCHANGED <<milestoneVars, histVars>>

-----------------------------------------------------------------------------
(* Milestones.  Every approval is published; the worker adds the approved  *)
(* points up and stamps the milestones they reach.                         *)

Last(S) == IF S = {} THEN NoMilestone ELSE CHOOSE m \in S : \A n \in S : n <= m
Handling == {r \in Requests : work[r].message}

\* getApprovedPointsSum.
SumPoints(r) ==
  /\ Cardinality(Handling) < messages
  /\ StartRequest(r, "stamp", [NoWork EXCEPT !.message = TRUE, !.total = ApprovedPoints])
  /\ UNCHANGED <<rows, milestoneVars, histVars>>

Crossed(r) == {m \in Milestones \ reached : m <= work[r].total}

Caching == {"query", "cache"}

\* Mutant of detectContributionMilestones: the cache is left to its expiry.
StampOnly(r) ==
  /\ place[r] = "stamp"
  /\ reached' = reached \cup Crossed(r)
  /\ GoOn(r, "ack")
  /\ UNCHANGED <<rows, cache, messages, work, histVars>>

detectContributionMilestones(r) ==
  /\ place[r] = "stamp"
  /\ reached' = reached \cup Crossed(r)
  /\ GoOn(r, IF Crossed(r) = {} THEN "ack" ELSE "query")
  /\ missed' = (missed \/ (Crossed(r) # {} /\ \E v \in Requests : place[v] = "cache"))
  /\ UNCHANGED <<rows, cache, messages, work, reviews, faults, overtaken, untold>>

\* A poll that finds the cache cold fills it.
getLastReachedMilestone(r) ==
  /\ cache = Cold
  /\ StartRequest(r, "query", NoWork)
  /\ UNCHANGED <<rows, milestoneVars, histVars>>

queryLastReachedMilestone(r) ==
  /\ place[r] = "query"
  /\ work' = [work EXCEPT ![r].total = Last(reached)]
  /\ GoOn(r, "cache")
  /\ UNCHANGED <<rows, milestoneVars, histVars>>

cacheLastReachedMilestone(r) ==
  /\ place[r] = "cache"
  /\ cache' = work[r].total
  /\ IF work[r].message THEN GoOn(r, "ack") /\ UNCHANGED work ELSE End(r)
  /\ UNCHANGED <<rows, reached, messages, histVars>>

Ack(r) ==
  /\ place[r] = "ack"
  /\ messages' = messages - 1
  /\ End(r)
  /\ UNCHANGED <<rows, reached, cache, histVars>>

ExpireCache ==
  /\ cache # Cold /\ cache' = Cold
  /\ UNCHANGED <<rows, reached, messages, place, work, histVars>>

-----------------------------------------------------------------------------
\* Mutant of FailRequest: the message of a failed worker is acknowledged.
FailAcked(r) ==
  /\ place[r] # "idle" /\ faults < MaxFaults
  /\ faults' = faults + 1
  /\ messages' = IF work[r].message THEN messages - 1 ELSE messages
  /\ missed' = (missed \/ (place[r] \in Caching /\ work[r].message))
  /\ End(r)
  /\ UNCHANGED <<rows, reached, cache, reviews, overtaken, untold>>

\* The process dies, or an exception ends the request.  What it has not committed
\* is undone, and a message stays unacknowledged.
FailRequest(r) ==
  /\ place[r] # "idle" /\ faults < MaxFaults
  /\ faults' = faults + 1
  /\ missed' = (missed \/ (place[r] \in Caching /\ work[r].message))
  /\ End(r)
  /\ UNCHANGED <<rows, milestoneVars, reviews, overtaken, untold>>

Begin(r) ==
  \/ \E s \in Submissions : CheckLimit(r, s)
  \/ \E s \in Submissions, verdict \in Verdicts : BeginReview(r, s, verdict)
  \/ \E amount \in Amounts : BeginPayment(r, amount)
  \/ getLastReachedMilestone(r)

Work(r) ==
  \/ InsertSubmission(r) \/ \E s \in Submissions : WriteReview(r, s)
  \/ LockSubmissions(r) \/ CommitPayment(r)
  \/ detectContributionMilestones(r) \/ queryLastReachedMilestone(r)
  \/ cacheLastReachedMilestone(r) \/ Ack(r)

ContributionNext ==
  \/ \E r \in Requests :
       Begin(r) \/ SumPoints(r) \/ Work(r) \/ FailRequest(r)
  \/ ExpireCache

ContributionSpec == ContributionInit /\ [][ContributionNext]_contributionVars

\* A message is delivered until it is acknowledged, also to a process that is
\* busy again and again with other requests; a request's steps end.
FairContributionSpec ==
  /\ ContributionSpec
  /\ SF_contributionVars(\E r \in Requests : SumPoints(r))
  /\ \A r \in Requests : WF_contributionVars(Work(r))

-----------------------------------------------------------------------------
PaidBy(n) == {s \in Submissions : submission[s].payment = n}

\* A submission is in the payment that counted it and in no other, and as it was
\* counted, unless a review that found it unpaid was written after the payment
\* (routes/private/contributions.ts checks paymentId before the update only).
PaymentIsOfSubmissions ==
  \A n \in DOMAIN payment :
    PaidBy(n) \cap overtaken = {} =>
      /\ payment[n].total = PointsOf(PaidBy(n))
      /\ \A s \in PaidBy(n) : Approved(s)

AmountIn(A) == SumFunction([a \in A |-> a.amount])
PointsIn(A) == SumFunction([a \in A |-> a.points])

\* No cent and no point of a payment is lost or made, and no user's cents are off
\* the exact share by one or more.
PaymentIsDivided ==
  \A n \in DOMAIN payment :
    LET p == payment[n]
        part(u) == {a \in p.allocations : a.user = u}
    IN /\ AmountIn(p.allocations) = p.amount
       /\ PointsIn(p.allocations) = p.total
       /\ \A u \in Users :
            LET off == p.total * AmountIn(part(u)) - p.amount * PointsIn(part(u))
            IN off < p.total /\ off > -p.total

\* The polled milestone is the last one, or the cache is cold: the worker that
\* stamps one caches it before it ends (contribution/index.ts, "the cache is
\* refreshed on every milestone write").
CacheFollowsMilestones ==
  ~missed /\ (\A r \in Requests : place[r] \notin Caching)
  => cache \in {Cold, Last(reached)}

\* A milestone whose points are approved for good is stamped, whatever messages
\* race and fail.  A review that raises the points of what is approved already
\* is not published, so nobody looks then; nor if the publication is lost.
MilestoneIsReached ==
  \A m \in Milestones :
    <>[](ApprovedPoints >= m /\ ~untold) => <>(m \in reached)
=============================================================================
