------------------------------ MODULE CoresAward ------------------------------
(***************************************************************************)
(* Awarding Cores to the author of a post or comment, to a squad or to a   *)
(* user.  A request checks what it may do, then runs one database          *)
(* transaction: it inserts a user_transaction row, marks the post as       *)
(* awarded, asks njord to move the Cores and commits.  Triggers keep the   *)
(* award counters in the same transaction.                                 *)
(*                                                                         *)
(* When njord refuses, the transaction is rolled back and the failed row   *)
(* is saved outside of it.  An exception or a crash at any point rolls the *)
(* rows back, never the transfer.                                          *)
(***************************************************************************)
EXTENDS Integers, FiniteSets

CONSTANTS
  Users,
  Posts,       \* posts and comments: awarded once by a user
  Squads,      \* awarded through their first eligible admin
  Profiles,    \* users awarded directly
  Receiver,    \* who gets the Cores of a target
  Prices,      \* values of the award products
  Purse,       \* Cores every user starts with
  Handlers,    \* requests the API processes at the same time
  MaxRows,     \* bound: award requests, each with a new id
  MaxFailures  \* bound: requests that throw, die or are refused from outside

Targets == Posts \cup Squads \cup Profiles

ASSUME TargetAssumption ==
  /\ Receiver \in [Targets -> Users]
  /\ Posts \cap Squads = {} /\ Posts \cap Profiles = {} /\ Squads \cap Profiles = {}
ASSUME UserAssumption == IsFiniteSet(Users)
ASSUME AmountAssumption == Prices \subseteq Nat \ {0} /\ Purse \in Nat
ASSUME LimitAssumption == MaxRows \in Nat /\ MaxFailures \in Nat

VARIABLES
  funds,       \* external: njord's balance of each user
  ledger,      \* external: transfers njord has applied
  rows,        \* committed user_transaction rows
  userPost,    \* awardTransactionId of a user on a post, 0 for null
  awards,      \* awards counter of a post, kept by a trigger
  totalAwards, \* awards counter of a squad, kept by a trigger
  pc,          \* where each request is
  job,         \* the award (or thanks) each request works on
  thanked,     \* how often thanks for a transaction succeeded
  nextId,      \* the next random transaction id
  failures,    \* outside failures so far
  orphaned,    \* history: paid transactions whose row was rolled back
  overlapped   \* history: posts and users of which two awards were under way at once

njord == <<funds, ledger>>
tables == <<rows, userPost, awards, totalAwards>>
vars == <<funds, ledger, rows, userPost, awards, totalAwards, pc, job, thanked,
          nextId, failures, orphaned, overlapped>>

Ids == 1..MaxRows

Row == [sender: Users, target: Targets, value: Prices,
        status: {"Success", "Failed"}, thanks: BOOLEAN]
NoRow == [status |-> "none"]

Award == [id: Ids, sender: Users, target: Targets, value: Prices]
NoJob == [id |-> 0]

Transfer == [key: Ids, from: Users, to: Users, amount: Nat, target: Targets]

TypeOK ==
  /\ funds \in [Users -> Nat]
  /\ ledger \subseteq Transfer
  /\ rows \in [Ids -> Row \cup {NoRow}]
  /\ userPost \in [Posts -> [Users -> Ids \cup {0}]]
  /\ awards \in [Posts -> Int]
  /\ totalAwards \in [Squads -> Nat]
  /\ pc \in [Handlers -> {"idle", "award", "transfer", "commit", "refused", "thank"}]
  /\ job \in [Handlers -> Award \cup {NoJob}]
  /\ \A h \in Handlers : pc[h] # "idle" => job[h] \in Award
  /\ thanked \in [Ids -> Nat]
  /\ nextId \in 1..(MaxRows + 1)
  /\ failures \in Nat
  /\ orphaned \subseteq Ids /\ overlapped \subseteq Posts \X Users

Init ==
  /\ funds = [u \in Users |-> Purse] /\ ledger = {}
  /\ rows = [i \in Ids |-> NoRow]
  /\ userPost = [p \in Posts |-> [u \in Users |-> 0]]
  /\ awards = [p \in Posts |-> 0]
  /\ totalAwards = [s \in Squads |-> 0]
  /\ pc = [h \in Handlers |-> "idle"] /\ job = [h \in Handlers |-> NoJob]
  /\ thanked = [i \in Ids |-> 0]
  /\ nextId = 1 /\ failures = 0 /\ orphaned = {} /\ overlapped = {}

-----------------------------------------------------------------------------
(* Locks.  A row a transaction has written stays locked until its end.     *)

\* Mutant of InTransaction: the failed row is saved before the rollback.
InTransactionRefused(h) == pc[h] \in {"transfer", "commit", "refused"}

InTransaction(h) == pc[h] \in {"transfer", "commit"}

\* The trigger counts the first award of a user on a post.
Counts(h) == userPost[job[h].target][job[h].sender] = 0

\* The user_post row of the same user; the post row when both are counted.
PostLocked(h) ==
  \E g \in Handlers \ {h} :
    /\ InTransaction(g) /\ job[g].target = job[h].target
    /\ job[g].sender = job[h].sender \/ (Counts(g) /\ Counts(h))

\* The source row, written by the trigger on user_transaction.
SquadLocked(s) == \E g \in Handlers : InTransaction(g) /\ job[g].target = s

Finish(h) ==
  /\ pc' = [pc EXCEPT ![h] = "idle"]
  /\ job' = [job EXCEPT ![h] = NoJob]

-----------------------------------------------------------------------------
(* An award request.                                                       *)

Awarding(h, u, t) ==
  pc[h] \in {"award", "transfer", "commit"} /\ job[h].sender = u /\ job[h].target = t

\* Mutant of StartAward: "already awarded" is not checked.
StartAgain(h, u, t, v) ==
  /\ pc[h] = "idle" /\ nextId <= MaxRows
  /\ Receiver[t] # u
  /\ job' = [job EXCEPT ![h] = [id |-> nextId, sender |-> u, target |-> t, value |-> v]]
  /\ pc' = [pc EXCEPT ![h] = "award"]
  /\ nextId' = nextId + 1
  /\ overlapped' = overlapped \cup {a \in (Posts \X Users) \cap {<<t, u>>} :
                                    \E g \in Handlers : Awarding(g, u, t)}
  /\ UNCHANGED <<njord, tables, thanked, failures, orphaned>>

\* canAward and "already awarded", on what the request reads at its start.
StartAward(h, u, t, v) ==
  /\ pc[h] = "idle" /\ nextId <= MaxRows
  /\ Receiver[t] # u
  /\ t \in Posts => userPost[t][u] = 0
  /\ job' = [job EXCEPT ![h] = [id |-> nextId, sender |-> u, target |-> t, value |-> v]]
  /\ pc' = [pc EXCEPT ![h] = "award"]
  /\ nextId' = nextId + 1
  /\ overlapped' = overlapped \cup {a \in (Posts \X Users) \cap {<<t, u>>} :
                                    \E g \in Handlers : Awarding(g, u, t)}
  /\ UNCHANGED <<njord, tables, thanked, failures, orphaned>>

\* createTransaction and the upsert of user_post: rows nobody else sees yet.
WriteAward(h) ==
  /\ pc[h] = "award"
  /\ job[h].target \in Posts => ~PostLocked(h)
  /\ job[h].target \in Squads => ~SquadLocked(job[h].target)
  /\ pc' = [pc EXCEPT ![h] = "transfer"]
  /\ UNCHANGED <<njord, tables, job, thanked, nextId, failures, orphaned, overlapped>>

TransferCores(h) ==
  LET a == job[h]
      taken == [funds EXCEPT ![a.sender] = @ - a.value]
  IN /\ pc[h] = "transfer" /\ funds[a.sender] >= a.value
     /\ funds' = [taken EXCEPT ![Receiver[a.target]] = @ + a.value]
     /\ ledger' = ledger \cup {[key |-> a.id, from |-> a.sender, to |-> Receiver[a.target],
                                amount |-> a.value, target |-> a.target]}
     /\ pc' = [pc EXCEPT ![h] = "commit"]
     /\ UNCHANGED <<tables, job, thanked, nextId, failures, orphaned, overlapped>>

\* The row an award leaves behind.
Kept(a, status) == [sender |-> a.sender, target |-> a.target, value |-> a.value,
                    status |-> status, thanks |-> FALSE]

\* Trigger increment_squad_awards_count: every insert counts.
SquadCounted(t) == IF t \in Squads THEN [totalAwards EXCEPT ![t] = @ + 1] ELSE totalAwards

\* Mutant of PostCounted: the trigger does not compare with the old value.
PostCountedAlways(h, t) == IF t \in Posts THEN [awards EXCEPT ![t] = @ + 1] ELSE awards

\* Triggers user_post_award_insert and _update.
PostCounted(h, t) ==
  IF t \in Posts THEN [awards EXCEPT ![t] = IF Counts(h) THEN @ + 1 ELSE @] ELSE awards

CommitAward(h) ==
  LET a == job[h]
  IN /\ pc[h] = "commit"
     /\ rows' = [rows EXCEPT ![a.id] = Kept(a, "Success")]
     /\ userPost' = IF a.target \in Posts
                    THEN [userPost EXCEPT ![a.target][a.sender] = a.id] ELSE userPost
     /\ awards' = PostCounted(h, a.target)
     /\ totalAwards' = SquadCounted(a.target)
     /\ Finish(h)
     /\ UNCHANGED <<njord, thanked, nextId, failures, orphaned, overlapped>>

\* Mutant of RefuseTransfer: an error after the transfer counts as refusal.
RefuseLate(h) ==
  /\ pc[h] \in {"transfer", "commit"}
  /\ \/ funds[job[h].sender] < job[h].value /\ UNCHANGED failures
     \/ failures < MaxFailures /\ failures' = failures + 1
  /\ pc' = [pc EXCEPT ![h] = "refused"]
  /\ UNCHANGED <<njord, tables, job, thanked, nextId, orphaned, overlapped>>

\* njord refuses: not enough Cores, or for a reason of its own.  The
\* transaction is rolled back at once.
RefuseTransfer(h) ==
  /\ pc[h] = "transfer"
  /\ \/ funds[job[h].sender] < job[h].value /\ UNCHANGED failures
     \/ failures < MaxFailures /\ failures' = failures + 1
  /\ pc' = [pc EXCEPT ![h] = "refused"]
  /\ UNCHANGED <<njord, tables, job, thanked, nextId, orphaned, overlapped>>

\* throwUserTransactionError: the failed row is saved outside the transaction.
SaveRefused(h) ==
  LET a == job[h]
  IN /\ pc[h] = "refused"
     /\ a.target \in Squads => ~SquadLocked(a.target)
     /\ rows' = [rows EXCEPT ![a.id] = Kept(a, "Failed")]
     /\ totalAwards' = SquadCounted(a.target)
     /\ Finish(h)
     /\ UNCHANGED <<njord, userPost, awards, thanked, nextId, failures, orphaned, overlapped>>

Paid(id) == \E t \in ledger : t.key = id

\* An exception, or the process dies: the database rolls back.
FailAward(h) ==
  /\ pc[h] \in {"award", "transfer", "commit", "refused"}
  /\ failures < MaxFailures
  /\ failures' = failures + 1
  /\ orphaned' = IF Paid(job[h].id) THEN orphaned \cup {job[h].id} ELSE orphaned
  /\ Finish(h)
  /\ UNCHANGED <<njord, tables, thanked, nextId, overlapped>>

-----------------------------------------------------------------------------
(* sayThanksForAward: the receiver thanks the sender.                      *)

ReadThanks(h, id) ==
  /\ pc[h] = "idle" /\ rows[id].status = "Success"
  /\ pc' = [pc EXCEPT ![h] = "thank"]
  /\ job' = [job EXCEPT ![h] = [id |-> id, sender |-> rows[id].sender,
                               target |-> rows[id].target, value |-> rows[id].value]]
  /\ UNCHANGED <<njord, tables, thanked, nextId, failures, orphaned, overlapped>>

\* UPDATE ... WHERE thanksAt IS NULL; nothing updated is a conflict.
Thank(h) ==
  LET id == job[h].id
  IN /\ pc[h] = "thank"
     /\ rows' = [rows EXCEPT ![id].thanks = TRUE]
     /\ thanked' = IF rows[id].thanks THEN thanked ELSE [thanked EXCEPT ![id] = @ + 1]
     /\ Finish(h)
     /\ UNCHANGED <<njord, userPost, awards, totalAwards, nextId, failures, orphaned, overlapped>>

-----------------------------------------------------------------------------
Request(h) ==
  \/ \E u \in Users, t \in Targets, v \in Prices : StartAward(h, u, t, v)
  \/ \E id \in Ids : ReadThanks(h, id)

\* What a request does by itself once it runs.
RequestStep(h) ==
  \/ WriteAward(h) \/ TransferCores(h) \/ CommitAward(h)
  \/ (RefuseTransfer(h) /\ UNCHANGED failures) \/ SaveRefused(h) \/ Thank(h)

Next == \E h \in Handlers : Request(h) \/ RequestStep(h) \/ RefuseTransfer(h) \/ FailAward(h)

Spec == Init /\ [][Next]_vars

\* Node runs every request on; Postgres grants row locks in the order of
\* the requests for them.
Fairness == \A h \in Handlers : SF_vars(RequestStep(h))

FairSpec == Spec /\ Fairness

-----------------------------------------------------------------------------
(* Properties.                                                             *)

\* A post that shows an award of a user was paid for by that user, to the
\* receiver of the post, and its transaction is successful: the marker, the
\* row and the transfer survive every failure together (awardPost,
\* awardComment).
AwardIsPaid ==
  \A p \in Posts, u \in Users :
    userPost[p][u] # 0 =>
      /\ rows[userPost[p][u]].status = "Success"
      /\ \E t \in ledger : t.key = userPost[p][u] /\ t.from = u /\ t.to = Receiver[p]

\* What a committed row says is what njord did: Success was paid, a failed
\* row was not.
StatusTellsPayment ==
  \A id \in Ids : /\ rows[id].status = "Success" => Paid(id)
                  /\ rows[id].status = "Failed" => ~Paid(id)

\* Every transfer has its successful row or is about to commit it, unless
\* the request failed between the transfer and the commit.
PaidIsRecorded ==
  \A t \in ledger :
    \/ rows[t.key].status = "Success"
    \/ t.key \in orphaned
    \/ \E h \in Handlers : pc[h] = "commit" /\ job[h].id = t.key

\* The counter of a post is the number of users whose award it shows,
\* although a user's award may be written over by a concurrent one.
PostCountIsAwards ==
  \A p \in Posts : awards[p] = Cardinality({u \in Users : userPost[p][u] # 0})

\* Thanks for an award succeed once, whoever asks at the same time.
ThankedOnce == \A id \in Ids : thanked[id] <= 1

\* A user pays for the award of a post once ("already awarded"), unless two of
\* his awards were under way at once or one failed between njord and the commit
\* (awardPost, awardComment).
AwardedOnce ==
  \A p \in Posts, u \in Users :
    \/ <<p, u>> \in overlapped
    \/ Cardinality({t \in ledger : t.target = p /\ t.from = u /\ t.key \notin orphaned}) <= 1

\* Every request ends: no transaction waits for a lock for ever, not even
\* for its own.
RequestsEnd == \A h \in Handlers : pc[h] # "idle" ~> pc[h] = "idle"
=============================================================================
