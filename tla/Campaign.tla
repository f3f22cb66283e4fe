------------------------------- MODULE Campaign -------------------------------
(***************************************************************************)
(* Boosting a post or a squad.  Starting a campaign books it with skadi    *)
(* (the ad server) and has njord charge its budget inside one database     *)
(* transaction; stopping it cancels it with skadi first and then refunds   *)
(* in a transaction.  The boosted post or squad carries the id of its      *)
(* campaign in flags.campaignId.  When a campaign ends, skadi publishes a  *)
(* Completed event that a Pub/Sub worker applies.                          *)
(*                                                                         *)
(* The database is read committed: a check sees what is committed when it  *)
(* is made, an UPDATE locks its rows until the transaction ends.           *)
(***************************************************************************)
EXTENDS Integers, FiniteSets

CONSTANTS
  Refs,         \* posts and squads that may be boosted
  Budgets,      \* total budgets, in Cores
  Handlers,     \* requests and messages processed at the same time
  MaxCampaigns, \* bound: start requests, each with a new campaign id
  MaxFailures   \* bound: refusals, exceptions, crashes and lost acks

ASSUME BudgetAssumption == Budgets \subseteq Nat \ {0}
ASSUME LimitAssumption == MaxCampaigns \in Nat /\ MaxFailures \in Nat

VARIABLES
  campaigns, \* committed rows of the campaign table
  flag,      \* committed flags.campaignId of a post or squad, 0 for null
  skadi,     \* external: what skadi knows of a campaign
  unspent,   \* external: Cores of the budget skadi has not spent
  charged,   \* external: Cores njord took for a campaign
  refunded,  \* external: Cores njord gave back for a campaign
  events,    \* Completed events published and not acknowledged
  pc,        \* where each handler is
  job,       \* the campaign each handler works on, as it read it
  nextId,    \* the next random campaign id
  failures   \* failures so far

tables == <<campaigns, flag>>
njord == <<charged, refunded>>
vars == <<campaigns, flag, skadi, unspent, charged, refunded, events, pc, job, nextId,
          failures>>

Ids == 1..MaxCampaigns

Campaign == [state: {"Active", "Cancelled", "Completed"}, ref: Refs, total: Budgets]
NoCampaign == [state |-> "none"]

\* left: what skadi reported unspent when it cancelled the campaign.
Job == [id: Ids, ref: Refs, total: Budgets, left: Nat]
NoJob == [id |-> 0]

Starting == {"start", "book", "charge", "commitStart"}
Stopping == {"cancel", "write", "refund", "commitStop"}

TypeOK ==
  /\ campaigns \in [Ids -> Campaign \cup {NoCampaign}]
  /\ flag \in [Refs -> Ids \cup {0}]
  /\ skadi \in [Ids -> {"none", "running", "cancelled", "completed"}]
  /\ unspent \in [Ids -> Nat] /\ charged \in [Ids -> Nat] /\ refunded \in [Ids -> Nat]
  /\ events \subseteq Ids
  /\ pc \in [Handlers -> {"idle", "complete"} \cup Starting \cup Stopping]
  /\ job \in [Handlers -> Job \cup {NoJob}]
  /\ \A h \in Handlers : pc[h] # "idle" => job[h] \in Job
  /\ nextId \in 1..(MaxCampaigns + 1)
  /\ failures \in Nat

Init ==
  /\ campaigns = [c \in Ids |-> NoCampaign]
  /\ flag = [r \in Refs |-> 0]
  /\ skadi = [c \in Ids |-> "none"]
  /\ unspent = [c \in Ids |-> 0]
  /\ charged = [c \in Ids |-> 0] /\ refunded = [c \in Ids |-> 0]
  /\ events = {}
  /\ pc = [h \in Handlers |-> "idle"] /\ job = [h \in Handlers |-> NoJob]
  /\ nextId = 1 /\ failures = 0

-----------------------------------------------------------------------------
\* A transaction that has updated a post or squad keeps its row, and the row
\* of the campaign it stops, until it ends.  Both are updated campaign first.
Locked(h) ==
  \E g \in Handlers \ {h} :
    /\ pc[g] \in {"charge", "commitStart", "refund", "commitStop"}
    /\ job[g].ref = job[h].ref

Goto(h, label) == pc' = [pc EXCEPT ![h] = label]

Finish(h) ==
  /\ Goto(h, "idle")
  /\ job' = [job EXCEPT ![h] = NoJob]

\* An exception, a refusal or a crash; a database transaction rolls back.
\* A Completed event stays unacknowledged.
Fail(h) ==
  /\ pc[h] # "idle"
  /\ failures < MaxFailures /\ failures' = failures + 1
  /\ Finish(h)
  /\ UNCHANGED <<tables, skadi, unspent, njord, events, nextId>>

-----------------------------------------------------------------------------
(* startCampaignPost, startCampaignSource                                  *)

\* The flag is read before the transaction begins.
StartCampaign(h, r, total) ==
  /\ pc[h] = "idle" /\ nextId <= MaxCampaigns
  /\ flag[r] = 0
  /\ job' = [job EXCEPT ![h] = [id |-> nextId, ref |-> r, total |-> total, left |-> 0]]
  /\ Goto(h, "start")
  /\ nextId' = nextId + 1
  /\ UNCHANGED <<tables, skadi, unspent, njord, events, failures>>

StartSkadi(h) ==
  /\ pc[h] = "start"
  /\ skadi' = [skadi EXCEPT ![job[h].id] = "running"]
  /\ unspent' = [unspent EXCEPT ![job[h].id] = job[h].total]
  /\ Goto(h, "book")
  /\ UNCHANGED <<tables, njord, events, job, nextId, failures>>

\* The campaign, the flag and the user transaction are written, unseen.
BookCampaign(h) ==
  /\ pc[h] = "book" /\ ~Locked(h)
  /\ Goto(h, "charge")
  /\ UNCHANGED <<tables, skadi, unspent, njord, events, job, nextId, failures>>

\* startCampaignTransferCores; a refusal by njord is a Fail.
Charge(h) ==
  /\ pc[h] = "charge"
  /\ charged' = [charged EXCEPT ![job[h].id] = job[h].total]
  /\ Goto(h, "commitStart")
  /\ UNCHANGED <<tables, skadi, unspent, refunded, events, job, nextId, failures>>

CommitStart(h) ==
  LET j == job[h]
  IN /\ pc[h] = "commitStart"
     /\ campaigns' = [campaigns EXCEPT ![j.id] =
                        [state |-> "Active", ref |-> j.ref, total |-> j.total]]
     /\ flag' = [flag EXCEPT ![j.ref] = j.id]
     /\ Finish(h)
     /\ UNCHANGED <<skadi, unspent, njord, events, nextId, failures>>

-----------------------------------------------------------------------------
(* stopCampaign, stopCampaignPost, stopCampaignSource                      *)

\* The resolver reads the campaign and refuses one that is not active.
StopCampaign(h, id) ==
  /\ pc[h] = "idle"
  /\ campaigns[id].state = "Active"
  /\ job' = [job EXCEPT ![h] = [id |-> id, ref |-> campaigns[id].ref,
                               total |-> campaigns[id].total, left |-> 0]]
  /\ Goto(h, "cancel")
  /\ UNCHANGED <<tables, skadi, unspent, njord, events, nextId, failures>>

\* Mutant of Unspent: the whole budget is given back.
UnspentAll(j) == {j.total}

\* parseFloat and usdToCores: the dollars skadi answers, times 100, rounded
\* down; the product of a whole number of cents may fall one Core short.
Unspent(j) == {unspent[j.id], unspent[j.id] - 1} \cap Nat

\* Skadi cancels a campaign it runs, and publishes that it ended.
CancelSkadi(h) ==
  LET j == job[h]
  IN /\ pc[h] = "cancel" /\ skadi[j.id] = "running"
     /\ skadi' = [skadi EXCEPT ![j.id] = "cancelled"]
     /\ events' = events \cup {j.id}
     /\ \E left \in Unspent(j) : job' = [job EXCEPT ![h].left = left]
     /\ Goto(h, "write")
     /\ UNCHANGED <<tables, unspent, njord, nextId, failures>>

\* Skadi answers with an error for a campaign that does not run.
CancelRefused(h) ==
  /\ pc[h] = "cancel" /\ skadi[job[h].id] # "running"
  /\ Finish(h)
  /\ UNCHANGED <<tables, skadi, unspent, njord, events, nextId, failures>>

WriteStop(h) ==
  /\ pc[h] = "write" /\ ~Locked(h)
  /\ Goto(h, "refund")
  /\ UNCHANGED <<tables, skadi, unspent, njord, events, job, nextId, failures>>

\* stopCampaignTransferCores; a refusal by njord is a Fail.
Refund(h) ==
  /\ pc[h] = "refund"
  /\ refunded' = [refunded EXCEPT ![job[h].id] = @ + job[h].left]
  /\ Goto(h, "commitStop")
  /\ UNCHANGED <<tables, skadi, unspent, charged, events, job, nextId, failures>>

\* Mutant of CommitStop: the refund is left to a later step.
CommitUnrefunded(h) ==
  /\ pc[h] \in {"refund", "commitStop"}
  /\ campaigns' = [campaigns EXCEPT ![job[h].id].state = "Cancelled"]
  /\ flag' = [flag EXCEPT ![job[h].ref] = 0]
  /\ Finish(h)
  /\ UNCHANGED <<skadi, unspent, njord, events, nextId, failures>>

CommitStop(h) ==
  /\ pc[h] = "commitStop"
  /\ campaigns' = [campaigns EXCEPT ![job[h].id].state = "Cancelled"]
  /\ flag' = [flag EXCEPT ![job[h].ref] = 0]
  /\ Finish(h)
  /\ UNCHANGED <<skadi, unspent, njord, events, nextId, failures>>

-----------------------------------------------------------------------------
(* campaignUpdatedAction: the Completed event                              *)

ReadCompleted(h, id) ==
  /\ pc[h] = "idle" /\ id \in events
  /\ campaigns[id] # NoCampaign
  /\ job' = [job EXCEPT ![h] = [id |-> id, ref |-> campaigns[id].ref,
                               total |-> campaigns[id].total, left |-> 0]]
  /\ Goto(h, "complete")
  /\ UNCHANGED <<tables, skadi, unspent, njord, events, nextId, failures>>

\* "some campaigns do not exist on API": the message is acknowledged.
IgnoreCompleted(h, id) ==
  /\ pc[h] = "idle" /\ id \in events
  /\ campaigns[id] = NoCampaign
  /\ events' = events \ {id}
  /\ UNCHANGED <<tables, skadi, unspent, njord, pc, job, nextId, failures>>

\* Mutant of WriteCompleted: what is not active any more is left alone.
CompleteActiveOnly(h) ==
  LET id == job[h].id
  IN /\ pc[h] = "complete" /\ ~Locked(h)
     /\ campaigns' = IF campaigns[id].state = "Active"
                     THEN [campaigns EXCEPT ![id].state = "Completed"] ELSE campaigns
     /\ UNCHANGED flag
     /\ events' = events \ {id}
     /\ Finish(h)
     /\ UNCHANGED <<skadi, unspent, njord, nextId, failures>>

\* The campaign completes if it is still active; the flag of its post or
\* squad is cleared whatever it holds.  The acknowledgement may be lost.
WriteCompleted(h) ==
  LET id == job[h].id
  IN /\ pc[h] = "complete" /\ ~Locked(h)
     /\ campaigns' = IF campaigns[id].state = "Active"
                     THEN [campaigns EXCEPT ![id].state = "Completed"] ELSE campaigns
     /\ flag' = [flag EXCEPT ![job[h].ref] = 0]
     /\ \/ events' = events \ {id} /\ UNCHANGED failures
        \/ failures < MaxFailures /\ failures' = failures + 1 /\ UNCHANGED events
     /\ Finish(h)
     /\ UNCHANGED <<skadi, unspent, njord, nextId>>

-----------------------------------------------------------------------------
(* External: skadi runs the campaigns it was given.                        *)

SkadiSpends(id) ==
  /\ skadi[id] = "running" /\ unspent[id] > 0
  /\ unspent' = [unspent EXCEPT ![id] = @ - 1]
  /\ UNCHANGED <<tables, skadi, njord, events, pc, job, nextId, failures>>

\* A campaign lasts at least a day, longer than the request that starts it.
SkadiEnds(id) ==
  /\ skadi[id] = "running"
  /\ \A h \in Handlers : pc[h] \in Starting => job[h].id # id
  /\ skadi' = [skadi EXCEPT ![id] = "completed"]
  /\ events' = events \cup {id}
  /\ UNCHANGED <<tables, unspent, njord, pc, job, nextId, failures>>

-----------------------------------------------------------------------------
Start(h) ==
  \/ \E r \in Refs, total \in Budgets : StartCampaign(h, r, total)
  \/ StartSkadi(h) \/ BookCampaign(h) \/ Charge(h) \/ CommitStart(h)

Stop(h) ==
  \/ \E id \in Ids : StopCampaign(h, id)
  \/ CancelSkadi(h) \/ CancelRefused(h) \/ WriteStop(h) \/ Refund(h) \/ CommitStop(h)

Complete(h) ==
  \/ \E id \in Ids : ReadCompleted(h, id) \/ IgnoreCompleted(h, id)
  \/ WriteCompleted(h)

Skadi == \E id \in Ids : SkadiSpends(id) \/ SkadiEnds(id)

Next == Skadi \/ \E h \in Handlers : Start(h) \/ Stop(h) \/ Complete(h) \/ Fail(h)

Spec == Init /\ [][Next]_vars

\* What a handler does by itself once it runs.
HandlerStep(h) ==
  \/ StartSkadi(h) \/ BookCampaign(h) \/ Charge(h) \/ CommitStart(h)
  \/ CancelSkadi(h) \/ CancelRefused(h) \/ WriteStop(h) \/ Refund(h) \/ CommitStop(h)
  \/ WriteCompleted(h)

\* Pub/Sub delivers an event until it is acknowledged; Node runs every
\* handler on and Postgres grants row locks in the order of the requests.
Fairness ==
  /\ \A h \in Handlers : SF_vars(HandlerStep(h))
  /\ \A id \in Ids : SF_vars(\E h \in Handlers : ReadCompleted(h, id))

FairSpec == Spec /\ Fairness

-----------------------------------------------------------------------------
(* Properties.                                                             *)

\* A post or squad that shows as boosted names a campaign that is active and
\* is its own, whatever order stops, restarts and late Completed events come
\* in (stopCampaignPost, handleCampaignCompleted).
FlagIsActive ==
  \A r \in Refs :
    flag[r] # 0 => campaigns[flag[r]].state = "Active" /\ campaigns[flag[r]].ref = r

\* Every campaign in the database was paid for in full (startCampaignPost).
CampaignIsCharged ==
  \A id \in Ids : campaigns[id] # NoCampaign => charged[id] = campaigns[id].total

\* Nobody gets back more than skadi left unspent of the budget, although two stops,
\* or a stop and a Completed event, may work on one campaign.
RefundIsUnspent ==
  \A id \in Ids : refunded[id] # 0 => refunded[id] <= unspent[id]

\* A cancelled campaign is settled: what was neither spent nor refunded is at
\* most the one Core that rounding may take.
CancelledIsSettled ==
  \A id \in Ids :
    campaigns[id].state = "Cancelled" =>
      unspent[id] - refunded[id] \in {0, 1}

\* "only update if still active - for example if cancelled, do not update":
\* a cancelled campaign never becomes anything else.
CancelledIsFinal ==
  [][\A id \in Ids : campaigns[id].state = "Cancelled"
                        => campaigns'[id].state = "Cancelled"]_vars

\* When skadi no longer runs the campaign a post or squad shows, the flag is
\* cleared sooner or later, even if the stop that cancelled it failed.
EndedFreesPost ==
  \A r \in Refs, id \in Ids :
    (flag[r] = id /\ skadi[id] \in {"cancelled", "completed"}) ~> flag[r] # id
=============================================================================
