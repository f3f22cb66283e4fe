--------------------------- MODULE Campaigns_proofs ---------------------------
(***************************************************************************)
(* Proofs about the two kinds of campaign: Campaign, the boosts, for any   *)
(* number of posts, campaigns and handlers, and Contributions, for any     *)
(* users, causes, submissions, payments and milestones.                    *)
(***************************************************************************)
EXTENDS Campaign, Contributions, FiniteSetTheorems, FunctionTheorems, WellFoundedInduction, TLAPS

-----------------------------------------------------------------------------
(* Campaign: boosts of posts and squads, paid in Cores.                     *)

Settling == {"write", "refund", "commitStop"}

\* An id that was not handed out, and one whose start is not committed, has
\* no row; no two requests start the same campaign.
StartInv ==
  /\ \A id \in Ids : id >= nextId => campaigns[id] = NoCampaign /\ skadi[id] = "none"
  /\ \A h \in Handlers :
       pc[h] \in Starting =>
         /\ job[h].id < nextId
         /\ campaigns[job[h].id] = NoCampaign
         /\ pc[h] = "start" => skadi[job[h].id] = "none"
         /\ pc[h] = "commitStart" => charged[job[h].id] = job[h].total
  /\ \A g, h \in Handlers :
       g # h /\ pc[g] \in Starting /\ pc[h] \in Starting => job[g].id # job[h].id

\* A handler that stops or completes a campaign knows its post or squad.
RefInv ==
  \A h \in Handlers :
    pc[h] \in Stopping \cup {"complete"} =>
      /\ campaigns[job[h].id] # NoCampaign
      /\ campaigns[job[h].id].ref = job[h].ref

\* Skadi cancels a campaign once, so one stop settles it.
SettleInv ==
  /\ \A id \in Ids : refunded[id] # 0 => skadi[id] = "cancelled"
  /\ \A id \in Ids : campaigns[id].state = "Cancelled" => skadi[id] = "cancelled"
  /\ \A h \in Handlers :
       pc[h] \in Settling =>
         /\ skadi[job[h].id] = "cancelled"
         /\ campaigns[job[h].id].state # "Cancelled"
         /\ job[h].left \in Unspent(job[h])
         /\ refunded[job[h].id] = IF pc[h] = "commitStop" THEN job[h].left ELSE 0
  /\ \A g, h \in Handlers :
       g # h /\ pc[g] \in Settling /\ pc[h] \in Settling => job[g].id # job[h].id

BookInv == TypeOK /\ StartInv /\ RefInv

-----------------------------------------------------------------------------
(* Types.                                                                  *)

\* Every action keeps the types.
LEMMA TypeStep == TypeOK /\ StartInv /\ RefInv /\ [Next]_vars => TypeOK'
<1> SUFFICES ASSUME TypeOK /\ StartInv /\ RefInv, [Next]_vars PROVE TypeOK'
  OBVIOUS
<1>1. ASSUME NEW h \in Handlers, NEW r \in Refs, NEW total \in Budgets, StartCampaign(h, r, total)
     PROVE TypeOK'
  <2>1. [id |-> nextId, ref |-> r, total |-> total, left |-> 0] \in Job
    BY <1>1, LimitAssumption DEF StartCampaign, TypeOK, Job, Ids
  <2>2. nextId' \in 1..(MaxCampaigns + 1)
    BY <1>1, LimitAssumption DEF StartCampaign, TypeOK
  <2> QED BY <1>1, <2>1, <2>2 DEF StartCampaign, Goto, tables, njord, TypeOK, Starting, Stopping
<1>2. ASSUME NEW h \in Handlers, StartSkadi(h) PROVE TypeOK'
  <2>1. job[h].total \in Nat
    BY <1>2, BudgetAssumption DEF StartSkadi, TypeOK, Job
  <2> QED BY <1>2, <2>1 DEF StartSkadi, Goto, tables, njord, TypeOK, Starting
<1>3. ASSUME NEW h \in Handlers, BookCampaign(h) PROVE TypeOK'
  BY <1>3 DEF BookCampaign, Goto, tables, njord, TypeOK, Starting, Stopping
<1>4. ASSUME NEW h \in Handlers, Charge(h) PROVE TypeOK'
  <2>1. job[h].total \in Nat
    BY <1>4, BudgetAssumption DEF Charge, TypeOK, Job
  <2> QED BY <1>4, <2>1 DEF Charge, Goto, tables, TypeOK, Starting
<1>5. ASSUME NEW h \in Handlers, CommitStart(h) PROVE TypeOK'
  <2>1. job[h] \in Job
    BY <1>5 DEF CommitStart, TypeOK
  <2>2. campaigns' \in [Ids -> Campaign \cup {NoCampaign}] /\ flag' \in [Refs -> Ids \cup {0}]
    BY <1>5, <2>1 DEF CommitStart, TypeOK, Job, Campaign
  <2> QED BY <1>5, <2>2 DEF CommitStart, Goto, Finish, njord, TypeOK
<1>6. ASSUME NEW h \in Handlers, NEW id \in Ids, StopCampaign(h, id) PROVE TypeOK'
  <2>1. campaigns[id] \in Campaign
    BY <1>6 DEF StopCampaign, TypeOK, NoCampaign
  <2>2. [id |-> id, ref |-> campaigns[id].ref, total |-> campaigns[id].total, left |-> 0] \in Job
    BY <2>1 DEF Campaign, Job
  <2> QED BY <1>6, <2>2 DEF StopCampaign, Goto, tables, njord, TypeOK, Starting, Stopping
<1>7. ASSUME NEW h \in Handlers, CancelSkadi(h) PROVE TypeOK'
  <2>1. job[h] \in Job
    BY <1>7 DEF CancelSkadi, TypeOK
  <2>2. PICK left \in Nat : job' = [job EXCEPT ![h].left = left]
    BY <1>7 DEF CancelSkadi, Unspent
  <2>3. [job[h] EXCEPT !.left = left] \in Job
    BY <2>1 DEF Job
  <2>4. job' \in [Handlers -> Job \cup {NoJob}] /\ job'[h] \in Job
        /\ \A g \in Handlers \ {h} : job'[g] = job[g]
    BY <2>2, <2>3 DEF TypeOK
  <2>5. events' \subseteq Ids
    BY <1>7, <2>1 DEF CancelSkadi, TypeOK, Job
  <2> QED BY <1>7, <2>1, <2>4, <2>5 DEF CancelSkadi, Goto, tables, njord, TypeOK, Stopping
<1>8. ASSUME NEW h \in Handlers, CancelRefused(h) PROVE TypeOK'
  BY <1>8 DEF CancelRefused, Goto, Finish, tables, njord, TypeOK, Starting,
     Stopping
<1>9. ASSUME NEW h \in Handlers, WriteStop(h) PROVE TypeOK'
  BY <1>9 DEF WriteStop, Goto, tables, njord, TypeOK, Starting, Stopping
<1>10. ASSUME NEW h \in Handlers, Refund(h) PROVE TypeOK'
  <2>1. job[h].left \in Nat /\ job[h].id \in Ids
    BY <1>10 DEF Refund, TypeOK, Job
  <2>2. refunded' \in [Ids -> Nat]
    BY <1>10, <2>1 DEF Refund, TypeOK
  <2> QED BY <1>10, <2>2 DEF Refund, Goto, tables, TypeOK, Stopping
<1>11. ASSUME NEW h \in Handlers, CommitStop(h) PROVE TypeOK'
  <2>1. job[h] \in Job /\ campaigns[job[h].id] \in Campaign
    BY <1>11 DEF CommitStop, TypeOK, RefInv, Stopping, Job
  <2>2. [campaigns[job[h].id] EXCEPT !.state = "Cancelled"] \in Campaign
    BY <2>1 DEF Campaign
  <2>3. campaigns' \in [Ids -> Campaign \cup {NoCampaign}] /\ flag' \in [Refs -> Ids \cup {0}]
    BY <1>11, <2>1, <2>2 DEF CommitStop, TypeOK, Job
  <2> QED BY <1>11, <2>3 DEF CommitStop, Goto, Finish, njord, TypeOK
<1>12. ASSUME NEW h \in Handlers, NEW id \in Ids, ReadCompleted(h, id) PROVE TypeOK'
  <2>1. campaigns[id] \in Campaign
    BY <1>12 DEF ReadCompleted, TypeOK
  <2>2. [id |-> id, ref |-> campaigns[id].ref, total |-> campaigns[id].total, left |-> 0] \in Job
    BY <2>1 DEF Campaign, Job
  <2> QED BY <1>12, <2>2 DEF ReadCompleted, Goto, tables, njord, TypeOK, Starting, Stopping
<1>13. ASSUME NEW h \in Handlers, NEW id \in Ids, IgnoreCompleted(h, id) PROVE TypeOK'
  BY <1>13 DEF IgnoreCompleted, tables, njord, TypeOK, Starting, Stopping
<1>14. ASSUME NEW h \in Handlers, WriteCompleted(h) PROVE TypeOK'
  <2>1. job[h] \in Job /\ campaigns[job[h].id] \in Campaign
    BY <1>14 DEF WriteCompleted, TypeOK, RefInv, Job
  <2>2. [campaigns[job[h].id] EXCEPT !.state = "Completed"] \in Campaign
    BY <2>1 DEF Campaign
  <2>3. campaigns' \in [Ids -> Campaign \cup {NoCampaign}] /\ flag' \in [Refs -> Ids \cup {0}]
    BY <1>14, <2>1, <2>2 DEF WriteCompleted, TypeOK, Job
  <2>4. events' \subseteq Ids /\ failures' \in Nat
    BY <1>14 DEF WriteCompleted, TypeOK
  <2> QED BY <1>14, <2>3, <2>4 DEF WriteCompleted, Goto, Finish, njord, TypeOK
<1>15. ASSUME NEW h \in Handlers, Fail(h) PROVE TypeOK'
  <2>1. failures' \in Nat
    BY <1>15 DEF Fail, TypeOK
  <2> QED BY <1>15, <2>1 DEF Fail, Goto, Finish, tables, njord, TypeOK
<1>16. ASSUME NEW id \in Ids, SkadiSpends(id) PROVE TypeOK'
  <2>1. unspent[id] - 1 \in Nat
    BY <1>16 DEF SkadiSpends, TypeOK
  <2> QED BY <1>16, <2>1 DEF SkadiSpends, tables, njord, TypeOK
<1>17. ASSUME NEW id \in Ids, SkadiEnds(id) PROVE TypeOK'
  BY <1>17 DEF SkadiEnds, tables, njord, TypeOK, Starting, Stopping
<1>18. CASE UNCHANGED vars
  BY <1>18 DEF vars, TypeOK, Starting, Stopping
<1> QED
  BY <1>1, <1>2, <1>3, <1>4, <1>5, <1>6, <1>7, <1>8, <1>9,
     <1>10, <1>11, <1>12, <1>13, <1>14, <1>15, <1>16, <1>17, <1>18
  DEF Next, Start, Stop, Complete, Skadi

-----------------------------------------------------------------------------
(* The book-keeping of the handlers.                                       *)

\* Every action keeps StartInv.
LEMMA StartStep == TypeOK /\ StartInv /\ RefInv /\ [Next]_vars => StartInv'
<1> SUFFICES ASSUME TypeOK /\ StartInv /\ RefInv, [Next]_vars PROVE StartInv'
  OBVIOUS
<1>1. ASSUME NEW h \in Handlers, NEW r \in Refs, NEW total \in Budgets, StartCampaign(h, r, total)
     PROVE StartInv'
  <2>1. /\ nextId \in Ids /\ nextId' = nextId + 1
        /\ campaigns[nextId] = NoCampaign /\ skadi[nextId] = "none"
        /\ UNCHANGED <<campaigns, skadi, charged>>
    BY <1>1, LimitAssumption DEF StartCampaign, TypeOK, StartInv, Ids, tables, njord
  <2>2. /\ job'[h].id = nextId /\ pc'[h] = "start"
        /\ \A g \in Handlers \ {h} : job'[g] = job[g] /\ pc'[g] = pc[g]
    BY <1>1 DEF StartCampaign, Goto, TypeOK
  <2>3. \A g \in Handlers : pc[g] \in Starting => job[g].id \in Nat /\ job[g].id < nextId
    BY DEF StartInv, TypeOK, Starting, Job, Ids
  <2>4. nextId \in Nat
    BY <2>1 DEF Ids
  <2> QED BY <2>1, <2>2, <2>3, <2>4 DEF StartInv, Ids
<1>2. ASSUME NEW h \in Handlers, StartSkadi(h) PROVE StartInv'
  BY <1>2 DEF StartSkadi, Goto, tables, njord, StartInv, TypeOK, Starting,
     Stopping, Ids, Job, NoJob, Campaign, NoCampaign
<1>3. ASSUME NEW h \in Handlers, BookCampaign(h) PROVE StartInv'
  BY <1>3 DEF BookCampaign, Goto, tables, njord, StartInv, TypeOK, Starting,
     Stopping, Ids, Job, NoJob, Campaign, NoCampaign
<1>4. ASSUME NEW h \in Handlers, Charge(h) PROVE StartInv'
  BY <1>4 DEF Charge, Goto, tables, njord, StartInv, TypeOK, Starting,
     Stopping, Ids, Job, NoJob, Campaign, NoCampaign
<1>5. ASSUME NEW h \in Handlers, CommitStart(h) PROVE StartInv'
  BY <1>5 DEF CommitStart, Goto, Finish, tables, njord, StartInv, TypeOK,
     Starting, Stopping, Ids, Job, NoJob, Campaign, NoCampaign
<1>6. ASSUME NEW h \in Handlers, NEW id \in Ids, StopCampaign(h, id) PROVE StartInv'
  BY <1>6 DEF StopCampaign, Goto, tables, njord, StartInv, TypeOK, Starting,
     Stopping, Ids, Job, NoJob, Campaign, NoCampaign
<1>7. ASSUME NEW h \in Handlers, CancelSkadi(h) PROVE StartInv'
  BY <1>7 DEF CancelSkadi, Goto, tables, njord, StartInv, TypeOK, Starting,
     Stopping, Ids, Job, NoJob, Campaign, NoCampaign
<1>8. ASSUME NEW h \in Handlers, CancelRefused(h) PROVE StartInv'
  BY <1>8 DEF CancelRefused, Goto, Finish, tables, njord, StartInv, TypeOK,
     Starting, Stopping, Ids, Job, NoJob, Campaign, NoCampaign
<1>9. ASSUME NEW h \in Handlers, WriteStop(h) PROVE StartInv'
  BY <1>9 DEF WriteStop, Goto, tables, njord, StartInv, TypeOK, Starting,
     Stopping, Ids, Job, NoJob, Campaign, NoCampaign
<1>10. ASSUME NEW h \in Handlers, Refund(h) PROVE StartInv'
  BY <1>10 DEF Refund, Goto, tables, njord, StartInv, TypeOK, Starting,
     Stopping, Ids, Job, NoJob, Campaign, NoCampaign
<1>11. ASSUME NEW h \in Handlers, CommitStop(h) PROVE StartInv'
  <2>1. campaigns[job[h].id] # NoCampaign /\ job[h].id \in Ids
    BY <1>11 DEF CommitStop, TypeOK, RefInv, Stopping, Job
  <2>2. \A id \in Ids : campaigns[id] = NoCampaign => campaigns'[id] = NoCampaign
    BY <1>11, <2>1 DEF CommitStop, TypeOK
  <2>3. pc'[h] = "idle" /\ \A g \in Handlers \ {h} : job'[g] = job[g] /\ pc'[g] = pc[g]
    BY <1>11 DEF CommitStop, Goto, Finish, TypeOK
  <2>4. UNCHANGED <<skadi, charged, nextId>>
    BY <1>11 DEF CommitStop, njord
  <2>5. \A g \in Handlers : pc[g] \in Starting => job[g].id \in Ids
    BY DEF TypeOK, Starting, Job
  <2> QED BY <2>2, <2>3, <2>4, <2>5 DEF StartInv, Starting
<1>12. ASSUME NEW h \in Handlers, NEW id \in Ids, ReadCompleted(h, id) PROVE StartInv'
  BY <1>12 DEF ReadCompleted, Goto, tables, njord, StartInv, TypeOK, Starting,
     Stopping, Ids, Job, NoJob, Campaign, NoCampaign
<1>13. ASSUME NEW h \in Handlers, NEW id \in Ids, IgnoreCompleted(h, id) PROVE StartInv'
  BY <1>13 DEF IgnoreCompleted, tables, njord, StartInv, TypeOK, Starting,
     Stopping, Ids, Job, NoJob, Campaign, NoCampaign
<1>14. ASSUME NEW h \in Handlers, WriteCompleted(h) PROVE StartInv'
  BY <1>14 DEF WriteCompleted, Goto, Finish, tables, njord, StartInv, TypeOK,
     Starting, Stopping, Ids, Job, NoJob, Campaign, NoCampaign
<1>15. ASSUME NEW h \in Handlers, Fail(h) PROVE StartInv'
  BY <1>15 DEF Fail, Goto, Finish, tables, njord, StartInv, TypeOK, Starting,
     Stopping, Ids, Job, NoJob, Campaign, NoCampaign
<1>16. ASSUME NEW id \in Ids, SkadiSpends(id) PROVE StartInv'
  BY <1>16 DEF SkadiSpends, tables, njord, StartInv, TypeOK, Starting,
     Stopping, Ids, Job, NoJob, Campaign, NoCampaign
<1>17. ASSUME NEW id \in Ids, SkadiEnds(id) PROVE StartInv'
  BY <1>17 DEF SkadiEnds, tables, njord, StartInv, TypeOK, Starting, Stopping,
     Ids, Job, NoJob, Campaign, NoCampaign
<1>18. CASE UNCHANGED vars
  BY <1>18 DEF vars, StartInv, TypeOK, Starting, Stopping, Ids, Job, NoJob, Campaign, NoCampaign
<1> QED
  BY <1>1, <1>2, <1>3, <1>4, <1>5, <1>6, <1>7, <1>8, <1>9,
     <1>10, <1>11, <1>12, <1>13, <1>14, <1>15, <1>16, <1>17, <1>18
  DEF Next, Start, Stop, Complete, Skadi

\* Every action keeps RefInv.
LEMMA RefStep == TypeOK /\ StartInv /\ RefInv /\ [Next]_vars => RefInv'
<1> SUFFICES ASSUME TypeOK /\ StartInv /\ RefInv, [Next]_vars PROVE RefInv'
  OBVIOUS
<1>1. ASSUME NEW h \in Handlers, NEW r \in Refs, NEW total \in Budgets, StartCampaign(h, r, total)
     PROVE RefInv'
  BY <1>1 DEF StartCampaign, Goto, tables, njord, StartInv, RefInv, TypeOK,
     Starting, Stopping, Ids, Job, NoJob, Campaign, NoCampaign
<1>2. ASSUME NEW h \in Handlers, StartSkadi(h) PROVE RefInv'
  BY <1>2 DEF StartSkadi, Goto, tables, njord, StartInv, RefInv, TypeOK,
     Starting, Stopping, Ids, Job, NoJob, Campaign, NoCampaign
<1>3. ASSUME NEW h \in Handlers, BookCampaign(h) PROVE RefInv'
  BY <1>3 DEF BookCampaign, Goto, tables, njord, StartInv, RefInv, TypeOK,
     Starting, Stopping, Ids, Job, NoJob, Campaign, NoCampaign
<1>4. ASSUME NEW h \in Handlers, Charge(h) PROVE RefInv'
  BY <1>4 DEF Charge, Goto, tables, njord, StartInv, RefInv, TypeOK, Starting,
     Stopping, Ids, Job, NoJob, Campaign, NoCampaign
<1>5. ASSUME NEW h \in Handlers, CommitStart(h) PROVE RefInv'
  BY <1>5 DEF CommitStart, Goto, Finish, tables, njord, StartInv, RefInv,
     TypeOK, Starting, Stopping, Ids, Job, NoJob, Campaign, NoCampaign
<1>6. ASSUME NEW h \in Handlers, NEW id \in Ids, StopCampaign(h, id) PROVE RefInv'
  BY <1>6 DEF StopCampaign, Goto, tables, njord, StartInv, RefInv, TypeOK,
     Starting, Stopping, Ids, Job, NoJob, Campaign, NoCampaign
<1>7. ASSUME NEW h \in Handlers, CancelSkadi(h) PROVE RefInv'
  BY <1>7 DEF CancelSkadi, Goto, tables, njord, StartInv, RefInv, TypeOK,
     Starting, Stopping, Ids, Job, NoJob, Campaign, NoCampaign
<1>8. ASSUME NEW h \in Handlers, CancelRefused(h) PROVE RefInv'
  BY <1>8 DEF CancelRefused, Goto, Finish, tables, njord, StartInv, RefInv,
     TypeOK, Starting, Stopping, Ids, Job, NoJob, Campaign, NoCampaign
<1>9. ASSUME NEW h \in Handlers, WriteStop(h) PROVE RefInv'
  BY <1>9 DEF WriteStop, Goto, tables, njord, StartInv, RefInv, TypeOK,
     Starting, Stopping, Ids, Job, NoJob, Campaign, NoCampaign
<1>10. ASSUME NEW h \in Handlers, Refund(h) PROVE RefInv'
  BY <1>10 DEF Refund, Goto, tables, njord, StartInv, RefInv, TypeOK,
     Starting, Stopping, Ids, Job, NoJob, Campaign, NoCampaign
<1>11. ASSUME NEW h \in Handlers, CommitStop(h) PROVE RefInv'
  BY <1>11 DEF CommitStop, Goto, Finish, tables, njord, StartInv, RefInv,
     TypeOK, Starting, Stopping, Ids, Job, NoJob, Campaign, NoCampaign
<1>12. ASSUME NEW h \in Handlers, NEW id \in Ids, ReadCompleted(h, id) PROVE RefInv'
  BY <1>12 DEF ReadCompleted, Goto, tables, njord, StartInv, RefInv, TypeOK,
     Starting, Stopping, Ids, Job, NoJob, Campaign, NoCampaign
<1>13. ASSUME NEW h \in Handlers, NEW id \in Ids, IgnoreCompleted(h, id) PROVE RefInv'
  BY <1>13 DEF IgnoreCompleted, tables, njord, StartInv, RefInv, TypeOK,
     Starting, Stopping, Ids, Job, NoJob, Campaign, NoCampaign
<1>14. ASSUME NEW h \in Handlers, WriteCompleted(h) PROVE RefInv'
  BY <1>14 DEF WriteCompleted, Goto, Finish, tables, njord, StartInv, RefInv,
     TypeOK, Starting, Stopping, Ids, Job, NoJob, Campaign, NoCampaign
<1>15. ASSUME NEW h \in Handlers, Fail(h) PROVE RefInv'
  BY <1>15 DEF Fail, Goto, Finish, tables, njord, StartInv, RefInv, TypeOK,
     Starting, Stopping, Ids, Job, NoJob, Campaign, NoCampaign
<1>16. ASSUME NEW id \in Ids, SkadiSpends(id) PROVE RefInv'
  BY <1>16 DEF SkadiSpends, tables, njord, StartInv, RefInv, TypeOK, Starting,
     Stopping, Ids, Job, NoJob, Campaign, NoCampaign
<1>17. ASSUME NEW id \in Ids, SkadiEnds(id) PROVE RefInv'
  BY <1>17 DEF SkadiEnds, tables, njord, StartInv, RefInv, TypeOK, Starting,
     Stopping, Ids, Job, NoJob, Campaign, NoCampaign
<1>18. CASE UNCHANGED vars
  BY <1>18 DEF vars, StartInv, RefInv, TypeOK, Starting, Stopping, Ids, Job, NoJob, Campaign, NoCampaign
<1> QED
  BY <1>1, <1>2, <1>3, <1>4, <1>5, <1>6, <1>7, <1>8, <1>9,
     <1>10, <1>11, <1>12, <1>13, <1>14, <1>15, <1>16, <1>17, <1>18
  DEF Next, Start, Stop, Complete, Skadi

\* The three parts are inductive together.
LEMMA BookInvariant == Spec => []BookInv
<1>1. Init => BookInv
  BY LimitAssumption
  DEF Init, BookInv, TypeOK, StartInv, RefInv, Starting, Stopping, Ids, NoJob, NoCampaign
<1>2. BookInv /\ [Next]_vars => BookInv'
  BY TypeStep, StartStep, RefStep DEF BookInv
<1> QED BY <1>1, <1>2, PTL DEF Spec

\* Every variable has its type in every reachable state.
THEOREM TypeCorrect == Spec => []TypeOK
<1>1. BookInv => TypeOK
  BY DEF BookInv
<1> QED BY <1>1, BookInvariant, PTL

-----------------------------------------------------------------------------
(* What a boosted post shows, and what its campaign cost.                  *)

\* Who writes campaigns and flags.
LEMMA Writers ==
  ASSUME [Next]_vars
  PROVE  \/ UNCHANGED <<campaigns, flag>>
         \/ \E h \in Handlers : CommitStart(h) \/ CommitStop(h) \/ WriteCompleted(h)
  BY DEF vars, tables, njord, Next, Start, Stop, Complete, Skadi, StartCampaign,
     StartSkadi, BookCampaign, Charge, StopCampaign, CancelSkadi, CancelRefused,
     WriteStop, Refund, ReadCompleted, IgnoreCompleted, Fail, SkadiSpends, SkadiEnds

\* Who spends, charges and refunds.
LEMMA MoneyMovers ==
  ASSUME [Next]_vars
  PROVE  \/ UNCHANGED <<unspent, charged, refunded>>
         \/ \E h \in Handlers : StartSkadi(h) \/ Charge(h) \/ Refund(h)
         \/ \E id \in Ids : SkadiSpends(id)
  BY DEF vars, njord, Next, Start, Stop, Complete, Skadi, StartCampaign, BookCampaign,
     CommitStart, StopCampaign, CancelSkadi, CancelRefused, WriteStop, CommitStop,
     ReadCompleted, IgnoreCompleted, WriteCompleted, Fail, SkadiEnds

\* What the job of a handler is about.
LEMMA JobFacts ==
  ASSUME TypeOK, NEW h \in Handlers, pc[h] # "idle"
  PROVE  job[h].id \in Ids /\ job[h].ref \in Refs /\ job[h].total \in Budgets
  BY DEF TypeOK, Job

\* Every action keeps FlagIsActive: who ends a campaign clears its flag.
LEMMA FlagStep == BookInv /\ FlagIsActive /\ [Next]_vars => FlagIsActive'
<1> SUFFICES ASSUME BookInv, FlagIsActive, [Next]_vars PROVE FlagIsActive'
  OBVIOUS
<1>1. ASSUME NEW h \in Handlers, CommitStart(h) PROVE FlagIsActive'
  <2>1. campaigns[job[h].id] = NoCampaign
    BY <1>1 DEF CommitStart, BookInv, StartInv, Starting
  <2>2. \A r \in Refs : flag[r] # 0 => flag[r] # job[h].id
    BY <2>1 DEF FlagIsActive, NoCampaign
  <2> QED BY <1>1, <2>2, JobFacts DEF CommitStart, FlagIsActive, BookInv, TypeOK
<1>2. ASSUME NEW h \in Handlers, CommitStop(h) PROVE FlagIsActive'
  <2>1. campaigns[job[h].id].ref = job[h].ref
    BY <1>2 DEF CommitStop, BookInv, RefInv, Stopping
  <2>2. \A r \in Refs : flag[r] = job[h].id /\ flag[r] # 0 => r = job[h].ref
    BY <2>1 DEF FlagIsActive
  <2> QED BY <1>2, <2>2, JobFacts DEF CommitStop, FlagIsActive, BookInv, TypeOK
<1>3. ASSUME NEW h \in Handlers, WriteCompleted(h) PROVE FlagIsActive'
  <2>1. campaigns[job[h].id].ref = job[h].ref
    BY <1>3 DEF WriteCompleted, BookInv, RefInv
  <2>2. \A r \in Refs : flag[r] = job[h].id /\ flag[r] # 0 => r = job[h].ref
    BY <2>1 DEF FlagIsActive
  <2> QED BY <1>3, <2>2, JobFacts DEF WriteCompleted, FlagIsActive, BookInv, TypeOK
<1>4. CASE UNCHANGED <<campaigns, flag>>
  BY <1>4 DEF FlagIsActive
<1> QED BY <1>1, <1>2, <1>3, <1>4, Writers

\* A flag always names an active campaign of its own post or squad.
THEOREM FlagShowsActive == Spec => []FlagIsActive
<1>1. Init => FlagIsActive
  BY DEF Init, FlagIsActive
<1> QED BY <1>1, FlagStep, BookInvariant, PTL DEF Spec

\* Every action keeps CampaignIsCharged: only a start in progress is charged.
LEMMA ChargeStep == BookInv /\ CampaignIsCharged /\ [Next]_vars => CampaignIsCharged'
<1> SUFFICES ASSUME BookInv, CampaignIsCharged, [Next]_vars PROVE CampaignIsCharged'
  OBVIOUS
<1> USE DEF BookInv, CampaignIsCharged
<1>1. ASSUME NEW h \in Handlers, Charge(h) PROVE CampaignIsCharged'
  <2>1. campaigns[job[h].id] = NoCampaign /\ UNCHANGED campaigns
    BY <1>1 DEF Charge, tables, StartInv, Starting
  <2> QED BY <1>1, <2>1, JobFacts DEF Charge, TypeOK
<1>2. ASSUME NEW h \in Handlers, CommitStart(h) PROVE CampaignIsCharged'
  <2>1. charged[job[h].id] = job[h].total /\ UNCHANGED charged
    BY <1>2 DEF CommitStart, njord, StartInv, Starting
  <2> QED BY <1>2, <2>1, JobFacts DEF CommitStart, TypeOK
<1>3. ASSUME NEW h \in Handlers, CommitStop(h) \/ WriteCompleted(h) PROVE CampaignIsCharged'
  <2>1. campaigns[job[h].id] \in Campaign
    BY <1>3, JobFacts DEF CommitStop, WriteCompleted, TypeOK, RefInv, Stopping
  <2>2. \A id \in Ids : campaigns'[id] # NoCampaign =>
          campaigns[id] # NoCampaign /\ campaigns'[id].total = campaigns[id].total
    BY <1>3, <2>1, JobFacts DEF CommitStop, WriteCompleted, TypeOK, Campaign, NoCampaign
  <2> QED BY <1>3, <2>2 DEF CommitStop, WriteCompleted, njord
<1>4. ASSUME NEW h \in Handlers, StartSkadi(h) \/ Refund(h) PROVE CampaignIsCharged'
  BY <1>4 DEF StartSkadi, Refund, tables, njord
<1>5. ASSUME NEW id \in Ids, SkadiSpends(id) PROVE CampaignIsCharged'
  BY <1>5 DEF SkadiSpends, tables, njord
<1>6. CASE UNCHANGED <<campaigns, charged>>
  BY <1>6
<1> QED BY <1>1, <1>2, <1>3, <1>4, <1>5, <1>6, Writers, MoneyMovers

\* No campaign is in the database that njord did not charge in full.
THEOREM CampaignWasPaid == Spec => []CampaignIsCharged
<1>1. Init => CampaignIsCharged
  BY DEF Init, CampaignIsCharged
<1> QED BY <1>1, ChargeStep, BookInvariant, PTL DEF Spec

-----------------------------------------------------------------------------
(* Cancelled campaigns.                                                    *)

StaysCancelled ==
  \A id \in Ids : campaigns[id].state = "Cancelled" => campaigns'[id].state = "Cancelled"

\* No action takes a campaign out of Cancelled.
LEMMA CancelledStep == BookInv /\ [Next]_vars => StaysCancelled
<1> SUFFICES ASSUME BookInv, [Next]_vars PROVE StaysCancelled
  OBVIOUS
<1>1. ASSUME NEW h \in Handlers, CommitStart(h) PROVE StaysCancelled
  <2>1. campaigns[job[h].id].state = "none"
    BY <1>1 DEF CommitStart, BookInv, StartInv, Starting, NoCampaign
  <2> QED BY <1>1, <2>1 DEF CommitStart, StaysCancelled, BookInv, TypeOK
<1>2. ASSUME NEW h \in Handlers, CommitStop(h) \/ WriteCompleted(h) PROVE StaysCancelled
  <2>1. campaigns[job[h].id] \in Campaign
    BY <1>2, JobFacts DEF CommitStop, WriteCompleted, BookInv, TypeOK, RefInv, Stopping
  <2> QED BY <1>2, <2>1, JobFacts
          DEF CommitStop, WriteCompleted, StaysCancelled, BookInv, TypeOK, Campaign
<1>3. CASE UNCHANGED <<campaigns, flag>>
  BY <1>3 DEF StaysCancelled
<1> QED BY <1>1, <1>2, <1>3, Writers

\* A cancelled campaign stays cancelled, whatever arrives later.
THEOREM CancelledForGood == Spec => CancelledIsFinal
<1>1. BookInv /\ [Next]_vars
      => [\A id \in Ids : campaigns[id].state = "Cancelled"
            => campaigns'[id].state = "Cancelled"]_vars
  BY CancelledStep DEF StaysCancelled
<1> QED BY <1>1, BookInvariant, PTL DEF Spec, CancelledIsFinal

\* Every action keeps SettleInv.
LEMMA SettleStep == BookInv /\ SettleInv /\ [Next]_vars => SettleInv'
<1> SUFFICES ASSUME BookInv /\ SettleInv, [Next]_vars PROVE SettleInv'
  OBVIOUS
<1>1. ASSUME NEW h \in Handlers, NEW r \in Refs, NEW total \in Budgets, StartCampaign(h, r, total)
     PROVE SettleInv'
  BY <1>1 DEF StartCampaign, Goto, tables, njord, SettleInv, Settling,
     BookInv, TypeOK, StartInv, RefInv, Starting, Stopping, Ids, Job,
     Campaign, NoCampaign, Unspent
<1>2. ASSUME NEW h \in Handlers, StartSkadi(h) PROVE SettleInv'
  BY <1>2 DEF StartSkadi, Goto, tables, njord, SettleInv, Settling, BookInv,
     TypeOK, StartInv, RefInv, Starting, Stopping, Ids, Job, Campaign,
     NoCampaign, Unspent
<1>3. ASSUME NEW h \in Handlers, BookCampaign(h) PROVE SettleInv'
  BY <1>3 DEF BookCampaign, Goto, tables, njord, SettleInv, Settling, BookInv,
     TypeOK, StartInv, RefInv, Starting, Stopping, Ids, Job, Campaign,
     NoCampaign, Unspent
<1>4. ASSUME NEW h \in Handlers, Charge(h) PROVE SettleInv'
  BY <1>4 DEF Charge, Goto, tables, njord, SettleInv, Settling, BookInv,
     TypeOK, StartInv, RefInv, Starting, Stopping, Ids, Job, Campaign,
     NoCampaign, Unspent
<1>5. ASSUME NEW h \in Handlers, CommitStart(h) PROVE SettleInv'
  BY <1>5 DEF CommitStart, Goto, Finish, tables, njord, SettleInv, Settling,
     BookInv, TypeOK, StartInv, RefInv, Starting, Stopping, Ids, Job,
     Campaign, NoCampaign, Unspent
<1>6. ASSUME NEW h \in Handlers, NEW id \in Ids, StopCampaign(h, id) PROVE SettleInv'
  BY <1>6 DEF StopCampaign, Goto, tables, njord, SettleInv, Settling, BookInv,
     TypeOK, StartInv, RefInv, Starting, Stopping, Ids, Job, Campaign,
     NoCampaign, Unspent
<1>7. ASSUME NEW h \in Handlers, CancelSkadi(h) PROVE SettleInv'
  BY <1>7 DEF CancelSkadi, Goto, tables, njord, SettleInv, Settling, BookInv,
     TypeOK, StartInv, RefInv, Starting, Stopping, Ids, Job, Campaign,
     NoCampaign, Unspent
<1>8. ASSUME NEW h \in Handlers, CancelRefused(h) PROVE SettleInv'
  BY <1>8 DEF CancelRefused, Goto, Finish, tables, njord, SettleInv, Settling,
     BookInv, TypeOK, StartInv, RefInv, Starting, Stopping, Ids, Job,
     Campaign, NoCampaign, Unspent
<1>9. ASSUME NEW h \in Handlers, WriteStop(h) PROVE SettleInv'
  BY <1>9 DEF WriteStop, Goto, tables, njord, SettleInv, Settling, BookInv,
     TypeOK, StartInv, RefInv, Starting, Stopping, Ids, Job, Campaign,
     NoCampaign, Unspent
<1>10. ASSUME NEW h \in Handlers, Refund(h) PROVE SettleInv'
  BY <1>10 DEF Refund, Goto, tables, njord, SettleInv, Settling, BookInv,
     TypeOK, StartInv, RefInv, Starting, Stopping, Ids, Job, Campaign,
     NoCampaign, Unspent
<1>11. ASSUME NEW h \in Handlers, CommitStop(h) PROVE SettleInv'
  BY <1>11 DEF CommitStop, Goto, Finish, tables, njord, SettleInv, Settling,
     BookInv, TypeOK, StartInv, RefInv, Starting, Stopping, Ids, Job,
     Campaign, NoCampaign, Unspent
<1>12. ASSUME NEW h \in Handlers, NEW id \in Ids, ReadCompleted(h, id) PROVE SettleInv'
  BY <1>12 DEF ReadCompleted, Goto, tables, njord, SettleInv, Settling,
     BookInv, TypeOK, StartInv, RefInv, Starting, Stopping, Ids, Job,
     Campaign, NoCampaign, Unspent
<1>13. ASSUME NEW h \in Handlers, NEW id \in Ids, IgnoreCompleted(h, id) PROVE SettleInv'
  BY <1>13 DEF IgnoreCompleted, tables, njord, SettleInv, Settling, BookInv,
     TypeOK, StartInv, RefInv, Starting, Stopping, Ids, Job, Campaign,
     NoCampaign, Unspent
<1>14. ASSUME NEW h \in Handlers, WriteCompleted(h) PROVE SettleInv'
  BY <1>14 DEF WriteCompleted, Goto, Finish, tables, njord, SettleInv,
     Settling, BookInv, TypeOK, StartInv, RefInv, Starting, Stopping, Ids,
     Job, Campaign, NoCampaign, Unspent
<1>15. ASSUME NEW h \in Handlers, Fail(h) PROVE SettleInv'
  BY <1>15 DEF Fail, Goto, Finish, tables, njord, SettleInv, Settling,
     BookInv, TypeOK, StartInv, RefInv, Starting, Stopping, Ids, Job,
     Campaign, NoCampaign, Unspent
<1>16. ASSUME NEW id \in Ids, SkadiSpends(id) PROVE SettleInv'
  BY <1>16 DEF SkadiSpends, tables, njord, SettleInv, Settling, BookInv,
     TypeOK, StartInv, RefInv, Starting, Stopping, Ids, Job, Campaign,
     NoCampaign, Unspent
<1>17. ASSUME NEW id \in Ids, SkadiEnds(id) PROVE SettleInv'
  BY <1>17 DEF SkadiEnds, tables, njord, SettleInv, Settling, BookInv, TypeOK,
     StartInv, RefInv, Starting, Stopping, Ids, Job, Campaign, NoCampaign,
     Unspent
<1>18. CASE UNCHANGED vars
  BY <1>18 DEF vars, SettleInv, Settling, Unspent
<1> QED
  BY <1>1, <1>2, <1>3, <1>4, <1>5, <1>6, <1>7, <1>8, <1>9,
     <1>10, <1>11, <1>12, <1>13, <1>14, <1>15, <1>16, <1>17, <1>18
  DEF Next, Start, Stop, Complete, Skadi

\* Skadi does not touch the budget of a campaign it cancelled.
LEMMA RefundStep ==
  BookInv /\ SettleInv /\ RefundIsUnspent /\ CancelledIsSettled /\ [Next]_vars
    => (RefundIsUnspent /\ CancelledIsSettled)'
<1> SUFFICES ASSUME BookInv, SettleInv, RefundIsUnspent, CancelledIsSettled, [Next]_vars
             PROVE  (RefundIsUnspent /\ CancelledIsSettled)'
  OBVIOUS
<1> USE DEF BookInv, SettleInv, RefundIsUnspent, CancelledIsSettled
<1>1. ASSUME NEW h \in Handlers, Refund(h) PROVE (RefundIsUnspent /\ CancelledIsSettled)'
  <2>1. /\ refunded[job[h].id] = 0 /\ job[h].left \in Unspent(job[h])
        /\ campaigns[job[h].id].state # "Cancelled"
    BY <1>1 DEF Refund, Settling
  <2>2. job[h].left <= unspent[job[h].id] /\ job[h].left \in Nat
    BY <1>1, <2>1, JobFacts DEF Refund, Unspent, TypeOK
  <2> QED BY <1>1, <2>1, <2>2, JobFacts DEF Refund, tables, TypeOK
<1>2. ASSUME NEW h \in Handlers, CommitStop(h) PROVE (RefundIsUnspent /\ CancelledIsSettled)'
  <2>1. refunded[job[h].id] \in Unspent(job[h])
    BY <1>2 DEF CommitStop, Settling
  <2>2. unspent[job[h].id] - refunded[job[h].id] \in {0, 1}
    BY <1>2, <2>1, JobFacts DEF CommitStop, Unspent, TypeOK
  <2> QED BY <1>2, <2>2, JobFacts DEF CommitStop, njord, TypeOK
<1>3. ASSUME NEW h \in Handlers, CommitStart(h) \/ WriteCompleted(h)
      PROVE  (RefundIsUnspent /\ CancelledIsSettled)'
  <2>1. \A id \in Ids : campaigns'[id].state = "Cancelled" => campaigns[id].state = "Cancelled"
    BY <1>3, JobFacts DEF CommitStart, WriteCompleted, TypeOK, Campaign, NoCampaign
  <2> QED BY <1>3, <2>1 DEF CommitStart, WriteCompleted, njord
<1>4. ASSUME NEW h \in Handlers, StartSkadi(h) PROVE (RefundIsUnspent /\ CancelledIsSettled)'
  <2>1. skadi[job[h].id] = "none"
    BY <1>4 DEF StartSkadi, StartInv, Starting
  <2> QED BY <1>4, <2>1, JobFacts DEF StartSkadi, tables, njord, TypeOK
<1>5. ASSUME NEW id \in Ids, SkadiSpends(id) PROVE (RefundIsUnspent /\ CancelledIsSettled)'
  BY <1>5 DEF SkadiSpends, tables, njord, TypeOK
<1>6. ASSUME NEW h \in Handlers, Charge(h) PROVE (RefundIsUnspent /\ CancelledIsSettled)'
  BY <1>6 DEF Charge, tables
<1>7. CASE UNCHANGED <<campaigns, unspent, refunded>>
  BY <1>7
<1> QED BY <1>1, <1>2, <1>3, <1>4, <1>5, <1>6, <1>7, Writers, MoneyMovers

\* What the refunds rest on, in every reachable state.
LEMMA SettleInvariant == Spec => [](SettleInv /\ RefundIsUnspent /\ CancelledIsSettled)
<1>1. Init => SettleInv /\ RefundIsUnspent /\ CancelledIsSettled
  BY DEF Init, SettleInv, Settling, RefundIsUnspent, CancelledIsSettled, NoCampaign
<1> QED BY <1>1, SettleStep, RefundStep, BookInvariant, PTL DEF Spec

\* No stop, and no two stops, give back more than skadi left unspent.
THEOREM NoOverRefund == Spec => []RefundIsUnspent
<1> QED BY SettleInvariant, PTL

\* A cancelled campaign is refunded, up to one Core of rounding.
THEOREM CancelledWasSettled == Spec => []CancelledIsSettled
<1> QED BY SettleInvariant, PTL

-----------------------------------------------------------------------------
(* Contributions.                                                          *)

-----------------------------------------------------------------------------
(* Sums.  Induction is over a set of numbers or of sets, since no prover   *)
(* instantiates a theorem whose parameter is a predicate.                  *)

Sum(f, S) == SumFunctionOnSet(f, S)

\* Every number is in a set that has 0 and the successor of what it has.
LEMMA NumberInduction ==
  ASSUME NEW P, 0 \in P, \A n \in Nat : n \in P => n + 1 \in P
  PROVE  \A n \in Nat : n \in P
  <1> SUFFICES ASSUME Nat \ P # {} PROVE FALSE
    OBVIOUS
  <1>1. PICK n \in Nat \ P : \A m \in Nat \ P : <<m, n>> \notin OpToRel(<, Nat)
    BY NatLessThanWellFounded, WFMin, Nat \ P \subseteq Nat
  <1> n \in Nat /\ n \notin P
    OBVIOUS
  <1>2. n # 0
    OBVIOUS
  <1>3. n - 1 \in Nat
    BY <1>2
  <1>4. <<n - 1, n>> \in OpToRel(<, Nat)
    BY <1>3 DEF OpToRel
  <1>5. n - 1 \in P
    BY <1>1, <1>3, <1>4
  <1>6. (n - 1) + 1 \in P
    BY <1>3, <1>5
  <1> QED BY <1>6

\* A finite set is in P if a set is as soon as all its proper subsets are.
LEMMA SubsetInduction ==
  ASSUME NEW S, IsFiniteSet(S), NEW P,
         \A T \in SUBSET S : (\A U \in SUBSET T : U # T => U \in P) => T \in P
  PROVE  S \in P
  <1> DEFINE Q == {n \in Nat : \A T \in SUBSET S : Cardinality(T) <= n => T \in P}
  <1>1. \A T \in SUBSET S : IsFiniteSet(T) /\ Cardinality(T) \in Nat
    BY FS_Subset, FS_CardinalityType
  <1>2. \A T \in SUBSET S : \A U \in SUBSET T : U # T => Cardinality(U) < Cardinality(T)
    <2> SUFFICES ASSUME NEW T \in SUBSET S, NEW U \in SUBSET T, U # T
                 PROVE  Cardinality(U) < Cardinality(T)
      OBVIOUS
    <2>1. IsFiniteSet(T) /\ Cardinality(T) \in Nat /\ Cardinality(U) \in Nat
      BY <1>1
    <2>2. Cardinality(U) <= Cardinality(T) /\ Cardinality(T) # Cardinality(U)
      BY <2>1, FS_Subset
    <2> QED BY <2>1, <2>2
  <1>3. 0 \in Q
    <2> SUFFICES ASSUME NEW T \in SUBSET S, Cardinality(T) <= 0 PROVE T \in P
      OBVIOUS
    <2>1. \A U \in SUBSET T : U = T
      BY <1>1, <1>2
    <2> QED BY <2>1
  <1>4. \A n \in Nat : n \in Q => n + 1 \in Q
    <2> SUFFICES ASSUME NEW n \in Nat, n \in Q, NEW T \in SUBSET S, Cardinality(T) <= n + 1
                 PROVE  T \in P
      OBVIOUS
    <2>1. \A U \in SUBSET T : U # T => Cardinality(U) <= n
      BY <1>1, <1>2
    <2>2. \A U \in SUBSET T : U # T => U \in P
      BY <2>1
    <2> QED BY <2>2
  <1>5. Cardinality(S) \in Q
    <2> HIDE DEF Q
    <2> QED BY <1>1, <1>3, <1>4, NumberInduction
  <1> QED BY <1>1, <1>5

\* A finite set is in P if P has the empty set and each set with an element more.
LEMMA ElementInduction ==
  ASSUME NEW S, IsFiniteSet(S), NEW P, {} \in P,
         \A T \in SUBSET S : \A x \in S : T \in P /\ x \notin T => T \cup {x} \in P
  PROVE  S \in P
  <1>1. \A T \in SUBSET S : (\A U \in SUBSET T : U # T => U \in P) => T \in P
    <2> SUFFICES ASSUME NEW T \in SUBSET S, \A U \in SUBSET T : U # T => U \in P
                 PROVE  T \in P
      OBVIOUS
    <2>1. CASE T = {}
      BY <2>1
    <2>2. CASE T # {}
      <3>1. PICK x \in T : TRUE
        BY <2>2
      <3>2. T \ {x} \in P /\ x \in S /\ T \ {x} \in SUBSET S /\ x \notin T \ {x}
        BY <3>1
      <3>3. T = (T \ {x}) \cup {x}
        BY <3>1
      <3> QED BY <3>2, <3>3
    <2> QED BY <2>1, <2>2
  <1> QED BY <1>1, SubsetInduction

Pick(T) == CHOOSE x \in T : TRUE
Rest(T) == T \ {Pick(T)}
IsSum(g, f, S) == g = [U \in SUBSET S |-> IF U = {} THEN 0 ELSE f[Pick(U)] + g[Rest(U)]]

LEMMA SumUnfold ==
  ASSUME NEW S, NEW f
  PROVE  Sum(f, S) = (CHOOSE g : IsSum(g, f, S))[S]
  BY DEF Sum, SumFunctionOnSet, FoldFunctionOnSet, MapThenFoldSet, IsSum, Pick, Rest

LEMMA PickProperties ==
  ASSUME NEW T, IsFiniteSet(T), T # {}
  PROVE  /\ Pick(T) \in T /\ Rest(T) \in SUBSET T /\ Rest(T) # T /\ IsFiniteSet(Rest(T))
         /\ Cardinality(T) \in Nat /\ Cardinality(Rest(T)) = Cardinality(T) - 1
  <1>1. Pick(T) \in T
    BY DEF Pick
  <1> QED BY <1>1, FS_RemoveElement, FS_CardinalityType DEF Rest

\* The recursion that adds up a finite set has a solution, ...
LEMMA SumExists ==
  ASSUME NEW S, IsFiniteSet(S), NEW f
  PROVE  \E g : IsSum(g, f, S)
  <1> DEFINE Next1(g) == [U \in SUBSET S |-> IF U = {} THEN 0 ELSE f[Pick(U)] + g[Rest(U)]]
             Q == {n \in Nat : \E g : \A U \in SUBSET S :
                     Cardinality(U) <= n => g[U] = Next1(g)[U]}
  <1>1. \A U \in SUBSET S : IsFiniteSet(U) /\ Cardinality(U) \in Nat
    BY FS_Subset, FS_CardinalityType
  <1>2. \A U \in SUBSET S : U # {} =>
          Rest(U) \in SUBSET S /\ Cardinality(Rest(U)) = Cardinality(U) - 1
    BY <1>1, PickProperties
  <1>3. \A U \in SUBSET S : Cardinality(U) <= 0 => U = {}
    BY <1>1, FS_EmptySet
  <1>4. 0 \in Q
    <2> DEFINE g == [U \in SUBSET S |-> 0]
    <2>1. \A U \in SUBSET S : Cardinality(U) <= 0 => g[U] = Next1(g)[U]
      BY <1>3
    <2> QED BY <2>1
  <1>5. \A n \in Nat : \A g :
          (\A U \in SUBSET S : Cardinality(U) <= n => g[U] = Next1(g)[U])
          => \A U \in SUBSET S : Cardinality(U) <= n + 1 => Next1(g)[U] = Next1(Next1(g))[U]
    <2> SUFFICES ASSUME NEW n \in Nat, NEW g,
                        \A U \in SUBSET S : Cardinality(U) <= n => g[U] = Next1(g)[U],
                        NEW U \in SUBSET S, Cardinality(U) <= n + 1
                 PROVE  Next1(g)[U] = Next1(Next1(g))[U]
      OBVIOUS
    <2>1. CASE U = {}
      BY <2>1
    <2>2. CASE U # {}
      <3>1. Rest(U) \in SUBSET S /\ Cardinality(Rest(U)) <= n
        BY <1>1, <1>2, <2>2
      <3>2. g[Rest(U)] = Next1(g)[Rest(U)]
        BY <3>1
      <3> QED BY <2>2, <3>1, <3>2
    <2> QED BY <2>1, <2>2
  <1>6. \A n \in Nat : n \in Q => n + 1 \in Q
    <2> SUFFICES ASSUME NEW n \in Nat, n \in Q PROVE n + 1 \in Q
      OBVIOUS
    <2> HIDE DEF Next1
    <2>1. PICK g : \A U \in SUBSET S : Cardinality(U) <= n => g[U] = Next1(g)[U]
      OBVIOUS
    <2>2. \A U \in SUBSET S : Cardinality(U) <= n + 1 => Next1(g)[U] = Next1(Next1(g))[U]
      BY <1>5, <2>1
    <2>3. \E k : \A U \in SUBSET S : Cardinality(U) <= n + 1 => k[U] = Next1(k)[U]
      <3> WITNESS Next1(g)
      <3> QED BY <2>2
    <2> QED BY <2>3
  <1>7. Cardinality(S) \in Q
    <2> HIDE DEF Q
    <2> QED BY <1>1, <1>4, <1>6, NumberInduction
  <1>8. PICK g : \A U \in SUBSET S : Cardinality(U) <= Cardinality(S) => g[U] = Next1(g)[U]
    BY <1>7
  <1>9. \A U \in SUBSET S : g[U] = Next1(g)[U]
    BY <1>8, FS_Subset
  <1>10. \A U \in SUBSET S : Next1(g)[U] = Next1(Next1(g))[U]
    BY <1>2, <1>9
  <1>11. Next1(g) = Next1(Next1(g))
    BY <1>10
  <1> QED BY <1>11 DEF IsSum

\* ... which is the same on every set that holds what is added up.
LEMMA SumUnique ==
  ASSUME NEW S, IsFiniteSet(S), NEW f, NEW T \in SUBSET S, NEW g, IsSum(g, f, S),
         NEW h, IsSum(h, f, T)
  PROVE  g[T] = h[T]
  <1> DEFINE P == {U \in SUBSET T : g[U] = h[U]}
  <1>1. IsFiniteSet(T)
    BY FS_Subset
  <1>2. \A U \in SUBSET T : (\A V \in SUBSET U : V # U => V \in P) => U \in P
    <2> SUFFICES ASSUME NEW U \in SUBSET T, \A V \in SUBSET U : V # U => V \in P
                 PROVE  g[U] = h[U]
      OBVIOUS
    <2>1. CASE U = {}
      BY <2>1 DEF IsSum
    <2>2. CASE U # {}
      <3>1. Rest(U) \in SUBSET U /\ Rest(U) # U
        BY <1>1, <2>2, PickProperties, FS_Subset
      <3>2. g[Rest(U)] = h[Rest(U)]
        BY <3>1
      <3>3. g[U] = f[Pick(U)] + g[Rest(U)] /\ h[U] = f[Pick(U)] + h[Rest(U)]
        BY <2>2 DEF IsSum
      <3> QED BY <3>2, <3>3
    <2> QED BY <2>1, <2>2
  <1>3. T \in P
    <2> HIDE DEF P
    <2> QED BY <1>1, <1>2, SubsetInduction
  <1> QED BY <1>3

LEMMA SumRecursion ==
  ASSUME NEW S, IsFiniteSet(S), NEW f
  PROVE  Sum(f, S) = IF S = {} THEN 0 ELSE f[Pick(S)] + Sum(f, Rest(S))
  <1> DEFINE g == CHOOSE g : IsSum(g, f, S)
             h == CHOOSE h : IsSum(h, f, Rest(S))
  <1>1. IsSum(g, f, S) /\ Sum(f, S) = g[S]
    BY SumExists, SumUnfold
  <1>2. CASE S = {}
    BY <1>1, <1>2 DEF IsSum
  <1>3. CASE S # {}
    <2>1. Rest(S) \in SUBSET S /\ IsFiniteSet(Rest(S))
      BY <1>3, PickProperties
    <2>2. IsSum(h, f, Rest(S)) /\ Sum(f, Rest(S)) = h[Rest(S)]
      BY <2>1, SumExists, SumUnfold
    <2>3. g[Rest(S)] = h[Rest(S)]
      <3> HIDE DEF g, h
      <3> QED BY <1>1, <2>1, <2>2, SumUnique
    <2>4. g[S] = f[Pick(S)] + g[Rest(S)]
      <3> HIDE DEF g
      <3> QED BY <1>1, <1>3 DEF IsSum
    <2> QED BY <1>1, <1>3, <2>2, <2>3, <2>4
  <1> QED BY <1>2, <1>3

\* A sum of integers is one.
LEMMA SumType ==
  ASSUME NEW S, IsFiniteSet(S), NEW f, \A x \in S : f[x] \in Int
  PROVE  Sum(f, S) \in Int
  <1> DEFINE P == {U \in SUBSET S : Sum(f, U) \in Int}
  <1>1. \A U \in SUBSET S : (\A V \in SUBSET U : V # U => V \in P) => U \in P
    <2> SUFFICES ASSUME NEW U \in SUBSET S, \A V \in SUBSET U : V # U => V \in P
                 PROVE  Sum(f, U) \in Int
      OBVIOUS
    <2>1. IsFiniteSet(U)
      BY FS_Subset
    <2>2. CASE U = {}
      BY <2>1, <2>2, SumRecursion
    <2>3. CASE U # {}
      <3>1. Pick(U) \in S /\ Rest(U) \in P
        BY <2>1, <2>3, PickProperties
      <3> QED BY <2>1, <2>3, <3>1, SumRecursion
    <2> QED BY <2>2, <2>3
  <1>2. S \in P
    <2> HIDE DEF P
    <2> QED BY <1>1, SubsetInduction
  <1> QED BY <1>2

\* The order does not matter: any element may be added last.
LEMMA SumElement ==
  ASSUME NEW S, IsFiniteSet(S), NEW f, \A x \in S : f[x] \in Int, NEW e \in S
  PROVE  Sum(f, S) = f[e] + Sum(f, S \ {e})
  <1> DEFINE P == {U \in SUBSET S : \A x \in U : Sum(f, U) = f[x] + Sum(f, U \ {x})}
  <1>1. \A U \in SUBSET S : (\A V \in SUBSET U : V # U => V \in P) => U \in P
    <2> SUFFICES ASSUME NEW U \in SUBSET S, \A V \in SUBSET U : V # U => V \in P,
                        NEW x \in U
                 PROVE  Sum(f, U) = f[x] + Sum(f, U \ {x})
      OBVIOUS
    <2> DEFINE y == Pick(U)
    <2>1. IsFiniteSet(U) /\ y \in U /\ Rest(U) = U \ {y}
      BY FS_Subset, PickProperties DEF Rest
    <2>2. Sum(f, U) = f[y] + Sum(f, U \ {y})
      BY <2>1, SumRecursion
    <2>3. CASE x = y
      BY <2>2, <2>3
    <2>4. CASE x # y
      <3> HIDE DEF y
      <3>1. U \ {y} \in P /\ U \ {x} \in P
        BY <2>1
      <3>2. x \in U \ {y} /\ y \in U \ {x} /\ (U \ {y}) \ {x} = (U \ {x}) \ {y}
        BY <2>1, <2>4
      <3>3. Sum(f, U \ {y}) = f[x] + Sum(f, (U \ {y}) \ {x})
        BY <3>1, <3>2
      <3>4. Sum(f, U \ {x}) = f[y] + Sum(f, (U \ {y}) \ {x})
        BY <3>1, <3>2
      <3>5. Sum(f, (U \ {y}) \ {x}) \in Int
        <4>1. IsFiniteSet((U \ {y}) \ {x}) /\ (U \ {y}) \ {x} \subseteq S
          BY <2>1, FS_RemoveElement
        <4> QED BY <4>1, SumType
      <3>6. f[x] \in Int /\ f[y] \in Int
        BY <2>1
      <3> QED BY <2>2, <3>3, <3>4, <3>5, <3>6
    <2> QED BY <2>3, <2>4
  <1>2. S \in P
    <2> HIDE DEF P
    <2> QED BY <1>1, SubsetInduction
  <1> QED BY <1>2

LEMMA SumEmpty == \A f : Sum(f, {}) = 0
  BY FS_EmptySet, SumRecursion

LEMMA SumAdd ==
  ASSUME NEW S, IsFiniteSet(S), NEW e, e \notin S, NEW f, f[e] \in Int,
         \A x \in S : f[x] \in Int
  PROVE  /\ Sum(f, S \cup {e}) = Sum(f, S) + f[e]
         /\ Sum(f, S) \in Int /\ IsFiniteSet(S \cup {e})
  <1>1. IsFiniteSet(S \cup {e}) /\ (S \cup {e}) \ {e} = S
    BY FS_AddElement
  <1>2. Sum(f, S) \in Int
    BY SumType
  <1>3. Sum(f, S \cup {e}) = f[e] + Sum(f, S)
    <2>1. e \in S \cup {e} /\ \A x \in S \cup {e} : f[x] \in Int
      OBVIOUS
    <2> QED BY <1>1, <2>1, SumElement
  <1> QED BY <1>1, <1>2, <1>3

\* A sum depends on the values it adds up only.
LEMMA SumSame ==
  ASSUME NEW S, IsFiniteSet(S), NEW f, NEW g, \A x \in S : f[x] = g[x]
  PROVE  Sum(f, S) = Sum(g, S)
  <1> DEFINE P == {U \in SUBSET S : Sum(f, U) = Sum(g, U)}
  <1>1. \A U \in SUBSET S : (\A V \in SUBSET U : V # U => V \in P) => U \in P
    <2> SUFFICES ASSUME NEW U \in SUBSET S, \A V \in SUBSET U : V # U => V \in P
                 PROVE  Sum(f, U) = Sum(g, U)
      OBVIOUS
    <2>1. IsFiniteSet(U)
      BY FS_Subset
    <2>2. CASE U = {}
      BY <2>2, SumEmpty
    <2>3. CASE U # {}
      <3>1. Pick(U) \in S /\ Rest(U) \in P
        BY <2>1, <2>3, PickProperties
      <3> QED BY <2>1, <2>3, <3>1, SumRecursion
    <2> QED BY <2>2, <2>3
  <1>2. S \in P
    <2> HIDE DEF P
    <2> QED BY <1>1, SubsetInduction
  <1> QED BY <1>2

\* What is added up apart is added up together.
LEMMA SumUnion ==
  ASSUME NEW S, IsFiniteSet(S), NEW T, IsFiniteSet(T), S \cap T = {},
         NEW f, \A x \in S \cup T : f[x] \in Int
  PROVE  Sum(f, S \cup T) = Sum(f, S) + Sum(f, T)
  <1> DEFINE P == {U \in SUBSET T : Sum(f, S \cup U) = Sum(f, S) + Sum(f, U)}
  <1>1. {} \in P
    <2>1. Sum(f, S) \in Int
      BY SumType
    <2>2. S \cup {} = S
      OBVIOUS
    <2> QED BY <2>1, <2>2, SumEmpty
  <1>2. \A U \in SUBSET T : \A x \in T : U \in P /\ x \notin U => U \cup {x} \in P
    <2> SUFFICES ASSUME NEW U \in SUBSET T, NEW x \in T, U \in P, x \notin U
                 PROVE  Sum(f, S \cup (U \cup {x})) = Sum(f, S) + Sum(f, U \cup {x})
      OBVIOUS
    <2>1. IsFiniteSet(U) /\ IsFiniteSet(S \cup U)
      BY FS_Subset, FS_Union
    <2>2. x \notin S \cup U /\ f[x] \in Int /\ \A y \in S \cup U : f[y] \in Int
      OBVIOUS
    <2>3. Sum(f, (S \cup U) \cup {x}) = Sum(f, S \cup U) + f[x]
      BY <2>1, <2>2, SumAdd
    <2>4. Sum(f, U \cup {x}) = Sum(f, U) + f[x]
      BY <2>1, <2>2, SumAdd
    <2>5. S \cup (U \cup {x}) = (S \cup U) \cup {x}
      OBVIOUS
    <2>6. Sum(f, S) \in Int /\ Sum(f, U) \in Int
      BY <2>1, <2>2, SumType
    <2>7. Sum(f, S \cup U) = Sum(f, S) + Sum(f, U)
      OBVIOUS
    <2>8. Sum(f, S \cup (U \cup {x})) = (Sum(f, S) + Sum(f, U)) + f[x]
      BY <2>3, <2>5, <2>7
    <2>9. f[x] \in Int
      BY <2>2
    <2> HIDE DEF P
    <2> QED BY <2>4, <2>6, <2>8, <2>9
  <1>3. T \in P
    <2> HIDE DEF P
    <2> QED BY <1>1, <1>2, ElementInduction
  <1> QED BY <1>3

LEMMA SumsOfSums ==
  ASSUME NEW p \in Int, NEW q \in Int, NEW r \in Int, NEW s \in Int, NEW t \in Int, NEW w \in Int,
         p = q + r, s = t + w
  PROVE  p + s = (q + t) + (r + w)
  OBVIOUS

\* b goes g times into a * f, and h remains.
Divides(S, a, f, b, g, h) ==
  \A x \in S : /\ f[x] \in Int /\ g[x] \in Int /\ h[x] \in Int
               /\ a * f[x] = b * g[x] + h[x]

\* What is divided with a remainder element by element is divided as a whole.
LEMMA SumLinear ==
  ASSUME NEW S, IsFiniteSet(S), NEW a \in Int, NEW b \in Int, NEW f, NEW g, NEW h,
         Divides(S, a, f, b, g, h)
  PROVE  a * Sum(f, S) = b * Sum(g, S) + Sum(h, S)
  <1> DEFINE P == {U \in SUBSET S : a * Sum(f, U) = b * Sum(g, U) + Sum(h, U)}
  <1> USE DEF Divides
  <1>1. {} \in P
    BY SumEmpty
  <1>2. \A U \in SUBSET S : \A x \in S : U \in P /\ x \notin U => U \cup {x} \in P
    <2> SUFFICES ASSUME NEW U \in SUBSET S, NEW x \in S, U \in P, x \notin U
                 PROVE  a * Sum(f, U \cup {x}) = b * Sum(g, U \cup {x}) + Sum(h, U \cup {x})
      OBVIOUS
    <2>1. IsFiniteSet(U) /\ \A y \in U : f[y] \in Int /\ g[y] \in Int /\ h[y] \in Int
      BY FS_Subset
    <2>2. f[x] \in Int /\ g[x] \in Int /\ h[x] \in Int
      OBVIOUS
    <2>3. Sum(f, U \cup {x}) = Sum(f, U) + f[x] /\ Sum(f, U) \in Int
      BY <2>1, <2>2, SumAdd
    <2>4. Sum(g, U \cup {x}) = Sum(g, U) + g[x] /\ Sum(g, U) \in Int
      BY <2>1, <2>2, SumAdd
    <2>5. Sum(h, U \cup {x}) = Sum(h, U) + h[x] /\ Sum(h, U) \in Int
      BY <2>1, <2>2, SumAdd
    <2>6. a * (Sum(f, U) + f[x]) = a * Sum(f, U) + a * f[x]
      BY <2>2, <2>3
    <2>7. b * (Sum(g, U) + g[x]) = b * Sum(g, U) + b * g[x]
      BY <2>2, <2>4
    <2>8. a * f[x] = b * g[x] + h[x] /\ a * Sum(f, U) = b * Sum(g, U) + Sum(h, U)
      OBVIOUS
    <2>9. (a * Sum(f, U)) \in Int /\ (b * Sum(g, U)) \in Int
          /\ (a * f[x]) \in Int /\ (b * g[x]) \in Int
      BY <2>2, <2>3, <2>4
    <2>10. a * Sum(f, U) + a * f[x] = (b * Sum(g, U) + b * g[x]) + (Sum(h, U) + h[x])
      BY <2>2, <2>5, <2>8, <2>9, SumsOfSums
    <2> QED BY <2>3, <2>4, <2>5, <2>6, <2>7, <2>10
  <1>3. S \in P
    <2> HIDE DEF P
    <2> QED BY <1>1, <1>2, ElementInduction
  <1> QED BY <1>3

\* A sum of values of at most c is at most c for each.
LEMMA SumBound ==
  ASSUME NEW S, IsFiniteSet(S), NEW c \in Int, NEW f,
         \A x \in S : f[x] \in Int /\ f[x] <= c
  PROVE  Sum(f, S) <= c * Cardinality(S)
  <1> DEFINE P == {U \in SUBSET S : Sum(f, U) <= c * Cardinality(U)}
  <1>1. {} \in P
    BY SumEmpty, FS_EmptySet
  <1>2. \A U \in SUBSET S : \A x \in S : U \in P /\ x \notin U => U \cup {x} \in P
    <2> SUFFICES ASSUME NEW U \in SUBSET S, NEW x \in S, U \in P, x \notin U
                 PROVE  Sum(f, U \cup {x}) <= c * Cardinality(U \cup {x})
      OBVIOUS
    <2>1. IsFiniteSet(U) /\ (\A y \in U : f[y] \in Int) /\ f[x] \in Int
      BY FS_Subset
    <2>2. Sum(f, U \cup {x}) = Sum(f, U) + f[x] /\ Sum(f, U) \in Int
      BY <2>1, SumAdd
    <2>3. Cardinality(U \cup {x}) = Cardinality(U) + 1 /\ Cardinality(U) \in Nat
      BY <2>1, FS_AddElement, FS_CardinalityType
    <2>4. c * (Cardinality(U) + 1) = c * Cardinality(U) + c
      BY <2>3
    <2>5. f[x] <= c /\ Sum(f, U) <= c * Cardinality(U)
      OBVIOUS
    <2> QED BY <2>1, <2>2, <2>3, <2>4, <2>5
  <1>3. S \in P
    <2> HIDE DEF P
    <2> QED BY <1>1, <1>2, ElementInduction
  <1> QED BY <1>3

\* A sum of naturals is one.
LEMMA SumNatural ==
  ASSUME NEW S, IsFiniteSet(S), NEW f, \A x \in S : f[x] \in Nat
  PROVE  Sum(f, S) \in Nat
  <1> DEFINE P == {U \in SUBSET S : Sum(f, U) \in Nat}
  <1>1. {} \in P
    BY SumEmpty
  <1>2. \A U \in SUBSET S : \A x \in S : U \in P /\ x \notin U => U \cup {x} \in P
    <2> SUFFICES ASSUME NEW U \in SUBSET S, NEW x \in S, U \in P, x \notin U
                 PROVE  Sum(f, U \cup {x}) \in Nat
      OBVIOUS
    <2>1. IsFiniteSet(U) /\ (\A y \in U : f[y] \in Int) /\ f[x] \in Int
      BY FS_Subset
    <2>2. Sum(f, U \cup {x}) = Sum(f, U) + f[x]
      BY <2>1, SumAdd
    <2>3. Sum(f, U) \in Nat /\ f[x] \in Nat
      OBVIOUS
    <2> QED BY <2>2, <2>3
  <1>3. S \in P
    <2> HIDE DEF P
    <2> QED BY <1>1, <1>2, ElementInduction
  <1> QED BY <1>3

\* One more for each element of A adds the size of A.
LEMMA SumBonus ==
  ASSUME NEW S, IsFiniteSet(S), NEW A \in SUBSET S, NEW f, NEW g,
         \A x \in S : f[x] \in Int /\ g[x] = f[x] + (IF x \in A THEN 1 ELSE 0)
  PROVE  Sum(g, S) = Sum(f, S) + Cardinality(A)
  <1> DEFINE P == {U \in SUBSET S : Sum(g, U) = Sum(f, U) + Cardinality(A \cap U)}
  <1>0. IsFiniteSet(A)
    BY FS_Subset
  <1>1. {} \in P
    <2>1. A \cap {} = {}
      OBVIOUS
    <2> QED BY <2>1, SumEmpty, FS_EmptySet
  <1>2. \A U \in SUBSET S : \A x \in S : U \in P /\ x \notin U => U \cup {x} \in P
    <2> SUFFICES ASSUME NEW U \in SUBSET S, NEW x \in S, U \in P, x \notin U
                 PROVE  Sum(g, U \cup {x}) = Sum(f, U \cup {x}) + Cardinality(A \cap (U \cup {x}))
      OBVIOUS
    <2>1. IsFiniteSet(U) /\ (\A y \in U : f[y] \in Int /\ g[y] \in Int)
          /\ f[x] \in Int /\ g[x] \in Int
      BY FS_Subset
    <2>2. Sum(f, U \cup {x}) = Sum(f, U) + f[x] /\ Sum(f, U) \in Int
      <3>1. (\A y \in U : f[y] \in Int) /\ f[x] \in Int
        BY <2>1
      <3> QED BY <2>1, <3>1, SumAdd
    <2>3. Sum(g, U \cup {x}) = Sum(g, U) + g[x]
      <3>1. (\A y \in U : g[y] \in Int) /\ g[x] \in Int
        BY <2>1
      <3> QED BY <2>1, <3>1, SumAdd
    <2>4. IsFiniteSet(A \cap U) /\ Cardinality(A \cap U) \in Nat
      BY <1>0, FS_Intersection, FS_CardinalityType
    <2>5. Cardinality(A \cap (U \cup {x})) = Cardinality(A \cap U) + (IF x \in A THEN 1 ELSE 0)
      <3>1. CASE x \in A
        <4>1. A \cap (U \cup {x}) = (A \cap U) \cup {x} /\ x \notin A \cap U
          BY <3>1
        <4> QED BY <2>4, <3>1, <4>1, FS_AddElement
      <3>2. CASE x \notin A
        <4>1. A \cap (U \cup {x}) = A \cap U
          BY <3>2
        <4>2. Cardinality(A \cap (U \cup {x})) = Cardinality(A \cap U)
          BY <4>1
        <4> QED BY <2>4, <3>2, <4>2
      <3> QED BY <3>1, <3>2
    <2>6. Sum(g, U) = Sum(f, U) + Cardinality(A \cap U)
          /\ g[x] = f[x] + (IF x \in A THEN 1 ELSE 0)
      OBVIOUS
    <2> QED BY <2>1, <2>2, <2>3, <2>4, <2>5, <2>6
  <1>3. S \in P
    <2> HIDE DEF P
    <2> QED BY <1>1, <1>2, ElementInduction
  <1>4. A \cap S = A
    OBVIOUS
  <1> QED BY <1>3, <1>4

LEMMA SumConstant ==
  ASSUME NEW S, IsFiniteSet(S), NEW c \in Int, NEW f, \A x \in S : f[x] = c
  PROVE  Sum(f, S) = c * Cardinality(S)
  <1> DEFINE P == {U \in SUBSET S : Sum(f, U) = c * Cardinality(U)}
  <1>1. {} \in P
    BY SumEmpty, FS_EmptySet
  <1>2. \A U \in SUBSET S : \A x \in S : U \in P /\ x \notin U => U \cup {x} \in P
    <2> SUFFICES ASSUME NEW U \in SUBSET S, NEW x \in S, U \in P, x \notin U
                 PROVE  Sum(f, U \cup {x}) = c * Cardinality(U \cup {x})
      OBVIOUS
    <2>1. IsFiniteSet(U) /\ (\A y \in U : f[y] \in Int) /\ f[x] = c
      BY FS_Subset
    <2>2. Sum(f, U \cup {x}) = Sum(f, U) + c /\ Sum(f, U) = c * Cardinality(U)
      BY <2>1, SumAdd
    <2>3. Cardinality(U \cup {x}) = Cardinality(U) + 1 /\ Cardinality(U) \in Nat
      BY <2>1, FS_AddElement, FS_CardinalityType
    <2>4. c * (Cardinality(U) + 1) = c * Cardinality(U) + c
      BY <2>3
    <2> QED BY <2>2, <2>3, <2>4
  <1>3. S \in P
    <2> HIDE DEF P
    <2> QED BY <1>1, <1>2, ElementInduction
  <1> QED BY <1>3

-----------------------------------------------------------------------------
(* Dividing.                                                               *)

LEMMA Division ==
  ASSUME NEW a \in Nat, NEW b \in Nat \ {0}
  PROVE  a \div b \in Nat /\ a % b \in Nat /\ a % b < b /\ a = b * (a \div b) + (a % b)
  <1>1. a % b \in 0..b-1
    OBVIOUS
  <1>2. a \div b \in Int
    OBVIOUS
  <1>3. a = b * (a \div b) + (a % b)
    OBVIOUS
  <1>4. a \div b >= 0
    <2>1. SUFFICES ASSUME a \div b <= -1 PROVE FALSE
      BY <1>2
    <2>2. b * (a \div b) <= -b
      BY <1>2, <2>1
    <2> QED BY <1>1, <1>2, <1>3, <2>2
  <1> QED BY <1>1, <1>2, <1>3, <1>4

\* Of n elements in a row, the first k are k: each has as many before it as its
\* number says.
LEMMA Ranking ==
  ASSUME NEW S, IsFiniteSet(S), NEW B \in [S -> SUBSET S],
         \A c \in S : c \notin B[c],
         \A c, d \in S : d \in B[c] => B[d] \subseteq B[c],
         \A c, d \in S : c # d => c \in B[d] \/ d \in B[c],
         NEW k \in Nat, k <= Cardinality(S)
  PROVE  Cardinality({c \in S : Cardinality(B[c]) < k}) = k
  <1> DEFINE n == Cardinality(S)
             f == [c \in S |-> Cardinality(B[c])]
             K == {c \in S : Cardinality(B[c]) < k}
             g == [c \in K |-> Cardinality(B[c])]
  <1>1. n \in Nat /\ \A c \in S : IsFiniteSet(B[c]) /\ Cardinality(B[c]) \in Nat
    BY FS_Subset, FS_CardinalityType
  <1>2. \A c \in S : Cardinality(B[c]) < n
    <2> SUFFICES ASSUME NEW c \in S PROVE Cardinality(B[c]) < n
      OBVIOUS
    <2>1. B[c] \in SUBSET S /\ B[c] # S
      OBVIOUS
    <2>2. Cardinality(B[c]) <= n /\ n # Cardinality(B[c])
      BY <2>1, FS_Subset
    <2> QED BY <1>1, <2>2
  <1>3. \A c, d \in S : c \in B[d] => Cardinality(B[c]) < Cardinality(B[d])
    <2> SUFFICES ASSUME NEW c \in S, NEW d \in S, c \in B[d]
                 PROVE  Cardinality(B[c]) < Cardinality(B[d])
      OBVIOUS
    <2>1. B[c] \in SUBSET B[d] /\ B[c] # B[d]
      OBVIOUS
    <2>2. Cardinality(B[c]) <= Cardinality(B[d]) /\ Cardinality(B[d]) # Cardinality(B[c])
      BY <1>1, <2>1, FS_Subset
    <2> QED BY <1>1, <2>2
  <1>4. \A c, d \in S : Cardinality(B[c]) = Cardinality(B[d]) => c = d
    BY <1>1, <1>3
  <1>5. IsFiniteSet(0..n-1) /\ Cardinality(0..n-1) = n
    <2> HIDE DEF n
    <2>1. 0 \in Int /\ n - 1 \in Int
      BY <1>1
    <2>2. Cardinality(0..n-1) = IF 0 > n - 1 THEN 0 ELSE (n - 1) - 0 + 1
      BY <2>1, FS_Interval
    <2> QED BY <1>1, <2>1, <2>2, FS_Interval
  <1>6. f \in Injection(S, 0..n-1)
    <2> HIDE DEF n
    <2>1. f \in [S -> 0..n-1]
      BY <1>1, <1>2
    <2>2. \A c, d \in S : f[c] = f[d] => c = d
      BY <1>4
    <2> QED BY <2>1, <2>2, Fun_IsInj
  <1>7. f \in Surjection(S, 0..n-1)
    <2> HIDE DEF f
    <2> QED BY <1>5, <1>6, FS_Injection
  <1>8. \A i \in 0..n-1 : \E c \in S : Cardinality(B[c]) = i
    BY <1>7 DEF Surjection
  <1>9. IsFiniteSet(K) /\ IsFiniteSet(0..k-1) /\ Cardinality(0..k-1) = k
    <2>1. IsFiniteSet(K)
      BY FS_Subset
    <2>2. Cardinality(0..k-1) = IF 0 > k - 1 THEN 0 ELSE (k - 1) - 0 + 1
      BY FS_Interval
    <2> HIDE DEF K
    <2> QED BY <2>1, <2>2, FS_Interval
  <1>10. g \in Bijection(K, 0..k-1)
    <2> HIDE DEF n
    <2>1. g \in [K -> 0..k-1]
      BY <1>1
    <2>2. \A c, d \in K : g[c] = g[d] => c = d
      BY <1>4
    <2>3. \A i \in 0..k-1 : \E c \in K : g[c] = i
      <3> SUFFICES ASSUME NEW i \in 0..k-1 PROVE \E c \in K : g[c] = i
        OBVIOUS
      <3>1. i \in 0..n-1
        BY <1>1 DEF n
      <3>2. PICK c \in S : Cardinality(B[c]) = i
        BY <1>8, <3>1
      <3> QED BY <3>2
    <2> QED BY <2>1, <2>2, <2>3, Fun_IsBij
  <1>11. Cardinality(0..k-1) = Cardinality(K)
    <2>1. ExistsBijection(K, 0..k-1)
      <3> HIDE DEF g
      <3> QED BY <1>10 DEF ExistsBijection
    <2> HIDE DEF K
    <2> QED BY <1>9, <2>1, FS_Bijection
  <1> QED BY <1>9, <1>11

\* The parts of what is split are naturals and add up to it.
LEMMA SplitIsWhole ==
  ASSUME NEW total \in Nat, NEW C \in SUBSET Nat, IsFiniteSet(C), C # {}
  PROVE  /\ splitContributionInteger(total, C) \in [C -> Nat]
         /\ Sum(splitContributionInteger(total, C), C) = total
  <1> DEFINE n == Cardinality(C)
             B == [c \in C |-> {d \in C : d < c}]
             A == {c \in C : Cardinality(B[c]) < total % n}
             f == [c \in C |-> total \div n]
             g == [c \in C |-> total \div n + (IF c \in A THEN 1 ELSE 0)]
  <1>1. n \in Nat \ {0}
    BY FS_CardinalityType, FS_EmptySet
  <1>2. /\ total \div n \in Nat /\ total % n \in Nat /\ total % n < n
        /\ total = n * (total \div n) + (total % n)
    <2> HIDE DEF n
    <2> QED BY <1>1, Division
  <1>3. splitContributionInteger(total, C) = g
    BY DEF splitContributionInteger
  <1>4. Cardinality(A) = total % n
    <2>1. /\ B \in [C -> SUBSET C] /\ \A c \in C : c \notin B[c]
          /\ \A c, d \in C : d \in B[c] => B[d] \subseteq B[c]
          /\ \A c, d \in C : c # d => c \in B[d] \/ d \in B[c]
      <3>1. \A c \in C : B[c] = {d \in C : d < c}
        OBVIOUS
      <3>2. \A c \in C : c \in Int
        OBVIOUS
      <3>3. B \in [C -> SUBSET C]
        OBVIOUS
      <3> HIDE DEF B
      <3>4. \A c \in C : c \notin B[c]
        BY <3>1, <3>2
      <3>5. \A c, d \in C : c # d => c \in B[d] \/ d \in B[c]
        BY <3>1, <3>2
      <3>6. \A c, d \in C : d \in B[c] => B[d] \subseteq B[c]
        <4> SUFFICES ASSUME NEW c \in C, NEW d \in C, d \in B[c], NEW e \in B[d]
                     PROVE  e \in B[c]
          OBVIOUS
        <4>1. e \in C /\ e < d /\ d < c
          BY <3>1
        <4>2. c \in Int /\ d \in Int /\ e \in Int
          BY <3>2, <4>1
        <4>3. e < c
          BY <4>1, <4>2
        <4> QED BY <3>1, <4>1, <4>3
      <3> QED BY <3>3, <3>4, <3>5, <3>6
    <2>2. total % n \in Nat /\ total % n <= Cardinality(C)
      <3> HIDE DEF B
      <3> QED BY <1>1, <1>2
    <2> HIDE DEF B, n
    <2> QED BY <2>1, <2>2, Ranking
  <1>5. Sum(g, C) = Sum(f, C) + Cardinality(A)
    <2>1. A \in SUBSET C
      OBVIOUS
    <2>2. \A x \in C : f[x] \in Int /\ g[x] = f[x] + (IF x \in A THEN 1 ELSE 0)
      <3> HIDE DEF A, n
      <3> QED BY <1>2
    <2> HIDE DEF A, f, g
    <2> QED BY <2>1, <2>2, SumBonus
  <1>6. Sum(f, C) = (total \div n) * n
    <2>1. \A x \in C : f[x] = total \div n
      OBVIOUS
    <2>2. total \div n \in Int
      BY <1>2
    <2> HIDE DEF f
    <2> QED BY <2>1, <2>2, SumConstant
  <1>7. (total \div n) * n = n * (total \div n)
    <2> HIDE DEF n
    <2> QED BY <1>1, <1>2
  <1>8. g \in [C -> Nat]
    <2> HIDE DEF n, A
    <2> QED BY <1>2
  <1> HIDE DEF n, A, f, g
  <1> QED BY <1>1, <1>2, <1>3, <1>4, <1>5, <1>6, <1>7, <1>8

\* The cents of a payment are divided among the users without a rest, and no
\* user's cents are off the exact share by one or more: who gets a cent of those
\* left over has lost some by rounding, since there are at least as many of those
\* as cents.
LEMMA AllocationIsWhole ==
  ASSUME NEW U \in SUBSET Nat, IsFiniteSet(U), NEW points \in [U -> Nat],
         NEW amount \in Nat, NEW total \in Nat \ {0}, Sum(points, U) = total,
         NEW share, share = allocateContributionAmountByPoints(points, amount, total)
  PROVE  /\ share \in [U -> Nat] /\ Sum(share, U) = amount
         /\ \A u \in U : /\ total * share[u] - amount * points[u] < total
                         /\ total * share[u] - amount * points[u] > -total
  <1> DEFINE floor == [u \in U |-> (amount * points[u]) \div total]
             rem == [u \in U |-> (amount * points[u]) % total]
             rc == amount - Sum(floor, U)
             before(u, v) == \/ rem[u] > rem[v]
                             \/ (rem[u] = rem[v] /\ u < v)
             B == [u \in U |-> {v \in U : before(v, u)}]
             A == {u \in U : Cardinality(B[u]) < rc}
             Pos == {u \in U : rem[u] # 0}
  <1>1. share = [u \in U |-> floor[u] + (IF u \in A THEN 1 ELSE 0)]
    <2>1. SumFunction(floor) = Sum(floor, U)
      BY DEF SumFunction, Sum
    <2>2. DOMAIN points = U
      OBVIOUS
    <2> QED BY <2>1, <2>2 DEF allocateContributionAmountByPoints
  <1>2. \A u \in U : /\ floor[u] \in Nat /\ rem[u] \in Nat /\ rem[u] < total
                     /\ amount * points[u] = total * floor[u] + rem[u]
                     /\ points[u] \in Nat
    <2> SUFFICES ASSUME NEW u \in U
                 PROVE /\ floor[u] \in Nat /\ rem[u] \in Nat /\ rem[u] < total
                       /\ amount * points[u] = total * floor[u] + rem[u]
                       /\ points[u] \in Nat
      OBVIOUS
    <2>1. points[u] \in Nat /\ amount * points[u] \in Nat
      OBVIOUS
    <2>2. floor[u] = (amount * points[u]) \div total /\ rem[u] = (amount * points[u]) % total
      OBVIOUS
    <2> HIDE DEF floor, rem
    <2> QED BY <2>1, <2>2, Division
  <1> HIDE DEF floor, rem
  <1>3. Sum(floor, U) \in Int /\ Sum(rem, U) \in Nat /\ rc \in Int
    <2>1. \A u \in U : floor[u] \in Int
      BY <1>2
    <2>2. \A u \in U : rem[u] \in Nat
      BY <1>2
    <2>3. Sum(floor, U) \in Int
      BY <2>1, SumType
    <2>4. Sum(rem, U) \in Nat
      BY <2>2, SumNatural
    <2> QED BY <2>3, <2>4
  <1>4. Sum(rem, U) = total * rc
    <2>1. amount * Sum(points, U) = total * Sum(floor, U) + Sum(rem, U)
      <3>1. \A u \in U : /\ points[u] \in Int /\ floor[u] \in Int /\ rem[u] \in Int
                         /\ amount * points[u] = total * floor[u] + rem[u]
        BY <1>2
      <3>2. Divides(U, amount, points, total, floor, rem)
        BY <3>1 DEF Divides
      <3> QED BY <3>2, SumLinear
    <2>2. amount * total = total * Sum(floor, U) + Sum(rem, U)
      BY <2>1
    <2>3. total * (amount - Sum(floor, U)) = total * amount - total * Sum(floor, U)
      BY <1>3
    <2>4. amount * total = total * amount /\ total * amount \in Int
          /\ total * Sum(floor, U) \in Int
      BY <1>3
    <2> QED BY <1>3, <2>2, <2>3, <2>4
  <1> HIDE DEF rc
  <1>5. rc \in Nat
    <2> SUFFICES ASSUME rc <= -1 PROVE FALSE
      BY <1>3
    <2>1. total * rc <= -total
      BY <1>3
    <2> QED BY <1>3, <1>4, <2>1
  <1>6. IsFiniteSet(Pos) /\ Cardinality(Pos) \in Nat /\ Cardinality(Pos) <= Cardinality(U)
        /\ IsFiniteSet(U \ Pos)
    BY FS_Subset, FS_CardinalityType
  <1>7. rc <= Cardinality(Pos)
    <2>1. Sum(rem, U) = Sum(rem, Pos) + Sum(rem, U \ Pos)
      <3>1. Pos \cup (U \ Pos) = U /\ Pos \cap (U \ Pos) = {}
        OBVIOUS
      <3>2. \A u \in Pos \cup (U \ Pos) : rem[u] \in Int
        BY <1>2
      <3> HIDE DEF Pos
      <3>3. Sum(rem, Pos \cup (U \ Pos)) = Sum(rem, Pos) + Sum(rem, U \ Pos)
        BY <1>6, <3>1, <3>2, SumUnion
      <3> QED BY <3>1, <3>3
    <2>2. Sum(rem, U \ Pos) = 0
      <3>1. \A u \in U \ Pos : rem[u] = 0
        OBVIOUS
      <3>2. Sum(rem, U \ Pos) = 0 * Cardinality(U \ Pos)
        BY <1>6, <3>1, SumConstant
      <3> QED BY <1>6, <3>2, FS_CardinalityType
    <2>3. Sum(rem, Pos) <= (total - 1) * Cardinality(Pos)
      <3>1. \A u \in Pos : rem[u] \in Int /\ rem[u] <= total - 1
        BY <1>2
      <3>2. total - 1 \in Int
        OBVIOUS
      <3> HIDE DEF Pos
      <3> QED BY <1>6, <3>1, <3>2, SumBound
    <2>4. Sum(rem, Pos) \in Int
      <3>1. \A u \in Pos : rem[u] \in Int
        BY <1>2
      <3> HIDE DEF Pos
      <3> QED BY <1>6, <3>1, SumType
    <2>5. total * rc <= (total - 1) * Cardinality(Pos)
      BY <1>4, <2>1, <2>2, <2>3, <2>4
    <2> SUFFICES ASSUME Cardinality(Pos) + 1 <= rc PROVE FALSE
      BY <1>5, <1>6
    <2> HIDE DEF Pos
    <2>6. total * (Cardinality(Pos) + 1) <= total * rc
      BY <1>5, <1>6
    <2>7. total * (Cardinality(Pos) + 1) = (total - 1) * Cardinality(Pos) + Cardinality(Pos) + total
      BY <1>6
    <2> QED BY <1>5, <1>6, <2>5, <2>6, <2>7
  <1>8. \A u, v \in U : u # v => before(u, v) \/ before(v, u)
    BY <1>2
  <1>9. \A u, v, w \in U : before(u, v) /\ before(v, w) => before(u, w)
    BY <1>2
  <1>10. \A u \in U : ~before(u, u)
    BY <1>2
  <1>11. \A u, v \in U : rem[u] = 0 /\ rem[v] # 0 => before(v, u)
    BY <1>2
  <1> HIDE DEF before
  <1>12. Cardinality(A) = rc
    <2>1. B \in [U -> SUBSET U] /\ \A u \in U : u \notin B[u]
      BY <1>10
    <2>2. \A u, v \in U : v \in B[u] => B[v] \subseteq B[u]
      BY <1>9
    <2>3. \A u, v \in U : u # v => u \in B[v] \/ v \in B[u]
      BY <1>8
    <2>4. rc <= Cardinality(U)
      BY <1>5, <1>6, <1>7, FS_CardinalityType
    <2> HIDE DEF B
    <2> QED BY <1>5, <2>1, <2>2, <2>3, <2>4, Ranking
  <1>13. \A u \in U : rem[u] = 0 => u \notin A
    <2> SUFFICES ASSUME NEW u \in U, rem[u] = 0 PROVE ~(Cardinality(B[u]) < rc)
      OBVIOUS
    <2>1. Pos \in SUBSET B[u] /\ B[u] \in SUBSET U
      BY <1>11
    <2>2. IsFiniteSet(B[u]) /\ Cardinality(B[u]) \in Nat
      BY <2>1, FS_Subset, FS_CardinalityType
    <2>3. Cardinality(Pos) <= Cardinality(B[u])
      BY <2>1, <2>2, FS_Subset
    <2> QED BY <1>5, <1>6, <1>7, <2>2, <2>3
  <1>14. A \in SUBSET U
    OBVIOUS
  <1> HIDE DEF A, B
  <1>15. Sum(share, U) = amount
    <2>1. \A u \in U : floor[u] \in Int /\ share[u] = floor[u] + (IF u \in A THEN 1 ELSE 0)
      BY <1>1, <1>2
    <2>2. IsFiniteSet(U)
      OBVIOUS
    <2>3. Sum(share, U) = Sum(floor, U) + Cardinality(A)
      BY ONLY <1>14, <2>1, <2>2, SumBonus
    <2> QED BY <1>3, <1>12, <2>3 DEF rc
  <1>16. share \in [U -> Nat]
    BY <1>1, <1>2
  <1>17. \A u \in U : /\ total * share[u] - amount * points[u] < total
                      /\ total * share[u] - amount * points[u] > -total
    <2> SUFFICES ASSUME NEW u \in U
                 PROVE  /\ total * share[u] - amount * points[u] < total
                        /\ total * share[u] - amount * points[u] > -total
      OBVIOUS
    <2>1. /\ floor[u] \in Nat /\ rem[u] \in Nat /\ rem[u] < total
          /\ amount * points[u] = total * floor[u] + rem[u] /\ total * floor[u] \in Nat
      BY <1>2
    <2>2. CASE u \in A
      <3>1. rem[u] # 0 /\ share[u] = floor[u] + 1
        BY <1>1, <1>13, <2>1, <2>2
      <3>2. total * (floor[u] + 1) = total * floor[u] + total
        BY <2>1
      <3> QED BY <2>1, <3>1, <3>2
    <2>3. CASE u \notin A
      <3>1. share[u] = floor[u]
        BY <1>1, <2>1, <2>3
      <3> QED BY <2>1, <3>1
    <2> QED BY <2>2, <2>3
  <1> QED BY <1>15, <1>16, <1>17

-----------------------------------------------------------------------------
(* The allocations of a payment.                                           *)

\* Values of zero may be left out.
LEMMA SumZeros ==
  ASSUME NEW S, IsFiniteSet(S), NEW T \in SUBSET S, NEW f,
         \A x \in S : f[x] \in Int, \A x \in S \ T : f[x] = 0
  PROVE  Sum(f, T) = Sum(f, S)
  <1>1. IsFiniteSet(T) /\ IsFiniteSet(S \ T) /\ T \cap (S \ T) = {} /\ T \cup (S \ T) = S
    BY FS_Subset
  <1>2. \A x \in T \cup (S \ T) : f[x] \in Int
    OBVIOUS
  <1>3. Sum(f, T \cup (S \ T)) = Sum(f, T) + Sum(f, S \ T)
    BY <1>1, <1>2, SumUnion
  <1>4. Sum(f, S \ T) = 0 * Cardinality(S \ T)
    BY <1>1, SumConstant
  <1>5. Cardinality(S \ T) \in Nat
    BY <1>1, FS_CardinalityType
  <1>6. Sum(f, T) \in Int
    BY <1>1, SumType
  <1>7. Sum(f, S \ T) = 0
    BY <1>4, <1>5
  <1>8. Sum(f, S) = Sum(f, T) + 0
    BY <1>1, <1>3, <1>7
  <1> QED BY <1>6, <1>8

\* R gives the elements of S new names, under which h is what f is.
Renames(S, R, f, h) ==
  /\ \A x, y \in S : R[x] = R[y] => x = y
  /\ \A x \in S : f[x] \in Int /\ h[R[x]] = f[x]

\* Renaming what is added up one to one does not change the sum.
LEMMA SumImage ==
  ASSUME NEW S, IsFiniteSet(S), NEW R, NEW f, NEW h, Renames(S, R, f, h)
  PROVE  IsFiniteSet({R[x] : x \in S}) /\ Sum(h, {R[x] : x \in S}) = Sum(f, S)
  <1> DEFINE P == {U \in SUBSET S :
                     IsFiniteSet({R[x] : x \in U}) /\ Sum(h, {R[x] : x \in U}) = Sum(f, U)}
  <1>1. {} \in P
    <2>1. {R[x] : x \in {}} = {}
      OBVIOUS
    <2> QED BY <2>1, SumEmpty, FS_EmptySet
  <1>2. \A U \in SUBSET S : \A x \in S : U \in P /\ x \notin U => U \cup {x} \in P
    <2> SUFFICES ASSUME NEW U \in SUBSET S, NEW e \in S, U \in P, e \notin U
                 PROVE  U \cup {e} \in P
      OBVIOUS
    <2> DEFINE I == {R[x] : x \in U}
    <2>1. {R[x] : x \in U \cup {e}} = I \cup {R[e]}
      OBVIOUS
    <2>2. R[e] \notin I
      BY DEF Renames
    <2>3. IsFiniteSet(I) /\ Sum(h, I) = Sum(f, U)
      OBVIOUS
    <2>4. (\A y \in I : h[y] \in Int) /\ h[R[e]] \in Int /\ h[R[e]] = f[e]
      BY DEF Renames
    <2>5. IsFiniteSet(U) /\ (\A x \in U : f[x] \in Int) /\ f[e] \in Int
      BY FS_Subset DEF Renames
    <2> HIDE DEF I, P
    <2>6. Sum(h, I \cup {R[e]}) = Sum(h, I) + h[R[e]] /\ IsFiniteSet(I \cup {R[e]})
      <3>1. h[R[e]] \in Int /\ \A y \in I : h[y] \in Int
        BY <2>4
      <3> QED BY ONLY <2>2, <2>3, <3>1, SumAdd
    <2>7. Sum(f, U \cup {e}) = Sum(f, U) + f[e]
      BY <2>5, SumAdd
    <2>8. Sum(h, I \cup {R[e]}) = Sum(f, U \cup {e})
      BY <2>3, <2>4, <2>6, <2>7
    <2>9. U \cup {e} \in SUBSET S
      OBVIOUS
    <2> QED BY <2>1, <2>6, <2>8, <2>9 DEF P
  <1>3. S \in P
    <2> HIDE DEF P
    <2> QED BY <1>1, <1>2, ElementInduction
  <1> QED BY <1>3

\* p are parts without a common element, and w what h adds up to in each.
Parts(U, p, h, w) ==
  /\ \A u \in U : IsFiniteSet(p[u]) /\ w[u] \in Int /\ Sum(h, p[u]) = w[u]
  /\ \A u \in U : \A a \in p[u] : h[a] \in Int
  /\ \A u, v \in U : u # v => p[u] \cap p[v] = {}

\* What is added up part by part is added up as a whole.
LEMMA SumOfParts ==
  ASSUME NEW S, IsFiniteSet(S), NEW p, NEW h, NEW w, Parts(S, p, h, w)
  PROVE  /\ IsFiniteSet(UNION {p[u] : u \in S})
         /\ Sum(h, UNION {p[u] : u \in S}) = Sum(w, S)
  <1> DEFINE P == {U \in SUBSET S : /\ IsFiniteSet(UNION {p[u] : u \in U})
                                    /\ Sum(h, UNION {p[u] : u \in U}) = Sum(w, U)}
  <1>1. {} \in P
    <2>1. UNION {p[u] : u \in {}} = {}
      OBVIOUS
    <2> QED BY <2>1, SumEmpty, FS_EmptySet
  <1>2. \A U \in SUBSET S : \A x \in S : U \in P /\ x \notin U => U \cup {x} \in P
    <2> SUFFICES ASSUME NEW U \in SUBSET S, NEW e \in S, U \in P, e \notin U
                 PROVE  U \cup {e} \in P
      OBVIOUS
    <2> DEFINE I == UNION {p[u] : u \in U}
    <2>1. UNION {p[u] : u \in U \cup {e}} = I \cup p[e]
      OBVIOUS
    <2>2. I \cap p[e] = {}
      BY DEF Parts
    <2>3. IsFiniteSet(I) /\ Sum(h, I) = Sum(w, U)
      OBVIOUS
    <2>4. \A y \in I \cup p[e] : h[y] \in Int
      BY DEF Parts
    <2>5. IsFiniteSet(p[e]) /\ Sum(h, p[e]) = w[e]
      BY DEF Parts
    <2>6. IsFiniteSet(U) /\ (\A x \in U : w[x] \in Int) /\ w[e] \in Int
      BY FS_Subset DEF Parts
    <2> HIDE DEF I
    <2>7. Sum(h, I \cup p[e]) = Sum(h, I) + Sum(h, p[e])
      BY <2>2, <2>3, <2>4, <2>5, SumUnion
    <2>8. IsFiniteSet(I \cup p[e])
      BY <2>3, <2>5, FS_Union
    <2>9. Sum(w, U \cup {e}) = Sum(w, U) + w[e]
      BY <2>6, SumAdd
    <2>10. Sum(h, I \cup p[e]) = Sum(w, U \cup {e})
      BY <2>3, <2>5, <2>7, <2>9
    <2> QED BY <2>1, <2>8, <2>10
  <1>3. S \in P
    <2> HIDE DEF P
    <2> QED BY <1>1, <1>2, ElementInduction
  <1> QED BY <1>3

LEMMA FieldSums == \A A : /\ AmountIn(A) = Sum([a \in A |-> a.amount], A)
                          /\ PointsIn(A) = Sum([a \in A |-> a.points], A)
  BY DEF AmountIn, PointsIn, SumFunction, Sum

Allocation(u, c, points, amount) == [user |-> u, cause |-> c, points |-> points, amount |-> amount]

\* The allocations of user u, who has m points and gets n cents, to the causes C.
PartOf(u, C, m, n) ==
  {a \in {Allocation(u, c, splitContributionInteger(m, C)[c], splitContributionInteger(n, C)[c])
            : c \in C} : a.points > 0 \/ a.amount > 0}

\* They add up, though parts that have neither points nor cents are left out.
LEMMA UserPart ==
  ASSUME NEW u, NEW C \in SUBSET Nat, IsFiniteSet(C), C # {}, NEW m \in Nat, NEW n \in Nat,
         NEW A, A = PartOf(u, C, m, n)
  PROVE  /\ IsFiniteSet(A)
         /\ PointsIn(A) = m /\ AmountIn(A) = n
         /\ \A a \in A : a.user = u /\ a.points \in Nat /\ a.amount \in Nat
  <1> DEFINE f == splitContributionInteger(m, C)
             g == splitContributionInteger(n, C)
             R == [c \in C |-> Allocation(u, c, f[c], g[c])]
             D == {c \in C : f[c] > 0 \/ g[c] > 0}
  <1>1. f \in [C -> Nat] /\ Sum(f, C) = m /\ g \in [C -> Nat] /\ Sum(g, C) = n
    BY SplitIsWhole
  <1> HIDE DEF f, g
  <1>2. A = {R[c] : c \in D}
    BY DEF f, g, Allocation, PartOf
  <1>3. \A c \in C : R[c].points = f[c] /\ R[c].amount = g[c] /\ R[c].cause = c
                     /\ R[c].user = u
    BY DEF Allocation
  <1>4. IsFiniteSet(D) /\ D \in SUBSET C
    BY FS_Subset
  <1>5. Sum(f, D) = m /\ Sum(g, D) = n
    <2>1. \A c \in C : f[c] \in Int /\ g[c] \in Int
      BY <1>1
    <2>2. \A c \in C \ D : f[c] = 0 /\ g[c] = 0
      BY <1>1
    <2>3. (\A c \in C : f[c] \in Int) /\ (\A c \in C \ D : f[c] = 0)
      BY <2>1, <2>2
    <2>4. (\A c \in C : g[c] \in Int) /\ (\A c \in C \ D : g[c] = 0)
      BY <2>1, <2>2
    <2> HIDE DEF D
    <2>5. Sum(f, D) = Sum(f, C)
      BY <1>4, <2>3, SumZeros
    <2>6. Sum(g, D) = Sum(g, C)
      BY <1>4, <2>4, SumZeros
    <2> QED BY <1>1, <2>5, <2>6
  <1>6. \A a \in A : a.user = u /\ a.points \in Nat /\ a.amount \in Nat
    BY <1>1, <1>2, <1>3
  <1> DEFINE p == [a \in A |-> a.points]
             q == [a \in A |-> a.amount]
  <1>7. \A c, d \in D : R[c] = R[d] => c = d
    BY <1>3
  <1>8. \A c \in D : f[c] \in Int /\ p[R[c]] = f[c]
    BY <1>1, <1>2, <1>3
  <1>9. \A c \in D : g[c] \in Int /\ q[R[c]] = g[c]
    BY <1>1, <1>2, <1>3
  <1>10. IsFiniteSet(A) /\ Sum(p, A) = m
    <2> HIDE DEF p, R, D
    <2>1. Renames(D, R, f, p)
      BY <1>7, <1>8 DEF Renames
    <2>2. /\ IsFiniteSet({R[x] : x \in D})
          /\ Sum(p, {R[x] : x \in D}) = Sum(f, D)
      BY ONLY <1>4, <2>1, SumImage
    <2> QED BY <1>2, <1>5, <2>2
  <1>11. Sum(q, A) = n
    <2> HIDE DEF q, R, D
    <2>1. Renames(D, R, g, q)
      BY <1>7, <1>9 DEF Renames
    <2>2. /\ IsFiniteSet({R[x] : x \in D})
          /\ Sum(q, {R[x] : x \in D}) = Sum(g, D)
      BY ONLY <1>4, <2>1, SumImage
    <2> QED BY <1>2, <1>5, <2>2
  <1> QED BY <1>6, <1>10, <1>11, FieldSums

\* A payment is divided to the cent and to the point, and fairly.
Divided(p) ==
  LET part(u) == {a \in p.allocations : a.user = u}
  IN /\ AmountIn(p.allocations) = p.amount
     /\ PointsIn(p.allocations) = p.total
     /\ \A u \in Users :
          LET off == p.total * AmountIn(part(u)) - p.amount * PointsIn(part(u))
          IN off < p.total /\ off > -p.total

LEMMA CausesAreSome ==
  \A u \in Users : CausesOf[u] \in SUBSET Nat /\ IsFiniteSet(CausesOf[u]) /\ CausesOf[u] # {}
  <1> SUFFICES ASSUME NEW u \in Users
               PROVE CausesOf[u] \in SUBSET Nat /\ IsFiniteSet(CausesOf[u]) /\ CausesOf[u] # {}
    OBVIOUS
  <1>1. CausesOf[u] \in SUBSET Causes /\ CausesOf[u] # {}
    BY UserAssumption, PreferenceAssumption DEF CausesOf
  <1> QED BY <1>1, UserAssumption, FS_Subset

LEMMA AllocationsDivide ==
  ASSUME NEW U \in SUBSET Users, IsFiniteSet(U), NEW points \in [U -> Nat],
         NEW amount \in Nat, NEW total \in Nat \ {0}, Sum(points, U) = total,
         NEW p, p.total = total, p.amount = amount,
         p.allocations = getContributionPaymentAllocations(points, amount, total, CausesOf)
  PROVE  Divided(p)
  <1> DEFINE share == allocateContributionAmountByPoints(points, amount, total)
             all == p.allocations
             part == [u \in U |-> {a \in all : a.user = u}]
             cents == [a \in all |-> a.amount]
             marks == [a \in all |-> a.points]
  <1>1. /\ share \in [U -> Nat] /\ Sum(share, U) = amount
        /\ \A u \in U : /\ total * share[u] - amount * points[u] < total
                        /\ total * share[u] - amount * points[u] > -total
    BY UserAssumption, AllocationIsWhole
  <1> HIDE DEF share
  <1>2. all = {a \in UNION {{Allocation(u, c, splitContributionInteger(points[u], CausesOf[u])[c],
                                 splitContributionInteger(share[u], CausesOf[u])[c])
                               : c \in CausesOf[u]} : u \in U} : a.points > 0 \/ a.amount > 0}
    BY DEF getContributionPaymentAllocations, Allocation, share
  <1>3. \A u \in U : part[u] = PartOf(u, CausesOf[u], points[u], share[u])
    <2>1. \A u, c, m, n : Allocation(u, c, m, n).user = u
      BY DEF Allocation
    <2> SUFFICES ASSUME NEW u \in U
                 PROVE  part[u] = PartOf(u, CausesOf[u], points[u], share[u])
      OBVIOUS
    <2>2. part[u] = {a \in all : a.user = u}
      OBVIOUS
    <2> HIDE DEF part, all
    <2> QED BY <1>2, <2>1, <2>2 DEF PartOf
  <1>4. \A u \in U :
          /\ IsFiniteSet(part[u])
          /\ PointsIn(part[u]) = points[u] /\ AmountIn(part[u]) = share[u]
          /\ \A a \in part[u] : a.user = u /\ a.points \in Nat /\ a.amount \in Nat
    <2> SUFFICES ASSUME NEW u \in U
                 PROVE  /\ IsFiniteSet(part[u])
                        /\ PointsIn(part[u]) = points[u] /\ AmountIn(part[u]) = share[u]
                        /\ \A a \in part[u] : a.user = u /\ a.points \in Nat /\ a.amount \in Nat
      OBVIOUS
    <2>1. points[u] \in Nat /\ share[u] \in Nat /\ u \in Users
      BY <1>1
    <2>2. part[u] = PartOf(u, CausesOf[u], points[u], share[u])
      BY <1>3
    <2>3. CausesOf[u] \in SUBSET Nat /\ IsFiniteSet(CausesOf[u]) /\ CausesOf[u] # {}
      BY <2>1, CausesAreSome
    <2> HIDE DEF part
    <2> QED BY ONLY <2>1, <2>2, <2>3, UserPart
  <1>5. UNION {part[u] : u \in U} = all
    <2>1. \A u, c, m, n : Allocation(u, c, m, n).user = u
      BY DEF Allocation
    <2>2. \A a \in all : a.user \in U
      <3> HIDE DEF all
      <3> QED BY <1>2, <2>1
    <2> QED BY <2>2
  <1>6. \A u \in U : \A a \in part[u] : a \in all /\ cents[a] = a.amount /\ marks[a] = a.points
    OBVIOUS
  <1>7. \A u \in U : Sum(cents, part[u]) = share[u] /\ Sum(marks, part[u]) = points[u]
    <2> SUFFICES ASSUME NEW u \in U
                 PROVE  Sum(cents, part[u]) = share[u] /\ Sum(marks, part[u]) = points[u]
      OBVIOUS
    <2> DEFINE cs == [a \in part[u] |-> a.amount]
               ms == [a \in part[u] |-> a.points]
    <2>1. (\A a \in part[u] : cents[a] = cs[a]) /\ (\A a \in part[u] : marks[a] = ms[a])
      BY <1>6
    <2>2. Sum(cs, part[u]) = share[u] /\ Sum(ms, part[u]) = points[u] /\ IsFiniteSet(part[u])
      BY <1>4, FieldSums
    <2> HIDE DEF cs, ms, cents, marks, part
    <2>3. Sum(cents, part[u]) = Sum(cs, part[u])
      BY <2>1, <2>2, SumSame
    <2>4. Sum(marks, part[u]) = Sum(ms, part[u])
      BY <2>1, <2>2, SumSame
    <2> QED BY <2>2, <2>3, <2>4
  <1>8. \A u, v \in U : u # v => part[u] \cap part[v] = {}
    OBVIOUS
  <1>9. Parts(U, part, cents, share) /\ Parts(U, part, marks, points)
    <2>1. \A u \in U : share[u] \in Int /\ points[u] \in Int
      BY <1>1
    <2>2. \A u \in U : \A a \in part[u] : cents[a] \in Int /\ marks[a] \in Int
      <3> SUFFICES ASSUME NEW u \in U, NEW a \in part[u]
                   PROVE  cents[a] \in Int /\ marks[a] \in Int
        OBVIOUS
      <3>1. cents[a] = a.amount /\ marks[a] = a.points
        BY <1>6
      <3>2. a.amount \in Nat /\ a.points \in Nat
        BY <1>4
      <3> HIDE DEF cents, marks, part
      <3> QED BY <3>1, <3>2
    <2> HIDE DEF cents, marks, part
    <2> QED BY <1>4, <1>7, <1>8, <2>1, <2>2 DEF Parts
  <1> HIDE DEF part, all
  <1>10. Sum(cents, all) = amount /\ Sum(marks, all) = total
    <2> HIDE DEF cents, marks
    <2>1. Sum(cents, UNION {part[u] : u \in U}) = Sum(share, U)
      BY <1>9, SumOfParts
    <2>2. Sum(marks, UNION {part[u] : u \in U}) = Sum(points, U)
      BY <1>9, SumOfParts
    <2> QED BY <1>1, <1>5, <2>1, <2>2
  <1>11. AmountIn(all) = amount /\ PointsIn(all) = total
    BY <1>10, FieldSums
  <1>12. \A u \in Users :
           /\ total * AmountIn({a \in all : a.user = u})
                - amount * PointsIn({a \in all : a.user = u}) < total
           /\ total * AmountIn({a \in all : a.user = u})
                - amount * PointsIn({a \in all : a.user = u}) > -total
    <2> SUFFICES ASSUME NEW u \in Users, NEW B, B = {a \in all : a.user = u}
                 PROVE  /\ total * AmountIn(B) - amount * PointsIn(B) < total
                        /\ total * AmountIn(B) - amount * PointsIn(B) > -total
      OBVIOUS
    <2>1. CASE u \in U
      <3>1. B = part[u]
        BY <2>1 DEF part
      <3>2. AmountIn(B) = share[u] /\ PointsIn(B) = points[u]
        BY <1>4, <2>1, <3>1
      <3> QED BY <1>1, <2>1, <3>2
    <2>2. CASE u \notin U
      <3>1. B = {}
        <4>1. \A a \in all : a.user \in U
          <5> SUFFICES ASSUME NEW a \in all PROVE a.user \in U
            OBVIOUS
          <5>1. PICK v \in U : a \in part[v]
            BY <1>5
          <5> QED BY <1>4, <5>1
        <4> QED BY <2>2, <4>1
      <3>2. AmountIn(B) = 0 /\ PointsIn(B) = 0
        BY <3>1, FieldSums, SumEmpty
      <3> QED BY <3>2
    <2> QED BY <2>1, <2>2
  <1> QED BY <1>11, <1>12 DEF Divided, all

-----------------------------------------------------------------------------
(* Invariants of the requests.                                             *)

Stored == {s \in Submissions : submission[s] # NoSubmission}
NoVerdict == [status |-> "none", points |-> {}]
ContributionWork ==
  [submissions: SUBSET Submissions, verdict: Verdicts \cup {NoVerdict},
   amount: Amounts \cup {0}, total: Nat, message: BOOLEAN]

\* What a request has at hand in each place.
Fits(to, w, stored) ==
  /\ to = "idle" => w = NoWork
  /\ to = "insert" => IsFiniteSet(w.submissions)
  /\ to = "review" => w.verdict \in Verdicts
  /\ to \in {"review", "lock", "pay"} => w.submissions \subseteq stored
  /\ to \in {"lock", "pay"} => w.amount \in Amounts
  /\ to \in {"stamp", "ack"} => w.message = TRUE
  /\ w.message = TRUE => to \in {"stamp", "query", "cache", "ack"}
  /\ to = "cache" => w.total \in Milestones \cup {NoMilestone}

RowTypes ==
  /\ submission \in [Submissions -> Submitted \cup {NoSubmission}] /\ IsFiniteSet(Stored)
  /\ payment \in Seq({payment[n] : n \in DOMAIN payment})
  /\ \A s \in Submissions : submission[s].payment <= Len(payment)

MilestoneTypes ==
  reached \subseteq Milestones /\ cache \in {Cold, NoMilestone} \cup Milestones /\ messages \in Nat

RequestTypes ==
  /\ place \in [Requests -> Places] /\ work \in [Requests -> ContributionWork]
  /\ \A r \in Requests : Fits(place[r], work[r], Stored)

HistoryTypes ==
  /\ reviews \in 0..MaxReviews /\ faults \in 0..MaxFaults
  /\ overtaken \subseteq Submissions /\ untold \in BOOLEAN /\ missed \in BOOLEAN

\* A message is handled once at a time, and every payment under way has its number.
Bounded ==
  /\ IsFiniteSet(Handling) /\ Cardinality(Handling) <= messages
  /\ IsFiniteSet(Finalizing) /\ Len(payment) + Cardinality(Finalizing) <= MaxPayments

ContributionTypes ==
  RowTypes /\ MilestoneTypes /\ RequestTypes /\ HistoryTypes /\ Bounded

\* What a payment has locked is not paid, and of no other payment; what a request
\* is about to insert is nowhere else.
Locking ==
  /\ \A r \in Requests : place[r] = "pay" =>
       work[r].submissions \subseteq Unpaid /\ PointsOf(work[r].submissions) # 0
  /\ \A r, v \in Requests : r # v /\ place[r] = "pay" /\ place[v] = "pay" =>
       work[r].submissions \cap work[v].submissions = {}
  /\ \A r \in Requests : place[r] = "insert" =>
       \A s \in work[r].submissions :
         submission[s] = NoSubmission /\ \A v \in Requests : s \in work[v].submissions => v = r

Dividing == \A n \in DOMAIN payment : Divided(payment[n])

\* As long as nothing was missed, whoever is about to write the cache knows the last
\* milestone, and the cache has it unless a worker is about to write it.
Caught ==
  ~missed =>
    /\ \A v \in Requests : place[v] = "cache" => work[v].total = Last(reached)
    /\ \/ cache \in {Cold, Last(reached)}
       \/ \E r \in Requests : place[r] \in Caching /\ work[r].message = TRUE

LEMMA StoredPoints ==
  ASSUME RowTypes, NEW S \in SUBSET Stored
  PROVE  IsFiniteSet(S) /\ PointsOf(S) \in Nat
         /\ PointsOf(S) = Sum([s \in S |-> submission[s].points], S)
  <1> DEFINE f == [s \in S |-> submission[s].points]
  <1>1. IsFiniteSet(S)
    BY FS_Subset DEF RowTypes
  <1>2. \A s \in S : f[s] \in Nat
    BY DEF RowTypes, Stored, Submitted, NoSubmission
  <1>3. PointsOf(S) = Sum(f, S)
    BY DEF PointsOf, SumFunction, Sum
  <1>4. Sum(f, S) \in Nat
    <2> HIDE DEF f
    <2> QED BY <1>1, <1>2, SumNatural
  <1> QED BY <1>1, <1>3, <1>4

LEMMA ApprovedIsStored ==
  ASSUME RowTypes
  PROVE  /\ ApprovedPoints \in Nat /\ Unpaid \subseteq Stored
         /\ \A s \in Submissions : Approved(s) => s \in Stored
  <1>1. \A s \in Submissions : Approved(s) => s \in Stored
    BY DEF Approved, Stored, NoSubmission
  <1>2. {s \in Submissions : Approved(s)} \in SUBSET Stored
    BY <1>1
  <1> QED BY <1>1, <1>2, StoredPoints DEF ApprovedPoints, Unpaid

LEMMA NoWorkIsWork ==
  /\ NoWork \in ContributionWork /\ NoWork.message = FALSE
  /\ \A S : Fits("idle", NoWork, S) /\ Fits("query", NoWork, S)
  BY DEF NoWork, ContributionWork, NoVerdict, Fits

LEMMA LastReached ==
  ASSUME MilestoneTypes
  PROVE  Last(reached) \in Milestones \cup {NoMilestone} /\ Last(reached) \in Nat
  <1> DEFINE n == Cardinality(reached)
             P == {S \in SUBSET Milestones : S = {} \/ \E m \in S : \A k \in S : k <= m}
  <1>1. IsFiniteSet(reached) /\ Milestones \subseteq Nat
    BY MilestoneAssumption, AmountAssumption, FS_Subset DEF MilestoneTypes
  <1>2. \A S \in SUBSET reached : \A x \in reached : S \in P /\ x \notin S => S \cup {x} \in P
    <2> SUFFICES ASSUME NEW S \in SUBSET reached, NEW x \in reached, S \in P
                 PROVE  \E m \in S \cup {x} : \A k \in S \cup {x} : k <= m
      BY SMTT(30) DEF MilestoneTypes
    <2>1. S \cup {x} \subseteq Nat
      BY <1>1 DEF MilestoneTypes
    <2>2. CASE S = {}
      BY <2>1, <2>2
    <2>3. CASE S # {}
      <3>1. PICK m \in S : \A k \in S : k <= m
        BY <2>3
      <3>2. CASE x <= m
        BY <2>1, <3>1, <3>2
      <3>3. CASE m < x
        BY <2>1, <3>1, <3>3
      <3> QED BY <2>1, <3>2, <3>3
    <2> QED BY <2>2, <2>3
  <1>3. {} \in P
    OBVIOUS
  <1>4. reached \in P
    <2> HIDE DEF P
    <2> QED BY <1>1, <1>2, <1>3, ElementInduction
  <1>5. CASE reached = {}
    BY <1>5 DEF Last, NoMilestone
  <1>6. CASE reached # {}
    <2>1. \E m \in reached : \A k \in reached : k <= m
      BY <1>4, <1>6
    <2>2. Last(reached) \in reached
      BY <1>6, <2>1 DEF Last
    <2> QED BY <1>1, <2>2 DEF MilestoneTypes
  <1> QED BY <1>5, <1>6

-----------------------------------------------------------------------------
(* Types.                                                                  *)

\* Request r goes to place p with work w.
Turn(r, p, w) ==
  place' = [place EXCEPT ![r] = p] /\ work' = [work EXCEPT ![r] = w]

LEMMA RequestsTurn ==
  ASSUME RequestTypes, NEW r \in Requests, NEW p \in Places, NEW w \in ContributionWork,
         Turn(r, p, w), Stored \subseteq Stored', Fits(p, w, Stored')
  PROVE  RequestTypes'
  <1>1. /\ place' \in [Requests -> Places] /\ work' \in [Requests -> ContributionWork]
        /\ place'[r] = p /\ work'[r] = w
        /\ \A v \in Requests : v # r => place'[v] = place[v] /\ work'[v] = work[v]
    BY DEF RequestTypes, Turn
  <1>2. \A v \in Requests : v # r => Fits(place'[v], work'[v], Stored')
    <2> SUFFICES ASSUME NEW v \in Requests, v # r PROVE Fits(place[v], work[v], Stored')
      BY <1>1
    <2>1. Fits(place[v], work[v], Stored)
      BY DEF RequestTypes
    <2> QED BY <2>1 DEF Fits
  <1> QED BY <1>1, <1>2 DEF RequestTypes

InPayment == {"lock", "pay"}

\* A request takes a message or a payment only below the limit; a message that is
\* acknowledged and a payment that is committed leave their request.
LEMMA StaysBounded ==
  ASSUME RequestTypes, Bounded, NEW r \in Requests, NEW p \in Places, NEW w \in ContributionWork,
         Turn(r, p, w), messages \in Nat, messages' \in Nat, Len(payment) \in Nat,
         w.message = TRUE => work[r].message = TRUE \/ Cardinality(Handling) < messages,
         \/ messages' >= messages
         \/ (work[r].message = TRUE /\ w.message = FALSE /\ messages' = messages - 1),
         p \in InPayment =>
           place[r] \in InPayment \/ Len(payment) + Cardinality(Finalizing) < MaxPayments,
         \/ Len(payment)' = Len(payment)
         \/ (place[r] \in InPayment /\ p \notin InPayment /\ Len(payment)' = Len(payment) + 1)
  PROVE  Bounded'
  <1>1. /\ place' \in [Requests -> Places] /\ work' \in [Requests -> ContributionWork]
        /\ place'[r] = p /\ work'[r] = w
        /\ \A v \in Requests : v # r => place'[v] = place[v] /\ work'[v] = work[v]
    BY DEF RequestTypes, Turn
  <1>2. \A v \in Requests : work[v].message \in BOOLEAN /\ work'[v].message \in BOOLEAN
    BY <1>1 DEF RequestTypes, ContributionWork
  <1>3. /\ Handling = {v \in Requests : work[v].message = TRUE}
        /\ Handling' = {v \in Requests : work'[v].message = TRUE}
    BY <1>2 DEF Handling
  <1>4. Handling' = IF w.message = TRUE THEN Handling \cup {r} ELSE Handling \ {r}
    BY <1>1, <1>2, <1>3
  <1>5. Finalizing' = IF p \in InPayment THEN Finalizing \cup {r} ELSE Finalizing \ {r}
    BY <1>1 DEF Finalizing, InPayment
  <1>6. IsFiniteSet(Handling) /\ Cardinality(Handling) \in Nat
        /\ IsFiniteSet(Finalizing) /\ Cardinality(Finalizing) \in Nat
        /\ MaxPayments \in Nat
    BY FS_CardinalityType, BoundAssumption DEF Bounded
  <1>7. /\ r \in Handling <=> work[r].message = TRUE
        /\ r \in Finalizing <=> place[r] \in InPayment
    BY <1>3 DEF Finalizing, InPayment
  <1>8. IsFiniteSet(Handling') /\ Cardinality(Handling') <= messages'
    <2>1. CASE w.message = TRUE
      <3>1. Handling' = Handling \cup {r}
        BY <1>4, <2>1
      <3>2. IsFiniteSet(Handling') /\
            Cardinality(Handling') = IF r \in Handling THEN Cardinality(Handling)
                                     ELSE Cardinality(Handling) + 1
        BY <1>6, <3>1, FS_AddElement
      <3> QED BY <1>2, <1>6, <1>7, <2>1, <3>2 DEF Bounded
    <2>2. CASE w.message # TRUE
      <3>1. Handling' = Handling \ {r}
        BY <1>4, <2>2
      <3>2. IsFiniteSet(Handling') /\
            Cardinality(Handling') = IF r \in Handling THEN Cardinality(Handling) - 1
                                     ELSE Cardinality(Handling)
        BY <1>6, <3>1, FS_RemoveElement
      <3> QED BY <1>2, <1>6, <1>7, <2>2, <3>2 DEF Bounded
    <2> QED BY <2>1, <2>2
  <1>9. IsFiniteSet(Finalizing') /\ Len(payment)' + Cardinality(Finalizing') <= MaxPayments
    <2>1. CASE p \in InPayment
      <3>1. Finalizing' = Finalizing \cup {r}
        BY <1>5, <2>1
      <3>2. IsFiniteSet(Finalizing') /\
            Cardinality(Finalizing') = IF r \in Finalizing THEN Cardinality(Finalizing)
                                       ELSE Cardinality(Finalizing) + 1
        BY <1>6, <3>1, FS_AddElement
      <3> QED BY <1>6, <1>7, <2>1, <3>2 DEF Bounded
    <2>2. CASE p \notin InPayment
      <3>1. Finalizing' = Finalizing \ {r}
        BY <1>5, <2>2
      <3>2. IsFiniteSet(Finalizing') /\
            Cardinality(Finalizing') = IF r \in Finalizing THEN Cardinality(Finalizing) - 1
                                       ELSE Cardinality(Finalizing)
        BY <1>6, <3>1, FS_RemoveElement
      <3> QED BY <1>6, <1>7, <2>2, <3>2 DEF Bounded
    <2> QED BY <2>1, <2>2
  <1> QED BY <1>8, <1>9 DEF Bounded

LEMMA RowsStay == RowTypes /\ UNCHANGED rows => RowTypes' /\ Stored' = Stored
  BY DEF RowTypes, rows, Stored

LEMMA InitContributionTypes == ContributionInit => ContributionTypes
  <1> SUFFICES ASSUME ContributionInit PROVE ContributionTypes
    OBVIOUS
  <1> USE DEF ContributionInit
  <1>1. RowTypes
    <2>1. Stored = {}
      BY DEF Stored
    <2>2. \A s \in Submissions : submission[s].payment = 0
      BY DEF NoSubmission
    <2> QED BY <2>1, <2>2, FS_EmptySet DEF RowTypes
  <1>2. MilestoneTypes
    BY DEF MilestoneTypes
  <1>3. RequestTypes
    BY NoWorkIsWork DEF RequestTypes, Places
  <1>4. HistoryTypes
    <2>1. MaxReviews \in Nat /\ MaxFaults \in Nat
      BY BoundAssumption
    <2>2. reviews \in 0..MaxReviews /\ faults \in 0..MaxFaults
      BY <2>1
    <2> QED BY <2>2 DEF HistoryTypes
  <1>5. Bounded
    <2>1. Handling = {}
      BY NoWorkIsWork DEF Handling
    <2>2. Finalizing = {}
      BY DEF Finalizing
    <2> QED BY <2>1, <2>2, FS_EmptySet, BoundAssumption DEF Bounded
  <1> QED BY <1>1, <1>2, <1>3, <1>4, <1>5 DEF ContributionTypes

\* Publishing leaves the types of the messages and of the faults.
LEMMA PublishTypes ==
  ASSUME NEW b, MilestoneTypes, HistoryTypes, Publish(b)
  PROVE  messages' \in Nat /\ messages' >= messages /\ faults' \in 0..MaxFaults
  BY BoundAssumption DEF MilestoneTypes, HistoryTypes, Publish

\* Storing or reviewing a submission leaves the types of the rows.
LEMMA RowTypesKept ==
  ASSUME RowTypes, payment' = payment, NEW T, IsFiniteSet(T), T \subseteq Submissions,
         submission' \in [Submissions -> Submitted \cup {NoSubmission}],
         \A s \in Submissions : s \notin T => submission'[s] = submission[s],
         \A s \in T : submission'[s] # NoSubmission /\ submission'[s].payment = submission[s].payment
  PROVE  RowTypes' /\ Stored \subseteq Stored'
  <1>1. Stored' = Stored \cup T
    BY DEF Stored
  <1>2. IsFiniteSet(Stored')
    BY <1>1, FS_Union DEF RowTypes
  <1>3. \A s \in Submissions : submission'[s].payment <= Len(payment)
    BY DEF RowTypes
  <1> QED BY <1>1, <1>2, <1>3 DEF RowTypes

LEMMA TypesStep == ContributionTypes /\ [ContributionNext]_contributionVars => ContributionTypes'
  <1> SUFFICES ASSUME ContributionTypes, [ContributionNext]_contributionVars
               PROVE  ContributionTypes'
    OBVIOUS
  <1>0. RowTypes /\ MilestoneTypes /\ RequestTypes /\ HistoryTypes /\ Bounded
        /\ messages \in Nat /\ Len(payment) \in Nat
    BY DEF ContributionTypes, MilestoneTypes, RowTypes
  <1>a. \A r \in Requests :
          /\ place[r] \in Places /\ work[r] \in ContributionWork /\ Fits(place[r], work[r], Stored)
          /\ work[r].message \in BOOLEAN
          /\ (place[r] = "idle" => work[r] = NoWork /\ work[r].message = FALSE)
    BY <1>0, NoWorkIsWork DEF RequestTypes, Fits, ContributionWork
  <1>b. NoWork \in ContributionWork /\ NoWork.message = FALSE /\ "idle" \in Places
        /\ "idle" \notin InPayment /\ \A S : Fits("idle", NoWork, S)
    BY NoWorkIsWork DEF Places, InPayment
  <1>1. ASSUME NEW r \in Requests, NEW s \in Submissions, CheckLimit(r, s)
        PROVE  ContributionTypes'
    <2> DEFINE w == [NoWork EXCEPT !.submissions = {s}]
    <2>1. Turn(r, "insert", w) /\ UNCHANGED <<rows, milestoneVars, histVars>>
      BY <1>1 DEF CheckLimit, StartRequest, GoOn, Turn
    <2>2. w \in ContributionWork /\ w.message = FALSE /\ Fits("insert", w, Stored)
          /\ "insert" \in Places /\ "insert" \notin InPayment
      BY FS_Singleton DEF ContributionWork, NoWork, NoVerdict, Fits, Places, InPayment
    <2> HIDE DEF w
    <2>3. RowTypes' /\ Stored' = Stored
      BY <1>0, <2>1, RowsStay
    <2>4. RequestTypes'
      BY <1>0, <2>1, <2>2, <2>3, RequestsTurn
    <2>5. Bounded'
      <3>1. messages' = messages /\ Len(payment)' = Len(payment)
        BY <2>1 DEF milestoneVars, rows
      <3>2. messages' \in Nat /\ messages' >= messages
        BY <1>0, <3>1
      <3> QED BY <1>0, <2>1, <2>2, <3>1, <3>2, StaysBounded
    <2>6. MilestoneTypes' /\ HistoryTypes'
      BY <1>0, <2>1 DEF MilestoneTypes, HistoryTypes, milestoneVars, histVars
    <2> QED BY <2>3, <2>4, <2>5, <2>6 DEF ContributionTypes
  <1>2. ASSUME NEW r \in Requests, InsertSubmission(r)
        PROVE  ContributionTypes'
    <2>1. Turn(r, "idle", NoWork) /\ payment' = payment /\ place[r] = "insert" /\ Publish(TRUE)
      BY <1>2 DEF InsertSubmission, End, GoOn, Turn
    <2>2. messages' \in Nat /\ messages' >= messages /\ faults' \in 0..MaxFaults
      BY <1>0, <2>1, PublishTypes
    <2>3. RowTypes' /\ Stored \subseteq Stored'
      <3> DEFINE T == work[r].submissions \cap {s \in Submissions : submission[s].payment = 0}
      <3>1. IsFiniteSet(work[r].submissions) /\ work[r].submissions \subseteq Submissions
        BY <1>a, <2>1 DEF Fits, ContributionWork
      <3>2. PICK new : /\ new = [status |-> "approved", points |-> ActionPoints, payment |-> 0]
                       /\ submission' = [s \in Submissions |->
                            IF s \in work[r].submissions THEN new ELSE submission[s]]
        BY <1>2 DEF InsertSubmission
      <3>3. new \in Submitted /\ new # NoSubmission /\ new.payment = 0
        BY <3>2, SubmissionAssumption, BoundAssumption
        DEF Submitted, Statuses, Active, NoSubmission
      <3>4. submission \in [Submissions -> Submitted \cup {NoSubmission}]
        BY <1>0 DEF RowTypes
      <3>5. submission' \in [Submissions -> Submitted \cup {NoSubmission}]
        BY <3>2, <3>3, <3>4
      <3>6. Stored' = Stored \cup work[r].submissions
        BY <3>1, <3>2, <3>3 DEF Stored
      <3>7. IsFiniteSet(Stored')
        BY <1>0, <3>1, <3>6, FS_Union DEF RowTypes
      <3>8. \A s \in Submissions : submission'[s].payment <= Len(payment)
        BY <1>0, <3>2, <3>3 DEF RowTypes
      <3> QED BY <1>0, <2>1, <3>5, <3>6, <3>7, <3>8 DEF RowTypes
    <2>4. RequestTypes'
      BY <1>0, <1>b, <2>1, <2>3, RequestsTurn
    <2>5. Bounded'
      <3>1. Len(payment)' = Len(payment)
        BY <2>1
      <3> QED BY <1>0, <1>b, <2>1, <2>2, <3>1, StaysBounded
    <2>6. MilestoneTypes' /\ HistoryTypes'
      BY <1>0, <1>2, <2>2 DEF InsertSubmission, MilestoneTypes, HistoryTypes
    <2> QED BY <2>3, <2>4, <2>5, <2>6 DEF ContributionTypes
  <1>3. ASSUME NEW r \in Requests, NEW s \in Submissions, NEW v \in Verdicts, BeginReview(r, s, v)
        PROVE  ContributionTypes'
    <2> DEFINE w == [NoWork EXCEPT !.submissions = {s}, !.verdict = v]
    <2>1. Turn(r, "review", w)
          /\ UNCHANGED <<rows, milestoneVars, faults, overtaken, untold, missed>>
          /\ reviews < MaxReviews /\ reviews' = reviews + 1
      BY <1>3 DEF BeginReview, StartRequest, GoOn, Turn
    <2>2. w \in ContributionWork /\ w.message = FALSE /\ Fits("review", w, Stored)
          /\ "review" \in Places /\ "review" \notin InPayment
      BY <1>3 DEF BeginReview, Stored, ContributionWork, NoWork, NoVerdict, Fits, Places, InPayment
    <2> HIDE DEF w
    <2>3. RowTypes' /\ Stored' = Stored
      BY <1>0, <2>1, RowsStay
    <2>4. RequestTypes'
      BY <1>0, <2>1, <2>2, <2>3, RequestsTurn
    <2>5. Bounded'
      <3>1. messages' = messages /\ Len(payment)' = Len(payment)
        BY <2>1 DEF milestoneVars, rows
      <3>2. messages' \in Nat /\ messages' >= messages
        BY <1>0, <3>1
      <3> QED BY <1>0, <2>1, <2>2, <3>1, <3>2, StaysBounded
    <2>6. MilestoneTypes' /\ HistoryTypes'
      BY <1>0, <2>1, BoundAssumption DEF MilestoneTypes, HistoryTypes, milestoneVars
    <2> QED BY <2>3, <2>4, <2>5, <2>6 DEF ContributionTypes
  <1>4. ASSUME NEW r \in Requests, NEW s \in Submissions, WriteReview(r, s)
        PROVE  ContributionTypes'
    <2> DEFINE w == work[r].verdict
               n == IF w.points = {} THEN submission[s].points ELSE CHOOSE k \in w.points : TRUE
               b == w.status = "approved" /\ ~Approved(s)
    <2>1. /\ Turn(r, "idle", NoWork) /\ payment' = payment /\ place[r] = "review"
          /\ s \in work[r].submissions /\ Publish(b)
          /\ submission' = [submission EXCEPT ![s].status = w.status, ![s].points = n]
      BY <1>4 DEF WriteReview, End, GoOn, Turn
    <2>2. messages' \in Nat /\ messages' >= messages /\ faults' \in 0..MaxFaults
      <3> HIDE DEF b
      <3> QED BY <1>0, <2>1, PublishTypes
    <2>3. w \in Verdicts /\ s \in Stored /\ w.status \in Statuses /\ w.points \subseteq Nat
      BY <1>a, <2>1, VerdictAssumption DEF Fits
    <2>4. RowTypes' /\ Stored \subseteq Stored'
      <3>1. submission \in [Submissions -> Submitted \cup {NoSubmission}]
            /\ submission[s] \in Submitted
        BY <1>0, <2>3 DEF RowTypes, Stored
      <3>2. n \in Nat
        BY <2>3, <3>1 DEF Submitted
      <3> HIDE DEF n, w
      <3>3. submission' \in [Submissions -> Submitted \cup {NoSubmission}]
        BY <2>1, <2>3, <3>1, <3>2 DEF Submitted
      <3>4. \A v \in Submissions : v \notin {s} => submission'[v] = submission[v]
        BY <2>1, <3>1
      <3>5. submission'[s] # NoSubmission /\ submission'[s].payment = submission[s].payment
        BY <2>1, <2>3, <3>1 DEF NoSubmission, Submitted, Statuses, Active
      <3>6. IsFiniteSet({s}) /\ {s} \subseteq Submissions
        BY FS_Singleton
      <3> QED BY <1>0, <2>1, <3>3, <3>4, <3>5, <3>6, RowTypesKept
    <2>5. RequestTypes'
      BY <1>0, <1>b, <2>1, <2>4, RequestsTurn
    <2>6. Bounded'
      <3>1. Len(payment)' = Len(payment)
        BY <2>1
      <3> QED BY <1>0, <1>b, <2>1, <2>2, <3>1, StaysBounded
    <2>7. MilestoneTypes'
      BY <1>0, <1>4, <2>2 DEF WriteReview, MilestoneTypes
    <2>8. HistoryTypes'
      <3>1. reviews' = reviews /\ missed' = missed /\ untold' \in BOOLEAN
            /\ overtaken' \subseteq Submissions
        BY <1>0, <1>4 DEF WriteReview, HistoryTypes
      <3> QED BY <1>0, <2>2, <3>1 DEF HistoryTypes
    <2> QED BY <2>4, <2>5, <2>6, <2>7, <2>8 DEF ContributionTypes
  <1>5. ASSUME NEW r \in Requests, NEW m \in Amounts, BeginPayment(r, m)
        PROVE  ContributionTypes'
    <2> DEFINE w == [NoWork EXCEPT !.submissions = Unpaid, !.amount = m]
    <2>1. Turn(r, "lock", w) /\ UNCHANGED <<rows, milestoneVars, histVars>>
          /\ Len(payment) + Cardinality(Finalizing) < MaxPayments
      BY <1>5 DEF BeginPayment, StartRequest, GoOn, Turn
    <2>2. w \in ContributionWork /\ w.message = FALSE /\ Fits("lock", w, Stored)
          /\ "lock" \in Places
      <3>1. Unpaid \subseteq Stored /\ Unpaid \subseteq Submissions
        BY <1>0, ApprovedIsStored DEF Unpaid
      <3> QED BY <3>1 DEF ContributionWork, NoWork, NoVerdict, Fits, Places
    <2> HIDE DEF w
    <2>3. RowTypes' /\ Stored' = Stored
      BY <1>0, <2>1, RowsStay
    <2>4. RequestTypes'
      BY <1>0, <2>1, <2>2, <2>3, RequestsTurn
    <2>5. Bounded'
      <3>1. messages' = messages /\ Len(payment)' = Len(payment)
        BY <2>1 DEF milestoneVars, rows
      <3>2. messages' \in Nat /\ messages' >= messages
        BY <1>0, <3>1
      <3> QED BY <1>0, <2>1, <2>2, <3>1, <3>2, StaysBounded
    <2>6. MilestoneTypes' /\ HistoryTypes'
      BY <1>0, <2>1 DEF MilestoneTypes, HistoryTypes, milestoneVars, histVars
    <2> QED BY <2>3, <2>4, <2>5, <2>6 DEF ContributionTypes
  <1>6. ASSUME NEW r \in Requests, LockSubmissions(r)
        PROVE  ContributionTypes'
    <2> DEFINE w == [work[r] EXCEPT !.submissions = StillUnpaid(r)]
    <2>1. UNCHANGED <<rows, milestoneVars, histVars>> /\ place[r] = "lock" /\ place[r] \in InPayment
      BY <1>6 DEF LockSubmissions, InPayment
    <2>2. RowTypes' /\ Stored' = Stored
      BY <1>0, <2>1, RowsStay
    <2>3. messages' = messages /\ Len(payment)' = Len(payment)
      BY <2>1 DEF milestoneVars, rows
    <2>4. messages' \in Nat /\ messages' >= messages
      BY <1>0, <2>3
    <2>5. w \in ContributionWork /\ Fits("pay", w, Stored) /\ w.message = work[r].message
          /\ "pay" \in Places
      <3>1. work[r] \in ContributionWork /\ Fits("lock", work[r], Stored)
        BY <1>a, <2>1
      <3>2. StillUnpaid(r) \subseteq work[r].submissions
        BY DEF StillUnpaid
      <3> QED BY <3>1, <3>2 DEF ContributionWork, Fits, Places
    <2>6. \/ Turn(r, "idle", NoWork)
          \/ Turn(r, "pay", w)
      BY <1>6, <1>a DEF LockSubmissions, End, GoOn, Turn, RequestTypes
    <2> HIDE DEF w
    <2>7. RequestTypes' /\ Bounded'
      <3>1. CASE Turn(r, "idle", NoWork)
        BY <1>0, <1>b, <2>2, <2>3, <2>4, <3>1, RequestsTurn, StaysBounded
      <3>2. CASE Turn(r, "pay", w)
        BY <1>0, <2>1, <2>2, <2>3, <2>4, <2>5, <3>2, RequestsTurn, StaysBounded
      <3> QED BY <2>6, <3>1, <3>2
    <2>8. MilestoneTypes' /\ HistoryTypes'
      BY <1>0, <2>1 DEF MilestoneTypes, HistoryTypes, milestoneVars, histVars
    <2> QED BY <2>2, <2>7, <2>8 DEF ContributionTypes
  <1>7. ASSUME NEW r \in Requests, CommitPayment(r)
        PROVE  ContributionTypes'
    <2> DEFINE S == work[r].submissions
               x == Payment(S, work[r].amount)
    <2>1. /\ Turn(r, "idle", NoWork) /\ place[r] = "pay" /\ place[r] \in InPayment
          /\ payment' = Append(payment, x) /\ UNCHANGED <<milestoneVars, histVars>>
          /\ submission' = [s \in Submissions |->
               IF s \in S THEN [submission[s] EXCEPT !.payment = Len(payment) + 1] ELSE submission[s]]
      BY <1>7 DEF CommitPayment, End, GoOn, Turn, InPayment
    <2> HIDE DEF x
    <2>2. S \subseteq Stored
      BY <1>a, <2>1 DEF Fits
    <2>3. /\ payment \in Seq({payment[n] : n \in DOMAIN payment})
          /\ Len(payment)' = Len(payment) + 1
          /\ \A n \in 1..Len(payment) : payment'[n] = payment[n]
          /\ DOMAIN payment' = 1..(Len(payment) + 1) /\ payment'[Len(payment) + 1] = x
          /\ payment' \in Seq({payment'[n] : n \in DOMAIN payment'})
      <3> DEFINE T == {payment[n] : n \in DOMAIN payment}
                 V == {payment'[n] : n \in DOMAIN payment'}
      <3>1. payment \in Seq(T)
        BY <1>0 DEF RowTypes
      <3>2. payment \in Seq(T \cup {x}) /\ x \in T \cup {x}
        <4> HIDE DEF T
        <4> QED BY <3>1
      <3>3. /\ Len(payment)' = Len(payment) + 1
            /\ \A n \in 1..Len(payment) : payment'[n] = payment[n]
            /\ DOMAIN payment' = 1..(Len(payment) + 1) /\ payment'[Len(payment) + 1] = x
            /\ DOMAIN payment = 1..Len(payment)
            /\ payment' \in Seq(T \cup {x})
        <4> HIDE DEF T
        <4> QED BY <2>1, <3>2
      <3>4. \A n \in 1..Len(payment') : payment'[n] \in V
        BY <3>3
      <3>5. payment' \in Seq(V)
        <4> HIDE DEF T, V
        <4> QED BY <3>3, <3>4
      <3> QED BY <3>1, <3>3, <3>5
    <2>4. RowTypes' /\ Stored' = Stored
      <3>1. submission \in [Submissions -> Submitted \cup {NoSubmission}]
            /\ \A s \in S : submission[s] \in Submitted
        BY <1>0, <2>2 DEF RowTypes, Stored
      <3>2. Len(payment) + 1 \in 0..MaxPayments
        <4>1. r \in Finalizing /\ IsFiniteSet(Finalizing)
          BY <1>0, <2>1 DEF Finalizing, Bounded
        <4>2. Cardinality(Finalizing) \in Nat /\ Cardinality(Finalizing) # 0
          BY <4>1, FS_CardinalityType, FS_EmptySet
        <4> QED BY <1>0, <4>2, BoundAssumption DEF Bounded
      <3>3. \A s \in S : submission'[s] \in Submitted /\ submission'[s].payment = Len(payment) + 1
                         /\ submission'[s] # NoSubmission
        <4> SUFFICES ASSUME NEW s \in S
                     PROVE  submission'[s] \in Submitted /\ submission'[s].payment = Len(payment) + 1
                            /\ submission'[s] # NoSubmission
          OBVIOUS
        <4>1. s \in Submissions
          BY <2>2 DEF Stored
        <4>2. submission'[s] = [submission[s] EXCEPT !.payment = Len(payment) + 1]
          BY <2>1, <4>1
        <4>3. submission[s] \in Submitted
          BY <3>1
        <4> QED BY <3>2, <4>2, <4>3 DEF Submitted, NoSubmission, Statuses, Active
      <3>4. \A s \in Submissions : s \notin S => submission'[s] = submission[s]
        BY <2>1
      <3>5. submission' \in [Submissions -> Submitted \cup {NoSubmission}]
        BY <2>1, <3>1, <3>3, <3>4
      <3>6. Stored' = Stored
        BY <2>2, <3>3, <3>4 DEF Stored
      <3>7. \A s \in Submissions : submission'[s].payment <= Len(payment)'
        <4> SUFFICES ASSUME NEW s \in Submissions PROVE submission'[s].payment <= Len(payment) + 1
          BY <2>3
        <4>1. CASE s \in S
          BY <1>0, <3>3, <4>1
        <4>2. CASE s \notin S
          <5>1. submission[s].payment \in Int /\ submission[s].payment <= Len(payment)
            BY <1>0 DEF RowTypes, Submitted, NoSubmission
          <5> QED BY <1>0, <3>4, <4>2, <5>1
        <4> QED BY <4>1, <4>2
      <3> QED BY <1>0, <2>3, <3>5, <3>6, <3>7 DEF RowTypes
    <2>5. RequestTypes'
      BY <1>0, <1>b, <2>1, <2>4, RequestsTurn
    <2>6. Bounded'
      <3>1. messages' = messages
        BY <2>1 DEF milestoneVars
      <3>2. messages' \in Nat /\ messages' >= messages
        BY <1>0, <3>1
      <3> QED BY <1>0, <1>b, <2>1, <2>3, <3>2, StaysBounded
    <2>7. MilestoneTypes' /\ HistoryTypes'
      BY <1>0, <2>1 DEF MilestoneTypes, HistoryTypes, milestoneVars, histVars
    <2> QED BY <2>4, <2>5, <2>6, <2>7 DEF ContributionTypes
  <1>8. ASSUME NEW r \in Requests, SumPoints(r)
        PROVE  ContributionTypes'
    <2> DEFINE w == [NoWork EXCEPT !.message = TRUE, !.total = ApprovedPoints]
    <2>1. Turn(r, "stamp", w) /\ UNCHANGED <<rows, milestoneVars, histVars>>
          /\ Cardinality(Handling) < messages
      BY <1>8 DEF SumPoints, StartRequest, GoOn, Turn
    <2>2. w \in ContributionWork /\ w.message = TRUE /\ Fits("stamp", w, Stored)
          /\ "stamp" \in Places /\ "stamp" \notin InPayment
      <3>1. ApprovedPoints \in Nat
        BY <1>0, ApprovedIsStored
      <3> QED BY <3>1 DEF ContributionWork, NoWork, NoVerdict, Fits, Places, InPayment
    <2> HIDE DEF w
    <2>3. RowTypes' /\ Stored' = Stored
      BY <1>0, <2>1, RowsStay
    <2>4. RequestTypes'
      BY <1>0, <2>1, <2>2, <2>3, RequestsTurn
    <2>5. Bounded'
      <3>1. messages' = messages /\ Len(payment)' = Len(payment)
        BY <2>1 DEF milestoneVars, rows
      <3>2. messages' \in Nat /\ messages' >= messages
        BY <1>0, <3>1
      <3> QED BY <1>0, <2>1, <2>2, <3>1, <3>2, StaysBounded
    <2>6. MilestoneTypes' /\ HistoryTypes'
      BY <1>0, <2>1 DEF MilestoneTypes, HistoryTypes, milestoneVars, histVars
    <2> QED BY <2>3, <2>4, <2>5, <2>6 DEF ContributionTypes
  <1>9. ASSUME NEW r \in Requests, detectContributionMilestones(r)
        PROVE  ContributionTypes'
    <2> DEFINE w == work[r]
               p == IF Crossed(r) = {} THEN "ack" ELSE "query"
    <2>1. /\ Turn(r, p, w) /\ UNCHANGED <<rows, cache, messages, reviews, faults, overtaken, untold>>
          /\ place[r] = "stamp" /\ reached' = reached \cup Crossed(r) /\ missed' \in BOOLEAN
      BY <1>0, <1>9 DEF detectContributionMilestones, GoOn, Turn, RequestTypes, HistoryTypes
    <2>2. w \in ContributionWork /\ Fits(p, w, Stored) /\ p \in Places /\ p \notin InPayment
      BY <1>a, <2>1 DEF Fits, Places, InPayment
    <2> HIDE DEF w, p
    <2>3. RowTypes' /\ Stored' = Stored
      BY <1>0, <2>1, RowsStay
    <2>4. RequestTypes'
      BY <1>0, <2>1, <2>2, <2>3, RequestsTurn
    <2>5. Bounded'
      <3>1. messages' = messages /\ Len(payment)' = Len(payment)
        BY <2>1 DEF rows
      <3>2. messages' \in Nat /\ messages' >= messages
        BY <1>0, <3>1
      <3>3. w.message = work[r].message
        BY DEF w
      <3> QED BY <1>0, <2>1, <2>2, <3>1, <3>2, <3>3, StaysBounded
    <2>6. MilestoneTypes' /\ HistoryTypes'
      BY <1>0, <2>1 DEF MilestoneTypes, HistoryTypes, Crossed
    <2> QED BY <2>3, <2>4, <2>5, <2>6 DEF ContributionTypes
  <1>10. ASSUME NEW r \in Requests, getLastReachedMilestone(r)
         PROVE  ContributionTypes'
    <2>1. Turn(r, "query", NoWork) /\ UNCHANGED <<rows, milestoneVars, histVars>>
      BY <1>10 DEF getLastReachedMilestone, StartRequest, GoOn, Turn
    <2>2. Fits("query", NoWork, Stored) /\ "query" \in Places /\ "query" \notin InPayment
      BY NoWorkIsWork DEF Places, InPayment
    <2>3. RowTypes' /\ Stored' = Stored
      BY <1>0, <2>1, RowsStay
    <2>4. RequestTypes'
      BY <1>0, <1>b, <2>1, <2>2, <2>3, RequestsTurn
    <2>5. Bounded'
      <3>1. messages' = messages /\ Len(payment)' = Len(payment)
        BY <2>1 DEF milestoneVars, rows
      <3>2. messages' \in Nat /\ messages' >= messages
        BY <1>0, <3>1
      <3> QED BY <1>0, <1>b, <2>1, <2>2, <3>1, <3>2, StaysBounded
    <2>6. MilestoneTypes' /\ HistoryTypes'
      BY <1>0, <2>1 DEF MilestoneTypes, HistoryTypes, milestoneVars, histVars
    <2> QED BY <2>3, <2>4, <2>5, <2>6 DEF ContributionTypes
  <1>11. ASSUME NEW r \in Requests, queryLastReachedMilestone(r)
         PROVE  ContributionTypes'
    <2> DEFINE w == [work[r] EXCEPT !.total = Last(reached)]
    <2>1. Turn(r, "cache", w) /\ UNCHANGED <<rows, milestoneVars, histVars>> /\ place[r] = "query"
      BY <1>0, <1>11 DEF queryLastReachedMilestone, GoOn, Turn, RequestTypes
    <2>2. w \in ContributionWork /\ Fits("cache", w, Stored) /\ w.message = work[r].message
          /\ "cache" \in Places /\ "cache" \notin InPayment
      BY <1>0, <1>a, <2>1, LastReached DEF Fits, Places, InPayment, ContributionWork
    <2> HIDE DEF w
    <2>3. RowTypes' /\ Stored' = Stored
      BY <1>0, <2>1, RowsStay
    <2>4. RequestTypes'
      BY <1>0, <2>1, <2>2, <2>3, RequestsTurn
    <2>5. Bounded'
      <3>1. messages' = messages /\ Len(payment)' = Len(payment)
        BY <2>1 DEF milestoneVars, rows
      <3>2. messages' \in Nat /\ messages' >= messages
        BY <1>0, <3>1
      <3> QED BY <1>0, <2>1, <2>2, <3>1, <3>2, StaysBounded
    <2>6. MilestoneTypes' /\ HistoryTypes'
      BY <1>0, <2>1 DEF MilestoneTypes, HistoryTypes, milestoneVars, histVars
    <2> QED BY <2>3, <2>4, <2>5, <2>6 DEF ContributionTypes
  <1>12. ASSUME NEW r \in Requests, cacheLastReachedMilestone(r)
         PROVE  ContributionTypes'
    <2> DEFINE w == work[r]
    <2>1. /\ UNCHANGED <<rows, reached, messages, histVars>> /\ place[r] = "cache"
          /\ cache' = work[r].total
          /\ \/ Turn(r, "ack", w) /\ work[r].message = TRUE
             \/ Turn(r, "idle", NoWork)
      BY <1>0, <1>12 DEF cacheLastReachedMilestone, End, GoOn, Turn, RequestTypes
    <2>2. /\ w \in ContributionWork /\ "ack" \in Places /\ "ack" \notin InPayment
          /\ (work[r].message = TRUE => Fits("ack", w, Stored))
          /\ cache' \in Milestones \cup {NoMilestone}
      BY <1>a, <2>1 DEF Fits, Places, InPayment
    <2>3. RowTypes' /\ Stored' = Stored
      BY <1>0, <2>1, RowsStay
    <2>4. messages' = messages /\ Len(payment)' = Len(payment)
      BY <2>1 DEF rows
    <2>5. messages' \in Nat /\ messages' >= messages
      BY <1>0, <2>4
    <2>6. RequestTypes' /\ Bounded'
      <3>1. CASE Turn(r, "ack", w) /\ work[r].message = TRUE
        <4>1. w.message = TRUE => work[r].message = TRUE
          OBVIOUS
        <4>2. Fits("ack", w, Stored')
          BY <2>2, <2>3, <3>1
        <4> HIDE DEF w
        <4> QED BY <1>0, <2>2, <2>3, <2>4, <2>5, <3>1, <4>1, <4>2, RequestsTurn, StaysBounded
      <3>2. CASE Turn(r, "idle", NoWork)
        BY <1>0, <1>b, <2>3, <2>4, <2>5, <3>2, RequestsTurn, StaysBounded
      <3> QED BY <2>1, <3>1, <3>2
    <2>7. MilestoneTypes' /\ HistoryTypes'
      BY <1>0, <2>1, <2>2 DEF MilestoneTypes, HistoryTypes, histVars
    <2> QED BY <2>3, <2>6, <2>7 DEF ContributionTypes
  <1>13. ASSUME NEW r \in Requests, Ack(r)
         PROVE  ContributionTypes'
    <2>1. Turn(r, "idle", NoWork) /\ UNCHANGED <<rows, reached, cache, histVars>>
          /\ messages' = messages - 1 /\ place[r] = "ack"
      BY <1>13 DEF Ack, End, GoOn, Turn
    <2>2. work[r].message = TRUE
      BY <1>a, <2>1 DEF Fits
    <2>3. RowTypes' /\ Stored' = Stored
      BY <1>0, <2>1, RowsStay
    <2>4. RequestTypes'
      BY <1>0, <1>b, <2>1, <2>3, RequestsTurn
    <2>5. messages' \in Nat
      <3>1. r \in Handling /\ IsFiniteSet(Handling)
        BY <1>0, <2>2 DEF Handling, Bounded
      <3>2. Cardinality(Handling) \in Nat /\ Cardinality(Handling) # 0
        BY <3>1, FS_CardinalityType, FS_EmptySet
      <3> QED BY <1>0, <2>1, <3>2 DEF Bounded
    <2>6. Bounded'
      <3>1. Len(payment)' = Len(payment)
        BY <2>1 DEF rows
      <3> QED BY <1>0, <1>b, <2>1, <2>2, <2>5, <3>1, StaysBounded
    <2>7. MilestoneTypes' /\ HistoryTypes'
      BY <1>0, <2>1, <2>5 DEF MilestoneTypes, HistoryTypes, histVars
    <2> QED BY <2>3, <2>4, <2>6, <2>7 DEF ContributionTypes
  <1>14. ASSUME NEW r \in Requests, FailRequest(r)
         PROVE  ContributionTypes'
    <2>1. Turn(r, "idle", NoWork) /\ UNCHANGED <<rows, milestoneVars, reviews, overtaken, untold>>
          /\ faults < MaxFaults /\ faults' = faults + 1 /\ missed' \in BOOLEAN
      BY <1>0, <1>14 DEF FailRequest, End, GoOn, Turn, HistoryTypes
    <2>2. RowTypes' /\ Stored' = Stored
      BY <1>0, <2>1, RowsStay
    <2>3. RequestTypes'
      BY <1>0, <1>b, <2>1, <2>2, RequestsTurn
    <2>4. Bounded'
      <3>1. messages' = messages /\ Len(payment)' = Len(payment)
        BY <2>1 DEF milestoneVars, rows
      <3>2. messages' \in Nat /\ messages' >= messages
        BY <1>0, <3>1
      <3> QED BY <1>0, <1>b, <2>1, <3>1, <3>2, StaysBounded
    <2>5. MilestoneTypes' /\ HistoryTypes'
      BY <1>0, <2>1, BoundAssumption DEF MilestoneTypes, HistoryTypes, milestoneVars
    <2> QED BY <2>2, <2>3, <2>4, <2>5 DEF ContributionTypes
  <1>15. CASE ExpireCache
    BY <1>0, <1>15, RowsStay
    DEF ExpireCache, ContributionTypes, MilestoneTypes, RequestTypes, HistoryTypes, Bounded,
        Handling, Finalizing, histVars, rows
  <1>16. CASE UNCHANGED contributionVars
    BY <1>0, <1>16, RowsStay
    DEF contributionVars, ContributionTypes, MilestoneTypes, RequestTypes, HistoryTypes, Bounded,
        Handling, Finalizing, milestoneVars, histVars, rows
  <1> QED
    BY <1>1, <1>2, <1>3, <1>4, <1>5, <1>6, <1>7, <1>8, <1>9, <1>10, <1>11, <1>12, <1>13, <1>14,
       <1>15, <1>16 DEF ContributionNext, Begin, Work

LEMMA AlwaysContributionTypes == ContributionSpec => []ContributionTypes
  BY InitContributionTypes, TypesStep, PTL DEF ContributionSpec

\* Rows, payments, requests and counters have their types, for any submissions,
\* users, causes, milestones and requests: no message is acknowledged twice and no
\* payment passes its bound (contribution/index.ts).
THEOREM ContributionTypeCorrect == ContributionSpec => []ContributionTypeOK
  <1>1. ContributionTypes => ContributionTypeOK
    <2> SUFFICES ASSUME ContributionTypes PROVE ContributionTypeOK
      OBVIOUS
    <2>1. Len(payment) <= MaxPayments
      <3>1. Len(payment) \in Nat /\ Cardinality(Finalizing) \in Nat /\ MaxPayments \in Nat
        BY FS_CardinalityType, BoundAssumption DEF ContributionTypes, RowTypes, Bounded
      <3> QED BY <3>1 DEF ContributionTypes, Bounded
    <2> QED BY <2>1 DEF ContributionTypes, RowTypes, MilestoneTypes, RequestTypes, HistoryTypes,
                        ContributionTypeOK
  <1> QED BY <1>1, AlwaysContributionTypes, PTL

-----------------------------------------------------------------------------
(* Payments.                                                               *)

\* The points of S in the table t of submissions.
PointsAt(t, S) == SumFunction([s \in S |-> t[s].points])

LEMMA PointsDepend ==
  ASSUME NEW S, NEW t, NEW u, \A s \in S : t[s].points = u[s].points
  PROVE  PointsAt(t, S) = PointsAt(u, S)
  <1>1. [s \in S |-> t[s].points] = [s \in S |-> u[s].points]
    OBVIOUS
  <1> QED BY <1>1 DEF PointsAt

\* A step of r keeps Locking if it lets alone the rows that others have locked or
\* are about to insert, and r neither locks nor is about to insert.
LEMMA LockingFrame ==
  ASSUME RequestTypes, Locking, NEW r \in Requests, NEW p, NEW w, Turn(r, p, w),
         p \notin {"pay", "insert"},
         \A v \in Requests : v # r /\ place[v] \in {"pay", "insert"} =>
           \A s \in work[v].submissions : submission'[s] = submission[s],
         \A s \in w.submissions : s \in Stored \/ s \in work[r].submissions
  PROVE  Locking'
  <1>1. /\ place'[r] = p /\ work'[r] = w
        /\ \A v \in Requests : v # r => place'[v] = place[v] /\ work'[v] = work[v]
    BY DEF RequestTypes, Turn
  <1>2. \A v \in Requests : place'[v] = "pay" =>
          v # r /\ place[v] = "pay" /\ work'[v] = work[v]
          /\ \A s \in work[v].submissions : submission'[s] = submission[s]
    BY <1>1
  <1>3. ASSUME NEW v \in Requests, place'[v] = "pay"
        PROVE  work'[v].submissions \subseteq Unpaid' /\ (PointsOf(work[v].submissions) # 0)'
    <2>1. work[v].submissions \subseteq Unpaid /\ PointsOf(work[v].submissions) # 0
      BY <1>2, <1>3 DEF Locking
    <2>2. work'[v].submissions = work[v].submissions
      BY <1>2, <1>3
    <2>3. PointsAt(submission', work[v].submissions) = PointsAt(submission, work[v].submissions)
      <3>1. \A s \in work[v].submissions : submission'[s].points = submission[s].points
        BY <1>2, <1>3
      <3> QED BY <3>1, PointsDepend
    <2>4. PointsOf(work[v].submissions) = PointsAt(submission, work[v].submissions)
      BY DEF PointsOf, PointsAt
    <2>5. (PointsOf(work[v].submissions))' = PointsAt(submission', work'[v].submissions)
      BY DEF PointsOf, PointsAt
    <2>6. work[v].submissions \subseteq Unpaid'
      BY <1>2, <1>3, <2>1 DEF Unpaid, Approved, Paid
    <2> QED BY <2>1, <2>2, <2>3, <2>4, <2>5, <2>6
  <1>4. \A u, v \in Requests : u # v /\ place'[u] = "pay" /\ place'[v] = "pay" =>
          work'[u].submissions \cap work'[v].submissions = {}
    BY <1>2 DEF Locking
  <1>5. ASSUME NEW u \in Requests, place'[u] = "insert", NEW s \in work'[u].submissions
        PROVE  submission'[s] = NoSubmission
               /\ \A v \in Requests : s \in work'[v].submissions => v = u
    <2>1. u # r /\ place[u] = "insert" /\ work'[u] = work[u]
      BY <1>1, <1>5
    <2>2. submission[s] = NoSubmission /\ submission'[s] = submission[s]
          /\ \A v \in Requests : s \in work[v].submissions => v = u
      BY <1>5, <2>1 DEF Locking
    <2>3. s \notin w.submissions
      BY <2>1, <2>2 DEF Stored
    <2> QED BY <1>1, <2>1, <2>2, <2>3
  <1> QED BY <1>3, <1>4, <1>5 DEF Locking

LEMMA LockingStep ==
  ContributionTypes /\ Locking /\ [ContributionNext]_contributionVars => Locking'
  <1> SUFFICES ASSUME ContributionTypes, Locking, [ContributionNext]_contributionVars
               PROVE  Locking'
    OBVIOUS
  <1>0. RowTypes /\ MilestoneTypes /\ RequestTypes /\ NoWork.submissions = {}
    BY DEF ContributionTypes, NoWork
  <1>a. \A r \in Requests : /\ work[r] \in ContributionWork
                            /\ work[r].submissions \subseteq Submissions
                            /\ Fits(place[r], work[r], Stored)
    BY <1>0 DEF RequestTypes, ContributionWork
  <1>b. \A r \in Requests : place[r] \in {"review", "lock", "pay"} =>
          work[r].submissions \subseteq Stored
    BY <1>a DEF Fits
  <1>c. \A v \in Requests : place[v] = "insert" =>
          \A s \in work[v].submissions : s \notin Stored
    BY DEF Locking, Stored
  <1>1. ASSUME NEW r \in Requests, NEW s \in Submissions, CheckLimit(r, s) PROVE Locking'
    <2> DEFINE w == [NoWork EXCEPT !.submissions = {s}]
    <2>1. /\ place'[r] = "insert" /\ work'[r] = w
          /\ \A v \in Requests : v # r => place'[v] = place[v] /\ work'[v] = work[v]
          /\ submission' = submission /\ submission[s] = NoSubmission
          /\ \A v \in Requests : s \notin work[v].submissions
      BY <1>0, <1>1 DEF CheckLimit, StartRequest, GoOn, RequestTypes, rows
    <2>2. w.submissions = {s}
      BY DEF NoWork
    <2> HIDE DEF w
    <2>3. ASSUME NEW v \in Requests, place'[v] = "pay"
          PROVE  work'[v].submissions \subseteq Unpaid' /\ (PointsOf(work[v].submissions) # 0)'
      <3>1. place[v] = "pay" /\ work'[v] = work[v]
        BY <2>1, <2>3
      <3>2. work[v].submissions \subseteq Unpaid /\ PointsOf(work[v].submissions) # 0
        BY <3>1 DEF Locking
      <3> QED BY <2>1, <3>1, <3>2 DEF Unpaid, Approved, Paid, PointsOf
    <2>4. \A u, v \in Requests : u # v /\ place'[u] = "pay" /\ place'[v] = "pay" =>
            work'[u].submissions \cap work'[v].submissions = {}
      BY <2>1 DEF Locking
    <2>5. ASSUME NEW u \in Requests, place'[u] = "insert", NEW x \in work'[u].submissions
          PROVE  submission'[x] = NoSubmission
                 /\ \A v \in Requests : x \in work'[v].submissions => v = u
      <3>1. CASE u = r
        BY <2>1, <2>2, <2>5, <3>1
      <3>2. CASE u # r
        BY <2>1, <2>2, <2>5, <3>2 DEF Locking
      <3> QED BY <3>1, <3>2
    <2> QED BY <2>3, <2>4, <2>5 DEF Locking
  <1>2. ASSUME NEW r \in Requests, InsertSubmission(r) PROVE Locking'
    <2>1. /\ Turn(r, "idle", NoWork) /\ place[r] = "insert"
          /\ \A s \in Submissions : s \notin work[r].submissions => submission'[s] = submission[s]
      BY <1>2 DEF InsertSubmission, End, GoOn, Turn
    <2>2. \A v \in Requests : v # r /\ place[v] \in {"pay", "insert"} =>
            \A s \in work[v].submissions : submission'[s] = submission[s]
      BY <1>a, <1>b, <1>c, <2>1 DEF Locking
    <2> QED BY <1>0, <2>1, <2>2, LockingFrame
  <1>3. ASSUME NEW r \in Requests, NEW s \in Submissions, NEW x \in Verdicts, BeginReview(r, s, x)
        PROVE  Locking'
    <2> DEFINE w == [NoWork EXCEPT !.submissions = {s}, !.verdict = x]
    <2>1. Turn(r, "review", w) /\ submission' = submission /\ s \in Stored
      BY <1>3 DEF BeginReview, StartRequest, GoOn, Turn, rows, Stored
    <2>2. w.submissions = {s}
      BY DEF NoWork
    <2> HIDE DEF w
    <2>3. \A y \in w.submissions : y \in Stored
      BY <2>1, <2>2
    <2> QED BY <1>0, <2>1, <2>3, LockingFrame
  <1>4. ASSUME NEW r \in Requests, NEW s \in Submissions, WriteReview(r, s) PROVE Locking'
    <2>1. /\ Turn(r, "idle", NoWork) /\ place[r] = "review" /\ s \in work[r].submissions
          /\ ~LockedRow(s)
          /\ \A y \in Submissions : y # s => submission'[y] = submission[y]
      BY <1>0, <1>4 DEF WriteReview, End, GoOn, Turn, RowTypes
    <2>2. \A v \in Requests : v # r /\ place[v] \in {"pay", "insert"} =>
            \A y \in work[v].submissions : submission'[y] = submission[y]
      BY <1>a, <1>b, <1>c, <2>1 DEF LockedRow, LockedBy
    <2> QED BY <1>0, <2>1, <2>2, LockingFrame
  <1>5. ASSUME NEW r \in Requests, NEW m \in Amounts, BeginPayment(r, m) PROVE Locking'
    <2> DEFINE w == [NoWork EXCEPT !.submissions = Unpaid, !.amount = m]
    <2>1. Turn(r, "lock", w) /\ submission' = submission
      BY <1>5 DEF BeginPayment, StartRequest, GoOn, Turn, rows
    <2>2. w.submissions = Unpaid
      BY DEF NoWork
    <2> HIDE DEF w
    <2>3. \A y \in w.submissions : y \in Stored
      BY <1>0, <2>2, ApprovedIsStored
    <2> QED BY <1>0, <2>1, <2>3, LockingFrame
  <1>6. ASSUME NEW r \in Requests, LockSubmissions(r) PROVE Locking'
    <2> DEFINE w == [work[r] EXCEPT !.submissions = StillUnpaid(r)]
    <2>1. /\ place[r] = "lock" /\ submission' = submission
          /\ \A s \in work[r].submissions : ~LockedRow(s)
          /\ \/ Turn(r, "idle", NoWork)
             \/ Turn(r, "pay", w) /\ PointsOf(StillUnpaid(r)) # 0
      BY <1>0, <1>6 DEF LockSubmissions, End, GoOn, Turn, RequestTypes, rows
    <2>2. w.submissions = StillUnpaid(r)
      BY <1>a DEF ContributionWork
    <2> HIDE DEF w
    <2>3. CASE Turn(r, "idle", NoWork)
      BY <1>0, <2>1, <2>3, LockingFrame
    <2>4. CASE Turn(r, "pay", w) /\ PointsOf(StillUnpaid(r)) # 0
      <3>1. /\ place'[r] = "pay" /\ work'[r] = w
            /\ \A v \in Requests : v # r => place'[v] = place[v] /\ work'[v] = work[v]
        BY <1>0, <2>4 DEF Turn, RequestTypes
      <3>2. StillUnpaid(r) \subseteq Unpaid /\ StillUnpaid(r) \subseteq work[r].submissions
            /\ Unpaid' = Unpaid
        BY <2>1 DEF StillUnpaid, Unpaid, Approved, Paid
      <3>3. ASSUME NEW v \in Requests, place'[v] = "pay"
            PROVE  work'[v].submissions \subseteq Unpaid' /\ (PointsOf(work[v].submissions) # 0)'
        <4>1. (PointsOf(work[v].submissions))' = PointsAt(submission, work'[v].submissions)
          BY <2>1 DEF PointsOf, PointsAt
        <4>2. CASE v = r
          <5>1. PointsOf(StillUnpaid(r)) = PointsAt(submission, StillUnpaid(r))
            BY DEF PointsOf, PointsAt
          <5>2. work'[v].submissions = StillUnpaid(r)
            BY <2>2, <3>1, <4>2
          <5> QED BY <2>4, <3>2, <4>1, <5>1, <5>2
        <4>3. CASE v # r
          <5>1. place[v] = "pay" /\ work'[v] = work[v]
            BY <3>1, <3>3, <4>3
          <5>2. work[v].submissions \subseteq Unpaid /\ PointsOf(work[v].submissions) # 0
            BY <5>1 DEF Locking
          <5>3. PointsOf(work[v].submissions) = PointsAt(submission, work[v].submissions)
            BY DEF PointsOf, PointsAt
          <5> QED BY <3>2, <4>1, <5>1, <5>2, <5>3
        <4> QED BY <4>2, <4>3
      <3>4. \A v \in Requests : v # r /\ place[v] = "pay" =>
              work[v].submissions \cap StillUnpaid(r) = {}
        BY <2>1, <3>2 DEF LockedRow, LockedBy
      <3>5. \A u, v \in Requests : u # v /\ place'[u] = "pay" /\ place'[v] = "pay" =>
              work'[u].submissions \cap work'[v].submissions = {}
        BY <2>2, <3>1, <3>4 DEF Locking
      <3>6. ASSUME NEW u \in Requests, place'[u] = "insert", NEW x \in work'[u].submissions
            PROVE  submission'[x] = NoSubmission
                   /\ \A v \in Requests : x \in work'[v].submissions => v = u
        <4>1. u # r /\ place[u] = "insert" /\ work'[u] = work[u]
          BY <3>1, <3>6
        <4> QED BY <2>1, <2>2, <3>1, <3>2, <3>6, <4>1 DEF Locking
      <3> QED BY <3>3, <3>5, <3>6 DEF Locking
    <2> QED BY <2>1, <2>3, <2>4
  <1>7. ASSUME NEW r \in Requests, CommitPayment(r) PROVE Locking'
    <2>1. /\ Turn(r, "idle", NoWork) /\ place[r] = "pay"
          /\ \A s \in Submissions : s \notin work[r].submissions => submission'[s] = submission[s]
      BY <1>7 DEF CommitPayment, End, GoOn, Turn
    <2>2. \A v \in Requests : v # r /\ place[v] \in {"pay", "insert"} =>
            \A s \in work[v].submissions : submission'[s] = submission[s]
      BY <1>a, <1>b, <1>c, <2>1 DEF Locking
    <2> QED BY <1>0, <2>1, <2>2, LockingFrame
  <1>8. ASSUME NEW r \in Requests,
               SumPoints(r) \/ getLastReachedMilestone(r) \/ queryLastReachedMilestone(r)
               \/ detectContributionMilestones(r) \/ cacheLastReachedMilestone(r) \/ Ack(r)
               \/ FailRequest(r)
        PROVE  Locking'
    <2>1. /\ submission' = submission
          /\ \E p, w : /\ Turn(r, p, w) /\ p \notin {"pay", "insert"}
                       /\ w.submissions = {} \/ w.submissions = work[r].submissions
      <3>1. CASE SumPoints(r)
        <4> DEFINE w == [NoWork EXCEPT !.message = TRUE, !.total = ApprovedPoints]
        <4>1. Turn(r, "stamp", w) /\ submission' = submission
          BY <3>1 DEF SumPoints, StartRequest, GoOn, Turn, rows
        <4>2. w.submissions = {}
          BY DEF NoWork
        <4> HIDE DEF w
        <4> QED BY <4>1, <4>2
      <3>2. CASE queryLastReachedMilestone(r)
        <4> DEFINE w == [work[r] EXCEPT !.total = Last(reached)]
        <4>1. Turn(r, "cache", w) /\ submission' = submission
          BY <1>0, <3>2 DEF queryLastReachedMilestone, GoOn, Turn, rows, RequestTypes
        <4>2. w.submissions = work[r].submissions
          BY <1>a DEF ContributionWork
        <4> HIDE DEF w
        <4> QED BY <4>1, <4>2
      <3>6. CASE getLastReachedMilestone(r)
        <4>1. Turn(r, "query", NoWork) /\ submission' = submission
          BY <3>6 DEF getLastReachedMilestone, StartRequest, GoOn, Turn, rows
        <4>2. NoWork.submissions = {}
          BY DEF NoWork
        <4> QED BY <4>1, <4>2
      <3>3. CASE detectContributionMilestones(r)
        <4>1. Turn(r, IF Crossed(r) = {} THEN "ack" ELSE "query", work[r]) /\ submission' = submission
          BY <1>0, <3>3 DEF detectContributionMilestones, GoOn, Turn, rows, RequestTypes
        <4> QED BY <4>1
      <3>4. CASE cacheLastReachedMilestone(r)
        <4>1. submission' = submission /\ (Turn(r, "ack", work[r]) \/ Turn(r, "idle", NoWork))
          BY <1>0, <3>4 DEF cacheLastReachedMilestone, End, GoOn, Turn, rows, RequestTypes
        <4> QED BY <1>0, <4>1
      <3>5. CASE Ack(r) \/ FailRequest(r)
        <4>1. submission' = submission /\ Turn(r, "idle", NoWork)
          BY <3>5 DEF Ack, FailRequest, End, GoOn, Turn, rows
        <4> QED BY <1>0, <4>1
      <3> QED BY <1>8, <3>1, <3>2, <3>3, <3>4, <3>5, <3>6
    <2>2. PICK p, w : /\ Turn(r, p, w) /\ p \notin {"pay", "insert"}
                      /\ w.submissions = {} \/ w.submissions = work[r].submissions
      BY <2>1
    <2> QED BY <1>0, <2>1, <2>2, LockingFrame
  <1>9. CASE ExpireCache
    BY <1>9 DEF ExpireCache, Locking, Unpaid, Approved, Paid, PointsOf, rows
  <1>10. CASE UNCHANGED contributionVars
    BY <1>10 DEF contributionVars, Locking, Unpaid, Approved, Paid, PointsOf, rows
  <1> QED
    BY <1>1, <1>2, <1>3, <1>4, <1>5, <1>6, <1>7, <1>8, <1>9, <1>10
    DEF ContributionNext, Begin, Work

LEMMA InitLocking == ContributionInit => Locking
  BY DEF ContributionInit, Locking

LEMMA AlwaysLocking == ContributionSpec => [](ContributionTypes /\ Locking)
  <1>1. ContributionTypes /\ Locking /\ [ContributionNext]_contributionVars
        => (ContributionTypes /\ Locking)'
    BY TypesStep, LockingStep
  <1> QED BY <1>1, InitContributionTypes, InitLocking, PTL DEF ContributionSpec

\* Payment n is of its submissions.
Counted(n) ==
  PaidBy(n) \cap overtaken = {} =>
    /\ payment[n].total = PointsOf(PaidBy(n))
    /\ \A s \in PaidBy(n) : Approved(s)

\* Payment n stays so if its submissions stay as they are, but for those overtaken.
LEMMA CountedFrame ==
  ASSUME NEW n, Counted(n), payment'[n] = payment[n], PaidBy(n)' = PaidBy(n),
         overtaken \subseteq overtaken',
         \A s \in PaidBy(n) : s \in overtaken'
                              \/ /\ submission'[s].points = submission[s].points
                                 /\ submission'[s].status = submission[s].status
  PROVE  Counted(n)'
  <1> SUFFICES ASSUME PaidBy(n)' \cap overtaken' = {}
               PROVE  /\ payment'[n].total = (PointsOf(PaidBy(n)))'
                      /\ \A s \in PaidBy(n) : Approved(s)'
    BY DEF Counted
  <1>1. PaidBy(n) \cap overtaken = {}
    OBVIOUS
  <1>2. \A s \in PaidBy(n) : /\ submission[s].points = submission'[s].points
                             /\ submission'[s].status = submission[s].status
    OBVIOUS
  <1>3. PointsAt(submission, PaidBy(n)) = PointsAt(submission', PaidBy(n))
    BY <1>2, PointsDepend
  <1>4. PointsOf(PaidBy(n)) = PointsAt(submission, PaidBy(n))
        /\ (PointsOf(PaidBy(n)))' = PointsAt(submission', PaidBy(n)')
    BY DEF PointsOf, PointsAt
  <1> QED BY <1>1, <1>2, <1>3, <1>4 DEF Counted, Approved

LEMMA CountedStep ==
  ASSUME ContributionTypes, Locking, PaymentIsOfSubmissions, [ContributionNext]_contributionVars
  PROVE  PaymentIsOfSubmissions'
  <1>0. /\ RowTypes /\ RequestTypes /\ HistoryTypes /\ \A n \in DOMAIN payment : Counted(n)
        /\ DOMAIN payment = 1..Len(payment) /\ Len(payment) \in Nat
    BY DEF ContributionTypes, PaymentIsOfSubmissions, Counted, RowTypes
  <1>a. \A s \in Submissions : submission[s].payment \in Nat
                               /\ submission[s].payment <= Len(payment)
    BY <1>0, BoundAssumption DEF RowTypes, Submitted, NoSubmission
  <1>b. \A r \in Requests : work[r].submissions \subseteq Submissions
    BY <1>0 DEF RequestTypes, ContributionWork
  <1>1. SUFFICES \A n \in DOMAIN payment' : Counted(n)'
    BY DEF PaymentIsOfSubmissions, Counted
  <1>2. ASSUME UNCHANGED <<submission, payment, overtaken>>
        PROVE  \A n \in DOMAIN payment' : Counted(n)'
    BY <1>0, <1>2 DEF Counted, PaidBy, Approved, PointsOf
  <1>3. ASSUME NEW r \in Requests, InsertSubmission(r)
        PROVE  \A n \in DOMAIN payment' : Counted(n)'
    <2>1. /\ payment' = payment /\ overtaken' = overtaken /\ place[r] = "insert"
          /\ \A s \in Submissions :
               submission'[s] = IF s \in work[r].submissions
                                THEN [status |-> "approved", points |-> ActionPoints, payment |-> 0]
                                ELSE submission[s]
      BY <1>3 DEF InsertSubmission
    <2>2. \A s \in work[r].submissions : submission[s].payment = 0 /\ submission'[s].payment = 0
      BY <1>b, <2>1 DEF Locking, NoSubmission
    <2>3. ASSUME NEW n \in DOMAIN payment PROVE Counted(n)'
      <3>1. n # 0 /\ Counted(n) /\ payment'[n] = payment[n]
        BY <1>0, <2>1
      <3>2. \A s \in Submissions : submission[s].payment = n \/ submission'[s].payment = n =>
              submission'[s] = submission[s]
        BY <2>1, <2>2, <3>1
      <3>3. PaidBy(n)' = PaidBy(n)
        BY <3>2 DEF PaidBy
      <3>4. \A s \in PaidBy(n) : /\ submission'[s].points = submission[s].points
                                 /\ submission'[s].status = submission[s].status
        BY <3>2 DEF PaidBy
      <3> QED BY <2>1, <3>1, <3>3, <3>4, CountedFrame
    <2> QED BY <2>1, <2>3
  <1>4. ASSUME NEW r \in Requests, NEW s \in Submissions, WriteReview(r, s)
        PROVE  \A n \in DOMAIN payment' : Counted(n)'
    <2>1. /\ payment' = payment
          /\ overtaken' = IF Paid(s) THEN overtaken \cup {s} ELSE overtaken
          /\ submission'[s].payment = submission[s].payment
          /\ \A x \in Submissions : x # s => submission'[x] = submission[x]
      <3>1. PICK st, k : submission' = [submission EXCEPT ![s].status = st, ![s].points = k]
        BY <1>4 DEF WriteReview
      <3>2. /\ submission'[s].payment = submission[s].payment
            /\ \A x \in Submissions : x # s => submission'[x] = submission[x]
        BY <1>0, <3>1 DEF RowTypes, Submitted, NoSubmission
      <3> QED BY <1>4, <3>2 DEF WriteReview
    <2>2. ASSUME NEW n \in DOMAIN payment PROVE Counted(n)'
      <3>1. n # 0 /\ Counted(n) /\ payment'[n] = payment[n]
        BY <1>0, <2>1
      <3>2. \A x \in Submissions : submission'[x].payment = submission[x].payment
        BY <2>1
      <3>3. PaidBy(n)' = PaidBy(n)
        BY <3>2 DEF PaidBy
      <3>4. \A x \in PaidBy(n) : x \in overtaken'
                                 \/ /\ submission'[x].points = submission[x].points
                                    /\ submission'[x].status = submission[x].status
        BY <2>1, <3>1 DEF PaidBy, Paid
      <3>5. overtaken \subseteq overtaken'
        BY <2>1
      <3> QED BY <3>1, <3>3, <3>4, <3>5, CountedFrame
    <2> QED BY <2>1, <2>2
  <1>5. ASSUME NEW r \in Requests, CommitPayment(r)
        PROVE  \A n \in DOMAIN payment' : Counted(n)'
    <2>0. PICK k \in Nat : k = Len(payment) + 1
      BY <1>0
    <2> DEFINE S == work[r].submissions
    <2>1. /\ payment' = Append(payment, Payment(S, work[r].amount))
          /\ overtaken' = overtaken /\ place[r] = "pay"
          /\ \A s \in Submissions :
               submission'[s] = IF s \in S THEN [submission[s] EXCEPT !.payment = k]
                                ELSE submission[s]
      BY <1>5, <2>0 DEF CommitPayment, histVars
    <2>2. S \subseteq Unpaid /\ S \subseteq Submissions
      BY <1>b, <2>1 DEF Locking
    <2>3. \A s \in S : /\ submission[s].payment = 0 /\ submission'[s].payment = k
                       /\ submission'[s].points = submission[s].points
                       /\ submission'[s].status = "approved"
      <3> SUFFICES ASSUME NEW s \in S
                   PROVE  /\ submission[s].payment = 0 /\ submission'[s].payment = k
                          /\ submission'[s].points = submission[s].points
                          /\ submission'[s].status = "approved"
        OBVIOUS
      <3>1. submission[s].payment = 0 /\ submission[s].status = "approved" /\ s \in Submissions
        BY <2>2 DEF Unpaid, Paid, Approved
      <3>2. submission[s] \in Submitted
        BY <1>0, <3>1 DEF RowTypes, NoSubmission
      <3> QED BY <2>1, <3>1, <3>2 DEF Submitted
    <2>4. /\ DOMAIN payment' = 1..k
          /\ payment'[k] = Payment(S, work[r].amount)
          /\ \A n \in DOMAIN payment : payment'[n] = payment[n]
      BY <1>0, <2>0, <2>1 DEF RowTypes
    <2>5. ASSUME NEW n \in DOMAIN payment PROVE Counted(n)'
      <3>1. n # 0 /\ n # k /\ Counted(n) /\ payment'[n] = payment[n]
        BY <1>0, <2>0, <2>4
      <3>2. \A s \in Submissions : submission[s].payment = n \/ submission'[s].payment = n =>
              submission'[s] = submission[s]
        BY <2>1, <2>3, <3>1
      <3>3. PaidBy(n)' = PaidBy(n)
        BY <3>2 DEF PaidBy
      <3>4. \A s \in PaidBy(n) : /\ submission'[s].points = submission[s].points
                                 /\ submission'[s].status = submission[s].status
        BY <3>2 DEF PaidBy
      <3> QED BY <2>1, <3>1, <3>3, <3>4, CountedFrame
    <2>6. Counted(k)'
      <3>1. PaidBy(k)' = S
        <4>1. \A s \in Submissions : (submission'[s].payment = k) <=> s \in S
          <5> SUFFICES ASSUME NEW s \in Submissions, s \notin S
                       PROVE  submission'[s].payment # k
            BY <2>3
          <5>1. submission'[s] = submission[s]
            BY <2>1
          <5> QED BY <1>0, <1>a, <2>0, <5>1
        <4> QED BY <2>2, <4>1 DEF PaidBy
      <3>2. PointsAt(submission', S) = PointsAt(submission, S)
        <4>1. \A s \in S : submission'[s].points = submission[s].points
          BY <2>3
        <4> QED BY <4>1, PointsDepend
      <3>3. (PointsOf(PaidBy(k)))' = PointsAt(submission', S)
        <4>1. (PointsOf(PaidBy(k)))' = PointsAt(submission', PaidBy(k)')
          BY DEF PointsOf, PointsAt
        <4> QED BY <3>1, <4>1
      <3>4. payment'[k].total = PointsAt(submission, S)
        BY <2>4 DEF Payment, PointsOf, PointsAt
      <3> QED BY <2>3, <3>1, <3>2, <3>3, <3>4 DEF Counted, Approved
    <2>7. \A n \in DOMAIN payment' : n \in DOMAIN payment \/ n = k
      BY <1>0, <2>0, <2>4
    <2> QED BY <2>5, <2>6, <2>7
  <1>6. ASSUME NEW r \in Requests, Begin(r) \/ SumPoints(r) \/ FailRequest(r)
        PROVE  UNCHANGED <<submission, payment, overtaken>>
    BY <1>6 DEF Begin, CheckLimit, BeginReview, BeginPayment, getLastReachedMilestone, SumPoints,
                FailRequest, rows, histVars
  <1>7. ASSUME NEW r \in Requests,
               LockSubmissions(r) \/ detectContributionMilestones(r)
               \/ queryLastReachedMilestone(r) \/ cacheLastReachedMilestone(r) \/ Ack(r)
        PROVE  UNCHANGED <<submission, payment, overtaken>>
    BY <1>7 DEF LockSubmissions, detectContributionMilestones, queryLastReachedMilestone,
                cacheLastReachedMilestone, Ack, rows, histVars
  <1>8. ExpireCache \/ UNCHANGED contributionVars => UNCHANGED <<submission, payment, overtaken>>
    BY DEF ExpireCache, contributionVars, rows, histVars
  <1> QED BY <1>2, <1>3, <1>4, <1>5, <1>6, <1>7, <1>8 DEF ContributionNext, Work

\* PaymentIsOfSubmissions: whatever payments and reviews run at the same time, a
\* submission is in the payment that counted it and in no other, and as it was counted,
\* unless a review that found it unpaid was written after the payment.
THEOREM PaymentsAreOfSubmissions == ContributionSpec => []PaymentIsOfSubmissions
  <1>1. ContributionInit => PaymentIsOfSubmissions
    BY DEF ContributionInit, PaymentIsOfSubmissions
  <1>2. ContributionTypes /\ Locking /\ PaymentIsOfSubmissions
        /\ [ContributionNext]_contributionVars => PaymentIsOfSubmissions'
    BY CountedStep
  <1> QED BY <1>1, <1>2, AlwaysLocking, PTL DEF ContributionSpec

\* The points of the submissions S are those of their users.
LEMMA UsersPoints ==
  ASSUME RowTypes, NEW S \in SUBSET Stored, NEW U, U = {Owner[s] : s \in S}
  PROVE  /\ U \subseteq Users /\ IsFiniteSet(U)
         /\ UserPoints(S) \in [U -> Nat] /\ Sum(UserPoints(S), U) = PointsOf(S)
  <1> DEFINE own == [s \in S |-> Owner[s]]
             p == [u \in U |-> {s \in S : Owner[s] = u}]
             h == [s \in S |-> submission[s].points]
  <1>1. \A s \in S : Owner[s] \in Users
    BY SubmissionAssumption DEF Stored
  <1>2. U \subseteq Users
    BY <1>1
  <1>3. IsFiniteSet(S) /\ PointsOf(S) = Sum(h, S)
    BY StoredPoints
  <1>4. own \in Surjection(S, U)
    BY DEF Surjection
  <1>5. IsFiniteSet(U)
    <2> HIDE DEF own
    <2> QED BY ONLY <1>3, <1>4, FS_Surjection
  <1>6. \A s \in S : h[s] \in Int
    <2> SUFFICES ASSUME NEW s \in S PROVE submission[s].points \in Int
      OBVIOUS
    <2>1. submission[s] \in Submitted
      BY DEF RowTypes, Stored
    <2> QED BY <2>1 DEF Submitted
  <1>7. \A u \in U : /\ PointsOf(p[u]) \in Nat /\ UserPoints(S)[u] = PointsOf(p[u])
                     /\ IsFiniteSet(p[u]) /\ Sum(h, p[u]) = PointsOf(p[u])
    <2> SUFFICES ASSUME NEW u \in U
                 PROVE  /\ PointsOf(p[u]) \in Nat /\ UserPoints(S)[u] = PointsOf(p[u])
                        /\ IsFiniteSet(p[u]) /\ Sum(h, p[u]) = PointsOf(p[u])
      OBVIOUS
    <2> DEFINE T == {s \in S : Owner[s] = u}
    <2>1. p[u] = T /\ T \in SUBSET Stored /\ T \subseteq S
      OBVIOUS
    <2>2. UserPoints(S)[u] = PointsOf(T)
      BY DEF UserPoints
    <2> HIDE DEF p, T
    <2>3. /\ PointsOf(T) \in Nat /\ IsFiniteSet(T)
          /\ PointsOf(T) = Sum([s \in T |-> submission[s].points], T)
      BY <2>1, StoredPoints
    <2>4. Sum(h, T) = Sum([s \in T |-> submission[s].points], T)
      <3> DEFINE f == [s \in T |-> submission[s].points]
      <3>1. \A s \in T : f[s] = h[s] /\ h[s] \in Int
        BY <1>6, <2>1
      <3> HIDE DEF f, h
      <3>2. Sum(f, T) = Sum(h, T)
        BY <2>3, <3>1, SumSame
      <3> QED BY <3>2 DEF f
    <2> QED BY <2>1, <2>2, <2>3, <2>4
  <1>8. UserPoints(S) \in [U -> Nat]
    <2>1. UserPoints(S) = [u \in U |-> PointsOf({s \in S : Owner[s] = u})]
      BY DEF UserPoints
    <2> QED BY <1>7, <2>1
  <1>9. S = UNION {p[u] : u \in U}
    <2>1. \A s \in S : Owner[s] \in U /\ s \in p[Owner[s]]
      OBVIOUS
    <2>2. \A u \in U : p[u] \subseteq S
      OBVIOUS
    <2> HIDE DEF p
    <2> QED BY <2>1, <2>2
  <1>10. Parts(U, p, h, UserPoints(S))
    <2>1. \A u, v \in U : u # v => p[u] \cap p[v] = {}
      OBVIOUS
    <2>2. \A u \in U : p[u] \subseteq S
      OBVIOUS
    <2> HIDE DEF p, h
    <2> QED BY <1>6, <1>7, <2>1, <2>2 DEF Parts
  <1>11. Sum(UserPoints(S), U) = Sum(h, S)
    <2> HIDE DEF p, h
    <2> QED BY <1>5, <1>9, <1>10, SumOfParts
  <1> QED BY <1>2, <1>3, <1>5, <1>8, <1>11

LEMMA DividingStep ==
  ASSUME ContributionTypes, Locking, Dividing, [ContributionNext]_contributionVars
  PROVE  Dividing'
  <1>0. RowTypes /\ RequestTypes /\ Len(payment) \in Nat /\ DOMAIN payment = 1..Len(payment)
    BY DEF ContributionTypes, RowTypes
  <1>1. ASSUME payment' = payment PROVE Dividing'
    BY <1>1 DEF Dividing, Divided
  <1>2. ASSUME NEW r \in Requests, CommitPayment(r) PROVE Dividing'
    <2> DEFINE S == work[r].submissions
    <2>1. PICK p : p = Payment(S, work[r].amount)
      OBVIOUS
    <2>2. payment' = Append(payment, p) /\ place[r] = "pay"
      BY <1>2, <2>1 DEF CommitPayment
    <2>3. S \in SUBSET Stored /\ PointsOf(S) # 0 /\ work[r].amount \in Amounts
      <3>1. Fits("pay", work[r], Stored)
        BY <1>0, <2>2 DEF RequestTypes
      <3> QED BY <2>2, <3>1 DEF Fits, Locking
    <2>4. work[r].amount \in Nat
      BY <2>3, AmountAssumption
    <2> HIDE DEF S
    <2>5. PICK U : U = {Owner[s] : s \in S}
      OBVIOUS
    <2>6. /\ U \in SUBSET Users /\ IsFiniteSet(U)
          /\ UserPoints(S) \in [U -> Nat] /\ Sum(UserPoints(S), U) = PointsOf(S)
      BY <1>0, <2>3, <2>5, UsersPoints
    <2>7. PointsOf(S) \in Nat \ {0}
      BY <1>0, <2>3, StoredPoints
    <2>8. /\ p.total = PointsOf(S) /\ p.amount = work[r].amount
          /\ p.allocations =
               getContributionPaymentAllocations(UserPoints(S), work[r].amount, PointsOf(S), CausesOf)
      BY <2>1 DEF Payment
    <2>9. Divided(p)
      BY ONLY <2>4, <2>6, <2>7, <2>8, AllocationsDivide
    <2>10. \A n \in DOMAIN payment' : Divided(payment'[n])
      <3>1. \A n \in DOMAIN payment' : payment'[n] = p \/ (n \in DOMAIN payment
                                                          /\ payment'[n] = payment[n])
        BY <1>0, <2>2 DEF RowTypes
      <3> QED BY <2>9, <3>1 DEF Dividing
    <2> QED BY <2>10 DEF Dividing, Divided
  <1>3. ASSUME NEW r \in Requests, Begin(r) \/ SumPoints(r) \/ FailRequest(r)
        PROVE  payment' = payment
    BY <1>3 DEF Begin, CheckLimit, BeginReview, BeginPayment, getLastReachedMilestone, SumPoints,
                FailRequest, rows
  <1>4. ASSUME NEW r \in Requests, NEW s \in Submissions,
               InsertSubmission(r) \/ WriteReview(r, s)
        PROVE  payment' = payment
    BY <1>4 DEF InsertSubmission, WriteReview
  <1>5. ASSUME NEW r \in Requests,
               LockSubmissions(r) \/ detectContributionMilestones(r)
               \/ queryLastReachedMilestone(r) \/ cacheLastReachedMilestone(r) \/ Ack(r)
               \/ InsertSubmission(r)
        PROVE  payment' = payment
    BY <1>5 DEF LockSubmissions, detectContributionMilestones, queryLastReachedMilestone,
                cacheLastReachedMilestone, Ack, InsertSubmission, rows
  <1>6. ExpireCache \/ UNCHANGED contributionVars => payment' = payment
    BY DEF ExpireCache, contributionVars, rows
  <1> QED BY <1>1, <1>2, <1>3, <1>4, <1>5, <1>6 DEF ContributionNext, Work

LEMMA DividingIsDivided == Dividing <=> PaymentIsDivided
  BY DEF Dividing, Divided, PaymentIsDivided

\* PaymentIsDivided: the allocations of a payment add up to its cents and to its points,
\* and no user's cents are off the exact share by one or more, whatever the users, the
\* causes they support and the points they have.
THEOREM PaymentsAreDivided == ContributionSpec => []PaymentIsDivided
  <1>1. ContributionInit => Dividing
    BY DEF ContributionInit, Dividing
  <1>2. ContributionTypes /\ Locking /\ Dividing /\ [ContributionNext]_contributionVars
        => Dividing'
    BY DividingStep
  <1> QED BY <1>1, <1>2, AlwaysLocking, DividingIsDivided, PTL DEF ContributionSpec

-----------------------------------------------------------------------------
(* The cache of the last milestone.                                        *)

\* A turn of r after which r is not about to write the cache, or knows the last
\* milestone, keeps Caught if it stamps nothing; when a worker leaves the cache's
\* way, the cache must have the last milestone.
LEMMA CaughtFrame ==
  ASSUME RequestTypes, Caught, NEW r \in Requests, NEW p, NEW w, Turn(r, p, w),
         UNCHANGED <<reached, cache>>, missed' \in BOOLEAN, missed \in BOOLEAN, missed => missed',
         p = "cache" => w.total = Last(reached),
         \/ place[r] \notin Caching \/ work[r].message = FALSE
         \/ p \in Caching /\ w.message = TRUE
         \/ missed'
  PROVE  Caught'
  <1>1. /\ place'[r] = p /\ work'[r] = w
        /\ \A v \in Requests : v # r => place'[v] = place[v] /\ work'[v] = work[v]
    BY DEF RequestTypes, Turn
  <1>2. SUFFICES ASSUME ~missed'
                 PROVE  /\ \A v \in Requests : place'[v] = "cache" => work'[v].total = Last(reached)
                        /\ \/ cache \in {Cold, Last(reached)}
                           \/ \E v \in Requests : place'[v] \in Caching /\ work'[v].message = TRUE
    BY DEF Caught, Last
  <1>3. ~missed
    BY <1>2
  <1>4. \A v \in Requests : place'[v] = "cache" => work'[v].total = Last(reached)
    BY <1>1, <1>3 DEF Caught
  <1>5. ASSUME NEW v \in Requests, place[v] \in Caching, work[v].message = TRUE
        PROVE  \E u \in Requests : place'[u] \in Caching /\ work'[u].message = TRUE
    <2>1. CASE v # r
      BY <1>1, <1>5, <2>1
    <2>2. CASE v = r
      BY <1>1, <1>2, <1>5, <2>2
    <2> QED BY <2>1, <2>2
  <1> QED BY <1>3, <1>4, <1>5 DEF Caught

LEMMA CaughtStep ==
  ASSUME ContributionTypes, Caught, [ContributionNext]_contributionVars
  PROVE  Caught'
  <1>0. RequestTypes /\ NoWork.message = FALSE /\ missed \in BOOLEAN
    BY NoWorkIsWork DEF ContributionTypes, HistoryTypes
  <1>a. \A r \in Requests : work[r] \in ContributionWork /\ work[r].message \in BOOLEAN
                            /\ Fits(place[r], work[r], Stored)
    BY <1>0 DEF RequestTypes, ContributionWork
  <1>b. ASSUME NEW r \in Requests, NEW p, NEW w, Turn(r, p, w), p # "cache",
               place[r] \notin Caching, UNCHANGED <<reached, cache, missed>>
        PROVE  Caught'
    BY <1>0, <1>b, CaughtFrame
  <1>1. ASSUME NEW r \in Requests, Begin(r) \/ SumPoints(r) PROVE Caught'
    <2>1. \E p, w : Turn(r, p, w) /\ p # "cache" /\ place[r] = "idle"
                    /\ UNCHANGED <<reached, cache, missed>>
      <3>1. ASSUME NEW s \in Submissions, CheckLimit(r, s)
            PROVE  \E p, w : Turn(r, p, w) /\ p # "cache" /\ place[r] = "idle"
                             /\ UNCHANGED <<reached, cache, missed>>
        <4>1. Turn(r, "insert", [NoWork EXCEPT !.submissions = {s}]) /\ place[r] = "idle"
              /\ UNCHANGED <<reached, cache, missed>>
          BY <3>1 DEF CheckLimit, StartRequest, GoOn, Turn, milestoneVars, histVars
        <4> QED BY <4>1
      <3>2. ASSUME NEW s \in Submissions, NEW x \in Verdicts, BeginReview(r, s, x)
            PROVE  \E p, w : Turn(r, p, w) /\ p # "cache" /\ place[r] = "idle"
                             /\ UNCHANGED <<reached, cache, missed>>
        <4>1. Turn(r, "review", [NoWork EXCEPT !.submissions = {s}, !.verdict = x])
              /\ place[r] = "idle" /\ UNCHANGED <<reached, cache, missed>>
          BY <3>2 DEF BeginReview, StartRequest, GoOn, Turn, milestoneVars
        <4> QED BY <4>1
      <3>3. ASSUME NEW m \in Amounts, BeginPayment(r, m)
            PROVE  \E p, w : Turn(r, p, w) /\ p # "cache" /\ place[r] = "idle"
                             /\ UNCHANGED <<reached, cache, missed>>
        <4>1. Turn(r, "lock", [NoWork EXCEPT !.submissions = Unpaid, !.amount = m])
              /\ place[r] = "idle" /\ UNCHANGED <<reached, cache, missed>>
          BY <3>3 DEF BeginPayment, StartRequest, GoOn, Turn, milestoneVars, histVars
        <4> QED BY <4>1
      <3>4. CASE getLastReachedMilestone(r)
        <4>1. Turn(r, "query", NoWork) /\ place[r] = "idle" /\ UNCHANGED <<reached, cache, missed>>
          BY <3>4 DEF getLastReachedMilestone, StartRequest, GoOn, Turn, milestoneVars, histVars
        <4> QED BY <4>1
      <3>5. CASE SumPoints(r)
        <4>1. Turn(r, "stamp", [NoWork EXCEPT !.message = TRUE, !.total = ApprovedPoints])
              /\ place[r] = "idle" /\ UNCHANGED <<reached, cache, missed>>
          BY <3>5 DEF SumPoints, StartRequest, GoOn, Turn, milestoneVars, histVars
        <4> QED BY <4>1
      <3> QED BY <1>1, <3>1, <3>2, <3>3, <3>4, <3>5 DEF Begin
    <2>2. place[r] = "idle" => place[r] \notin Caching
      BY DEF Caching
    <2> QED BY <1>b, <2>1, <2>2
  <1>2. ASSUME NEW r \in Requests, InsertSubmission(r) \/ CommitPayment(r) \/ Ack(r) PROVE Caught'
    <2>1. Turn(r, "idle", NoWork) /\ place[r] \notin Caching /\ UNCHANGED <<reached, cache, missed>>
      BY <1>2 DEF InsertSubmission, CommitPayment, Ack, End, GoOn, Turn, Caching, milestoneVars,
                  histVars
    <2> QED BY <1>b, <2>1
  <1>3. ASSUME NEW r \in Requests, NEW s \in Submissions, WriteReview(r, s) PROVE Caught'
    <2>1. Turn(r, "idle", NoWork) /\ place[r] \notin Caching /\ UNCHANGED <<reached, cache, missed>>
      BY <1>3 DEF WriteReview, End, GoOn, Turn, Caching
    <2> QED BY <1>b, <2>1
  <1>4. ASSUME NEW r \in Requests, LockSubmissions(r) PROVE Caught'
    <2>1. /\ place[r] \notin Caching /\ UNCHANGED <<reached, cache, missed>>
          /\ \/ Turn(r, "idle", NoWork)
             \/ Turn(r, "pay", [work[r] EXCEPT !.submissions = StillUnpaid(r)])
      BY <1>0, <1>4 DEF LockSubmissions, End, GoOn, Turn, Caching, milestoneVars, histVars,
                        RequestTypes
    <2> QED BY <1>b, <2>1
  <1>5. ASSUME NEW r \in Requests, detectContributionMilestones(r) PROVE Caught'
    <2>1. /\ place[r] = "stamp" /\ cache' = cache /\ work' = work
          /\ reached' = reached \cup Crossed(r)
          /\ place' = [place EXCEPT ![r] = IF Crossed(r) = {} THEN "ack" ELSE "query"]
          /\ missed' = (missed \/ (Crossed(r) # {} /\ \E v \in Requests : place[v] = "cache"))
      BY <1>5 DEF detectContributionMilestones, GoOn
    <2>2. CASE Crossed(r) = {}
      <3>1. Turn(r, "ack", work[r]) /\ UNCHANGED <<reached, cache>> /\ place[r] \notin Caching
            /\ missed' = missed
        BY <1>0, <2>1, <2>2 DEF Turn, RequestTypes, Caching
      <3> QED BY <1>b, <3>1
    <2>3. CASE Crossed(r) # {}
      <3>1. place'[r] = "query" /\ work'[r].message = TRUE
            /\ \A v \in Requests : v # r => place'[v] = place[v]
        BY <1>0, <1>a, <2>1, <2>3 DEF RequestTypes, Fits
      <3>2. ~missed' => \A v \in Requests : place'[v] # "cache"
        BY <2>1, <2>3, <3>1
      <3> QED BY <3>1, <3>2 DEF Caught, Caching
    <2> QED BY <2>2, <2>3
  <1>6. ASSUME NEW r \in Requests, queryLastReachedMilestone(r) PROVE Caught'
    <2> DEFINE w == [work[r] EXCEPT !.total = Last(reached)]
    <2>1. Turn(r, "cache", w) /\ UNCHANGED <<reached, cache, missed>> /\ place[r] = "query"
      BY <1>0, <1>6 DEF queryLastReachedMilestone, GoOn, Turn, milestoneVars, histVars, RequestTypes
    <2>2. w.total = Last(reached) /\ w.message = work[r].message
      BY <1>a DEF ContributionWork
    <2> HIDE DEF w
    <2>3. \/ work[r].message = FALSE
          \/ "cache" \in Caching /\ w.message = TRUE
      BY <1>a, <2>2 DEF Caching
    <2> QED BY <1>0, <2>1, <2>2, <2>3, CaughtFrame
  <1>7. ASSUME NEW r \in Requests, cacheLastReachedMilestone(r) PROVE Caught'
    <2>1. /\ place[r] = "cache" /\ cache' = work[r].total /\ UNCHANGED <<reached, missed>>
          /\ place'[r] # "cache"
          /\ \A v \in Requests : v # r => place'[v] = place[v] /\ work'[v] = work[v]
      BY <1>0, <1>7 DEF cacheLastReachedMilestone, End, GoOn, RequestTypes, histVars
    <2>2. SUFFICES ASSUME ~missed
                   PROVE  /\ \A v \in Requests : place'[v] = "cache" => work'[v].total = Last(reached)
                          /\ cache' = Last(reached)
      BY <2>1 DEF Caught, Last
    <2> QED BY <2>1, <2>2 DEF Caught
  <1>8. ASSUME NEW r \in Requests, FailRequest(r) PROVE Caught'
    <2>1. /\ Turn(r, "idle", NoWork) /\ UNCHANGED <<reached, cache>>
          /\ missed' = (missed \/ (place[r] \in Caching /\ work[r].message))
      BY <1>8 DEF FailRequest, End, GoOn, Turn, milestoneVars
    <2>2. missed' \in BOOLEAN /\ (missed => missed')
      BY <1>0, <1>a, <2>1
    <2>3. place[r] \notin Caching \/ work[r].message = FALSE \/ missed'
      BY <1>a, <2>1
    <2> QED BY <1>0, <2>1, <2>2, <2>3, CaughtFrame
  <1>9. CASE ExpireCache
    BY <1>9 DEF ExpireCache, Caught, histVars, Last
  <1>10. CASE UNCHANGED contributionVars
    BY <1>10 DEF contributionVars, milestoneVars, histVars, Caught, Last
  <1> QED BY <1>1, <1>2, <1>3, <1>4, <1>5, <1>6, <1>7, <1>8, <1>9, <1>10
          DEF ContributionNext, Work

\* CacheFollowsMilestones: once nobody is on the way to the cache, it has the last
\* milestone stamped or is cold, unless a stamp overtook an older value on its way or its
\* worker failed.
THEOREM CacheHasLastMilestone == ContributionSpec => []CacheFollowsMilestones
  <1>1. ContributionInit => Caught
    BY DEF ContributionInit, Caught
  <1>2. ContributionTypes /\ Caught /\ [ContributionNext]_contributionVars => Caught'
    BY CaughtStep
  <1>3. Caught => CacheFollowsMilestones
    BY DEF Caught, CacheFollowsMilestones
  <1> QED BY <1>1, <1>2, <1>3, AlwaysContributionTypes, PTL DEF ContributionSpec
=============================================================================
