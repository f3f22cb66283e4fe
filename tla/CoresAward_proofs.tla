-------------------------- MODULE CoresAward_proofs --------------------------
(***************************************************************************)
(* Proofs about CoresAward, for any users, targets, prices, requests and   *)
(* bounds.                                                                 *)
(*                                                                         *)
(* The argument: the id of an award is the request's own until its row is  *)
(* committed, so nobody else pays or writes under it, and a paid request   *)
(* either commits its row or is orphaned.  A marker of a post is written   *)
(* only with a paid row.                                                   *)
(***************************************************************************)
EXTENDS CoresAward, FiniteSetTheorems, TLAPS

Working(h) == pc[h] \in {"award", "transfer", "commit", "refused"}

\* The transfer njord applies for a request.
TransferOf(h) ==
  [key |-> job[h].id, from |-> job[h].sender, to |-> Receiver[job[h].target],
   amount |-> job[h].value, target |-> job[h].target]

\* Nobody else has used the id of an award that is under way.
OwnId(h) ==
  Working(h) =>
    /\ job[h].id < nextId /\ rows[job[h].id] = NoRow /\ thanked[job[h].id] = 0
    /\ \A g \in Handlers \ {h} : Working(g) => job[g].id # job[h].id

\* It is paid exactly when the request is about to commit.
PaysOnce(h) ==
  /\ Working(h) /\ pc[h] # "commit" => ~Paid(job[h].id)
  /\ pc[h] = "commit" => TransferOf(h) \in ledger

Thanking(h) == pc[h] = "thank" => rows[job[h].id].status = "Success"

Fresh(id) == id >= nextId => rows[id] = NoRow /\ ~Paid(id) /\ thanked[id] = 0

OneKey == \A t, s \in ledger : t.key = s.key => t = s

ThanksAreTold(id) ==
  thanked[id] <= 1 /\ (thanked[id] # 0 => rows[id] \in Row /\ rows[id].thanks)

Inv ==
  /\ TypeOK
  /\ \A h \in Handlers : OwnId(h) /\ PaysOnce(h) /\ Thanking(h)
  /\ \A id \in Ids : Fresh(id) /\ ThanksAreTold(id)
  /\ OneKey
  /\ StatusTellsPayment /\ PaidIsRecorded /\ AwardIsPaid

-----------------------------------------------------------------------------
LEMMA InitInv == Init => Inv
<1> SUFFICES ASSUME Init PROVE Inv OBVIOUS
<1>1. TypeOK
  BY UserAssumption, AmountAssumption, LimitAssumption, TargetAssumption
  DEF Init, TypeOK, NoRow, NoJob, Ids
<1>2. \A h \in Handlers : OwnId(h) /\ PaysOnce(h) /\ Thanking(h)
  BY DEF Init, OwnId, PaysOnce, Thanking, Working
<1>3. \A id \in Ids : Fresh(id) /\ ThanksAreTold(id) BY DEF Init, Fresh, ThanksAreTold, Paid
<1>4. OneKey BY DEF Init, OneKey
<1>5. StatusTellsPayment /\ PaidIsRecorded /\ AwardIsPaid
  BY DEF Init, StatusTellsPayment, PaidIsRecorded, AwardIsPaid, NoRow
<1> QED BY <1>1, <1>2, <1>3, <1>4, <1>5 DEF Inv

\* A step of a request is one of its actions.
Act(h) ==
  \/ \E u \in Users, t \in Targets, v \in Prices : StartAward(h, u, t, v)
  \/ \E id \in Ids : ReadThanks(h, id)
  \/ WriteAward(h) \/ TransferCores(h) \/ CommitAward(h)
  \/ RefuseTransfer(h) \/ SaveRefused(h) \/ Thank(h) \/ FailAward(h)

LEMMA Acts == Next => \E h \in Handlers : Act(h)
BY DEF Next, Request, RequestStep, Act

\* It leaves what the other requests do alone.
LEMMA Elsewhere ==
  ASSUME TypeOK, NEW h \in Handlers, Act(h), NEW g \in Handlers, g # h
  PROVE  pc'[g] = pc[g] /\ job'[g] = job[g]
BY DEF Act, StartAward, ReadThanks, WriteAward, TransferCores, CommitAward, RefuseTransfer,
       SaveRefused, Thank, FailAward, Finish, TypeOK

-----------------------------------------------------------------------------
(* Types.                                                                  *)

LEMMA KeptIsRow ==
  ASSUME NEW a \in Award, NEW status \in {"Success", "Failed"}
  PROVE  Kept(a, status) \in Row
BY DEF Award, Kept, Row

LEMMA CommittedIsRow ==
  ASSUME TypeOK, NEW id \in Ids, rows[id].status = "Success"
  PROVE  rows[id] \in Row
BY DEF TypeOK, NoRow

LEMMA TypesStep ==
  ASSUME Inv, NEW h \in Handlers, Act(h)
  PROVE  TypeOK'
<1> USE TargetAssumption, AmountAssumption, LimitAssumption
<1>0. TypeOK BY DEF Inv
<1>1. ASSUME NEW u \in Users, NEW t \in Targets, NEW v \in Prices, StartAward(h, u, t, v)
      PROVE  TypeOK'
  <2>1. [id |-> nextId, sender |-> u, target |-> t, value |-> v] \in Award
    BY <1>0, <1>1 DEF StartAward, TypeOK, Award, Ids
  <2>2. UNCHANGED <<funds, ledger, rows, userPost, awards, totalAwards, thanked, failures, orphaned>>
    BY <1>1 DEF StartAward, njord, tables
  <2>3. nextId' \in 1..(MaxRows + 1) BY <1>0, <1>1 DEF StartAward, TypeOK
  <2>4. overlapped' \subseteq Posts \X Users BY <1>0, <1>1 DEF StartAward, TypeOK
  <2>5. pc' \in [Handlers -> {"idle", "award", "transfer", "commit", "refused", "thank"}]
    BY <1>0, <1>1 DEF StartAward, TypeOK
  <2>6. job' \in [Handlers -> Award \cup {NoJob}] BY <1>0, <1>1, <2>1 DEF StartAward, TypeOK
  <2>7. \A g \in Handlers : pc'[g] # "idle" => job'[g] \in Award
    BY <1>0, <1>1, <2>1 DEF StartAward, TypeOK
  <2> QED BY <1>0, <2>2, <2>3, <2>4, <2>5, <2>6, <2>7 DEF TypeOK
<1>2. ASSUME NEW id \in Ids, ReadThanks(h, id) PROVE TypeOK'
  <2>1. [id |-> id, sender |-> rows[id].sender, target |-> rows[id].target,
         value |-> rows[id].value] \in Award
    BY <1>0, <1>2, CommittedIsRow DEF ReadThanks, Award, Row
  <2> QED BY <1>0, <1>2, <2>1 DEF ReadThanks, TypeOK, njord, tables
<1>3. CASE WriteAward(h) BY <1>0, <1>3 DEF WriteAward, TypeOK, njord, tables
<1>4. CASE TransferCores(h)
  <2>1. job[h] \in Award BY <1>0, <1>4 DEF TransferCores, TypeOK
  <2>2. TransferOf(h) \in Transfer BY <2>1 DEF TransferOf, Transfer, Award
  <2>3. ledger' = ledger \cup {TransferOf(h)} BY <1>4 DEF TransferCores, TransferOf
  <2>4. job[h].sender \in Users /\ Receiver[job[h].target] \in Users /\ job[h].value \in Nat
    BY <2>1 DEF Award
  <2>5. funds' \in [Users -> Nat]
    <3> DEFINE taken == [funds EXCEPT ![job[h].sender] = @ - job[h].value]
    <3>1. taken \in [Users -> Nat] BY <1>0, <1>4, <2>4 DEF TransferCores, TypeOK
    <3>2. funds' = [taken EXCEPT ![Receiver[job[h].target]] = @ + job[h].value]
      BY <1>4 DEF TransferCores
    <3> HIDE DEF taken
    <3> QED BY <2>4, <3>1, <3>2
  <2>6. UNCHANGED <<tables, job, thanked, nextId, failures, orphaned, overlapped>>
    BY <1>4 DEF TransferCores
  <2>7. pc' = [pc EXCEPT ![h] = "commit"] /\ pc[h] = "transfer" BY <1>4 DEF TransferCores
  <2> QED BY <1>0, <2>2, <2>3, <2>5, <2>6, <2>7 DEF TypeOK, tables
<1>5. CASE CommitAward(h)
  <2>1. job[h] \in Award BY <1>0, <1>5 DEF CommitAward, TypeOK
  <2>2. rows' \in [Ids -> Row \cup {NoRow}]
    BY <1>0, <1>5, <2>1, KeptIsRow DEF CommitAward, TypeOK
  <2>3. userPost' \in [Posts -> [Users -> Ids \cup {0}]]
    BY <1>0, <1>5, <2>1 DEF CommitAward, TypeOK, Award
  <2>4. awards' \in [Posts -> Int] BY <1>0, <1>5 DEF CommitAward, PostCounted, TypeOK
  <2>5. totalAwards' \in [Squads -> Nat] BY <1>0, <1>5 DEF CommitAward, SquadCounted, TypeOK
  <2>6. UNCHANGED <<njord, thanked, nextId, failures, orphaned, overlapped>>
    BY <1>5 DEF CommitAward
  <2>7. Finish(h) BY <1>5 DEF CommitAward
  <2> QED BY <1>0, <2>2, <2>3, <2>4, <2>5, <2>6, <2>7 DEF TypeOK, njord, Finish
<1>6. CASE RefuseTransfer(h) BY <1>0, <1>6 DEF RefuseTransfer, TypeOK, njord, tables
<1>7. CASE SaveRefused(h)
  <2>1. job[h] \in Award BY <1>0, <1>7 DEF SaveRefused, TypeOK
  <2>2. rows' \in [Ids -> Row \cup {NoRow}]
    BY <1>0, <1>7, <2>1, KeptIsRow DEF SaveRefused, TypeOK
  <2>3. totalAwards' \in [Squads -> Nat] BY <1>0, <1>7 DEF SaveRefused, SquadCounted, TypeOK
  <2>4. UNCHANGED <<njord, userPost, awards, thanked, nextId, failures, orphaned, overlapped>>
    BY <1>7 DEF SaveRefused
  <2>5. Finish(h) BY <1>7 DEF SaveRefused
  <2> QED BY <1>0, <2>2, <2>3, <2>4, <2>5 DEF TypeOK, njord, Finish
<1>8. CASE Thank(h)
  <2>1. job[h].id \in Ids BY <1>0, <1>8 DEF Thank, TypeOK, Award
  <2>2. rows[job[h].id] \in Row
    BY <1>0, <1>8, <2>1, CommittedIsRow DEF Inv, Thanking, Thank
  <2>3. [rows[job[h].id] EXCEPT !.thanks = TRUE] \in Row BY <2>2 DEF Row
  <2>4. rows' \in [Ids -> Row \cup {NoRow}] BY <1>0, <1>8, <2>1, <2>3 DEF Thank, TypeOK
  <2>5. thanked' \in [Ids -> Nat] BY <1>0, <1>8, <2>1 DEF Thank, TypeOK
  <2>6. UNCHANGED <<njord, userPost, awards, totalAwards, nextId, failures, orphaned, overlapped>>
    BY <1>8 DEF Thank
  <2>7. Finish(h) BY <1>8 DEF Thank
  <2> QED BY <1>0, <2>4, <2>5, <2>6, <2>7 DEF TypeOK, njord, Finish
<1>9. CASE FailAward(h)
  <2>1. job[h].id \in Ids BY <1>0, <1>9 DEF FailAward, TypeOK, Award
  <2> QED BY <1>0, <1>9, <2>1 DEF FailAward, Finish, TypeOK, njord, tables
<1> QED BY <1>1, <1>2, <1>3, <1>4, <1>5, <1>6, <1>7, <1>8, <1>9 DEF Act

-----------------------------------------------------------------------------
(* Ids and payments.                                                       *)

LEMMA OwnIdStep ==
  ASSUME Inv, NEW h \in Handlers, Act(h), NEW g \in Handlers
  PROVE  OwnId(g)'
<1>0. TypeOK BY DEF Inv
<1>1. SUFFICES ASSUME Working(g)' PROVE OwnId(g)' BY DEF OwnId
<1>2. ASSUME NEW u \in Users, NEW t \in Targets, NEW v \in Prices, StartAward(h, u, t, v)
      PROVE  OwnId(g)'
  <2>1. nextId \in Ids /\ nextId' = nextId + 1 /\ nextId \in Nat
    BY <1>0, <1>2, LimitAssumption DEF StartAward, TypeOK, Ids
  <2>2. job'[h].id = nextId /\ pc'[h] = "award" BY <1>0, <1>2 DEF StartAward, TypeOK
  <2>3. \A i \in Handlers \ {h} : pc'[i] = pc[i] /\ job'[i] = job[i] BY <1>0, Elsewhere
  <2>4. \A i \in Handlers \ {h} : Working(i) => job[i].id < nextId BY DEF Inv, OwnId
  <2>5. rows[nextId] = NoRow /\ thanked[nextId] = 0 BY <2>1 DEF Inv, Fresh
  <2>6. UNCHANGED <<rows, thanked>> BY <1>2 DEF StartAward, tables
  <2>7. \A i \in Handlers \ {h} : Working(i) => job[i].id \in Int
    BY <1>0 DEF TypeOK, Working, Award, Ids
  <2>8. CASE g = h BY <2>1, <2>2, <2>3, <2>4, <2>5, <2>6, <2>7, <2>8 DEF OwnId, Working
  <2>9. CASE g # h BY <2>1, <2>2, <2>3, <2>4, <2>6, <2>7, <2>9 DEF OwnId, Working, Inv
  <2> QED BY <2>8, <2>9
<1>3. CASE \E id \in Ids : ReadThanks(h, id)
  <2>1. pc'[h] = "thank" BY <1>0, <1>3 DEF ReadThanks, TypeOK
  <2>2. g # h BY <1>1, <2>1 DEF Working
  <2>3. UNCHANGED <<rows, thanked, nextId>> BY <1>3 DEF ReadThanks, tables
  <2>4. \A i \in Handlers \ {h} : pc'[i] = pc[i] /\ job'[i] = job[i] BY <1>0, Elsewhere
  <2> QED BY <1>1, <2>1, <2>2, <2>3, <2>4 DEF OwnId, Working, Inv
<1>4. CASE WriteAward(h) \/ TransferCores(h) \/ RefuseTransfer(h)
  <2>1. Working(h) /\ UNCHANGED <<rows, thanked, nextId, job>>
    BY <1>4 DEF WriteAward, TransferCores, RefuseTransfer, tables, Working
  <2>2. \A i \in Handlers \ {h} : pc'[i] = pc[i] BY <1>0, Elsewhere
  <2>3. \A i \in Handlers : Working(i)' => Working(i) BY <2>1, <2>2 DEF Working
  <2> QED BY <1>1, <2>1, <2>3 DEF OwnId, Inv
<1>5. CASE CommitAward(h) \/ SaveRefused(h) \/ FailAward(h) \/ Thank(h)
  <2>1. pc'[h] = "idle" BY <1>0, <1>5 DEF CommitAward, SaveRefused, FailAward, Thank, Finish, TypeOK
  <2>2. g # h /\ Working(g) BY <1>0, <1>1, <2>1, Elsewhere DEF Working
  <2>3. \A i \in Handlers \ {h} : pc'[i] = pc[i] /\ job'[i] = job[i] BY <1>0, Elsewhere
  <2>4. nextId' = nextId BY <1>5 DEF CommitAward, SaveRefused, FailAward, Thank
  <2>5. job[g].id \in Ids /\ rows[job[g].id] = NoRow /\ thanked[job[g].id] = 0
    BY <1>0, <2>2 DEF Inv, OwnId, Working, TypeOK, Award
  <2>6. job[h].id # job[g].id
    <3>1. CASE Thank(h)
      BY <2>5, <3>1 DEF Thank, Inv, Thanking, NoRow
    <3>2. CASE ~Thank(h)
      BY <1>5, <2>2, <3>2 DEF CommitAward, SaveRefused, FailAward, Inv, OwnId, Working
    <3> QED BY <3>1, <3>2
  <2>7. rows'[job[g].id] = rows[job[g].id] /\ thanked'[job[g].id] = thanked[job[g].id]
    BY <1>0, <1>5, <2>5, <2>6 DEF CommitAward, SaveRefused, FailAward, Thank, tables, TypeOK
  <2> QED BY <1>1, <2>1, <2>2, <2>3, <2>4, <2>7 DEF OwnId, Working, Inv
<1> QED BY <1>2, <1>3, <1>4, <1>5 DEF Act

\* Only njord's transfer writes the ledger.
LEMMA LedgerStep ==
  ASSUME Inv, NEW h \in Handlers, Act(h)
  PROVE  \/ TransferCores(h) /\ ledger' = ledger \cup {TransferOf(h)} /\ ~Paid(job[h].id)
         \/ ~TransferCores(h) /\ ledger' = ledger
<1>1. CASE TransferCores(h) BY <1>1 DEF TransferCores, TransferOf, Inv, PaysOnce, Working
<1>2. CASE ~TransferCores(h)
  BY <1>2 DEF Act, StartAward, ReadThanks, WriteAward, CommitAward, RefuseTransfer, SaveRefused,
              Thank, FailAward, njord
<1> QED BY <1>1, <1>2

LEMMA KeyOfTransfer == ASSUME NEW h PROVE TransferOf(h).key = job[h].id
BY DEF TransferOf

LEMMA OneKeyStep ==
  ASSUME Inv, NEW h \in Handlers, Act(h)
  PROVE  OneKey'
BY LedgerStep, KeyOfTransfer DEF Inv, OneKey, Paid

LEMMA PaysOnceStep ==
  ASSUME Inv, NEW h \in Handlers, Act(h), NEW g \in Handlers
  PROVE  PaysOnce(g)'
<1>0. TypeOK BY DEF Inv
<1>1. CASE g # h
  <2>1. pc'[g] = pc[g] /\ job'[g] = job[g] BY <1>0, <1>1, Elsewhere
  <2>2. TransferOf(g)' = TransferOf(g) BY <2>1 DEF TransferOf
  <2>3. Working(g) /\ TransferCores(h) => job[g].id # job[h].id
    BY <1>1 DEF Inv, OwnId, Working, TransferCores
  <2> QED BY <2>1, <2>2, <2>3, LedgerStep, KeyOfTransfer DEF PaysOnce, Working, Paid, Inv
<1>2. PaysOnce(h)'
  <2>1. ASSUME NEW u \in Users, NEW t \in Targets, NEW v \in Prices, StartAward(h, u, t, v)
        PROVE  PaysOnce(h)'
    <3>1. job'[h].id = nextId /\ pc'[h] = "award" BY <1>0, <2>1 DEF StartAward, TypeOK
    <3>2. nextId \in Ids BY <1>0, <2>1, LimitAssumption DEF StartAward, TypeOK, Ids
    <3>3. ~Paid(nextId)
      <4>1. nextId >= nextId BY <3>2, LimitAssumption DEF Ids
      <4> QED BY <3>2, <4>1 DEF Inv, Fresh
    <3>4. ledger' = ledger BY <2>1 DEF StartAward, njord
    <3> QED BY <3>1, <3>3, <3>4 DEF PaysOnce, Paid
  <2>2. CASE TransferCores(h)
    <3>1. pc'[h] = "commit" /\ job' = job BY <1>0, <2>2 DEF TransferCores, TypeOK
    <3>2. TransferOf(h)' = TransferOf(h) BY <3>1 DEF TransferOf
    <3>3. TransferOf(h) \in ledger' BY <2>2, LedgerStep
    <3> QED BY <3>1, <3>2, <3>3 DEF PaysOnce
  <2>3. CASE WriteAward(h) \/ RefuseTransfer(h)
    <3>1. /\ Working(h) /\ pc[h] # "commit" /\ pc'[h] # "commit"
          /\ job' = job /\ ledger' = ledger
      BY <1>0, <2>3 DEF WriteAward, RefuseTransfer, TypeOK, njord, Working
    <3> QED BY <3>1 DEF PaysOnce, Inv, Paid
  <2>4. CASE \/ \E id \in Ids : ReadThanks(h, id)
             \/ CommitAward(h) \/ SaveRefused(h) \/ Thank(h) \/ FailAward(h)
    <3>1. pc'[h] \in {"idle", "thank"}
      BY <1>0, <2>4 DEF ReadThanks, CommitAward, SaveRefused, Thank, FailAward, Finish, TypeOK
    <3> QED BY <3>1 DEF PaysOnce, Working
  <2> QED BY <2>1, <2>2, <2>3, <2>4 DEF Act
<1> QED BY <1>1, <1>2

LEMMA FreshStep ==
  ASSUME Inv, NEW h \in Handlers, Act(h), NEW id \in Ids
  PROVE  Fresh(id)'
<1>0. TypeOK /\ Fresh(id) BY DEF Inv
<1>1. SUFFICES ASSUME id >= nextId' PROVE rows'[id] = NoRow /\ ~Paid(id)' /\ thanked'[id] = 0
  BY DEF Fresh
<1>2. id \in Int /\ nextId \in Int BY <1>0, LimitAssumption DEF Ids, TypeOK
<1>3. nextId' = nextId \/ nextId' = nextId + 1
  BY DEF Act, StartAward, ReadThanks, WriteAward, TransferCores, CommitAward, RefuseTransfer,
         SaveRefused, Thank, FailAward
<1>4. id >= nextId BY <1>1, <1>2, <1>3
<1>5. rows[id] = NoRow /\ ~Paid(id) /\ thanked[id] = 0 BY <1>0, <1>4 DEF Fresh
<1>6. Working(h) => job[h].id # id
  <2>1. Working(h) => job[h].id \in Int /\ job[h].id < nextId
    BY <1>0 DEF Inv, OwnId, TypeOK, Working, Award, Ids
  <2> QED BY <1>2, <1>4, <2>1
<1>7. ~Paid(id)'
  BY <1>5, <1>6, LedgerStep, KeyOfTransfer DEF Paid, TransferCores, Working
<1>8. rows'[id] = rows[id] /\ thanked'[id] = thanked[id]
  <2>1. CASE CommitAward(h) BY <1>0, <1>6, <2>1 DEF CommitAward, TypeOK, Working
  <2>2. CASE SaveRefused(h) BY <1>0, <1>6, <2>2 DEF SaveRefused, TypeOK, Working
  <2>3. CASE Thank(h)
    <3>1. job[h].id # id BY <1>5, <2>3 DEF Inv, Thanking, Thank, NoRow
    <3> QED BY <1>0, <2>3, <3>1 DEF Thank, TypeOK
  <2>4. CASE ~CommitAward(h) /\ ~SaveRefused(h) /\ ~Thank(h)
    BY <2>4 DEF Act, StartAward, ReadThanks, WriteAward, TransferCores, RefuseTransfer, FailAward,
                tables
  <2> QED BY <2>1, <2>2, <2>3, <2>4
<1> QED BY <1>5, <1>7, <1>8

\* What an action writes into the committed rows.
LEMMA RowsStep ==
  ASSUME Inv, NEW h \in Handlers, Act(h)
  PROVE  \/ /\ CommitAward(h) \/ SaveRefused(h)
            /\ job[h].id \in Ids /\ rows[job[h].id] = NoRow /\ thanked' = thanked
            /\ rows' = [rows EXCEPT ![job[h].id] =
                          Kept(job[h], IF CommitAward(h) THEN "Success" ELSE "Failed")]
         \/ /\ Thank(h) /\ job[h].id \in Ids /\ rows[job[h].id] \in Row
            /\ rows[job[h].id].status = "Success"
            /\ rows' = [rows EXCEPT ![job[h].id].thanks = TRUE]
         \/ ~CommitAward(h) /\ ~SaveRefused(h) /\ ~Thank(h) /\ rows' = rows /\ thanked' = thanked
<1>0. TypeOK BY DEF Inv
<1>1. CASE CommitAward(h) \/ SaveRefused(h)
  <2>1. Working(h) BY <1>1 DEF CommitAward, SaveRefused, Working
  <2>2. job[h].id \in Ids BY <1>0, <2>1 DEF TypeOK, Working, Award
  <2>3. rows[job[h].id] = NoRow BY <2>1 DEF Inv, OwnId
  <2>4. ~(CommitAward(h) /\ SaveRefused(h)) BY DEF CommitAward, SaveRefused
  <2> QED BY <1>1, <2>2, <2>3, <2>4 DEF CommitAward, SaveRefused
<1>2. CASE Thank(h)
  <2>1. job[h].id \in Ids BY <1>0, <1>2 DEF Thank, TypeOK, Award
  <2>2. rows[job[h].id].status = "Success" BY <1>2 DEF Thank, Inv, Thanking
  <2>3. rows[job[h].id] \in Row BY <1>0, <2>1, <2>2, CommittedIsRow
  <2>4. rows' = [rows EXCEPT ![job[h].id].thanks = TRUE] BY <1>2 DEF Thank
  <2> QED BY <1>2, <2>1, <2>2, <2>3, <2>4
<1>3. CASE ~CommitAward(h) /\ ~SaveRefused(h) /\ ~Thank(h)
  BY <1>3 DEF Act, StartAward, ReadThanks, WriteAward, TransferCores, RefuseTransfer, FailAward,
              tables
<1> QED BY <1>1, <1>2, <1>3

LEMMA StatusOfKept == ASSUME NEW a, NEW s PROVE Kept(a, s).status = s BY DEF Kept

\* A row that is committed keeps its status.
LEMMA StatusStays ==
  ASSUME Inv, NEW h \in Handlers, Act(h), NEW id \in Ids, rows[id] # NoRow
  PROVE  rows'[id].status = rows[id].status
<1>0. TypeOK BY DEF Inv
<1>1. CASE \/ CommitAward(h) \/ SaveRefused(h)
  BY <1>0, <1>1, RowsStep DEF TypeOK, CommitAward, SaveRefused, Thank
<1>2. CASE Thank(h)
  <2>1. /\ job[h].id \in Ids /\ rows[job[h].id] \in Row
        /\ rows' = [rows EXCEPT ![job[h].id].thanks = TRUE]
    BY <1>2, RowsStep DEF CommitAward, SaveRefused, Thank
  <2> QED BY <1>0, <2>1 DEF TypeOK, Row
<1>3. CASE ~CommitAward(h) /\ ~SaveRefused(h) /\ ~Thank(h) BY <1>3, RowsStep
<1> QED BY <1>1, <1>2, <1>3

LEMMA ThankingStep ==
  ASSUME Inv, NEW h \in Handlers, Act(h), NEW g \in Handlers
  PROVE  Thanking(g)'
<1>0. TypeOK BY DEF Inv
<1>1. SUFFICES ASSUME pc'[g] = "thank" PROVE rows'[job'[g].id].status = "Success" BY DEF Thanking
<1>2. CASE \E id \in Ids : ReadThanks(h, id) /\ g = h
  <2>1. PICK id \in Ids : ReadThanks(h, id) BY <1>2
  <2>2. job'[g].id = id /\ rows' = rows BY <1>0, <1>2, <2>1 DEF ReadThanks, TypeOK, tables
  <2> QED BY <2>1, <2>2 DEF ReadThanks
<1>3. CASE pc[g] = "thank" /\ job'[g] = job[g]
  <2>1. rows[job[g].id].status = "Success" /\ job[g].id \in Ids
    BY <1>0, <1>3 DEF Inv, Thanking, TypeOK, Award
  <2> QED BY <1>3, <2>1, StatusStays DEF NoRow
<1>4. CASE g # h BY <1>0, <1>1, <1>3, <1>4, Elsewhere
<1>5. CASE g = h /\ ~\E id \in Ids : ReadThanks(h, id)
  BY <1>0, <1>1, <1>5 DEF Act, StartAward, WriteAward, TransferCores, CommitAward, RefuseTransfer,
                          SaveRefused, Thank, FailAward, Finish, TypeOK
<1> QED BY <1>2, <1>4, <1>5

LEMMA ThanksStep ==
  ASSUME Inv, NEW h \in Handlers, Act(h), NEW id \in Ids
  PROVE  ThanksAreTold(id)'
<1>0. TypeOK /\ ThanksAreTold(id) BY DEF Inv
<1>1. CASE CommitAward(h) \/ SaveRefused(h)
  <2>1. job[h].id = id => thanked[id] = 0
    BY <1>1 DEF Inv, OwnId, Working, CommitAward, SaveRefused
  <2> QED BY <1>0, <1>1, <2>1, RowsStep DEF ThanksAreTold, CommitAward, SaveRefused, Thank, TypeOK
<1>2. CASE Thank(h)
  <2>1. /\ job[h].id \in Ids /\ rows[job[h].id] \in Row
        /\ rows' = [rows EXCEPT ![job[h].id].thanks = TRUE]
    BY <1>2, RowsStep DEF CommitAward, SaveRefused, Thank
  <2>2. thanked' = IF rows[job[h].id].thanks THEN thanked
                   ELSE [thanked EXCEPT ![job[h].id] = @ + 1]
    BY <1>2 DEF Thank
  <2>3. CASE id # job[h].id BY <1>0, <2>1, <2>2, <2>3 DEF ThanksAreTold, TypeOK
  <2>4. CASE id = job[h].id
    <3>1. rows'[id] \in Row /\ rows'[id].thanks BY <1>0, <2>1, <2>4 DEF TypeOK, Row
    <3>2. thanked[id] \in {0, 1}
      <4>1. thanked[id] \in Nat BY <1>0 DEF TypeOK
      <4> QED BY <1>0, <4>1 DEF ThanksAreTold
    <3>3. thanked'[id] <= 1 BY <1>0, <2>1, <2>2, <2>4, <3>2 DEF ThanksAreTold, TypeOK
    <3> QED BY <3>1, <3>3 DEF ThanksAreTold
  <2> QED BY <2>3, <2>4
<1>3. CASE ~CommitAward(h) /\ ~SaveRefused(h) /\ ~Thank(h)
  BY <1>0, <1>3, RowsStep DEF ThanksAreTold
<1> QED BY <1>1, <1>2, <1>3

LEMMA StatusStep ==
  ASSUME Inv, NEW h \in Handlers, Act(h)
  PROVE  StatusTellsPayment'
<1>0. TypeOK BY DEF Inv
<1>1. SUFFICES ASSUME NEW id \in Ids
               PROVE  /\ rows'[id].status = "Success" => Paid(id)'
                      /\ rows'[id].status = "Failed" => ~Paid(id)'
  BY DEF StatusTellsPayment
<1>2. CASE rows[id] # NoRow
  <2>1. rows'[id].status = rows[id].status BY <1>2, StatusStays
  <2>2. TransferCores(h) => job[h].id # id
    BY <1>2 DEF TransferCores, Inv, OwnId, Working
  <2> QED BY <2>1, <2>2, LedgerStep, KeyOfTransfer DEF Inv, StatusTellsPayment, Paid
<1>3. CASE rows[id] = NoRow /\ rows'[id] = rows[id] BY <1>3 DEF NoRow
<1>4. CASE rows[id] = NoRow /\ rows'[id] # rows[id]
  <2>1. /\ CommitAward(h) \/ SaveRefused(h)
        /\ job[h].id = id
        /\ rows'[id] = Kept(job[h], IF CommitAward(h) THEN "Success" ELSE "Failed")
    <3>1. CASE Thank(h)
      <4>1. job[h].id # id BY <1>4, <3>1 DEF Thank, Inv, Thanking, NoRow
      <4> QED BY <1>0, <1>4, <3>1, <4>1 DEF Thank, TypeOK
    <3>2. CASE CommitAward(h) \/ SaveRefused(h)
      <4>1. rows' = [rows EXCEPT ![job[h].id] =
                       Kept(job[h], IF CommitAward(h) THEN "Success" ELSE "Failed")]
        BY <3>2, RowsStep DEF Thank, CommitAward, SaveRefused
      <4> QED BY <1>0, <1>4, <3>2, <4>1 DEF TypeOK
    <3>3. CASE ~Thank(h) /\ ~CommitAward(h) /\ ~SaveRefused(h) BY <1>4, <3>3, RowsStep
    <3> QED BY <3>1, <3>2, <3>3
  <2>2. ledger' = ledger BY <2>1 DEF CommitAward, SaveRefused, njord
  <2>3. CASE CommitAward(h)
    <3>1. TransferOf(h) \in ledger BY <2>3 DEF CommitAward, Inv, PaysOnce
    <3> QED BY <2>1, <2>2, <2>3, <3>1, StatusOfKept, KeyOfTransfer DEF Paid
  <2>4. CASE ~CommitAward(h)
    <3>1. ~Paid(id) BY <2>1, <2>4 DEF SaveRefused, Inv, PaysOnce, Working
    <3> QED BY <2>1, <2>2, <2>4, <3>1, StatusOfKept DEF Paid
  <2> QED BY <2>3, <2>4
<1> QED BY <1>2, <1>3, <1>4

LEMMA RecordedStep ==
  ASSUME Inv, NEW h \in Handlers, Act(h)
  PROVE  PaidIsRecorded'
<1>0. TypeOK BY DEF Inv
<1>1. SUFFICES ASSUME NEW t \in ledger'
               PROVE  \/ rows'[t.key].status = "Success"
                      \/ t.key \in orphaned'
                      \/ \E g \in Handlers : pc'[g] = "commit" /\ job'[g].id = t.key
  BY DEF PaidIsRecorded
<1>2. CASE t \notin ledger
  <2>1. TransferCores(h) /\ t.key = job[h].id BY <1>1, <1>2, LedgerStep, KeyOfTransfer
  <2>2. pc'[h] = "commit" /\ job'[h] = job[h] BY <1>0, <2>1 DEF TransferCores, TypeOK
  <2> QED BY <2>1, <2>2
<1>3. CASE t \in ledger
  <2>1. t.key \in Ids BY <1>0, <1>3 DEF TypeOK, Transfer
  <2>2. CASE rows[t.key].status = "Success" BY <2>1, <2>2, StatusStays DEF NoRow
  <2>3. CASE t.key \in orphaned
    BY <2>3 DEF Act, StartAward, ReadThanks, WriteAward, TransferCores, CommitAward,
                RefuseTransfer, SaveRefused, Thank, FailAward
  <2>4. ASSUME NEW g \in Handlers, pc[g] = "commit", job[g].id = t.key
        PROVE  \/ rows'[t.key].status = "Success"
               \/ t.key \in orphaned'
               \/ \E i \in Handlers : pc'[i] = "commit" /\ job'[i].id = t.key
    <3>1. CASE g # h BY <1>0, <2>4, <3>1, Elsewhere
    <3>2. CASE g = h
      <4>1. CASE CommitAward(h)
        BY <1>0, <2>1, <2>4, <3>2, <4>1, StatusOfKept DEF CommitAward, TypeOK
      <4>2. CASE FailAward(h) BY <1>3, <2>4, <3>2, <4>2 DEF FailAward, Paid
      <4>3. CASE ~CommitAward(h) /\ ~FailAward(h)
        BY <2>4, <3>2, <4>3 DEF Act, StartAward, ReadThanks, WriteAward, TransferCores,
                                RefuseTransfer, SaveRefused, Thank
      <4> QED BY <4>1, <4>2, <4>3
    <3> QED BY <3>1, <3>2
  <2> QED BY <1>3, <2>2, <2>3, <2>4 DEF Inv, PaidIsRecorded
<1> QED BY <1>2, <1>3

LEMMA AwardPaidStep ==
  ASSUME Inv, NEW h \in Handlers, Act(h)
  PROVE  AwardIsPaid'
<1>0. TypeOK BY DEF Inv
<1>1. SUFFICES ASSUME NEW p \in Posts, NEW u \in Users, userPost'[p][u] # 0
               PROVE  /\ rows'[userPost'[p][u]].status = "Success"
                      /\ \E t \in ledger' : t.key = userPost'[p][u] /\ t.from = u /\ t.to = Receiver[p]
  BY DEF AwardIsPaid
<1>2. CASE userPost'[p][u] = userPost[p][u]
  <2>1. userPost[p][u] \in Ids BY <1>0, <1>1, <1>2 DEF TypeOK
  <2>2. rows[userPost[p][u]].status = "Success" BY <1>1, <1>2 DEF Inv, AwardIsPaid
  <2>3. rows'[userPost[p][u]].status = "Success" BY <2>1, <2>2, StatusStays DEF NoRow
  <2>4. ledger \subseteq ledger' BY LedgerStep
  <2> QED BY <1>1, <1>2, <2>3, <2>4 DEF Inv, AwardIsPaid
<1>3. CASE userPost'[p][u] # userPost[p][u]
  <2>1. CommitAward(h)
    BY <1>3 DEF Act, StartAward, ReadThanks, WriteAward, TransferCores, RefuseTransfer,
                SaveRefused, Thank, FailAward, tables
  <2>2. /\ job[h].target = p /\ job[h].sender = u /\ userPost'[p][u] = job[h].id
        /\ rows' = [rows EXCEPT ![job[h].id] = Kept(job[h], "Success")]
    BY <1>0, <1>3, <2>1 DEF CommitAward, TypeOK
  <2>3. job[h].id \in Ids BY <2>1, RowsStep DEF CommitAward, SaveRefused, Thank
  <2>4. rows'[job[h].id].status = "Success" BY <1>0, <2>2, <2>3, StatusOfKept DEF TypeOK
  <2>5. TransferOf(h) \in ledger' BY <2>1 DEF CommitAward, Inv, PaysOnce, njord
  <2>6. /\ TransferOf(h).key = job[h].id /\ TransferOf(h).from = u
        /\ TransferOf(h).to = Receiver[p]
    BY <2>2 DEF TransferOf
  <2> QED BY <2>2, <2>4, <2>5, <2>6
<1> QED BY <1>2, <1>3

LEMMA InvStep == Inv /\ [Next]_vars => Inv'
<1>1. ASSUME Inv, NEW h \in Handlers, Act(h) PROVE Inv'
  <2> USE <1>1
  <2>1. TypeOK' /\ OneKey' BY TypesStep, OneKeyStep
  <2>2. \A g \in Handlers : OwnId(g)' /\ PaysOnce(g)' /\ Thanking(g)'
    BY OwnIdStep, PaysOnceStep, ThankingStep
  <2>3. \A id \in Ids : Fresh(id)' /\ ThanksAreTold(id)' BY FreshStep, ThanksStep
  <2>4. StatusTellsPayment' /\ PaidIsRecorded' /\ AwardIsPaid'
    BY StatusStep, RecordedStep, AwardPaidStep
  <2> QED BY <2>1, <2>2, <2>3, <2>4 DEF Inv
<1>2. ASSUME Inv, UNCHANGED vars PROVE Inv'
  BY <1>2 DEF vars, Inv, TypeOK, OwnId, PaysOnce, Thanking, Working, Fresh, ThanksAreTold, OneKey,
              StatusTellsPayment, PaidIsRecorded, AwardIsPaid, Paid, TransferOf
<1> QED BY <1>1, <1>2, Acts

THEOREM AlwaysInv == Spec => []Inv
BY InitInv, InvStep, PTL DEF Spec

\* Every variable of CoresAward has its type.
THEOREM TypeCorrect == Spec => []TypeOK
<1>1. Inv => TypeOK BY DEF Inv
<1> QED BY <1>1, AlwaysInv, PTL

\* A post that shows a user's award was paid by that user to its receiver, and
\* the row says so, through every failure (awardPost, awardComment).
THEOREM ShownAwardIsPaid == Spec => []AwardIsPaid
<1>1. Inv => AwardIsPaid BY DEF Inv
<1> QED BY <1>1, AlwaysInv, PTL

\* A committed row tells what njord did.
THEOREM StatusIsTrue == Spec => []StatusTellsPayment
<1>1. Inv => StatusTellsPayment BY DEF Inv
<1> QED BY <1>1, AlwaysInv, PTL

\* A transfer without a successful row is about to get it, or its request died
\* between njord and the commit.
THEOREM TransferIsRecorded == Spec => []PaidIsRecorded
<1>1. Inv => PaidIsRecorded BY DEF Inv
<1> QED BY <1>1, AlwaysInv, PTL

\* However many ask at once, thanks for an award succeed once
\* (sayThanksForAward).
THEOREM ThanksOnce == Spec => []ThankedOnce
<1>1. Inv => ThankedOnce BY DEF Inv, ThanksAreTold, ThankedOnce
<1> QED BY <1>1, AlwaysInv, PTL

-----------------------------------------------------------------------------
(* The counter of a post.                                                  *)

Awarders(p) == {u \in Users : userPost[p][u] # 0}

LEMMA CountStep ==
  ASSUME Inv, NEW h \in Handlers, Act(h), PostCountIsAwards
  PROVE  PostCountIsAwards'
<1>0. TypeOK BY DEF Inv
<1>1. SUFFICES ASSUME NEW p \in Posts PROVE awards'[p] = Cardinality(Awarders(p)')
  BY DEF PostCountIsAwards, Awarders
<1>2. awards[p] = Cardinality(Awarders(p)) BY DEF PostCountIsAwards, Awarders
<1>3. CASE awards' = awards /\ userPost' = userPost BY <1>2, <1>3 DEF Awarders
<1>4. CASE CommitAward(h)
  <2>1. job[h] \in Award BY <1>0, <1>4 DEF CommitAward, TypeOK
  <2>2. /\ job[h].id \in Nat /\ job[h].id # 0 /\ job[h].sender \in Users
    BY <2>1 DEF Award, Ids
  <2>3. CASE job[h].target # p
    <3>1. awards'[p] = awards[p] BY <1>0, <1>4, <2>3 DEF CommitAward, PostCounted, TypeOK
    <3>2. userPost'[p] = userPost[p] BY <1>0, <1>4, <2>3 DEF CommitAward, TypeOK
    <3> QED BY <1>2, <3>1, <3>2 DEF Awarders
  <2>4. CASE job[h].target = p
    <3>1. userPost' = [userPost EXCEPT ![p][job[h].sender] = job[h].id]
      BY <1>4, <2>4 DEF CommitAward
    <3>2. Awarders(p)' = Awarders(p) \cup {job[h].sender}
      BY <1>0, <2>2, <3>1 DEF Awarders, TypeOK
    <3>3. IsFiniteSet(Awarders(p)) BY UserAssumption, FS_Subset DEF Awarders
    <3>4. Cardinality(Awarders(p)') =
            IF job[h].sender \in Awarders(p) THEN Cardinality(Awarders(p))
            ELSE Cardinality(Awarders(p)) + 1
      BY <3>2, <3>3, FS_AddElement
    <3>5. Counts(h) <=> job[h].sender \notin Awarders(p)
      BY <2>2, <2>4 DEF Counts, Awarders
    <3>6. awards'[p] = IF Counts(h) THEN awards[p] + 1 ELSE awards[p]
      BY <1>0, <1>4, <2>4 DEF CommitAward, PostCounted, TypeOK
    <3> QED BY <1>2, <3>4, <3>5, <3>6
  <2> QED BY <2>3, <2>4
<1>5. CASE ~CommitAward(h)
  BY <1>3, <1>5 DEF Act, StartAward, ReadThanks, WriteAward, TransferCores, RefuseTransfer,
                    SaveRefused, Thank, FailAward, tables
<1> QED BY <1>4, <1>5

\* The awards counter of a post is the number of users whose award it shows,
\* though requests of one user overwrite each other's marker (the triggers).
THEOREM CounterIsAwards == Spec => []PostCountIsAwards
<1>1. Init => PostCountIsAwards
  <2> SUFFICES ASSUME Init, NEW p \in Posts PROVE awards[p] = Cardinality(Awarders(p))
    BY DEF PostCountIsAwards, Awarders
  <2>1. Awarders(p) = {} BY DEF Init, Awarders
  <2> QED BY <2>1, FS_EmptySet DEF Init
<1>2. Inv /\ PostCountIsAwards /\ [Next]_vars => PostCountIsAwards'
  <2>1. CASE UNCHANGED vars BY <2>1 DEF vars, PostCountIsAwards
  <2>2. CASE Next BY <2>2, Acts, CountStep
  <2> QED BY <2>1, <2>2
<1> QED BY <1>1, <1>2, AlwaysInv, PTL DEF Spec

-----------------------------------------------------------------------------
(* One award of a post by a user.                                          *)

\* The transfers for an award of p by u whose rows were not lost.
PaidAwards(p, u) == {t \in ledger : t.target = p /\ t.from = u /\ t.key \notin orphaned}

Alone(p, u) == \A g, i \in Handlers : Awarding(g, u, p) /\ Awarding(i, u, p) => g = i

Unmarked(p, u) == \A g \in Handlers : Awarding(g, u, p) => userPost[p][u] = 0

\* A transfer is told by the marker, or its request is about to write it.
Marked(p, u) ==
  \A t \in PaidAwards(p, u) :
    \/ userPost[p][u] # 0
    \/ \E g \in Handlers : Awarding(g, u, p) /\ pc[g] = "commit" /\ job[g].id = t.key

Single(p, u) == \A t, s \in PaidAwards(p, u) : t = s

Once(p, u) ==
  <<p, u>> \in overlapped \/ (Alone(p, u) /\ Unmarked(p, u) /\ Marked(p, u) /\ Single(p, u))

LEMMA OverlappedGrows ==
  ASSUME NEW h \in Handlers, Act(h)
  PROVE  overlapped \subseteq overlapped'
BY DEF Act, StartAward, ReadThanks, WriteAward, TransferCores, CommitAward, RefuseTransfer,
       SaveRefused, Thank, FailAward

\* A step that starts no award and pays none.
LEMMA OnceFrame ==
  ASSUME TypeOK, NEW p \in Posts, NEW u \in Users, Once(p, u),
         overlapped \subseteq overlapped', ledger' = ledger, orphaned \subseteq orphaned',
         \A g \in Handlers : Awarding(g, u, p)' => Awarding(g, u, p) /\ job'[g] = job[g],
         \A g \in Handlers : Awarding(g, u, p)' => userPost'[p][u] = userPost[p][u],
         userPost[p][u] # 0 => userPost'[p][u] # 0,
         \A g \in Handlers : Awarding(g, u, p) /\ pc[g] = "commit" =>
           \/ Awarding(g, u, p)' /\ pc'[g] = "commit" /\ job'[g] = job[g]
           \/ userPost'[p][u] # 0
           \/ job[g].id \in orphaned'
  PROVE  Once(p, u)'
<1>1. SUFFICES ASSUME <<p, u>> \notin overlapped'
               PROVE  Alone(p, u)' /\ Unmarked(p, u)' /\ Marked(p, u)' /\ Single(p, u)'
  BY DEF Once
<1>2. Alone(p, u) /\ Unmarked(p, u) /\ Marked(p, u) /\ Single(p, u) BY <1>1 DEF Once
<1>3. PaidAwards(p, u)' \subseteq PaidAwards(p, u) BY DEF PaidAwards
<1>4. Alone(p, u)' /\ Unmarked(p, u)' BY <1>2 DEF Alone, Unmarked
<1>5. Single(p, u)' BY <1>2, <1>3 DEF Single
<1>6. Marked(p, u)'
  <2> SUFFICES ASSUME NEW t \in PaidAwards(p, u)'
               PROVE  \/ userPost'[p][u] # 0
                      \/ \E g \in Handlers : /\ Awarding(g, u, p)' /\ pc'[g] = "commit"
                                             /\ job'[g].id = t.key
    BY DEF Marked
  <2>1. t \in PaidAwards(p, u) /\ t.key \notin orphaned' BY <1>3 DEF PaidAwards
  <2> QED BY <1>2, <2>1 DEF Marked
<1> QED BY <1>4, <1>5, <1>6

LEMMA OnceStep ==
  ASSUME Inv, NEW h \in Handlers, Act(h), NEW p \in Posts, NEW u \in Users, Once(p, u)
  PROVE  Once(p, u)'
<1>0. TypeOK /\ overlapped \subseteq overlapped' BY OverlappedGrows DEF Inv
<1>1. \A g \in Handlers \ {h} : pc'[g] = pc[g] /\ job'[g] = job[g] BY <1>0, Elsewhere
<1>2. \A g \in Handlers \ {h} : Awarding(g, u, p)' <=> Awarding(g, u, p) BY <1>1 DEF Awarding
<1>3. ASSUME NEW v \in Users, NEW t \in Targets, NEW c \in Prices, StartAward(h, v, t, c)
      PROVE  Once(p, u)'
  <2>1. /\ UNCHANGED <<ledger, userPost, orphaned>>
        /\ pc[h] = "idle" /\ pc'[h] = "award" /\ job'[h].sender = v /\ job'[h].target = t
    BY <1>0, <1>3 DEF StartAward, TypeOK, njord, tables
  <2>2. CASE ~(t = p /\ v = u)
    <3>1. ~Awarding(h, u, p)' /\ ~Awarding(h, u, p) BY <2>1, <2>2 DEF Awarding
    <3> QED BY <1>0, <1>1, <1>2, <2>1, <3>1, OnceFrame
  <2>3. CASE t = p /\ v = u
    <3>1. userPost[p][u] = 0 BY <1>3, <2>3 DEF StartAward
    <3>2. CASE \E g \in Handlers : Awarding(g, u, p)
      <4>1. <<p, u>> \in overlapped' BY <1>3, <2>3, <3>2 DEF StartAward
      <4> QED BY <4>1 DEF Once
    <3>3. CASE \A g \in Handlers : ~Awarding(g, u, p)
      <4>1. SUFFICES ASSUME <<p, u>> \notin overlapped
                     PROVE  Alone(p, u)' /\ Unmarked(p, u)' /\ Marked(p, u)' /\ Single(p, u)'
        BY <1>0 DEF Once
      <4>2. PaidAwards(p, u) = {} BY <3>1, <3>3, <4>1 DEF Once, Marked
      <4>3. PaidAwards(p, u)' = {} BY <2>1, <4>2 DEF PaidAwards
      <4>4. Alone(p, u)' BY <1>2, <3>3 DEF Alone
      <4>5. Unmarked(p, u)' BY <2>1, <3>1 DEF Unmarked
      <4> QED BY <4>3, <4>4, <4>5 DEF Marked, Single
    <3> QED BY <3>2, <3>3
  <2> QED BY <2>2, <2>3
<1>4. CASE TransferCores(h)
  <2>1. /\ job' = job /\ UNCHANGED <<userPost, orphaned>>
        /\ pc[h] = "transfer" /\ pc'[h] = "commit" /\ job[h] \in Award
    BY <1>0, <1>4 DEF TransferCores, TypeOK, tables
  <2>2. ledger' = ledger \cup {TransferOf(h)} BY <1>4, LedgerStep
  <2>3. \A g \in Handlers : Awarding(g, u, p)' <=> Awarding(g, u, p)
    BY <1>1, <2>1 DEF Awarding
  <2>4. SUFFICES ASSUME <<p, u>> \notin overlapped
                 PROVE  Alone(p, u)' /\ Unmarked(p, u)' /\ Marked(p, u)' /\ Single(p, u)'
    BY <1>0 DEF Once
  <2>5. Alone(p, u) /\ Unmarked(p, u) /\ Marked(p, u) /\ Single(p, u) BY <2>4 DEF Once
  <2>6. Alone(p, u)' /\ Unmarked(p, u)' BY <2>1, <2>3, <2>5 DEF Alone, Unmarked
  <2>7. \A g \in Handlers : pc[g] = "commit" => pc'[g] = "commit" BY <1>1, <2>1
  <2>8. CASE Awarding(h, u, p)
    <3>1. PaidAwards(p, u) = {} BY <2>1, <2>5, <2>8 DEF Marked, Alone, Unmarked
    <3>2. PaidAwards(p, u)' \subseteq {TransferOf(h)} BY <2>1, <2>2, <3>1 DEF PaidAwards
    <3>3. Single(p, u)' BY <3>2 DEF Single
    <3>4. Marked(p, u)' BY <2>1, <2>3, <2>8, <3>2, KeyOfTransfer DEF Marked
    <3> QED BY <2>6, <3>3, <3>4
  <2>9. CASE ~Awarding(h, u, p)
    <3>1. TransferOf(h).target = job[h].target /\ TransferOf(h).from = job[h].sender
      BY DEF TransferOf
    <3>2. PaidAwards(p, u)' = PaidAwards(p, u)
      BY <2>1, <2>2, <2>9, <3>1 DEF PaidAwards, Awarding
    <3> QED BY <2>1, <2>3, <2>5, <2>6, <2>7, <3>2 DEF Marked, Single
  <2> QED BY <2>8, <2>9
<1>5. CASE CommitAward(h)
  <2>1. job[h] \in Award /\ pc[h] = "commit" /\ pc'[h] = "idle" /\ UNCHANGED <<ledger, orphaned>>
    BY <1>0, <1>5 DEF CommitAward, Finish, TypeOK, njord
  <2>2. ~Awarding(h, u, p)' BY <2>1 DEF Awarding
  <2>3. job[h].id # 0 BY <2>1 DEF Award, Ids
  <2>4. CASE Awarding(h, u, p)
    <3>1. userPost'[p][u] = job[h].id
      BY <1>0, <1>5, <2>4 DEF CommitAward, Awarding, TypeOK
    <3>2. <<p, u>> \notin overlapped => \A g \in Handlers : ~Awarding(g, u, p)'
      BY <1>2, <2>2, <2>4 DEF Once, Alone
    <3>3. CASE <<p, u>> \in overlapped BY <1>0, <3>3 DEF Once
    <3>4. CASE <<p, u>> \notin overlapped
      <4>1. \A g \in Handlers : ~Awarding(g, u, p)' BY <3>2, <3>4
      <4> QED BY <1>0, <2>1, <2>3, <3>1, <4>1, OnceFrame
    <3> QED BY <3>3, <3>4
  <2>5. CASE ~Awarding(h, u, p)
    <3>1. userPost'[p][u] = userPost[p][u]
      BY <1>0, <1>5, <2>1, <2>5 DEF CommitAward, Awarding, TypeOK
    <3> QED BY <1>0, <1>1, <1>2, <2>1, <2>2, <2>5, <3>1, OnceFrame
  <2> QED BY <2>4, <2>5
<1>6. CASE FailAward(h)
  <2>1. pc'[h] = "idle" /\ UNCHANGED <<ledger, userPost>> /\ orphaned \subseteq orphaned'
    BY <1>0, <1>6 DEF FailAward, Finish, TypeOK, njord, tables
  <2>2. pc[h] = "commit" => job[h].id \in orphaned'
    <3>1. pc[h] = "commit" => Paid(job[h].id) BY KeyOfTransfer DEF Inv, PaysOnce, Paid
    <3> QED BY <1>6, <3>1 DEF FailAward
  <2>3. ~Awarding(h, u, p)' BY <2>1 DEF Awarding
  <2> QED BY <1>0, <1>1, <1>2, <2>1, <2>2, <2>3, OnceFrame
<1>7. CASE WriteAward(h) \/ RefuseTransfer(h)
  <2>1. /\ UNCHANGED <<job, ledger, userPost, orphaned>> /\ pc[h] \in {"award", "transfer"}
        /\ pc'[h] # "commit"
    BY <1>0, <1>7 DEF WriteAward, RefuseTransfer, TypeOK, njord, tables
  <2>2. Awarding(h, u, p)' => Awarding(h, u, p) BY <2>1 DEF Awarding
  <2> QED BY <1>0, <1>1, <1>2, <2>1, <2>2, OnceFrame
<1>8. CASE (\E id \in Ids : ReadThanks(h, id)) \/ SaveRefused(h) \/ Thank(h)
  <2>1. /\ UNCHANGED <<ledger, userPost, orphaned>> /\ pc[h] \in {"idle", "refused", "thank"}
        /\ pc'[h] \in {"idle", "thank"}
    BY <1>0, <1>8 DEF ReadThanks, SaveRefused, Thank, Finish, TypeOK, njord, tables
  <2>2. ~Awarding(h, u, p)' /\ ~Awarding(h, u, p) BY <2>1 DEF Awarding
  <2> QED BY <1>0, <1>1, <1>2, <2>1, <2>2, OnceFrame
<1> QED BY <1>3, <1>4, <1>5, <1>6, <1>7, <1>8 DEF Act

EveryOnce == \A p \in Posts, u \in Users : Once(p, u)

\* A user pays for the award of a post once, unless two of his awards of it were
\* under way at the same time (awardPost, awardComment).
THEOREM PaidForOnce == Spec => []AwardedOnce
<1>1. Init => EveryOnce
  <2> SUFFICES ASSUME Init, NEW p \in Posts, NEW u \in Users PROVE Once(p, u) BY DEF EveryOnce
  <2>1. PaidAwards(p, u) = {} BY DEF Init, PaidAwards
  <2>2. \A g \in Handlers : ~Awarding(g, u, p) BY DEF Init, Awarding
  <2> QED BY <2>1, <2>2 DEF Once, Alone, Unmarked, Marked, Single
<1>2. Inv /\ EveryOnce /\ [Next]_vars => EveryOnce'
  <2>1. ASSUME UNCHANGED vars, NEW p \in Posts, NEW u \in Users, Once(p, u) PROVE Once(p, u)'
    <3>1. UNCHANGED <<overlapped, ledger, orphaned, userPost, pc, job>> BY <2>1 DEF vars
    <3>2. /\ PaidAwards(p, u)' = PaidAwards(p, u)
          /\ \A g \in Handlers : Awarding(g, u, p)' <=> Awarding(g, u, p)
      BY <3>1 DEF PaidAwards, Awarding
    <3> QED BY <2>1, <3>1, <3>2 DEF Once, Alone, Unmarked, Marked, Single
  <2>2. CASE Next BY <2>2, Acts, OnceStep DEF EveryOnce
  <2> QED BY <2>1, <2>2 DEF EveryOnce
<1>3. EveryOnce => AwardedOnce
  <2> SUFFICES ASSUME EveryOnce, NEW p \in Posts, NEW u \in Users, <<p, u>> \notin overlapped
               PROVE  Cardinality(PaidAwards(p, u)) <= 1
    BY DEF AwardedOnce, PaidAwards
  <2>1. Single(p, u) BY DEF EveryOnce, Once
  <2>2. CASE PaidAwards(p, u) = {} BY <2>2, FS_EmptySet
  <2>3. CASE PaidAwards(p, u) # {}
    <3>1. PICK t : PaidAwards(p, u) = {t} BY <2>1, <2>3 DEF Single
    <3> QED BY <3>1, FS_Singleton
  <2> QED BY <2>2, <2>3
<1> QED BY <1>1, <1>2, <1>3, AlwaysInv, PTL DEF Spec
=============================================================================
