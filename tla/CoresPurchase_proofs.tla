------------------------ MODULE CoresPurchase_proofs ------------------------
(***************************************************************************)
(* Proofs about CoresPurchase, for any number of checkouts and handlers.   *)
(***************************************************************************)
EXTENDS CoresPurchase, TLAPS

-----------------------------------------------------------------------------
(* Types.                                                                  *)

\* The clock of a checkout is a number.
LEMMA CheckoutTime == ASSUME TypeOK, NEW c \in Checkouts PROVE paddle[c].at \in Nat
  BY DEF TypeOK, Checkout, NoCheckout

\* What Written and Upserted return is a stored row.
LEMMA WrittenType ==
  ASSUME TypeOK, NEW c \in Checkouts, NEW s \in Status, NEW v \in Nat,
         NEW r \in StoredRow
  PROVE  Written(c, r, s, v) \in StoredRow
  BY CheckoutTime DEF TypeOK, Written, StoredRow

\* The upsert stores a well-typed row.
LEMMA UpsertedType ==
  ASSUME TypeOK, NEW c \in Checkouts, NEW s \in Status, NEW v \in Nat
  PROVE  Upserted(c, s, v) \in StoredRow
<1>1. CASE rows[c] = NoRow
  <2>1. paddle[c].at \in Nat /\ nextId \in Nat \ {0}
    BY CheckoutTime DEF TypeOK
  <2> QED BY <1>1, <2>1 DEF Upserted, Written, NoRow, StoredRow
<1>2. CASE rows[c] # NoRow
  <2>1. rows[c] \in StoredRow
    BY <1>2 DEF TypeOK, Row
  <2> QED BY <1>2, <2>1, WrittenType DEF Upserted
<1> QED BY <1>1, <1>2

\* A handler that replies leaves a well-typed idle slot.
LEMMA ReplyType ==
  ASSUME TypeOK, NEW h \in Handlers, pc[h] # "idle", Reply(h)
  PROVE  /\ answered' \subseteq Notice
         /\ pc' \in [Handlers -> {"idle", "handle", "transfer", "commit"}]
         /\ job' \in [Handlers -> Notice \cup {NoJob}]
         /\ \A g \in Handlers : pc'[g] # "idle" => job'[g] \in Notice
         /\ seen' \in [Handlers -> Row]
         /\ txn' \in [Handlers -> Row]
  BY DEF TypeOK, Reply, Row

\* A Paddle event keeps the types.
LEMMA NotifyType ==
  ASSUME TypeOK, NEW c \in Checkouts, NEW type \in NoticeType,
         NEW state \in PaddleState, NEW v \in Values, Notify(c, type, state, v)
  PROVE  TypeOK'
<1>1. paddle' \in [Checkouts -> Checkout]
  <2>1. paddle[c].at + 1 \in Nat
    BY CheckoutTime
  <2> QED BY <2>1 DEF TypeOK, Notify, Checkout
<1>2. events' \subseteq Notice
  BY CheckoutTime DEF TypeOK, Notify, Notice
<1> QED BY <1>1, <1>2 DEF TypeOK, Notify, dbVars, handlerVars, histVars

\* Storing a status keeps the types.
LEMMA StoreStatusType ==
  ASSUME TypeOK, NEW h \in Handlers, pc[h] = "handle",
         NEW new, NEW old, StoreStatus(h, new, old),
         Existing(h) /\ rows[Of(h)].id = seen[h].id => old \in Status,
         ~Existing(h) => new \in Status
  PROVE  TypeOK'
<1> DEFINE c == Of(h)
<1>1. c \in Checkouts /\ job[h].value \in Nat
  BY ValueAssumption DEF TypeOK, Notice, Of
<1>2. rows' \in [Checkouts -> Row] /\ nextId' \in Nat \ {0}
  <2>1. CASE Existing(h) /\ rows[c].id = seen[h].id
    <3>1. seen[h] \in StoredRow
      BY <2>1 DEF Existing, TypeOK, Row
    <3>2. rows[c] \in StoredRow
      BY <1>1, <2>1, <3>1 DEF TypeOK, Row, NoRow, StoredRow
    <3>3. Written(c, rows[c], old, job[h].value) \in StoredRow
      BY <1>1, <2>1, <3>2, WrittenType
    <3> QED BY <1>1, <2>1, <3>3 DEF StoreStatus, TypeOK, Row
  <2>2. CASE Existing(h) /\ rows[c].id # seen[h].id
    BY <2>2 DEF StoreStatus, TypeOK
  <2>3. CASE ~Existing(h)
    <3>1. Upserted(c, new, job[h].value) \in StoredRow
      BY <1>1, <2>3, UpsertedType
    <3> QED BY <1>1, <2>3, <3>1 DEF StoreStatus, TypeOK, Row
  <2> QED BY <2>1, <2>2, <2>3
<1>3. Reply(h) /\ UNCHANGED <<paddleVars, ledger, histVars>>
  BY DEF StoreStatus
<1> HIDE DEF c
<1> QED BY <1>2, <1>3, ReplyType DEF TypeOK, paddleVars, histVars

\* A handler that does nothing keeps the types.
LEMMA SkipType ==
  ASSUME TypeOK, NEW h \in Handlers, pc[h] = "handle", Skip(h)
  PROVE  TypeOK'
  BY ReplyType DEF Skip, TypeOK, paddleVars, dbVars, histVars

\* A handler that throws keeps the types.
LEMMA ThrowType ==
  ASSUME TypeOK, NEW h \in Handlers, pc[h] # "idle", Throw(h), failures' \in Nat
  PROVE  TypeOK'
<1>1. Of(h) \in Checkouts
  BY DEF TypeOK, Notice, Of
<1>2. lost' \subseteq Checkouts /\ forgotten' \subseteq Checkouts
  BY <1>1 DEF Throw, TypeOK
<1>3. Reply(h) /\ UNCHANGED <<paddleVars, dbVars, ledger>>
  BY DEF Throw
<1> QED BY <1>2, <1>3, ReplyType DEF TypeOK, paddleVars, dbVars

\* Paddle's own steps keep the types.
LEMMA PaddleType ==
  ASSUME TypeOK, NEW c \in Checkouts, PaddleStep(c)
  PROVE  TypeOK'
<1> DEFINE p == paddle[c]
<1>1. p.state # "none" => p.state \in PaddleState /\ p.value \in Values
  BY DEF TypeOK, Checkout, NoCheckout
<1>2. ASSUME NEW v \in Values, OpenCheckout(c, v) PROVE TypeOK'
  BY <1>2, NotifyType DEF OpenCheckout, NoticeType, PaddleState
<1>3. ASSUME NEW v \in Values, ReviseCheckout(c, v) PROVE TypeOK'
  <2>1. Notify(c, "updated", p.state, v) /\ p.state \in PaddleState
    BY <1>1, <1>3 DEF ReviseCheckout
  <2> QED BY <2>1, NotifyType DEF NoticeType
<1>4. ASSUME BillCheckout(c) PROVE TypeOK'
  BY <1>1, <1>4, NotifyType DEF BillCheckout, NoticeType, PaddleState
<1>5. ASSUME DeclinePayment(c) PROVE TypeOK'
  BY <1>1, <1>5, NotifyType DEF DeclinePayment, NoticeType, PaddleState
<1>6. ASSUME PayCheckout(c) PROVE TypeOK'
  BY <1>1, <1>6, NotifyType DEF PayCheckout, NoticeType, PaddleState
<1>7. ASSUME CompleteCheckout(c) PROVE TypeOK'
  BY <1>1, <1>7, NotifyType DEF CompleteCheckout, NoticeType, PaddleState
<1> QED BY <1>2, <1>3, <1>4, <1>5, <1>6, <1>7 DEF PaddleStep

\* The steps of a handler keep the types.
LEMMA HandlerType ==
  ASSUME TypeOK, NEW h \in Handlers, HandlerStep(h)
  PROVE  TypeOK'
<1> DEFINE c == Of(h)
<1>0. pc[h] # "idle" /\ c \in Checkouts /\ job[h].value \in Nat
  <2>1. pc[h] # "idle"
    BY DEF HandlerStep, HandleCreated, HandlePaid, HandleFailed, HandleUpdated,
           BeginCompleted, PurchaseCores, SkipNjord, CommitCompleted, RejectCompleted
  <2> QED BY <2>1, ValueAssumption DEF TypeOK, Notice, Of
<1>1. ASSUME HandleCreated(h) PROVE TypeOK'
  BY <1>1, SkipType, StoreStatusType DEF HandleCreated, Status
<1>2. ASSUME HandlePaid(h) PROVE TypeOK'
  BY <1>2, SkipType, StoreStatusType DEF HandlePaid, Status
<1>3. ASSUME HandleFailed(h) PROVE TypeOK'
  <2>1. CASE seen[h].status \in OpenStatus
    <3>1. rows' \in [Checkouts -> Row]
      <4>1. CASE rows[c].id = seen[h].id
        <5>1. rows[c] \in StoredRow
          BY <1>0, <2>1, <4>1 DEF TypeOK, Row, NoRow, StoredRow, OpenStatus
        <5>2. rows[c].value \in Nat
          BY <5>1 DEF StoredRow
        <5>3. Written(c, rows[c], "ErrorRecoverable", rows[c].value) \in StoredRow
          BY <1>0, <5>1, <5>2, WrittenType DEF Status
        <5> QED BY <1>0, <1>3, <2>1, <4>1, <5>3 DEF HandleFailed, TypeOK, Row
      <4>2. CASE rows[c].id # seen[h].id
        BY <1>3, <2>1, <4>2 DEF HandleFailed, TypeOK
      <4> QED BY <4>1, <4>2
    <3>2. Reply(h) /\ UNCHANGED <<paddleVars, nextId, ledger, histVars>>
      BY <1>3, <2>1 DEF HandleFailed
    <3> QED BY <1>0, <3>1, <3>2, ReplyType DEF TypeOK, paddleVars, histVars
  <2>2. CASE seen[h].status \notin OpenStatus
    BY <1>3, <2>2, SkipType DEF HandleFailed
  <2> QED BY <2>1, <2>2
<1>4. ASSUME HandleUpdated(h) PROVE TypeOK'
  <2>1. CASE Skip(h)
    BY <1>4, <2>1, SkipType DEF HandleUpdated
  <2>2. CASE Existing(h) /\ StoreStatus(h, "none", rows[c].status)
    <3>1. rows[c].id = seen[h].id => rows[c].status \in Status
      BY <1>0, <2>2 DEF TypeOK, Row, NoRow, StoredRow, Existing
    <3> QED BY <1>4, <2>2, <3>1, StoreStatusType DEF HandleUpdated
  <2>3. CASE ~Existing(h) /\ UpdatedStatus(job[h].state) # "none"
             /\ StoreStatus(h, UpdatedStatus(job[h].state), "none")
    <3>1. UpdatedStatus(job[h].state) \in Status
      BY <2>3 DEF UpdatedStatus, Status
    <3> QED BY <1>4, <2>3, <3>1, StoreStatusType DEF HandleUpdated
  <2> QED BY <1>4, <2>1, <2>2, <2>3 DEF HandleUpdated
<1>5. ASSUME BeginCompleted(h) PROVE TypeOK'
  <2>1. Upserted(c, "Success", job[h].value) \in StoredRow
    BY <1>0, UpsertedType DEF Status
  <2>2. Existing(h) /\ rows[c].id = seen[h].id
          => Written(c, rows[c], "Success", job[h].value) \in StoredRow
    <3>1. Existing(h) /\ rows[c].id = seen[h].id => rows[c] \in StoredRow
      BY <1>0 DEF TypeOK, Row, NoRow, StoredRow, Existing
    <3> QED BY <1>0, <3>1, WrittenType DEF Status
  <2>3. txn' \in [Handlers -> Row]
    BY <1>5, <2>1, <2>2 DEF BeginCompleted, TypeOK, Row
  <2>4. nextId' \in Nat \ {0} /\ pc' \in [Handlers -> {"idle", "handle", "transfer", "commit"}]
    BY <1>5 DEF BeginCompleted, TypeOK
  <2>5. \A g \in Handlers : pc'[g] # "idle" => job'[g] \in Notice
    BY <1>5, <1>0 DEF BeginCompleted, TypeOK
  <2> QED BY <1>5, <2>3, <2>4, <2>5 DEF BeginCompleted, TypeOK, paddleVars, histVars
<1>6. ASSUME PurchaseCores(h) PROVE TypeOK'
  <2>1. Key(h) \in Nat
    BY DEF Key, TypeOK, Row, StoredRow, NoRow
  <2>2. ledger' \subseteq Transfer
    BY <1>0, <1>6, <2>1 DEF PurchaseCores, Amount, TypeOK, Transfer
  <2>3. /\ pc' \in [Handlers -> {"idle", "handle", "transfer", "commit"}]
        /\ \A g \in Handlers : pc'[g] # "idle" => job'[g] \in Notice
    BY <1>0, <1>6 DEF PurchaseCores, TypeOK
  <2> QED BY <1>6, <2>2, <2>3 DEF PurchaseCores, TypeOK, paddleVars, dbVars, histVars
<1>7. ASSUME SkipNjord(h) PROVE TypeOK'
  <2>1. /\ pc' \in [Handlers -> {"idle", "handle", "transfer", "commit"}]
        /\ \A g \in Handlers : pc'[g] # "idle" => job'[g] \in Notice
    BY <1>0, <1>7 DEF SkipNjord, TypeOK
  <2> QED BY <1>7, <2>1 DEF SkipNjord, TypeOK, paddleVars, dbVars, histVars
<1>8. ASSUME CommitCompleted(h) PROVE TypeOK'
  <2>1. rows' \in [Checkouts -> Row]
    BY <1>0, <1>8 DEF CommitCompleted, TypeOK
  <2>2. Reply(h) /\ UNCHANGED <<paddleVars, nextId, ledger, histVars>>
    BY <1>8 DEF CommitCompleted
  <2> QED BY <1>0, <2>1, <2>2, ReplyType DEF TypeOK, paddleVars, histVars
<1>9. ASSUME RejectCompleted(h) PROVE TypeOK'
  <2>1. Throw(h) /\ failures' \in Nat
    BY <1>9 DEF RejectCompleted, TypeOK
  <2> QED BY <1>0, <2>1, ThrowType
<1> QED BY <1>1, <1>2, <1>3, <1>4, <1>5, <1>6, <1>7, <1>8, <1>9 DEF HandlerStep

\* Every action keeps the types.
LEMMA TypeStep == TypeOK /\ [Next]_vars => TypeOK'
<1> SUFFICES ASSUME TypeOK, [Next]_vars PROVE TypeOK'
  OBVIOUS
<1>1. ASSUME NEW c \in Checkouts, GrowStale(c) PROVE TypeOK'
  <2>1. rows' \in [Checkouts -> Row]
    BY <1>1 DEF GrowStale, TypeOK, Row, StoredRow
  <2> QED BY <1>1, <2>1 DEF GrowStale, TypeOK, handlerVars, histVars
<1>2. ASSUME NEW c \in Checkouts, CleanStale(c) PROVE TypeOK'
  <2>1. rows' \in [Checkouts -> Row]
    BY <1>2 DEF CleanStale, TypeOK, Row
  <2> QED BY <1>2, <2>1 DEF CleanStale, TypeOK, paddleVars, handlerVars
<1>3. ASSUME NEW h \in Handlers, NEW e \in events, Receive(h, e) PROVE TypeOK'
  <2>1. e \in Notice /\ e.checkout \in Checkouts
    BY DEF TypeOK, Notice
  <2>2. seen' \in [Handlers -> Row]
    BY <1>3, <2>1 DEF Receive, TypeOK
  <2>3. /\ pc' \in [Handlers -> {"idle", "handle", "transfer", "commit"}]
        /\ job' \in [Handlers -> Notice \cup {NoJob}]
        /\ \A g \in Handlers : pc'[g] # "idle" => job'[g] \in Notice
    BY <1>3, <2>1 DEF Receive, TypeOK
  <2> QED BY <1>3, <2>2, <2>3 DEF Receive, TypeOK, paddleVars, dbVars, histVars
<1>4. ASSUME NEW h \in Handlers, RefuseTransfer(h) PROVE TypeOK'
  <2>1. Of(h) \in Checkouts /\ pc[h] # "idle"
    BY <1>4 DEF RefuseTransfer, TypeOK, Notice, Of
  <2>2. txn' \in [Handlers -> Row]
    BY <1>4 DEF RefuseTransfer, TypeOK, Row, StoredRow, Status
  <2>3. /\ pc' \in [Handlers -> {"idle", "handle", "transfer", "commit"}]
        /\ \A g \in Handlers : pc'[g] # "idle" => job'[g] \in Notice
        /\ lost' \subseteq Checkouts /\ failures' \in Nat
    BY <1>4, <2>1 DEF RefuseTransfer, TypeOK
  <2> QED BY <1>4, <2>2, <2>3 DEF RefuseTransfer, TypeOK, paddleVars, dbVars
<1>5. ASSUME NEW h \in Handlers, FailHandler(h) PROVE TypeOK'
  <2>1. failures' \in Nat
    BY <1>5 DEF FailHandler, TypeOK
  <2> QED BY <1>5, <2>1, ThrowType DEF FailHandler
<1>6. ASSUME NEW h \in Handlers, CrashHandler(h) PROVE TypeOK'
  <2>1. Of(h) \in Checkouts
    BY <1>6 DEF CrashHandler, TypeOK, Notice, Of
  <2>2. /\ pc' \in [Handlers -> {"idle", "handle", "transfer", "commit"}]
        /\ job' \in [Handlers -> Notice \cup {NoJob}]
        /\ \A g \in Handlers : pc'[g] # "idle" => job'[g] \in Notice
        /\ seen' \in [Handlers -> Row] /\ txn' \in [Handlers -> Row]
    BY <1>6 DEF CrashHandler, TypeOK, Row
  <2>3. failures' \in Nat /\ forgotten' \subseteq Checkouts
    BY <1>6, <2>1 DEF CrashHandler, TypeOK
  <2> QED BY <1>6, <2>2, <2>3 DEF CrashHandler, TypeOK, paddleVars, dbVars
<1>7. CASE UNCHANGED vars
  BY <1>7 DEF TypeOK, vars
<1> QED BY <1>1, <1>2, <1>3, <1>4, <1>5, <1>6, <1>7, PaddleType, HandlerType DEF Next

\* Type correctness of every behaviour.
THEOREM TypeCorrect == Spec => []TypeOK
<1>1. Init => TypeOK
  BY DEF Init, TypeOK, Row, Checkout
<1> QED BY <1>1, TypeStep, PTL DEF Spec

-----------------------------------------------------------------------------
(* The settled key.  CreditedOnce is not inductive: it says nothing of the *)
(* ids the running handlers hold.  Until a checkout is forgotten, every    *)
(* snapshot, every open transaction and every transfer of the checkout     *)
(* carry one id: the row's, or that of the one transaction inserting it.   *)

Active(h, c) == pc[h] # "idle" /\ Of(h) = c
Completing(h, c) == InTransaction(h) /\ Of(h) = c

SnapshotsSettled(c) ==
  \A h \in Handlers : Active(h, c) /\ Existing(h) => rows[c].id = seen[h].id

TransactionsSettled(c) ==
  \A h \in Handlers : Completing(h, c) =>
    txn[h] # NoRow /\ (rows[c] # NoRow => txn[h].id = rows[c].id)

TransfersSettled(c) ==
  \A t \in Credits(c) :
    \/ rows[c] # NoRow /\ t.key = rows[c].id
    \/ rows[c] = NoRow /\ \E h \in Handlers : Completing(h, c) /\ t.key = txn[h].id

\* The row lock: one transaction at a time has written a checkout's row.
OneWriter ==
  \A g, h \in Handlers :
    /\ InTransaction(g) /\ InTransaction(h) /\ Of(g) = Of(h)
    /\ txn[g] # NoRow /\ txn[h] # NoRow
    => g = h

UpdatesInPlace ==
  \A h \in Handlers : InTransaction(h) /\ Existing(h) /\ txn[h] # NoRow => txn[h].id = seen[h].id

KeysUnique == \A t, u \in ledger : t.key = u.key => t = u

KeyInv ==
  /\ OneWriter
  /\ UpdatesInPlace
  /\ KeysUnique
  /\ \A c \in Checkouts \ forgotten :
       SnapshotsSettled(c) /\ TransactionsSettled(c) /\ TransfersSettled(c)

\* What a handler that answers leaves behind, once it changed no row id.
LEMMA KeyAfterReply ==
  ASSUME TypeOK, KeyInv, NEW h \in Handlers, pc[h] = "handle", Reply(h),
         UNCHANGED <<ledger, forgotten>>,
         \A c \in Checkouts : rows'[c] = NoRow <=> rows[c] = NoRow,
         \A c \in Checkouts : rows'[c].id = rows[c].id
  PROVE  KeyInv'
<1>1. \A g \in Handlers : g # h => pc'[g] = pc[g] /\ job'[g] = job[g] /\ seen'[g] = seen[g] /\ txn'[g] = txn[g]
  BY DEF Reply, TypeOK
<1>2. pc'[h] = "idle"
  BY DEF Reply, TypeOK
<1>3. OneWriter' /\ UpdatesInPlace' /\ KeysUnique'
  BY <1>1, <1>2 DEF KeyInv, OneWriter, UpdatesInPlace, KeysUnique, InTransaction, Of, Existing
<1>4. ASSUME NEW c \in Checkouts \ forgotten
      PROVE  SnapshotsSettled(c)' /\ TransactionsSettled(c)' /\ TransfersSettled(c)'
  <2>1. SnapshotsSettled(c)' /\ TransactionsSettled(c)'
    BY <1>1, <1>2 DEF KeyInv, SnapshotsSettled, TransactionsSettled, Active, Completing,
                      InTransaction, Of, Existing
  <2>2. ASSUME NEW g \in Handlers, Completing(g, c) PROVE g # h /\ Completing(g, c)' /\ txn'[g] = txn[g]
    BY <1>1, <2>2 DEF Completing, InTransaction, Of
  <2>3. TransfersSettled(c)'
    BY <2>2 DEF KeyInv, TransfersSettled, Credits
  <2> QED BY <2>1, <2>3
<1> QED BY <1>3, <1>4 DEF KeyInv

\* Ids tell stored rows from no row.
LEMMA RowIds ==
  ASSUME NEW r \in Row
  PROVE  r # NoRow <=> r.id # 0
  BY DEF Row, NoRow, StoredRow

\* What EXCEPT does to one element and to the others.
LEMMA Updated ==
  ASSUME NEW c \in Checkouts, NEW r, NEW s, NEW v
  PROVE  /\ Written(c, r, s, v).status = s
         /\ r \in StoredRow => Written(c, r, s, v).id = r.id
  BY DEF Written, StoredRow

\* A checkout nobody inserted and no transaction is inserting has no credit
\* and no snapshot, unless forgotten.
LEMMA FreshCheckout ==
  ASSUME TypeOK, KeyInv, NEW c \in Checkouts \ forgotten, rows[c] = NoRow, ~Locked(c)
  PROVE  /\ Credits(c) = {}
         /\ \A h \in Handlers : Active(h, c) => ~Existing(h)
         /\ \A h \in Handlers : ~Completing(h, c)
<1>1. \A h \in Handlers : ~Completing(h, c)
  BY DEF KeyInv, TransactionsSettled, Completing, Locked
<1>2. \A h \in Handlers : Active(h, c) => ~Existing(h)
  BY RowIds DEF KeyInv, SnapshotsSettled, Existing, TypeOK
<1> QED BY <1>1, <1>2 DEF KeyInv, TransfersSettled

\* Storing a status keeps KeyInv.
LEMMA KeyAfterStore ==
  ASSUME TypeOK, TypeOK', KeyInv, NEW h \in Handlers, pc[h] = "handle",
         NEW new, NEW old, StoreStatus(h, new, old)
  PROVE  KeyInv'
<1>0. PICK c \in Checkouts : c = Of(h)
  BY DEF TypeOK, Notice, Of
<1>1. Reply(h) /\ UNCHANGED <<ledger, forgotten>> /\ ~Locked(c)
  BY <1>0 DEF StoreStatus, histVars
<1>2. \A d \in Checkouts : d # c => rows'[d] = rows[d]
  BY <1>0 DEF StoreStatus, TypeOK
<1>3. CASE rows[c] # NoRow \/ Existing(h)
  <2>1. rows[c] # NoRow => rows[c] \in StoredRow
    BY <1>0 DEF TypeOK, Row
  <2>2. rows'[c].id = rows[c].id
    <3>1. CASE Existing(h) /\ rows[c].id = seen[h].id
      <4>1. rows'[c] = Written(c, rows[c], old, job[h].value)
        BY <1>0, <3>1 DEF StoreStatus, TypeOK
      <4>2. rows[c] \in StoredRow
        BY <1>0, <2>1, <3>1, RowIds DEF Existing, TypeOK
      <4> QED BY <1>0, <4>1, <4>2, Updated
    <3>2. CASE Existing(h) /\ rows[c].id # seen[h].id
      BY <1>0, <3>2 DEF StoreStatus
    <3>3. CASE ~Existing(h) /\ rows[c] # NoRow
      <4>1. rows'[c] = Written(c, rows[c], new, job[h].value)
        BY <1>0, <3>3 DEF StoreStatus, TypeOK, Upserted
      <4> QED BY <1>0, <2>1, <3>3, <4>1, Updated
    <3> QED BY <1>3, <3>1, <3>2, <3>3
  <2>3. rows'[c] = NoRow <=> rows[c] = NoRow
    BY <1>0, <2>2, RowIds DEF TypeOK
  <2>4. /\ \A d \in Checkouts : rows'[d] = NoRow <=> rows[d] = NoRow
        /\ \A d \in Checkouts : rows'[d].id = rows[d].id
    BY <1>2, <2>2, <2>3
  <2> QED BY <1>1, <2>4, KeyAfterReply
<1>4. CASE rows[c] = NoRow /\ ~Existing(h)
  <2>1. \A g \in Handlers : g # h => pc'[g] = pc[g] /\ job'[g] = job[g] /\ seen'[g] = seen[g] /\ txn'[g] = txn[g]
    BY <1>1 DEF Reply, TypeOK
  <2>2. pc'[h] = "idle"
    BY <1>1 DEF Reply, TypeOK
  <2>3. OneWriter' /\ UpdatesInPlace' /\ KeysUnique'
    BY <1>1, <2>1, <2>2 DEF KeyInv, OneWriter, UpdatesInPlace, KeysUnique, InTransaction, Of, Existing
  <2>4. ASSUME c \notin forgotten
        PROVE  SnapshotsSettled(c)' /\ TransactionsSettled(c)' /\ TransfersSettled(c)'
    <3>1. /\ Credits(c) = {}
          /\ \A g \in Handlers : Active(g, c) => ~Existing(g)
          /\ \A g \in Handlers : ~Completing(g, c)
      BY <1>0, <1>1, <1>4, <2>4, FreshCheckout
    <3>2. ASSUME NEW g \in Handlers PROVE ~Completing(g, c)' /\ (Active(g, c)' => ~Existing(g)')
      <4>1. CASE g = h
        BY <2>2, <4>1 DEF Completing, InTransaction, Active
      <4>2. CASE g # h
        BY <2>1, <3>1, <4>2 DEF Completing, InTransaction, Of, Active, Existing
      <4> QED BY <4>1, <4>2
    <3>3. Credits(c)' = {}
      BY <1>1, <3>1 DEF Credits
    <3> QED BY <3>2, <3>3 DEF SnapshotsSettled, TransactionsSettled, TransfersSettled
  <2>5. ASSUME NEW d \in Checkouts \ forgotten, d # c
        PROVE  SnapshotsSettled(d)' /\ TransactionsSettled(d)' /\ TransfersSettled(d)'
    <3>1. rows'[d] = rows[d]
      BY <1>2, <2>5
    <3>2. SnapshotsSettled(d)' /\ TransactionsSettled(d)'
      BY <2>1, <2>2, <3>1 DEF KeyInv, SnapshotsSettled, TransactionsSettled, Active, Completing,
                        InTransaction, Of, Existing
    <3>3. ASSUME NEW g \in Handlers, Completing(g, d) PROVE Completing(g, d)' /\ txn'[g] = txn[g]
      <4>1. g # h
        BY <1>0, <2>5, <3>3 DEF Completing
      <4> QED BY <2>1, <3>3, <4>1 DEF Completing, InTransaction, Of
    <3>4. TransfersSettled(d)'
      BY <1>1, <3>1, <3>3 DEF KeyInv, TransfersSettled, Credits
    <3> QED BY <3>2, <3>4
  <2> QED BY <1>1, <2>3, <2>4, <2>5 DEF KeyInv
<1> QED BY <1>3, <1>4

\* A failed payment keeps KeyInv.
LEMMA KeyAfterFailed ==
  ASSUME TypeOK, TypeOK', KeyInv, NEW h \in Handlers, HandleFailed(h)
  PROVE  KeyInv'
<1>0. PICK c \in Checkouts : c = Of(h)
  BY DEF HandleFailed, TypeOK, Notice, Of
<1>1. pc[h] = "handle" /\ Reply(h) /\ UNCHANGED <<ledger, forgotten>>
  BY DEF HandleFailed, Skip, histVars
<1>2. CASE rows' = rows
  BY <1>1, <1>2, KeyAfterReply
<1>3. CASE rows' # rows
  <2>1. /\ seen[h].status \in OpenStatus /\ rows[c].id = seen[h].id
        /\ rows' = [rows EXCEPT ![c] = Written(c, rows[c], "ErrorRecoverable", rows[c].value)]
    BY <1>0, <1>3 DEF HandleFailed, Skip, dbVars
  <2>2. rows[c] \in StoredRow
    BY <1>0, <2>1 DEF TypeOK, Row, NoRow, StoredRow, OpenStatus
  <2>3. rows'[c].id = rows[c].id
    BY <2>1, <2>2, Updated DEF TypeOK
  <2>4. rows'[c] = NoRow <=> rows[c] = NoRow
    BY <2>3, RowIds DEF TypeOK
  <2>5. /\ \A d \in Checkouts : rows'[d] = NoRow <=> rows[d] = NoRow
        /\ \A d \in Checkouts : rows'[d].id = rows[d].id
    BY <2>1, <2>3, <2>4 DEF TypeOK
  <2> QED BY <1>1, <2>5, KeyAfterReply
<1> QED BY <1>2, <1>3

\* A handler that does nothing keeps KeyInv.
LEMMA KeyAfterSkip ==
  ASSUME TypeOK, KeyInv, NEW h \in Handlers, pc[h] = "handle", Skip(h)
  PROVE  KeyInv'
  BY KeyAfterReply DEF Skip, dbVars, histVars

\* A checkout that is not forgotten and not locked has no open transaction.
LEMMA NoneCompleting ==
  ASSUME KeyInv, NEW c \in Checkouts \ forgotten, ~Locked(c), NEW h \in Handlers
  PROVE  ~Completing(h, c)
  BY DEF KeyInv, TransactionsSettled, Completing, Locked

\* Opening the crediting transaction keeps KeyInv.
LEMMA KeyAfterBegin ==
  ASSUME TypeOK, TypeOK', KeyInv, NEW h \in Handlers, BeginCompleted(h)
  PROVE  KeyInv'
<1>0. PICK c \in Checkouts : c = Of(h)
  BY DEF BeginCompleted, TypeOK, Notice, Of
<1>1. /\ pc[h] = "handle" /\ ~Locked(c)
      /\ pc' = [pc EXCEPT ![h] = "transfer"]
      /\ UNCHANGED <<rows, job, seen, ledger, forgotten>>
  BY <1>0 DEF BeginCompleted, histVars
<1>2. \A g \in Handlers : g # h => pc'[g] = pc[g] /\ txn'[g] = txn[g]
  BY <1>1 DEF BeginCompleted, TypeOK
<1>3. Existing(h) /\ txn'[h] # NoRow => rows[c] # NoRow /\ txn'[h].id = rows[c].id /\ txn'[h].id = seen[h].id
  <2>1. SUFFICES ASSUME Existing(h), txn'[h] # NoRow
                 PROVE  rows[c] # NoRow /\ txn'[h].id = rows[c].id /\ txn'[h].id = seen[h].id
    OBVIOUS
  <2>2. rows[c].id = seen[h].id /\ txn'[h] = Written(c, rows[c], "Success", job[h].value)
    BY <1>0, <2>1 DEF BeginCompleted, TypeOK
  <2>3. rows[c] \in StoredRow
    BY <2>1, <2>2, RowIds DEF Existing, TypeOK, Row
  <2>4. rows[c] # NoRow
    BY <2>3 DEF StoredRow, NoRow
  <2> QED BY <2>2, <2>3, <2>4, Updated
<1>4. ~Existing(h) => txn'[h] # NoRow /\ (rows[c] # NoRow => txn'[h].id = rows[c].id)
  <2>1. SUFFICES ASSUME ~Existing(h)
                 PROVE  txn'[h] # NoRow /\ (rows[c] # NoRow => txn'[h].id = rows[c].id)
    OBVIOUS
  <2>2. txn'[h] = Upserted(c, "Success", job[h].value) /\ job[h].value \in Nat
    BY <1>0, <2>1, ValueAssumption DEF BeginCompleted, TypeOK, Notice
  <2>3. Upserted(c, "Success", job[h].value) \in StoredRow
    BY <2>2, UpsertedType DEF Status
  <2>4. rows[c] # NoRow => Upserted(c, "Success", job[h].value).id = rows[c].id
    BY Updated DEF Upserted, TypeOK, Row
  <2> QED BY <2>2, <2>3, <2>4, RowIds DEF Row, StoredRow
<1>5. OneWriter'
  <2> SUFFICES ASSUME NEW g \in Handlers, NEW k \in Handlers,
                      InTransaction(g)', InTransaction(k)', Of(g)' = Of(k)',
                      (txn[g] # NoRow)', (txn[k] # NoRow)'
               PROVE  g = k
    BY DEF OneWriter
  <2>1. ASSUME NEW i \in Handlers, i # h, InTransaction(i)', (txn[i] # NoRow)', Of(i)' = Of(h)'
        PROVE  FALSE
    BY <1>0, <1>1, <1>2, <2>1 DEF Locked, InTransaction, Of
  <2>2. CASE g # h /\ k # h
    BY <1>1, <1>2, <2>2 DEF KeyInv, OneWriter, InTransaction, Of
  <2> QED BY <2>1, <2>2
<1>6. UpdatesInPlace'
  BY <1>1, <1>2, <1>3 DEF KeyInv, UpdatesInPlace, InTransaction, Existing
<1>7. KeysUnique'
  BY <1>1 DEF KeyInv, KeysUnique
<1>8. ASSUME NEW d \in Checkouts \ forgotten
      PROVE  SnapshotsSettled(d)' /\ TransactionsSettled(d)' /\ TransfersSettled(d)'
  <2>1. SnapshotsSettled(d) /\ TransactionsSettled(d) /\ TransfersSettled(d)
    BY DEF KeyInv
  <2>2. SnapshotsSettled(d)'
    BY <1>1, <1>2, <2>1 DEF SnapshotsSettled, Active, Of, Existing
  <2>3. CASE d # c
    <3>1. ASSUME NEW g \in Handlers
          PROVE  /\ Completing(g, d)' <=> Completing(g, d)
                 /\ Completing(g, d) => txn'[g] = txn[g]
      BY <1>0, <1>1, <1>2, <2>3 DEF Completing, InTransaction, Of
    <3> QED BY <1>1, <2>1, <2>2, <3>1 DEF TransactionsSettled, TransfersSettled, Credits
  <2>4. CASE d = c
    <3>1. \A g \in Handlers : ~Completing(g, c)
      BY <1>1, <2>4, NoneCompleting
    <3>2. Existing(h) => rows[c] # NoRow /\ rows[c].id = seen[h].id
      BY <1>0, <1>1, <2>1, <2>4, RowIds DEF SnapshotsSettled, Active, Existing, TypeOK
    <3>3. Existing(h) => txn'[h] # NoRow
      <4>1. SUFFICES ASSUME Existing(h) PROVE txn'[h] # NoRow
        OBVIOUS
      <4>2. txn'[h] = Written(c, rows[c], "Success", job[h].value) /\ rows[c] \in StoredRow
        BY <1>0, <3>2, <4>1 DEF BeginCompleted, TypeOK, Row
      <4> QED BY <4>2, Updated DEF StoredRow, NoRow
    <3>4. TransactionsSettled(d)'
      <4>1. ASSUME NEW g \in Handlers, Completing(g, c)' PROVE g = h
        BY <1>1, <1>2, <3>1, <4>1 DEF Completing, InTransaction, Of
      <4> QED BY <1>1, <1>3, <1>4, <2>4, <3>3, <4>1 DEF TransactionsSettled
    <3>5. TransfersSettled(d)'
      BY <1>1, <2>1, <2>4, <3>1 DEF TransfersSettled, Credits
    <3> QED BY <2>2, <3>4, <3>5
  <2> QED BY <2>3, <2>4
<1> QED BY <1>1, <1>5, <1>6, <1>7, <1>8 DEF KeyInv

\* njord applies the settled key, once.
LEMMA KeyAfterPurchase ==
  ASSUME TypeOK, TypeOK', KeyInv, NEW h \in Handlers, PurchaseCores(h)
  PROVE  KeyInv'
<1>0. PICK c \in Checkouts : c = Of(h)
  BY DEF PurchaseCores, TypeOK, Notice, Of
<1>1. /\ pc[h] = "transfer" /\ pc' = [pc EXCEPT ![h] = "commit"]
      /\ UNCHANGED <<rows, job, seen, txn, forgotten>>
      /\ ledger' = IF Applied(Key(h)) THEN ledger
                   ELSE ledger \cup {[key |-> Key(h), checkout |-> c, amount |-> job[h].value]}
  BY <1>0 DEF PurchaseCores, Amount, dbVars, histVars
<1>2. \A g \in Handlers : (InTransaction(g)' <=> InTransaction(g)) /\ ((pc'[g] # "idle") <=> (pc[g] # "idle"))
  BY <1>1 DEF InTransaction, TypeOK
<1>3. OneWriter' /\ UpdatesInPlace'
  BY <1>1, <1>2 DEF KeyInv, OneWriter, UpdatesInPlace, Of, Existing
<1>4. KeysUnique'
  BY <1>1 DEF KeyInv, KeysUnique, Applied
<1>5. ASSUME NEW d \in Checkouts \ forgotten
      PROVE  SnapshotsSettled(d)' /\ TransactionsSettled(d)' /\ TransfersSettled(d)'
  <2>1. SnapshotsSettled(d) /\ TransactionsSettled(d) /\ TransfersSettled(d)
    BY DEF KeyInv
  <2>2. SnapshotsSettled(d)' /\ TransactionsSettled(d)'
    BY <1>1, <1>2, <2>1 DEF SnapshotsSettled, TransactionsSettled, Active, Completing, Of, Existing
  <2>3. \A g \in Handlers : Completing(g, d)' <=> Completing(g, d)
    BY <1>1, <1>2 DEF Completing, Of
  <2>4. ASSUME NEW t \in Credits(d)
        PROVE  \/ rows'[d] # NoRow /\ t.key = rows'[d].id
               \/ rows'[d] = NoRow /\ \E g \in Handlers : Completing(g, d)' /\ t.key = txn'[g].id
    <3>1. \/ rows[d] # NoRow /\ t.key = rows[d].id
          \/ rows[d] = NoRow /\ \E g \in Handlers : Completing(g, d) /\ t.key = txn[g].id
      BY <2>1 DEF TransfersSettled
    <3> QED BY <1>1, <2>3, <3>1
  <2>5. d # c => Credits(d)' = Credits(d)
    BY <1>1 DEF Credits
  <2>6. d = c => Key(h) = txn[h].id
    BY <1>0, <1>1, <2>1 DEF KeyInv, UpdatesInPlace, TransactionsSettled, Completing, InTransaction, Key
  <2>7. d = c => \/ rows'[d] # NoRow /\ Key(h) = rows'[d].id
                 \/ rows'[d] = NoRow /\ \E g \in Handlers : Completing(g, d)' /\ Key(h) = txn'[g].id
    BY <1>0, <1>1, <2>1, <2>3, <2>6 DEF TransactionsSettled, Completing, InTransaction
  <2>8. TransfersSettled(d)'
    BY <1>1, <2>4, <2>5, <2>7 DEF TransfersSettled, Credits
  <2> QED BY <2>2, <2>8
<1> QED BY <1>1, <1>3, <1>4, <1>5 DEF KeyInv

\* Refused or skipped: the transaction goes on, its id does not change.
LEMMA KeyAfterNoTransfer ==
  ASSUME TypeOK, KeyInv, NEW h \in Handlers, pc[h] = "transfer",
         pc' = [pc EXCEPT ![h] = "commit"],
         UNCHANGED <<rows, job, seen, ledger, forgotten>>,
         \A g \in Handlers : (txn'[g] # NoRow <=> txn[g] # NoRow) /\ txn'[g].id = txn[g].id
  PROVE  KeyInv'
<1>1. \A g \in Handlers : (InTransaction(g)' <=> InTransaction(g)) /\ ((pc'[g] # "idle") <=> (pc[g] # "idle"))
  BY DEF InTransaction, TypeOK
<1>2. OneWriter' /\ UpdatesInPlace' /\ KeysUnique'
  BY <1>1 DEF KeyInv, OneWriter, UpdatesInPlace, KeysUnique, Of, Existing
<1>3. ASSUME NEW d \in Checkouts \ forgotten
      PROVE  SnapshotsSettled(d)' /\ TransactionsSettled(d)' /\ TransfersSettled(d)'
  <2>1. SnapshotsSettled(d) /\ TransactionsSettled(d) /\ TransfersSettled(d)
    BY DEF KeyInv
  <2>2. SnapshotsSettled(d)' /\ TransactionsSettled(d)'
    BY <1>1, <2>1 DEF SnapshotsSettled, TransactionsSettled, Active, Completing, Of, Existing
  <2>3. \A g \in Handlers : Completing(g, d)' <=> Completing(g, d)
    BY <1>1 DEF Completing, Of
  <2>4. TransfersSettled(d)'
    BY <2>1, <2>3 DEF TransfersSettled, Credits
  <2> QED BY <2>2, <2>4
<1> QED BY <1>2, <1>3 DEF KeyInv

\* A refusal that overwrites the row keeps KeyInv.
LEMMA KeyAfterRefuse ==
  ASSUME TypeOK, KeyInv, NEW h \in Handlers, RefuseTransfer(h)
  PROVE  KeyInv'
<1>1. \A g \in Handlers : (txn'[g] # NoRow <=> txn[g] # NoRow) /\ txn'[g].id = txn[g].id
  BY DEF RefuseTransfer, TypeOK, Row, StoredRow, NoRow
<1> QED BY <1>1, KeyAfterNoTransfer DEF RefuseTransfer, dbVars

\* Skipping njord keeps KeyInv.
LEMMA KeyAfterSkipNjord ==
  ASSUME TypeOK, KeyInv, NEW h \in Handlers, SkipNjord(h)
  PROVE  KeyInv'
  BY KeyAfterNoTransfer DEF SkipNjord, dbVars, histVars

\* Committing the credit keeps KeyInv.
LEMMA KeyAfterCommit ==
  ASSUME TypeOK, TypeOK', KeyInv, NEW h \in Handlers, CommitCompleted(h)
  PROVE  KeyInv'
<1>0. PICK c \in Checkouts : c = Of(h)
  BY DEF CommitCompleted, TypeOK, Notice, Of
<1>1. /\ pc[h] = "commit" /\ Reply(h) /\ UNCHANGED <<ledger, forgotten>>
      /\ rows' = IF txn[h] = NoRow THEN rows ELSE [rows EXCEPT ![c] = txn[h]]
  BY <1>0 DEF CommitCompleted, histVars
<1>2. \A g \in Handlers : g # h => pc'[g] = pc[g] /\ job'[g] = job[g] /\ seen'[g] = seen[g] /\ txn'[g] = txn[g]
  BY <1>1 DEF Reply, TypeOK
<1>3. pc'[h] = "idle"
  BY <1>1 DEF Reply, TypeOK
<1>4. OneWriter' /\ UpdatesInPlace' /\ KeysUnique'
  BY <1>1, <1>2, <1>3 DEF KeyInv, OneWriter, UpdatesInPlace, KeysUnique, InTransaction, Of, Existing
<1>5. ASSUME NEW d \in Checkouts \ forgotten
      PROVE  SnapshotsSettled(d)' /\ TransactionsSettled(d)' /\ TransfersSettled(d)'
  <2>1. SnapshotsSettled(d) /\ TransactionsSettled(d) /\ TransfersSettled(d)
    BY DEF KeyInv
  <2>2. ASSUME NEW g \in Handlers, Completing(g, d)' PROVE g # h /\ Completing(g, d) /\ txn'[g] = txn[g]
    BY <1>2, <1>3, <2>2 DEF Completing, InTransaction, Of
  <2>3. ASSUME NEW g \in Handlers, Active(g, d)', Existing(g)'
        PROVE  Active(g, d) /\ Existing(g) /\ seen'[g] = seen[g]
    BY <1>2, <1>3, <2>3 DEF Active, Existing, Of
  <2>4. CASE d # c
    <3>1. rows'[d] = rows[d]
      BY <1>1, <2>4 DEF TypeOK
    <3>2. SnapshotsSettled(d)' /\ TransactionsSettled(d)'
      BY <2>1, <2>2, <2>3, <3>1 DEF SnapshotsSettled, TransactionsSettled
    <3>3. ASSUME NEW g \in Handlers, Completing(g, d) PROVE Completing(g, d)' /\ txn'[g] = txn[g]
      BY <1>0, <1>2, <2>4, <3>3 DEF Completing, InTransaction, Of
    <3>4. TransfersSettled(d)'
      BY <1>1, <2>1, <3>1, <3>3 DEF TransfersSettled, Credits
    <3> QED BY <3>2, <3>4
  <2>5. CASE d = c
    <3>1. Completing(h, c) /\ txn[h] # NoRow /\ (rows[c] # NoRow => txn[h].id = rows[c].id)
      BY <1>0, <1>1, <2>1, <2>5 DEF TransactionsSettled, Completing, InTransaction
    <3>2. rows'[c] = txn[h] /\ rows'[c] # NoRow
      BY <1>1, <3>1 DEF TypeOK
    <3>3. \A g \in Handlers : Completing(g, c) => g = h
      BY <2>1, <2>5, <3>1 DEF KeyInv, OneWriter, TransactionsSettled, Completing
    <3>4. TransactionsSettled(d)'
      BY <2>2, <2>5, <3>3 DEF TransactionsSettled
    <3>5. SnapshotsSettled(d)'
      <4>1. ASSUME NEW g \in Handlers, Active(g, d)', Existing(g)' PROVE rows'[d].id = seen'[g].id
        <5>1. rows[c].id = seen[g].id /\ seen[g] # NoRow /\ seen'[g] = seen[g]
          BY <2>1, <2>3, <2>5, <4>1 DEF SnapshotsSettled, Existing
        <5>2. rows[c] # NoRow
          BY <5>1, RowIds DEF TypeOK
        <5> QED BY <2>5, <3>1, <3>2, <5>1, <5>2
      <4> QED BY <4>1 DEF SnapshotsSettled
    <3>6. TransfersSettled(d)'
      BY <1>1, <2>1, <2>5, <3>1, <3>2, <3>3 DEF TransfersSettled, Credits
    <3> QED BY <3>4, <3>5, <3>6
  <2> QED BY <2>4, <2>5
<1> QED BY <1>1, <1>4, <1>5 DEF KeyInv

\* A rolled-back handler: if the row it was inserting had been credited the
\* checkout is forgotten, else nothing refers to its id any more.
LEMMA KeyAfterRollback ==
  ASSUME TypeOK, KeyInv, NEW h \in Handlers, pc[h] # "idle",
         pc' = [pc EXCEPT ![h] = "idle"],
         job' = [job EXCEPT ![h] = NoJob],
         seen' = [seen EXCEPT ![h] = NoRow],
         txn' = [txn EXCEPT ![h] = NoRow],
         forgotten' = IF ForgetsKey(h) THEN forgotten \cup {Of(h)} ELSE forgotten,
         UNCHANGED <<rows, ledger>>
  PROVE  KeyInv'
<1>0. PICK c \in Checkouts : c = Of(h)
  BY DEF TypeOK, Notice, Of
<1>1. \A g \in Handlers : g # h => pc'[g] = pc[g] /\ job'[g] = job[g] /\ seen'[g] = seen[g] /\ txn'[g] = txn[g]
  BY DEF TypeOK
<1>2. pc'[h] = "idle"
  BY DEF TypeOK
<1>3. OneWriter' /\ UpdatesInPlace' /\ KeysUnique'
  BY <1>1, <1>2 DEF KeyInv, OneWriter, UpdatesInPlace, KeysUnique, InTransaction, Of, Existing
<1>4. ASSUME NEW d \in Checkouts, d \notin forgotten'
      PROVE  SnapshotsSettled(d)' /\ TransactionsSettled(d)' /\ TransfersSettled(d)'
  <2>1. SnapshotsSettled(d) /\ TransactionsSettled(d) /\ TransfersSettled(d)
    BY <1>4 DEF KeyInv
  <2>2. SnapshotsSettled(d)' /\ TransactionsSettled(d)'
    BY <1>1, <1>2, <2>1 DEF SnapshotsSettled, TransactionsSettled, Active, Completing,
                            InTransaction, Of, Existing
  <2>3. ASSUME NEW g \in Handlers, Completing(g, d), g # h PROVE Completing(g, d)' /\ txn'[g] = txn[g]
    BY <1>1, <2>3 DEF Completing, InTransaction, Of
  <2>4. ASSUME NEW t \in Credits(d), rows[d] = NoRow, Completing(h, d), t.key = txn[h].id PROVE FALSE
    <3>1. d = c
      BY <1>0, <2>4 DEF Completing
    <3>2. ~Existing(h)
      BY <2>1, <2>4, RowIds DEF SnapshotsSettled, Active, Completing, InTransaction, Existing, TypeOK
    <3>3. Applied(Key(h))
      BY <2>4, <3>2 DEF Key, Applied, Credits
    <3> QED BY <1>0, <1>4, <2>4, <3>1, <3>3 DEF ForgetsKey, Completing, InsertsRow
  <2>5. TransfersSettled(d)'
    <3> SUFFICES ASSUME NEW t \in Credits(d)
                 PROVE  \/ rows[d] # NoRow /\ t.key = rows[d].id
                        \/ rows[d] = NoRow /\ \E g \in Handlers : Completing(g, d)' /\ t.key = txn'[g].id
      BY DEF TransfersSettled, Credits
    <3>1. \/ rows[d] # NoRow /\ t.key = rows[d].id
          \/ rows[d] = NoRow /\ \E g \in Handlers : Completing(g, d) /\ t.key = txn[g].id
      BY <2>1 DEF TransfersSettled
    <3> QED BY <2>3, <2>4, <3>1
  <2> QED BY <2>2, <2>5
<1> QED BY <1>3, <1>4 DEF KeyInv

\* Receiving a notification keeps KeyInv.
LEMMA KeyAfterReceive ==
  ASSUME TypeOK, KeyInv, NEW h \in Handlers, NEW e \in events, Receive(h, e)
  PROVE  KeyInv'
<1>1. \A g \in Handlers : g # h => pc'[g] = pc[g] /\ job'[g] = job[g] /\ seen'[g] = seen[g] /\ txn'[g] = txn[g]
  BY DEF Receive, TypeOK
<1>2. pc[h] = "idle" /\ pc'[h] = "handle" /\ seen'[h] = rows[e.checkout] /\ job'[h] = e
  BY DEF Receive, TypeOK
<1>3. UNCHANGED <<rows, ledger, forgotten, txn>>
  BY DEF Receive, dbVars, histVars
<1>4. OneWriter' /\ UpdatesInPlace' /\ KeysUnique'
  BY <1>1, <1>2, <1>3 DEF KeyInv, OneWriter, UpdatesInPlace, KeysUnique, InTransaction, Of, Existing
<1>5. ASSUME NEW d \in Checkouts \ forgotten
      PROVE  SnapshotsSettled(d)' /\ TransactionsSettled(d)' /\ TransfersSettled(d)'
  <2>1. SnapshotsSettled(d) /\ TransactionsSettled(d) /\ TransfersSettled(d)
    BY DEF KeyInv
  <2>2. \A g \in Handlers : Completing(g, d)' <=> Completing(g, d)
    BY <1>1, <1>2 DEF Completing, InTransaction, Of
  <2>3. TransactionsSettled(d)' /\ TransfersSettled(d)'
    BY <1>3, <2>1, <2>2 DEF TransactionsSettled, TransfersSettled, Credits
  <2>4. SnapshotsSettled(d)'
    BY <1>1, <1>2, <1>3, <2>1 DEF SnapshotsSettled, Active, Of, Existing
  <2> QED BY <2>3, <2>4
<1> QED BY <1>3, <1>4, <1>5 DEF KeyInv

\* Steps that move no id: Paddle's, and the passing of 21 days.
LEMMA KeyAfterQuietStep ==
  ASSUME TypeOK, KeyInv, UNCHANGED <<handlerVars, ledger, forgotten>>,
         \A d \in Checkouts : (rows'[d] = NoRow <=> rows[d] = NoRow) /\ rows'[d].id = rows[d].id
  PROVE  KeyInv'
<1>1. OneWriter' /\ UpdatesInPlace' /\ KeysUnique'
  BY DEF handlerVars, KeyInv, OneWriter, UpdatesInPlace, KeysUnique, InTransaction, Of, Existing
<1>2. ASSUME NEW d \in Checkouts \ forgotten
      PROVE  SnapshotsSettled(d)' /\ TransactionsSettled(d)' /\ TransfersSettled(d)'
  BY DEF handlerVars, KeyInv, SnapshotsSettled, TransactionsSettled, TransfersSettled,
         Active, Completing, InTransaction, Of, Existing, Credits
<1> QED BY <1>1, <1>2 DEF KeyInv

\* The cleaning job keeps KeyInv.
LEMMA KeyAfterClean ==
  ASSUME TypeOK, KeyInv, NEW c \in Checkouts, CleanStale(c)
  PROVE  KeyInv'
<1>1. UNCHANGED <<handlerVars, ledger>> /\ rows' = [rows EXCEPT ![c] = NoRow] /\ forgotten' = forgotten \cup {c}
  BY DEF CleanStale
<1>2. OneWriter' /\ UpdatesInPlace' /\ KeysUnique'
  BY <1>1 DEF handlerVars, KeyInv, OneWriter, UpdatesInPlace, KeysUnique, InTransaction, Of, Existing
<1>3. ASSUME NEW d \in Checkouts, d \notin forgotten'
      PROVE  SnapshotsSettled(d)' /\ TransactionsSettled(d)' /\ TransfersSettled(d)'
  <2>1. d \notin forgotten /\ rows'[d] = rows[d]
    BY <1>1, <1>3 DEF TypeOK
  <2> QED
    BY <1>1, <2>1 DEF handlerVars, KeyInv, SnapshotsSettled, TransactionsSettled, TransfersSettled,
           Active, Completing, InTransaction, Of, Existing, Credits
<1> QED BY <1>2, <1>3 DEF KeyInv

\* Every action keeps KeyInv.
LEMMA KeyStep == TypeOK /\ TypeOK' /\ KeyInv /\ [Next]_vars => KeyInv'
<1> SUFFICES ASSUME TypeOK, TypeOK', KeyInv, [Next]_vars PROVE KeyInv'
  OBVIOUS
<1>1. ASSUME NEW c \in Checkouts, PaddleStep(c) PROVE KeyInv'
  <2>1. UNCHANGED <<rows, handlerVars, ledger, forgotten>>
    BY <1>1 DEF PaddleStep, OpenCheckout, ReviseCheckout, BillCheckout, DeclinePayment,
                PayCheckout, CompleteCheckout, Notify, dbVars, histVars
  <2> QED BY <2>1, KeyAfterQuietStep
<1>2. ASSUME NEW c \in Checkouts, GrowStale(c) PROVE KeyInv'
  <2>1. UNCHANGED <<handlerVars, ledger, forgotten>>
    BY <1>2 DEF GrowStale, histVars
  <2>2. rows[c] \in StoredRow /\ rows'[c].id = rows[c].id
    BY <1>2 DEF GrowStale, TypeOK, Row, StoredRow
  <2>3. \A d \in Checkouts : d # c => rows'[d] = rows[d]
    BY <1>2 DEF GrowStale, TypeOK
  <2>4. \A d \in Checkouts : (rows'[d] = NoRow <=> rows[d] = NoRow) /\ rows'[d].id = rows[d].id
    BY <2>2, <2>3, RowIds DEF TypeOK
  <2> QED BY <2>1, <2>4, KeyAfterQuietStep
<1>3. ASSUME NEW c \in Checkouts, CleanStale(c) PROVE KeyInv'
  BY <1>3, KeyAfterClean
<1>4. ASSUME NEW h \in Handlers, NEW e \in events, Receive(h, e) PROVE KeyInv'
  BY <1>4, KeyAfterReceive
<1>5. ASSUME NEW h \in Handlers, HandlerStep(h) PROVE KeyInv'
  <2>1. CASE HandleCreated(h) \/ HandlePaid(h) \/ HandleUpdated(h)
    BY <2>1, KeyAfterSkip, KeyAfterStore DEF HandleCreated, HandlePaid, HandleUpdated
  <2>2. CASE RejectCompleted(h)
    <3>1. pc[h] # "idle" /\ Throw(h)
      BY <2>2 DEF RejectCompleted
    <3> QED BY <3>1, KeyAfterRollback DEF Throw, Reply, dbVars
  <2> QED BY <1>5, <2>1, <2>2, KeyAfterFailed, KeyAfterBegin, KeyAfterPurchase,
             KeyAfterSkipNjord, KeyAfterCommit DEF HandlerStep
<1>6. ASSUME NEW h \in Handlers, RefuseTransfer(h) PROVE KeyInv'
  BY <1>6, KeyAfterRefuse
<1>7. ASSUME NEW h \in Handlers, FailHandler(h) PROVE KeyInv'
  <2>1. pc[h] # "idle" /\ Throw(h)
    BY <1>7 DEF FailHandler
  <2> QED BY <2>1, KeyAfterRollback DEF Throw, Reply, dbVars
<1>8. ASSUME NEW h \in Handlers, CrashHandler(h) PROVE KeyInv'
  BY <1>8, KeyAfterRollback DEF CrashHandler, dbVars
<1>9. CASE UNCHANGED vars
  <2>1. UNCHANGED <<rows, handlerVars, ledger, forgotten>>
    BY <1>9 DEF vars, handlerVars
  <2> QED BY <2>1, KeyAfterQuietStep
<1> QED BY <1>1, <1>2, <1>3, <1>4, <1>5, <1>6, <1>7, <1>8, <1>9 DEF Next

\* KeyInv holds in every reachable state.
LEMMA KeyInvariant == Spec => []KeyInv
<1>1. Init => KeyInv
  BY DEF Init, KeyInv, OneWriter, UpdatesInPlace, KeysUnique, SnapshotsSettled,
         TransactionsSettled, TransfersSettled, Active, Completing, InTransaction, Existing, Credits
<1> QED BY <1>1, TypeCorrect, KeyStep, PTL DEF Spec

\* A checkout that is not forgotten is credited at most once.
THEOREM NoDoubleCredit == Spec => []CreditedOnce
<1>1. KeyInv => CreditedOnce
  <2> SUFFICES ASSUME KeyInv, NEW c \in Checkouts \ forgotten,
                      NEW t \in Credits(c), NEW u \in Credits(c)
               PROVE  t = u
    BY DEF CreditedOnce
  <2>1. TransactionsSettled(c) /\ TransfersSettled(c)
    BY DEF KeyInv
  <2>2. t.key = u.key
    <3>1. CASE rows[c] # NoRow
      BY <2>1, <3>1 DEF TransfersSettled
    <3>2. CASE rows[c] = NoRow
      BY <2>1, <3>2 DEF TransfersSettled, TransactionsSettled, KeyInv, OneWriter, Completing
    <3> QED BY <3>1, <3>2
  <2> QED BY <2>2 DEF KeyInv, KeysUnique, Credits
<1> QED BY <1>1, KeyInvariant, PTL

-----------------------------------------------------------------------------
(* Payments: a notification of completion carries what Paddle settled.     *)

Settled(e) == paddle[e.checkout].state = "completed" /\ paddle[e.checkout].value = e.value

PaymentInv ==
  /\ \A e \in events : e.type = "completed" => Settled(e)
  /\ \A h \in Handlers : pc[h] # "idle" /\ job[h].type = "completed" => Settled(job[h])
  /\ \A h \in Handlers : InTransaction(h) => job[h].type = "completed"
  /\ CreditMatchesPayment

\* Every action keeps PaymentInv.
LEMMA PaymentStep == TypeOK /\ PaymentInv /\ [Next]_vars => PaymentInv'
<1> SUFFICES ASSUME TypeOK, PaymentInv, [Next]_vars PROVE PaymentInv'
  OBVIOUS
<1>1. ASSUME NEW c \in Checkouts, PaddleStep(c) PROVE PaymentInv'
  <2>1. PICK type, state, v :
          /\ Notify(c, type, state, v)
          /\ type = "completed" => state = "completed"
          /\ paddle[c].state = "completed" => state = "completed" /\ v = paddle[c].value
    <3>1. ASSUME NEW v \in Values, OpenCheckout(c, v)
          PROVE  paddle[c].state # "completed" /\ Notify(c, "created", "ready", v)
      BY <3>1 DEF OpenCheckout
    <3>2. ASSUME NEW v \in Values, ReviseCheckout(c, v)
          PROVE  /\ Notify(c, "updated", paddle[c].state, v)
                 /\ paddle[c].state = "completed" => v = paddle[c].value
      BY <3>2 DEF ReviseCheckout
    <3>3. CASE BillCheckout(c)
      BY <3>3 DEF BillCheckout
    <3>4. CASE DeclinePayment(c)
      BY <3>4 DEF DeclinePayment
    <3>5. CASE PayCheckout(c)
      BY <3>5 DEF PayCheckout
    <3>6. CASE CompleteCheckout(c)
      BY <3>6 DEF CompleteCheckout
    <3> QED BY <1>1, <3>1, <3>2, <3>3, <3>4, <3>5, <3>6 DEF PaddleStep
  <2>2. /\ paddle' = [paddle EXCEPT ![c] = [state |-> state, value |-> v, at |-> paddle[c].at + 1]]
        /\ events' = events \cup {[type |-> type, checkout |-> c, value |-> v,
                                   at |-> paddle[c].at + 1, state |-> state]}
        /\ UNCHANGED <<pc, job, ledger>>
    BY <2>1 DEF Notify, handlerVars
  <2>3. /\ paddle'[c].state = state /\ paddle'[c].value = v
        /\ \A d \in Checkouts : d # c => paddle'[d] = paddle[d]
    BY <2>2 DEF TypeOK
  <2>4. ASSUME NEW d \in Checkouts, paddle[d].state = "completed"
        PROVE  paddle'[d].state = "completed" /\ paddle'[d].value = paddle[d].value
    BY <2>1, <2>3, <2>4
  <2>5. CreditMatchesPayment'
    BY <2>2, <2>4 DEF PaymentInv, CreditMatchesPayment, TypeOK, Transfer
  <2>6. \A h \in Handlers : pc[h] # "idle" => job[h].checkout \in Checkouts
    BY DEF TypeOK, Notice
  <2>7. \A h \in Handlers : pc'[h] # "idle" /\ job'[h].type = "completed" => Settled(job[h])'
    BY <2>2, <2>4, <2>6 DEF PaymentInv, Settled
  <2>8. \A e \in events : e.checkout \in Checkouts
    BY DEF TypeOK, Notice
  <2>9. \A e \in events' : e.type = "completed" => Settled(e)'
    BY <2>1, <2>2, <2>3, <2>4, <2>8 DEF PaymentInv, Settled
  <2> QED BY <2>2, <2>5, <2>7, <2>9 DEF PaymentInv, InTransaction
<1>2. ASSUME NEW c \in Checkouts, GrowStale(c) PROVE PaymentInv'
  BY <1>2 DEF GrowStale, handlerVars, PaymentInv, Settled, InTransaction, CreditMatchesPayment
<1>3. ASSUME NEW c \in Checkouts, CleanStale(c) PROVE PaymentInv'
  BY <1>3 DEF CleanStale, paddleVars, handlerVars, PaymentInv, Settled, InTransaction,
              CreditMatchesPayment
<1>4. ASSUME NEW h \in Handlers, NEW e \in events, Receive(h, e) PROVE PaymentInv'
  <2>1. pc'[h] = "handle" /\ job'[h] = e
    BY <1>4 DEF Receive, TypeOK
  <2>2. \A g \in Handlers : g # h => pc'[g] = pc[g] /\ job'[g] = job[g]
    BY <1>4 DEF Receive, TypeOK
  <2>3. UNCHANGED <<paddle, events, ledger>>
    BY <1>4 DEF Receive, paddleVars
  <2> QED BY <2>1, <2>2, <2>3 DEF PaymentInv, Settled, InTransaction, CreditMatchesPayment
<1>5. ASSUME NEW h \in Handlers,
             pc' = [pc EXCEPT ![h] = "idle"], job' = [job EXCEPT ![h] = NoJob],
             UNCHANGED <<paddleVars, ledger>>
      PROVE  PaymentInv'
  <2>1. pc'[h] = "idle" /\ \A g \in Handlers : g # h => pc'[g] = pc[g] /\ job'[g] = job[g]
    BY <1>5 DEF TypeOK
  <2> QED BY <1>5, <2>1 DEF paddleVars, PaymentInv, Settled, InTransaction, CreditMatchesPayment
<1>6. ASSUME NEW h \in Handlers, HandlerStep(h) PROVE PaymentInv'
  <2>1. CASE HandleCreated(h) \/ HandlePaid(h) \/ HandleFailed(h) \/ HandleUpdated(h)
    BY <1>5, <2>1 DEF HandleCreated, HandlePaid, HandleFailed, HandleUpdated, Skip, StoreStatus, Reply
  <2>2. CASE CommitCompleted(h) \/ RejectCompleted(h)
    BY <1>5, <2>2 DEF CommitCompleted, RejectCompleted, Throw, Reply
  <2>3. CASE BeginCompleted(h)
    <3>1. \A g \in Handlers : pc'[g] = (IF g = h THEN "transfer" ELSE pc[g])
      BY <2>3 DEF BeginCompleted, TypeOK
    <3>2. pc[h] = "handle" /\ job[h].type = "completed" /\ UNCHANGED <<paddle, events, job, ledger>>
      BY <2>3 DEF BeginCompleted, paddleVars
    <3> QED BY <3>1, <3>2 DEF PaymentInv, Settled, InTransaction, CreditMatchesPayment
  <2>4. CASE SkipNjord(h)
    <3>1. \A g \in Handlers : pc'[g] = (IF g = h THEN "commit" ELSE pc[g])
      BY <2>4 DEF SkipNjord, TypeOK
    <3>2. pc[h] = "transfer" /\ UNCHANGED <<paddle, events, job, ledger>>
      BY <2>4 DEF SkipNjord, paddleVars
    <3> QED BY <3>1, <3>2 DEF PaymentInv, Settled, InTransaction, CreditMatchesPayment
  <2>5. CASE PurchaseCores(h)
    <3>1. \A g \in Handlers : pc'[g] = (IF g = h THEN "commit" ELSE pc[g])
      BY <2>5 DEF PurchaseCores, TypeOK
    <3>2. pc[h] = "transfer" /\ UNCHANGED <<paddle, events, job>>
      BY <2>5 DEF PurchaseCores, paddleVars
    <3>3. Settled(job[h])
      BY <3>2 DEF PaymentInv, InTransaction
    <3>4. CreditMatchesPayment'
      BY <2>5, <3>2, <3>3 DEF PurchaseCores, Amount, PaymentInv, CreditMatchesPayment, Settled, Of
    <3> QED BY <3>1, <3>2, <3>4 DEF PaymentInv, Settled, InTransaction
  <2> QED BY <1>6, <2>1, <2>2, <2>3, <2>4, <2>5 DEF HandlerStep
<1>7. ASSUME NEW h \in Handlers, RefuseTransfer(h) PROVE PaymentInv'
  <2>1. \A g \in Handlers : pc'[g] = (IF g = h THEN "commit" ELSE pc[g])
    BY <1>7 DEF RefuseTransfer, TypeOK
  <2>2. pc[h] = "transfer" /\ UNCHANGED <<paddle, events, job, ledger>>
    BY <1>7 DEF RefuseTransfer, paddleVars
  <2> QED BY <2>1, <2>2 DEF PaymentInv, Settled, InTransaction, CreditMatchesPayment
<1>8. ASSUME NEW h \in Handlers, FailHandler(h) \/ CrashHandler(h) PROVE PaymentInv'
  BY <1>5, <1>8 DEF FailHandler, CrashHandler, Throw, Reply
<1>9. CASE UNCHANGED vars
  BY <1>9 DEF vars, PaymentInv, Settled, InTransaction, CreditMatchesPayment
<1> QED BY <1>1, <1>2, <1>3, <1>4, <1>6, <1>7, <1>8, <1>9 DEF Next

\* PaymentInv holds in every reachable state.
LEMMA PaymentInvariant == Spec => []PaymentInv
<1>1. Init => PaymentInv
  BY DEF Init, PaymentInv, InTransaction, CreditMatchesPayment
<1> QED BY <1>1, TypeCorrect, PaymentStep, PTL DEF Spec

\* Only completed checkouts are credited, with the amount paid.
THEOREM CreditIsPaid == Spec => []CreditMatchesPayment
<1>1. PaymentInv => CreditMatchesPayment
  BY DEF PaymentInv
<1> QED BY <1>1, PaymentInvariant, PTL

-----------------------------------------------------------------------------
(* A committed Success is backed by a transfer.                            *)

SuccessInv ==
  /\ SuccessIsCredited
  /\ \A h \in Handlers : pc[h] = "commit" /\ txn[h].status = "Success"
       => Of(h) \in Discounted \/ Applied(txn[h].id)

\* A step that keeps the transfers and turns no row successful.
LEMMA SuccessKept ==
  ASSUME TypeOK, SuccessInv, UNCHANGED ledger,
         \A c \in Checkouts : rows'[c].status = "Success" =>
           rows[c].status = "Success" /\ rows'[c].id = rows[c].id,
         \A h \in Handlers : pc'[h] = "commit" => pc[h] = "commit" /\ job'[h] = job[h] /\ txn'[h] = txn[h]
  PROVE  SuccessInv'
  BY DEF SuccessInv, SuccessIsCredited, Applied, Of

\* Storing a status keeps SuccessInv.
LEMMA SuccessAfterStore ==
  ASSUME TypeOK, SuccessInv, NEW h \in Handlers, pc[h] = "handle",
         NEW new, NEW old, StoreStatus(h, new, old),
         new # "Success", old = "Success" => old = rows[Of(h)].status
  PROVE  SuccessInv'
<1>0. PICK c \in Checkouts : c = Of(h)
  BY DEF TypeOK, Notice, Of
<1>1. UNCHANGED ledger /\ \A g \in Handlers : pc'[g] = "commit" => g # h /\ pc'[g] = pc[g] /\ job'[g] = job[g] /\ txn'[g] = txn[g]
  BY DEF StoreStatus, Reply, TypeOK
<1>2. \A d \in Checkouts : d # c => rows'[d] = rows[d]
  BY <1>0 DEF StoreStatus, TypeOK
<1>3. rows'[c].status = "Success" => rows[c].status = "Success" /\ rows'[c].id = rows[c].id
  <2>1. CASE Existing(h) /\ rows[c].id = seen[h].id
    <3>1. rows'[c] = Written(c, rows[c], old, job[h].value)
      BY <1>0, <2>1 DEF StoreStatus, TypeOK
    <3>2. rows[c] \in StoredRow
      BY <2>1, RowIds DEF Existing, TypeOK, Row
    <3>3. rows'[c].status = old /\ rows'[c].id = rows[c].id
      BY <3>1, <3>2, Updated
    <3> QED BY <1>0, <3>3
  <2>2. CASE Existing(h) /\ rows[c].id # seen[h].id
    BY <1>0, <2>2 DEF StoreStatus
  <2>3. CASE ~Existing(h)
    <3>1. rows'[c] = Upserted(c, new, job[h].value)
      BY <1>0, <2>3 DEF StoreStatus, TypeOK
    <3>2. rows'[c].status = new
      BY <3>1, Updated DEF Upserted
    <3> QED BY <3>2
  <2> QED BY <2>1, <2>2, <2>3
<1>4. \A d \in Checkouts : rows'[d].status = "Success" =>
        rows[d].status = "Success" /\ rows'[d].id = rows[d].id
  BY <1>2, <1>3
<1> QED BY <1>1, <1>4, SuccessKept

\* Every action keeps SuccessInv.
LEMMA SuccessStep == TypeOK /\ KeyInv /\ SuccessInv /\ [Next]_vars => SuccessInv'
<1> SUFFICES ASSUME TypeOK, KeyInv, SuccessInv, [Next]_vars PROVE SuccessInv'
  OBVIOUS
<1>0. ASSUME NEW h \in Handlers, UNCHANGED <<rows, ledger>>,
             pc' = [pc EXCEPT ![h] = "idle"] \/ pc' = [pc EXCEPT ![h] = "handle"]
               \/ pc' = [pc EXCEPT ![h] = "transfer"],
             \A g \in Handlers : g # h => job'[g] = job[g] /\ txn'[g] = txn[g]
      PROVE  SuccessInv'
  <2>1. \A g \in Handlers : pc'[g] = "commit" => g # h /\ pc'[g] = pc[g]
    BY <1>0 DEF TypeOK
  <2> QED BY <1>0, <2>1, SuccessKept
<1>1. ASSUME NEW c \in Checkouts, PaddleStep(c) PROVE SuccessInv'
  <2>1. UNCHANGED <<rows, pc, job, txn, ledger>>
    BY <1>1 DEF PaddleStep, OpenCheckout, ReviseCheckout, BillCheckout, DeclinePayment,
                PayCheckout, CompleteCheckout, Notify, dbVars, handlerVars
  <2> QED BY <2>1, SuccessKept
<1>2. ASSUME NEW c \in Checkouts, GrowStale(c) \/ CleanStale(c) PROVE SuccessInv'
  <2>1. UNCHANGED <<pc, job, txn, ledger>>
    BY <1>2 DEF GrowStale, CleanStale, handlerVars
  <2>2. \A d \in Checkouts : rows'[d].status = "Success" =>
          rows[d].status = "Success" /\ rows'[d].id = rows[d].id
    <3>1. CASE GrowStale(c)
      BY <3>1 DEF GrowStale, TypeOK, Row, StoredRow
    <3>2. CASE CleanStale(c)
      BY <3>2 DEF CleanStale, TypeOK, NoRow
    <3> QED BY <1>2, <3>1, <3>2
  <2> QED BY <2>1, <2>2, SuccessKept
<1>3. ASSUME NEW h \in Handlers, NEW e \in events, Receive(h, e) PROVE SuccessInv'
  <2>1. UNCHANGED <<rows, ledger>> /\ \A g \in Handlers : g # h => job'[g] = job[g] /\ txn'[g] = txn[g]
    BY <1>3 DEF Receive, dbVars, TypeOK
  <2> QED BY <1>0, <1>3, <2>1 DEF Receive
<1>4. ASSUME NEW h \in Handlers, FailHandler(h) \/ CrashHandler(h) \/ RejectCompleted(h) PROVE SuccessInv'
  <2>1. /\ UNCHANGED <<rows, ledger>> /\ pc' = [pc EXCEPT ![h] = "idle"]
        /\ \A g \in Handlers : g # h => job'[g] = job[g] /\ txn'[g] = txn[g]
    BY <1>4 DEF FailHandler, CrashHandler, RejectCompleted, Throw, Reply, dbVars, TypeOK
  <2> QED BY <1>0, <2>1
<1>5. ASSUME NEW h \in Handlers, RefuseTransfer(h) PROVE SuccessInv'
  <2>1. UNCHANGED <<rows, ledger, job>>
    BY <1>5 DEF RefuseTransfer, dbVars
  <2>2. /\ \A g \in Handlers : g # h => pc'[g] = pc[g] /\ txn'[g] = txn[g]
        /\ txn'[h].status # "Success"
    BY <1>5 DEF RefuseTransfer, TypeOK, Row, StoredRow, NoRow
  <2> QED BY <2>1, <2>2 DEF SuccessInv, SuccessIsCredited, Applied, Of
<1>6. ASSUME NEW h \in Handlers, HandlerStep(h) PROVE SuccessInv'
  <2>1. ASSUME Skip(h) PROVE SuccessInv'
    <3>1. /\ UNCHANGED <<rows, ledger>> /\ pc' = [pc EXCEPT ![h] = "idle"]
          /\ \A g \in Handlers : g # h => job'[g] = job[g] /\ txn'[g] = txn[g]
      BY <2>1 DEF Skip, Reply, dbVars, TypeOK
    <3> QED BY <1>0, <3>1
  <2>2. CASE HandleCreated(h) \/ HandlePaid(h)
    BY <2>1, <2>2, SuccessAfterStore DEF HandleCreated, HandlePaid
  <2>3. CASE HandleUpdated(h)
    <3>1. UpdatedStatus(job[h].state) # "Success"
      BY DEF UpdatedStatus
    <3> QED BY <2>1, <2>3, <3>1, SuccessAfterStore DEF HandleUpdated
  <2>4. CASE HandleFailed(h)
    <3>1. UNCHANGED ledger /\ \A g \in Handlers : pc'[g] = "commit" => g # h /\ pc'[g] = pc[g] /\ job'[g] = job[g] /\ txn'[g] = txn[g]
      BY <2>4 DEF HandleFailed, Skip, Reply, TypeOK
    <3>2. PICK c \in Checkouts : c = Of(h)
      BY <2>4 DEF HandleFailed, TypeOK, Notice, Of
    <3>3. rows' = rows \/ rows' = [rows EXCEPT ![c] = Written(c, rows[c], "ErrorRecoverable", rows[c].value)]
      BY <2>4, <3>2 DEF HandleFailed, Skip, dbVars
    <3>4. \A d \in Checkouts : rows'[d].status = "Success" =>
            rows[d].status = "Success" /\ rows'[d].id = rows[d].id
      BY <3>3, Updated DEF TypeOK
    <3> QED BY <3>1, <3>4, SuccessKept
  <2>5. CASE BeginCompleted(h)
    <3>1. /\ UNCHANGED <<rows, ledger>> /\ pc' = [pc EXCEPT ![h] = "transfer"]
          /\ \A g \in Handlers : g # h => job'[g] = job[g] /\ txn'[g] = txn[g]
      BY <2>5 DEF BeginCompleted, TypeOK
    <3> QED BY <1>0, <3>1
  <2>6. CASE PurchaseCores(h)
    <3>1. UNCHANGED <<rows, job, txn>> /\ \A g \in Handlers : g # h => pc'[g] = pc[g]
      BY <2>6 DEF PurchaseCores, dbVars, TypeOK
    <3>2. \A k : Applied(k) => Applied(k)'
      BY <2>6 DEF PurchaseCores, Applied
    <3>3. txn[h] # NoRow => txn[h].id = Key(h)
      BY <2>6 DEF PurchaseCores, KeyInv, UpdatesInPlace, InTransaction, Key
    <3>4. txn[h].status = "Success" => txn[h] # NoRow
      BY DEF NoRow
    <3>5. \E t \in ledger' : t.key = Key(h)
      <4>1. CASE Applied(Key(h))
        BY <2>6, <4>1 DEF PurchaseCores, Applied
      <4>2. CASE ~Applied(Key(h))
        <5> DEFINE t == [key |-> Key(h), checkout |-> Of(h), amount |-> Amount(h)]
        <5>1. t \in ledger'
          BY <2>6, <4>2 DEF PurchaseCores
        <5>2. t.key = Key(h)
          OBVIOUS
        <5> HIDE DEF t
        <5> QED BY <5>1, <5>2
      <4> QED BY <4>1, <4>2
    <3>6. txn[h].status = "Success" => Applied(txn[h].id)'
      BY <3>1, <3>3, <3>4, <3>5 DEF Applied
    <3> QED BY <3>1, <3>2, <3>6 DEF SuccessInv, SuccessIsCredited, Of
  <2>7. CASE SkipNjord(h)
    <3>1. UNCHANGED <<rows, job, txn, ledger>> /\ \A g \in Handlers : g # h => pc'[g] = pc[g]
      BY <2>7 DEF SkipNjord, dbVars, TypeOK
    <3> QED BY <2>7, <3>1 DEF SkipNjord, SuccessInv, SuccessIsCredited, Applied, Of
  <2>8. CASE CommitCompleted(h)
    <3>1. UNCHANGED ledger /\ \A g \in Handlers : pc'[g] = "commit" => g # h /\ pc'[g] = pc[g] /\ job'[g] = job[g] /\ txn'[g] = txn[g]
      BY <2>8 DEF CommitCompleted, Reply, TypeOK
    <3>2. PICK c \in Checkouts : c = Of(h)
      BY <2>8 DEF CommitCompleted, TypeOK, Notice, Of
    <3>3. pc[h] = "commit" /\ (rows' = rows \/ rows' = [rows EXCEPT ![c] = txn[h]])
      BY <2>8, <3>2 DEF CommitCompleted
    <3>4. SuccessIsCredited'
      BY <3>1, <3>2, <3>3 DEF SuccessInv, SuccessIsCredited, Applied, TypeOK
    <3> QED BY <3>1, <3>4 DEF SuccessInv, Applied, Of
  <2>9. CASE RejectCompleted(h)
    BY <1>4, <2>9
  <2> QED BY <1>6, <2>2, <2>3, <2>4, <2>5, <2>6, <2>7, <2>8, <2>9 DEF HandlerStep
<1>7. CASE UNCHANGED vars
  BY <1>7, SuccessKept DEF vars
<1> QED BY <1>1, <1>2, <1>3, <1>4, <1>5, <1>6, <1>7 DEF Next

\* A row that reads Success is backed by a transfer under its id, unless a
\* test discount skipped njord.
THEOREM SuccessHasCores == Spec => []SuccessIsCredited
<1>1. Init => SuccessInv
  BY DEF Init, SuccessInv, SuccessIsCredited, NoRow
<1>2. SuccessInv => SuccessIsCredited
  BY DEF SuccessInv
<1> QED BY <1>1, <1>2, TypeCorrect, KeyInvariant, SuccessStep, PTL DEF Spec

-----------------------------------------------------------------------------
(* Refinement.                                                             *)

\* A step that leaves payments and credits alone is a stutter of CreditOnce.
LEMMA QuietIsStutter ==
  ASSUME UNCHANGED <<paddle, ledger, forgotten>>
  PROVE  UNCHANGED Purchase!vars
  BY DEF Due, Purchase!vars

\* Paddle's steps are steps of CreditOnce.
LEMMA PaddleRefines ==
  ASSUME TypeOK, NEW c \in Checkouts, PaddleStep(c)
  PROVE  Purchase!Complete(c) \/ UNCHANGED Purchase!vars
<1>1. UNCHANGED <<ledger, forgotten>> /\ \A d \in Checkouts : d # c => paddle'[d] = paddle[d]
  BY DEF PaddleStep, OpenCheckout, ReviseCheckout, BillCheckout, DeclinePayment,
         PayCheckout, CompleteCheckout, Notify, histVars, TypeOK
<1>2. CASE CompleteCheckout(c)
  <2>1. Due[c] = 0
    BY <1>2 DEF CompleteCheckout, Due
  <2>2. Due' = [Due EXCEPT ![c] = Due'[c]]
    BY <1>1 DEF Due
  <2> QED BY <1>1, <2>1, <2>2 DEF Purchase!Complete
<1>3. CASE ~CompleteCheckout(c)
  <2>1. \/ paddle[c].state = "completed" /\ paddle'[c].state = "completed" /\ paddle'[c].value = paddle[c].value
        \/ paddle[c].state # "completed" /\ paddle'[c].state # "completed"
    <3>1. \A v \in Values : OpenCheckout(c, v) =>
            paddle[c].state = "none" /\ Notify(c, "created", "ready", v)
      BY DEF OpenCheckout
    <3> QED BY <1>3, <3>1 DEF PaddleStep, ReviseCheckout, BillCheckout, DeclinePayment,
                             PayCheckout, Notify, TypeOK
  <2>2. Due' = Due
    BY <1>1, <2>1 DEF Due
  <2> QED BY <1>1, <2>2 DEF Purchase!vars
<1> QED BY <1>2, <1>3

\* njord's transfer is the Credit of CreditOnce.
LEMMA TransferRefines ==
  ASSUME TypeOK, KeyInv, PaymentInv, NEW h \in Handlers, PurchaseCores(h)
  PROVE  Purchase!Credit(Of(h)) \/ UNCHANGED Purchase!vars
<1>0. PICK c \in Checkouts : c = Of(h)
  BY DEF PurchaseCores, TypeOK, Notice, Of
<1>1. UNCHANGED <<paddle, forgotten>> /\ pc[h] = "transfer"
  BY DEF PurchaseCores, paddleVars, histVars
<1>2. CASE Applied(Key(h))
  BY <1>1, <1>2, QuietIsStutter DEF PurchaseCores
<1>3. CASE ~Applied(Key(h))
  <2> DEFINE t == [key |-> Key(h), checkout |-> c, amount |-> job[h].value]
  <2>1. ledger' = ledger \cup {t} /\ t.checkout = c /\ t.amount = job[h].value
    BY <1>0, <1>3 DEF PurchaseCores, Amount
  <2>2. Due[c] = job[h].value /\ Due[c] # 0
    <3>1. Settled(job[h]) /\ job[h] \in Notice
      BY <1>1 DEF PaymentInv, InTransaction, TypeOK
    <3>2. Due[c] = job[h].value
      BY <1>0, <3>1 DEF Settled, Due, Of
    <3> QED BY <3>1, <3>2, ValueAssumption DEF Notice
  <2>3. c \in forgotten \/ \A r \in ledger : r.checkout # c
    <3> SUFFICES ASSUME c \notin forgotten, NEW r \in Credits(c) PROVE FALSE
      BY DEF Credits
    <3>1. SnapshotsSettled(c) /\ TransactionsSettled(c) /\ TransfersSettled(c)
      BY DEF KeyInv
    <3>2. Completing(h, c) /\ txn[h] # NoRow /\ Key(h) = txn[h].id
      BY <1>0, <1>1, <3>1 DEF KeyInv, UpdatesInPlace, TransactionsSettled, Completing, InTransaction, Key
    <3>3. r.key = txn[h].id
      BY <3>1, <3>2 DEF TransfersSettled, TransactionsSettled, KeyInv, OneWriter, Completing
    <3> QED BY <1>3, <3>2, <3>3 DEF Applied, Credits
  <2>4. UNCHANGED Due
    BY <1>1 DEF Due
  <2> HIDE DEF t
  <2> QED BY <1>0, <1>1, <2>1, <2>2, <2>3, <2>4 DEF Purchase!Credit
<1> QED BY <1>2, <1>3

\* A rollback is a step of CreditOnce.
LEMMA RollbackRefines ==
  ASSUME TypeOK, NEW h \in Handlers, pc[h] # "idle", UNCHANGED <<paddle, ledger>>,
         forgotten' = IF ForgetsKey(h) THEN forgotten \cup {Of(h)} ELSE forgotten
  PROVE  Of(h) \in Checkouts /\ (Purchase!Forget(Of(h)) \/ UNCHANGED Purchase!vars)
<1>1. Of(h) \in Checkouts
  BY DEF TypeOK, Notice, Of
<1>2. UNCHANGED Due
  BY DEF Due
<1> QED BY <1>1, <1>2 DEF Purchase!Forget, Purchase!vars

\* Every step of the purchase is a step of CreditOnce or changes nothing there.
LEMMA StepRefines == TypeOK /\ KeyInv /\ PaymentInv /\ [Next]_vars => [Purchase!Next]_(Purchase!vars)
<1> SUFFICES ASSUME TypeOK, KeyInv, PaymentInv, [Next]_vars
             PROVE  Purchase!Next \/ UNCHANGED Purchase!vars
  OBVIOUS
<1>1. ASSUME NEW c \in Checkouts, PaddleStep(c) PROVE Purchase!Next \/ UNCHANGED Purchase!vars
  BY <1>1, PaddleRefines DEF Purchase!Next
<1>2. ASSUME NEW c \in Checkouts, GrowStale(c) PROVE UNCHANGED Purchase!vars
  BY <1>2, QuietIsStutter DEF GrowStale, histVars
<1>3. ASSUME NEW c \in Checkouts, CleanStale(c) PROVE Purchase!Next
  <2>1. Purchase!Forget(c)
    BY <1>3 DEF CleanStale, paddleVars, Due, Purchase!Forget
  <2> QED BY <2>1 DEF Purchase!Next
<1>4. ASSUME NEW h \in Handlers, NEW e \in events, Receive(h, e) PROVE UNCHANGED Purchase!vars
  BY <1>4, QuietIsStutter DEF Receive, paddleVars, histVars
<1>5. ASSUME NEW h \in Handlers, FailHandler(h) \/ CrashHandler(h) \/ RejectCompleted(h)
      PROVE  Purchase!Next \/ UNCHANGED Purchase!vars
  <2>1. /\ pc[h] # "idle" /\ UNCHANGED <<paddle, ledger>>
        /\ forgotten' = IF ForgetsKey(h) THEN forgotten \cup {Of(h)} ELSE forgotten
    BY <1>5 DEF FailHandler, CrashHandler, RejectCompleted, Throw, paddleVars
  <2> QED BY <2>1, RollbackRefines DEF Purchase!Next
<1>6. ASSUME NEW h \in Handlers, PurchaseCores(h) PROVE Purchase!Next \/ UNCHANGED Purchase!vars
  <2>1. Of(h) \in Checkouts
    BY <1>6 DEF PurchaseCores, TypeOK, Notice, Of
  <2> QED BY <1>6, <2>1, TransferRefines DEF Purchase!Next
<1>7. ASSUME NEW h \in Handlers,
             \/ HandleCreated(h) \/ HandlePaid(h) \/ HandleFailed(h) \/ HandleUpdated(h)
             \/ BeginCompleted(h) \/ SkipNjord(h) \/ CommitCompleted(h)
      PROVE  UNCHANGED Purchase!vars
  <2>1. UNCHANGED <<paddle, ledger, forgotten>>
    BY <1>7 DEF HandleCreated, HandlePaid, HandleFailed, HandleUpdated, BeginCompleted,
                SkipNjord, CommitCompleted, Skip, StoreStatus, paddleVars, histVars
  <2> QED BY <2>1, QuietIsStutter
<1>8. ASSUME NEW h \in Handlers, RefuseTransfer(h) PROVE UNCHANGED Purchase!vars
  BY <1>8, QuietIsStutter DEF RefuseTransfer, paddleVars
<1>9. CASE UNCHANGED vars
  BY <1>9, QuietIsStutter DEF vars
<1> QED BY <1>1, <1>2, <1>3, <1>4, <1>5, <1>6, <1>7, <1>8, <1>9 DEF Next, HandlerStep

\* The purchase implements CreditOnce.
THEOREM PurchaseRefinesCreditOnce == Spec => ImplementsCreditOnce
<1>1. Init => Purchase!Init
  BY DEF Init, Purchase!Init, Due, NoCheckout
<1> QED
  BY <1>1, StepRefines, TypeCorrect, KeyInvariant, PaymentInvariant, PTL
     DEF Spec, ImplementsCreditOnce, Purchase!Spec
=============================================================================
