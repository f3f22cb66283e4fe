---------------------------- MODULE CoresPurchase ----------------------------
(***************************************************************************)
(* Buying Cores through Paddle.  Paddle notifies a webhook about a         *)
(* checkout; every notification is handled by a request handler that first *)
(* reads the user_transaction row of the checkout and later writes it.     *)
(* The notification of a completed checkout also moves the Cores in the    *)
(* njord ledger, with the row id as idempotency key, inside the database   *)
(* transaction that marks the row successful.                              *)
(*                                                                         *)
(* Handlers run concurrently, notifications are delivered in any order and *)
(* any number of times, a handler may throw (the webhook still answers     *)
(* 200) or die with its process (no answer, so Paddle delivers again), and *)
(* a cron job deletes rows that stayed Created for 21 days.                *)
(***************************************************************************)
EXTENDS Integers, FiniteSets

CONSTANTS
  Checkouts,    \* Paddle transactions (flags.providerId)
  Values,       \* amounts of Cores a checkout may be for
  Handlers,     \* webhook requests the API processes at the same time
  Discounted,   \* checkouts with a test discount: njord is skipped
  Barred,       \* checkouts of users whose coresRole forbids a purchase
  MaxOpened,    \* bound: checkouts that are opened
  MaxNotices,   \* bound: notifications Paddle sends per checkout
  MaxRows,      \* bound: ids taken before the cleaning (later: repeats) stops
  MaxFailures   \* bound: handlers that throw or die for an outside reason

ASSUME CheckoutAssumption == Discounted \subseteq Checkouts /\ Barred \subseteq Checkouts
ASSUME ValueAssumption == Values \subseteq Nat \ {0}
ASSUME BoundAssumption == MaxNotices \in Nat /\ MaxRows \in Nat /\ MaxFailures \in Nat

VARIABLES
  paddle,     \* external: state, amount and time of each checkout at Paddle
  events,     \* notifications Paddle may (still, or again) deliver
  answered,   \* the notifications Paddle got a 200 for
  rows,       \* committed user_transaction row per checkout
  pc,         \* where each handler is
  job,        \* the notification each handler works on
  seen,       \* the row each handler read at its start
  txn,        \* uncommitted row of a handler's database transaction
  ledger,     \* external: transfers njord has applied
  nextId,     \* id of the next inserted row
  failures,   \* outside failures so far
  lost,       \* history: a completed notification ended without credit
  forgotten   \* history: checkouts whose row id is gone from the database

dbVars      == <<rows, nextId>>
handlerVars == <<pc, job, seen, txn>>
paddleVars  == <<paddle, events>>
histVars    == <<failures, lost, forgotten>>
vars == <<paddle, events, answered, rows, pc, job, seen, txn, ledger,
          nextId, failures, lost, forgotten>>

-----------------------------------------------------------------------------
(* Data.                                                                   *)

Status == {"Created", "Processing", "Success", "ErrorRecoverable", "TransferError"}
PaddleState == {"ready", "billed", "paid", "completed"}
NoCheckout == [state |-> "none", value |-> 0, at |-> 0]
Checkout == [state: PaddleState, value: Values, at: Nat] \cup {NoCheckout}

NoticeType == {"created", "updated", "paid", "failed", "completed"}

StoredRow == [id: Nat \ {0}, status: Status, value: Nat, at: Nat, stale: BOOLEAN]
NoRow == [id |-> 0, status |-> "none", value |-> 0, at |-> 0, stale |-> FALSE]
Row == StoredRow \cup {NoRow}

Notice == [type: NoticeType, checkout: Checkouts, value: Values, at: Nat, state: PaddleState]
NoJob == [type |-> "none"]

Transfer == [key: Nat, checkout: Checkouts, amount: Nat]

TypeOK ==
  /\ paddle \in [Checkouts -> Checkout]
  /\ events \subseteq Notice
  /\ answered \subseteq Notice
  /\ rows \in [Checkouts -> Row]
  /\ pc \in [Handlers -> {"idle", "handle", "transfer", "commit"}]
  /\ job \in [Handlers -> Notice \cup {NoJob}]
  /\ \A h \in Handlers : pc[h] # "idle" => job[h] \in Notice
  /\ seen \in [Handlers -> Row]
  /\ txn \in [Handlers -> Row]
  /\ ledger \subseteq Transfer
  /\ nextId \in Nat \ {0}
  /\ failures \in Nat
  /\ lost \subseteq Checkouts
  /\ forgotten \subseteq Checkouts

Init ==
  /\ paddle = [c \in Checkouts |-> NoCheckout]
  /\ events = {} /\ answered = {}
  /\ rows = [c \in Checkouts |-> NoRow]
  /\ pc = [h \in Handlers |-> "idle"]
  /\ job = [h \in Handlers |-> NoJob]
  /\ seen = [h \in Handlers |-> NoRow]
  /\ txn = [h \in Handlers |-> NoRow]
  /\ ledger = {}
  /\ nextId = 1
  /\ failures = 0 /\ lost = {} /\ forgotten = {}

-----------------------------------------------------------------------------
(* Paddle: the life of a checkout and the notifications it sends.          *)

Notify(c, type, state, value) ==
  LET now == paddle[c].at + 1
  IN /\ paddle[c].at < MaxNotices
     /\ paddle' = [paddle EXCEPT ![c] = [state |-> state, value |-> value, at |-> now]]
     /\ events' = events \cup {[type |-> type, checkout |-> c, value |-> value,
                                at |-> now, state |-> state]}
     /\ UNCHANGED <<answered, dbVars, handlerVars, ledger, histVars>>

OpenCheckout(c, v) ==
  /\ paddle[c].state = "none"
  /\ Cardinality({d \in Checkouts : paddle[d].state # "none"}) < MaxOpened
  /\ Notify(c, "created", "ready", v)

\* The buyer may pick another product until the checkout is paid.
ReviseCheckout(c, v) ==
  /\ paddle[c].state # "none"
  /\ paddle[c].state # "ready" => v = paddle[c].value
  /\ Notify(c, "updated", paddle[c].state, v)

BillCheckout(c) ==
  paddle[c].state = "ready" /\ Notify(c, "updated", "billed", paddle[c].value)

DeclinePayment(c) ==
  /\ paddle[c].state \in {"ready", "billed"}
  /\ Notify(c, "failed", paddle[c].state, paddle[c].value)

PayCheckout(c) ==
  /\ paddle[c].state \in {"ready", "billed"}
  /\ Notify(c, "paid", "paid", paddle[c].value)

CompleteCheckout(c) ==
  paddle[c].state = "paid" /\ Notify(c, "completed", "completed", paddle[c].value)

-----------------------------------------------------------------------------
(* The handlers.  A handler runs on a snapshot of the row; what it writes  *)
(* lands on whatever the row has become.                                   *)

Existing(h) == seen[h] # NoRow
Of(h) == job[h].checkout

InTransaction(h) == pc[h] \in {"transfer", "commit"}

\* A row written by an open transaction blocks other writers, not readers.
Locked(c) == \E h \in Handlers : InTransaction(h) /\ Of(h) = c /\ txn[h] # NoRow

\* The row after a write that sets status and value now.
Written(c, row, status, value) ==
  [row EXCEPT !.status = status, !.value = value, !.at = paddle[c].at, !.stale = FALSE]

\* INSERT ... ON CONFLICT (providerId) DO UPDATE SET status, value: the id
\* of a row that is already there survives.
Upserted(c, status, value) ==
  Written(c, IF rows[c] = NoRow THEN [NoRow EXCEPT !.id = nextId] ELSE rows[c], status, value)

InsertsRow(c) == rows[c] = NoRow

\* The handler is done; Paddle gets its 200, whatever the outcome.
Reply(h) ==
  /\ pc' = [pc EXCEPT ![h] = "idle"]
  /\ job' = [job EXCEPT ![h] = NoJob]
  /\ seen' = [seen EXCEPT ![h] = NoRow]
  /\ txn' = [txn EXCEPT ![h] = NoRow]
  /\ answered' = answered \cup {job[h]}

\* Every insert that rolls back takes an id: bound the repeats.
Receive(h, e) ==
  /\ pc[h] = "idle"
  /\ e \in answered => nextId <= MaxRows + MaxFailures + 1
  /\ pc' = [pc EXCEPT ![h] = "handle"]
  /\ job' = [job EXCEPT ![h] = e]
  /\ seen' = [seen EXCEPT ![h] = rows[e.checkout]]
  /\ UNCHANGED <<paddleVars, answered, dbVars, txn, ledger, histVars>>

\* updateUserTransaction outside a database transaction: insert when the
\* handler saw no row, else update the row it saw by id.
StoreStatus(h, newStatus, oldStatus) ==
  LET c == Of(h)
  IN /\ ~Locked(c)
     /\ IF Existing(h)
        THEN /\ rows' = IF rows[c].id = seen[h].id
                        THEN [rows EXCEPT ![c] = Written(c, @, oldStatus, job[h].value)]
                        ELSE rows
             /\ UNCHANGED nextId
        ELSE /\ rows' = [rows EXCEPT ![c] = Upserted(c, newStatus, job[h].value)]
             /\ nextId' = IF InsertsRow(c) THEN nextId + 1 ELSE nextId
     /\ Reply(h)
     /\ UNCHANGED <<paddleVars, ledger, histVars>>

Skip(h) == Reply(h) /\ UNCHANGED <<paddleVars, dbVars, ledger, histVars>>

\* The value of a successful row may not change (as far as the handler saw).
ValueConflict(h) == Existing(h) /\ seen[h].status = "Success" /\ seen[h].value # job[h].value

OpenStatus == {"Created", "Processing", "ErrorRecoverable"}

HandleCreated(h) ==
  /\ pc[h] = "handle" /\ job[h].type = "created"
  /\ IF Existing(h) THEN Skip(h) ELSE StoreStatus(h, "Created", "Created")

HandlePaid(h) ==
  /\ pc[h] = "handle" /\ job[h].type = "paid"
  /\ IF Existing(h) /\ seen[h].status \notin OpenStatus
     THEN Skip(h)
     ELSE StoreStatus(h, "Processing", "Processing")

\* A failed payment of an unknown checkout throws; either way nothing changes.
HandleFailed(h) ==
  LET c == Of(h)
  IN /\ pc[h] = "handle" /\ job[h].type = "failed"
     /\ IF seen[h].status \in OpenStatus
        THEN /\ ~Locked(c)
             /\ rows' = IF rows[c].id = seen[h].id
                        THEN [rows EXCEPT ![c] = Written(c, @, "ErrorRecoverable", @.value)]
                        ELSE rows
             /\ Reply(h)
             /\ UNCHANGED <<paddleVars, nextId, ledger, histVars>>
        ELSE Skip(h)

UpdatedStatus(state) ==
  CASE state = "ready" -> "Created" [] state = "billed" -> "Processing" [] OTHER -> "none"

\* A row written after Paddle sent the update is newer than the update.
HandleUpdated(h) ==
  /\ pc[h] = "handle" /\ job[h].type = "updated"
  /\ \/ /\ Existing(h)
        /\ IF seen[h].at >= job[h].at \/ ValueConflict(h)
           THEN Skip(h)
           ELSE StoreStatus(h, "none", rows[Of(h)].status)
     \/ /\ ~Existing(h)
        /\ IF UpdatedStatus(job[h].state) = "none"
           THEN Skip(h)
           ELSE StoreStatus(h, UpdatedStatus(job[h].state), "none")

-----------------------------------------------------------------------------
(* The completed notification: a database transaction around the transfer. *)

\* updateUserTransaction with status Success, not yet committed.
BeginCompleted(h) ==
  LET c == Of(h)
  IN /\ pc[h] = "handle" /\ job[h].type = "completed"
     /\ ~ValueConflict(h)
     /\ ~Locked(c)
     /\ txn' = [txn EXCEPT ![h] =
                  IF ~Existing(h) THEN Upserted(c, "Success", job[h].value)
                  ELSE IF rows[c].id = seen[h].id
                       THEN Written(c, rows[c], "Success", job[h].value)
                       ELSE NoRow]
     /\ nextId' = IF ~Existing(h) /\ InsertsRow(c) THEN nextId + 1 ELSE nextId
     /\ pc' = [pc EXCEPT ![h] = "transfer"]
     /\ UNCHANGED <<paddleVars, answered, rows, job, seen, ledger, histVars>>

\* Mutant of Key: the generated id instead of the one the upsert returns.
KeyGenerated(h) == IF Existing(h) THEN seen[h].id ELSE nextId

\* The idempotency key purchaseCores sends: userTransaction.id.
Key(h) == IF Existing(h) THEN seen[h].id ELSE txn[h].id

Amount(h) == job[h].value

\* njord applies a key once and reports success again for a repeated key.
Applied(key) == \E t \in ledger : t.key = key

PurchaseCores(h) ==
  /\ pc[h] = "transfer" /\ Of(h) \notin Barred \cup Discounted
  /\ ledger' = IF Applied(Key(h)) THEN ledger
               ELSE ledger \cup {[key |-> Key(h), checkout |-> Of(h), amount |-> Amount(h)]}
  /\ pc' = [pc EXCEPT ![h] = "commit"]
  /\ UNCHANGED <<paddleVars, answered, dbVars, job, seen, txn, histVars>>

\* Mutant of SkipNjord: no role check.
SkipNjordAnyone(h) ==
  /\ pc[h] = "transfer" /\ Of(h) \in Discounted \cup Barred
  /\ pc' = [pc EXCEPT ![h] = "commit"]
  /\ UNCHANGED <<paddleVars, answered, dbVars, job, seen, txn, ledger, histVars>>

SkipNjord(h) ==
  /\ pc[h] = "transfer" /\ Of(h) \in Discounted \ Barred
  /\ pc' = [pc EXCEPT ![h] = "commit"]
  /\ UNCHANGED <<paddleVars, answered, dbVars, job, seen, txn, ledger, histVars>>

\* njord refuses (rate limit, internal error): the row keeps njord's status.
RefuseTransfer(h) ==
  /\ pc[h] = "transfer" /\ Of(h) \notin Barred \cup Discounted
  /\ failures < MaxFailures
  /\ failures' = failures + 1
  /\ txn' = [txn EXCEPT ![h] = IF @ = NoRow THEN @ ELSE [@ EXCEPT !.status = "TransferError"]]
  /\ pc' = [pc EXCEPT ![h] = "commit"]
  /\ lost' = lost \cup {Of(h)}
  /\ UNCHANGED <<paddleVars, answered, dbVars, job, seen, ledger, forgotten>>

CommitCompleted(h) ==
  /\ pc[h] = "commit"
  /\ rows' = IF txn[h] = NoRow THEN rows ELSE [rows EXCEPT ![Of(h)] = txn[h]]
  /\ Reply(h)
  /\ UNCHANGED <<paddleVars, nextId, ledger, histVars>>

\* The id of a row inserted by a transaction that rolls back is gone, even
\* when njord has already seen it.
ForgetsKey(h) == InTransaction(h) /\ InsertsRow(Of(h)) /\ Applied(Key(h))

\* An exception: the transaction rolls back and the webhook swallows it.
Throw(h) ==
  /\ Reply(h)
  /\ lost' = IF job[h].type = "completed" THEN lost \cup {Of(h)} ELSE lost
  /\ forgotten' = IF ForgetsKey(h) THEN forgotten \cup {Of(h)} ELSE forgotten
  /\ UNCHANGED <<paddleVars, dbVars, ledger>>

RejectCompleted(h) ==
  /\ \/ pc[h] = "handle" /\ job[h].type = "completed" /\ ValueConflict(h)
     \/ pc[h] = "transfer" /\ Of(h) \in Barred
  /\ Throw(h)
  /\ UNCHANGED failures

FailHandler(h) ==
  /\ pc[h] # "idle"
  /\ failures < MaxFailures
  /\ failures' = failures + 1
  /\ Throw(h)

\* Mutant of CrashHandler: the webhook answers before it works.
CrashAnswered(h) ==
  /\ pc[h] # "idle"
  /\ failures < MaxFailures
  /\ failures' = failures + 1
  /\ Reply(h)
  /\ forgotten' = IF ForgetsKey(h) THEN forgotten \cup {Of(h)} ELSE forgotten
  /\ UNCHANGED <<paddleVars, dbVars, ledger, lost>>

\* The process dies: Paddle gets no answer and will deliver again.
CrashHandler(h) ==
  /\ pc[h] # "idle"
  /\ failures < MaxFailures
  /\ failures' = failures + 1
  /\ pc' = [pc EXCEPT ![h] = "idle"]
  /\ job' = [job EXCEPT ![h] = NoJob]
  /\ seen' = [seen EXCEPT ![h] = NoRow]
  /\ txn' = [txn EXCEPT ![h] = NoRow]
  /\ forgotten' = IF ForgetsKey(h) THEN forgotten \cup {Of(h)} ELSE forgotten
  /\ UNCHANGED <<paddleVars, answered, dbVars, ledger, lost>>

-----------------------------------------------------------------------------
(* cleanStaleUserTransactions.                                             *)

\* 21 days without a write pass: longer than any handler and than Paddle's
\* retries of what it has sent so far.
GrowStale(c) ==
  /\ rows[c] # NoRow /\ ~rows[c].stale
  /\ \A e \in events : e.checkout = c => e \in answered
  /\ \A h \in Handlers : pc[h] # "idle" => Of(h) # c
  /\ rows' = [rows EXCEPT ![c].stale = TRUE]
  /\ events' = {e \in events : e.checkout # c}
  /\ answered' = {e \in answered : e.checkout # c}
  /\ UNCHANGED <<paddle, nextId, handlerVars, ledger, histVars>>

CleanStale(c) ==
  /\ rows[c].status = "Created" /\ rows[c].stale
  /\ ~Locked(c)
  /\ nextId <= MaxRows
  /\ rows' = [rows EXCEPT ![c] = NoRow]
  /\ forgotten' = forgotten \cup {c}
  /\ UNCHANGED <<paddleVars, answered, nextId, handlerVars, ledger, failures, lost>>

-----------------------------------------------------------------------------
PaddleStep(c) ==
  \/ \E v \in Values : OpenCheckout(c, v) \/ ReviseCheckout(c, v)
  \/ BillCheckout(c) \/ DeclinePayment(c) \/ PayCheckout(c) \/ CompleteCheckout(c)

\* What a handler does by itself once it runs.
HandlerStep(h) ==
  \/ HandleCreated(h) \/ HandlePaid(h) \/ HandleFailed(h) \/ HandleUpdated(h)
  \/ BeginCompleted(h) \/ PurchaseCores(h) \/ SkipNjord(h)
  \/ CommitCompleted(h) \/ RejectCompleted(h)

Next ==
  \/ \E c \in Checkouts : PaddleStep(c) \/ GrowStale(c) \/ CleanStale(c)
  \/ \E h \in Handlers, e \in events : Receive(h, e)
  \/ \E h \in Handlers :
       HandlerStep(h) \/ RefuseTransfer(h) \/ FailHandler(h) \/ CrashHandler(h)

Spec == Init /\ [][Next]_vars

\* Node runs every handler to its end; the server accepts the request Paddle
\* keeps making until it is answered.
Fairness ==
  /\ \A h \in Handlers : WF_vars(HandlerStep(h))
  /\ \A c \in Checkouts :
       SF_vars(\E h \in Handlers, e \in events \ answered :
                 e.checkout = c /\ e.type = "completed" /\ Receive(h, e))

FairSpec == Spec /\ Fairness

-----------------------------------------------------------------------------
(* Properties.                                                             *)

Credits(c) == {t \in ledger : t.checkout = c}

\* However its notifications are duplicated, reordered and raced, a checkout
\* is credited once: every handler that completes it sends the id the unique
\* providerId index settled on.  The id can only be lost when the row is
\* cleaned, or when the transaction that inserted it rolls back after the
\* transfer (processing.ts, processCoresTransactionCompleted).
CreditedOnce ==
  \A c \in Checkouts \ forgotten : \A t, u \in Credits(c) : t = u

\* A row reads Success only if the Cores moved under its id, or njord was
\* skipped for a test discount.
SuccessIsCredited ==
  \A c \in Checkouts :
    rows[c].status = "Success" => c \in Discounted \/ Applied(rows[c].id)

\* Only a checkout Paddle completed is credited, and with the amount that
\* was paid, whatever amounts earlier notifications carried; never one that
\* cost nothing, nor one of a buyer who may not buy.
CreditMatchesPayment ==
  \A t \in ledger : /\ paddle[t.checkout].state = "completed"
                    /\ t.amount = paddle[t.checkout].value
                    /\ t.checkout \notin Barred \cup Discounted

\* A completed checkout is credited unless a handler of its completion threw
\* or was refused: the webhook answers 200 in both cases and Paddle does not
\* deliver again.  A crashed handler alone loses nothing.
CompletedIsCredited ==
  \A c \in Checkouts \ Discounted :
    paddle[c].state = "completed" ~> (Credits(c) # {} \/ c \in lost)

Due == [c \in Checkouts |-> IF paddle[c].state = "completed" THEN paddle[c].value ELSE 0]

Purchase == INSTANCE CreditOnce WITH
  due <- Due,
  receipts <- ledger,
  unremembered <- forgotten

\* The webhook, its database rows and njord's keys implement the promise of
\* CreditOnce: every step is a completion, one credit of the amount due to a
\* checkout never credited (or forgotten), a loss of identity, or no change.
ImplementsCreditOnce == Purchase!Spec
=============================================================================
