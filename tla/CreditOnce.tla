------------------------------ MODULE CreditOnce ------------------------------
(***************************************************************************)
(* What buying Cores promises: a checkout the provider completed is        *)
(* credited with the amount paid, and not a second time, as long as the    *)
(* database remembers the identity of its first credit.                    *)
(***************************************************************************)
CONSTANTS Checkouts

VARIABLES
  due,         \* amount of each completed checkout, 0 before completion
  receipts,    \* credits: key, checkout and amount
  unremembered \* checkouts whose credit may be repeated

vars == <<due, receipts, unremembered>>

Init ==
  /\ due = [c \in Checkouts |-> 0]
  /\ receipts = {}
  /\ unremembered = {}

Complete(c) ==
  /\ due[c] = 0
  /\ due' = [due EXCEPT ![c] = due'[c]]
  /\ UNCHANGED <<receipts, unremembered>>

\* One receipt more, for the amount due.
Credit(c) ==
  /\ due[c] # 0
  /\ c \in unremembered \/ \A r \in receipts : r.checkout # c
  /\ receipts \subseteq receipts'
  /\ \A r, s \in receipts' \ receipts : r = s
  /\ \A r \in receipts' \ receipts : r.checkout = c /\ r.amount = due[c]
  /\ UNCHANGED <<due, unremembered>>

Forget(c) ==
  /\ unremembered' = unremembered \cup {c}
  /\ UNCHANGED <<due, receipts>>

Next == \E c \in Checkouts : Complete(c) \/ Credit(c) \/ Forget(c)

Spec == Init /\ [][Next]_vars
=============================================================================
