-------------------------- MODULE ContributionSplit --------------------------
(***************************************************************************)
(* How a contribution payment is divided: among users by their points, the *)
(* cents left over going to those who lost most by rounding, and each      *)
(* user's part evenly among the causes the user supports.  Users and       *)
(* causes are numbered in the order their ids are sorted in.               *)
(***************************************************************************)
EXTENDS Integers, FiniteSets, Functions

\* Mutant of splitContributionInteger: every part is rounded down.
SplitDown(total, causes) == [c \in causes |-> total \div Cardinality(causes)]

\* As even as it gets; the first parts take the remainder.
splitContributionInteger(total, causes) ==
  LET parts == Cardinality(causes)
      index(c) == Cardinality({d \in causes : d < c})
  IN [c \in causes |->
        total \div parts + (IF index(c) < total % parts THEN 1 ELSE 0)]

\* The users of the map points, by the largest remainder, then by id.
allocateContributionAmountByPoints(points, amount, total) ==
  LET users == DOMAIN points
      floor == [u \in users |-> (amount * points[u]) \div total]
      remainder(u) == (amount * points[u]) % total
      remainderCents == amount - SumFunction(floor)
      before(u, v) == \/ remainder(u) > remainder(v)
                      \/ remainder(u) = remainder(v) /\ u < v
      index(u) == Cardinality({v \in users : before(v, u)})
  IN [u \in users |-> floor[u] + (IF index(u) < remainderCents THEN 1 ELSE 0)]

\* The allocations of a payment; a user without preferences supports every cause.
getContributionPaymentAllocations(points, amount, total, causesOf) ==
  LET share == allocateContributionAmountByPoints(points, amount, total)
      pointParts(u) == splitContributionInteger(points[u], causesOf[u])
      amountParts(u) == splitContributionInteger(share[u], causesOf[u])
      allocations ==
        UNION {{[user |-> u, cause |-> c, points |-> pointParts(u)[c],
                 amount |-> amountParts(u)[c]] : c \in causesOf[u]} : u \in DOMAIN points}
  IN {a \in allocations : a.points > 0 \/ a.amount > 0}
=============================================================================
