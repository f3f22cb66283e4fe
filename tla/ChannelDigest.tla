---------------------------- MODULE ChannelDigest ----------------------------
(***************************************************************************)
(* The digest posts of one channel.  A cron schedules a run; its Pub/Sub   *)
(* message may be delivered several times, to several workers at once.  A  *)
(* Redis lock with an expiry and a done marker keep the workers apart: the *)
(* digest holds the posts of the channel since the previous digest.        *)
(*                                                                         *)
(* Time is a counter that posts, runs and digests advance.  How long a     *)
(* worker takes is not bounded, so the lock may expire at any moment.      *)
(* The time of a run is a date that the cron has printed: that a worker    *)
(* cannot read it does not happen.                                         *)
(***************************************************************************)
EXTENDS Integers, FiniteSets

CONSTANTS
  Workers,     \* deliveries processed at the same time
  MaxRuns,     \* bound: runs the cron schedules
  MaxPosts,    \* bound: posts of the channel
  MaxFailures  \* bound: lost publications, deliveries that throw or crash

ASSUME BoundsAssumption == MaxRuns \in Nat /\ MaxPosts \in Nat /\ MaxFailures \in Nat

VARIABLES
  now,      \* the time
  enabled,  \* whether the definition of the digest is enabled
  posts,    \* when each post of the channel was created
  at,       \* when the cron came to each run, 0 if it did not yet
  messages, \* runs whose message is not acknowledged
  done,     \* Redis: the done markers
  lock,     \* Redis: who took the lock of a run
  digests,  \* the digest posts of the source
  pc,       \* where each worker is
  job,      \* what each worker works on
  failures, \* failures so far
  overrun,  \* history: a lock expired under its worker, or two runs overlapped
  busy,     \* history: runs acknowledged because the lock was taken
  failed,   \* history: runs a worker failed on or died on
  lost      \* history: runs that were not published or found the definition disabled

store == <<enabled, posts, at, digests, lost>>
vars == <<now, store, messages, done, lock, pc, job, failures, overrun, busy, failed>>

Runs == 1..MaxRuns
NoOne == "no one"

ASSUME NoOneAssumption == NoOne \notin Workers

Digest == [run: Runs, found: Nat, posts: SUBSET posts, createdAt: Nat]
NoJob == [run |-> 0]

\* Between the lock and its release.
Holding == {"window", "find", "save", "mark", "release"}
Generating == {"window", "find", "save"}

TypeOK ==
  /\ now \in Nat /\ enabled \in BOOLEAN /\ posts \subseteq Nat
  /\ at \in [Runs -> Nat]
  /\ messages \subseteq Runs /\ done \subseteq Runs
  /\ busy \subseteq Runs /\ failed \subseteq Runs /\ lost \subseteq Runs /\ overrun \in BOOLEAN
  /\ lock \in [Runs -> Workers \cup {NoOne}]
  /\ digests \subseteq Digest
  /\ pc \in [Workers -> {"idle", "lock"} \cup Holding]
  /\ \A w \in Workers : job[w].run \in Runs \cup {0}
  /\ failures \in 0..MaxFailures

Init ==
  /\ now = 0 /\ enabled = TRUE /\ posts = {} /\ at = [r \in Runs |-> 0] /\ digests = {}
  /\ messages = {} /\ done = {} /\ lock = [r \in Runs |-> NoOne]
  /\ pc = [w \in Workers |-> "idle"] /\ job = [w \in Workers |-> NoJob]
  /\ failures = 0 /\ overrun = FALSE /\ busy = {} /\ failed = {} /\ lost = {}

-----------------------------------------------------------------------------
CreatePost ==
  /\ Cardinality(posts) < MaxPosts
  /\ now' = now + 1 /\ posts' = posts \cup {now'}
  /\ UNCHANGED <<enabled, at, digests, lost, messages, done, lock, pc, job, failures, overrun, busy, failed>>

\* The definition is enabled or disabled, by hand: no code does.
Switch ==
  /\ enabled' = ~enabled
  /\ UNCHANGED <<now, posts, at, digests, lost, messages, done, lock, pc, job, failures, overrun, busy, failed>>

\* The cron publishes the next run of an enabled digest.  publishEvent swallows the
\* errors of Pub/Sub: a publication that fails is lost.
Schedule(r) ==
  /\ at[r] = 0 /\ \A q \in Runs : q < r => at[q] # 0
  /\ now' = now + 1 /\ at' = [at EXCEPT ![r] = now']
  /\ \/ enabled /\ messages' = messages \cup {r} /\ UNCHANGED <<failures, lost>>
     \/ /\ enabled /\ failures < MaxFailures /\ failures' = failures + 1
        /\ lost' = lost \cup {r} /\ UNCHANGED messages
     \/ ~enabled /\ lost' = lost \cup {r} /\ UNCHANGED <<messages, failures>>
  /\ UNCHANGED <<enabled, posts, digests, done, lock, pc, job, overrun, busy, failed>>

Goto(w, place) == pc' = [pc EXCEPT ![w] = place]
Stop(w) == Goto(w, "idle") /\ job' = [job EXCEPT ![w] = NoJob]

\* A delivery that finds no enabled definition is acknowledged without a digest.
NoDefinition(w, r) ==
  /\ pc[w] = "idle" /\ r \in messages /\ ~enabled
  /\ messages' = messages \ {r} /\ lost' = lost \cup {r}
  /\ UNCHANGED <<now, enabled, posts, at, digests, done, lock, pc, job, failures, overrun, busy, failed>>

\* Otherwise the done marker is looked at before the lock is asked for.
CheckDone(w, r) ==
  /\ pc[w] = "idle" /\ r \in messages /\ enabled
  /\ IF r \in done
     THEN messages' = messages \ {r} /\ UNCHANGED <<pc, job>>
     ELSE Goto(w, "lock") /\ job' = [job EXCEPT ![w] = [run |-> r]] /\ UNCHANGED messages
  /\ UNCHANGED <<now, store, done, lock, failures, overrun, busy, failed>>

\* SET NX with an expiry.
TakeLock(w) ==
  /\ pc[w] = "lock" /\ lock[job[w].run] = NoOne
  /\ lock' = [lock EXCEPT ![job[w].run] = w] /\ Goto(w, "window")
  /\ overrun' = (overrun \/ \E v \in Workers : pc[v] \in Holding /\ job[v].run # job[w].run)
  /\ UNCHANGED <<now, store, messages, done, job, failures, busy, failed>>

\* The lock is taken: the delivery is acknowledged all the same.
LockBusy(w) ==
  /\ pc[w] = "lock" /\ lock[job[w].run] # NoOne
  /\ messages' = messages \ {job[w].run}
  /\ busy' = busy \cup {job[w].run} /\ Stop(w)
  /\ UNCHANGED <<now, store, done, lock, failures, overrun, failed>>

\* The lock expires, whether its worker still works or died.
ExpireLock(r) ==
  /\ lock[r] # NoOne
  /\ lock' = [lock EXCEPT ![r] = NoOne]
  /\ overrun' = (overrun \/ \E w \in Workers : pc[w] \in Holding /\ job[w].run = r)
  /\ UNCHANGED <<now, store, messages, done, pc, job, failures, busy, failed>>

-----------------------------------------------------------------------------
Latest == {d \in digests : \A e \in digests : e.createdAt <= d.createdAt}

\* The time the lookback of a run reaches back to: the run before it.
Fallback(r) == IF r = 1 THEN 0 ELSE at[r - 1]

\* Mutant of getDigestWindowStart: the previous digest is not looked at.
WindowOfRun(r) == Fallback(r)

\* Mutant of getDigestWindowStart: the lookback is not subtracted.
WindowWithoutLookback(r) ==
  IF \E d \in Latest : d.createdAt > at[r]
  THEN (CHOOSE d \in Latest : TRUE).createdAt ELSE at[r]

getDigestWindowStart(r) ==
  IF \E d \in Latest : d.createdAt > Fallback(r)
  THEN (CHOOSE d \in Latest : TRUE).createdAt
  ELSE Fallback(r)

\* The previous digest is read, then the posts created since.
ReadPrevious(w) ==
  /\ pc[w] = "window" /\ Goto(w, "find")
  /\ job' = [job EXCEPT ![w] = [run |-> @.run, from |-> getDigestWindowStart(@.run)]]
  /\ UNCHANGED <<now, store, messages, done, lock, failures, overrun, busy, failed>>

\* Without a post there is no digest, and the run is done.
findDigestPosts(w) ==
  /\ pc[w] = "find"
  /\ LET found == {p \in posts : p >= job[w].from} IN
     /\ Goto(w, IF found = {} THEN "mark" ELSE "save")
     /\ job' = [job EXCEPT ![w] =
          [run |-> @.run, found |-> now, posts |-> found]]
  /\ UNCHANGED <<now, store, messages, done, lock, failures, overrun, busy, failed>>

\* Bragi has written the digest; the post is dated by the database.
createDigestPost(w) ==
  /\ pc[w] = "save"
  /\ now' = now + 1
  /\ digests' = digests \cup {[run |-> job[w].run, found |-> job[w].found,
                               posts |-> job[w].posts, createdAt |-> now']}
  /\ Goto(w, "mark")
  /\ UNCHANGED <<enabled, posts, at, lost, messages, done, lock, job, failures, overrun, busy, failed>>

MarkDone(w) ==
  /\ pc[w] = "mark"
  /\ done' = done \cup {job[w].run} /\ Goto(w, "release")
  /\ UNCHANGED <<now, store, messages, lock, job, failures, overrun, busy, failed>>

\* The lock is deleted whoever holds it by now; the delivery is acknowledged.
Release(w) ==
  /\ pc[w] = "release"
  /\ lock' = [lock EXCEPT ![job[w].run] = NoOne]
  /\ messages' = messages \ {job[w].run} /\ Stop(w)
  /\ UNCHANGED <<now, store, done, failures, overrun, busy, failed>>

\* Mutant of Fail: the delivery is acknowledged all the same.
FailAcked(w) ==
  /\ pc[w] \in Generating \cup {"mark"} /\ failures < MaxFailures
  /\ failures' = failures + 1 /\ failed' = failed \cup {job[w].run}
  /\ lock' = [lock EXCEPT ![job[w].run] = NoOne] /\ messages' = messages \ {job[w].run}
  /\ Stop(w)
  /\ UNCHANGED <<now, store, done, overrun, busy>>

\* The database, bragi or Redis throws: the lock is deleted and the delivery
\* not acknowledged.
Fail(w) ==
  /\ pc[w] \in Generating \cup {"mark"} /\ failures < MaxFailures
  /\ failures' = failures + 1 /\ failed' = failed \cup {job[w].run}
  /\ lock' = [lock EXCEPT ![job[w].run] = NoOne] /\ Stop(w)
  /\ UNCHANGED <<now, store, messages, done, overrun, busy>>

\* The worker dies: the lock stays until it expires.
Crash(w) ==
  /\ pc[w] # "idle" /\ failures < MaxFailures
  /\ failures' = failures + 1 /\ failed' = failed \cup {job[w].run} /\ Stop(w)
  /\ UNCHANGED <<now, store, messages, done, lock, overrun, busy>>

Work(w) ==
  \/ TakeLock(w) \/ LockBusy(w) \/ ReadPrevious(w) \/ findDigestPosts(w)
  \/ createDigestPost(w) \/ MarkDone(w) \/ Release(w)

Next ==
  \/ CreatePost
  \/ Switch
  \/ \E r \in Runs :
       Schedule(r) \/ ExpireLock(r) \/ \E w \in Workers : NoDefinition(w, r) \/ CheckDone(w, r)
  \/ \E w \in Workers : Work(w) \/ Fail(w) \/ Crash(w)

Spec == Init /\ [][Next]_vars

\* An unacknowledged message is delivered again and a worker's steps end.
FairSpec ==
  /\ Spec
  /\ \A r \in Runs : WF_vars(\E w \in Workers : NoDefinition(w, r) \/ CheckDone(w, r))
  /\ \A w \in Workers : WF_vars(Work(w))

-----------------------------------------------------------------------------
\* One worker at a time generates a run, unless the lock expired under one.
\* That takes no owner check: a worker deletes the lock it finds, and only an
\* expiry lets that be the lock of another (withRedisDoneLock.ts).
OneGenerates ==
  ~overrun => \A v, w \in Workers :
    pc[v] \in Holding /\ pc[w] \in Holding /\ job[v].run = job[w].run => v = w

\* No post is in two digests unless a lock expired under its worker or two runs
\* overlapped, although the done marker is read before the lock is taken and a
\* worker may fail between the digest and the marker: a second execution of a
\* run starts from the first one's digest (generateChannelDigest).
PostDigestedOnce ==
  ~overrun => \A d, e \in digests : d # e => d.posts \cap e.posts = {}

\* When a run is done, each post since the run before it is in a digest, except
\* those created while a digest was being written: the next window starts at
\* the creation of that digest (getDigestWindowStart, createDigestPost).  A run
\* overtaken by a later one may lose its posts too.
PostsAreDigested ==
  \A r \in done : \A p \in posts : Fallback(r) < p /\ p < at[r] =>
    \E d \in digests : p \in d.posts \/ (d.found < p /\ p < d.createdAt) \/ d.run > r

\* A run that the cron came to is done in the end, unless its message was never
\* published, the digest was disabled when the cron or a delivery of the message
\* looked, or a delivery was acknowledged because the lock was taken and the worker
\* that had the lock failed (generateChannelDigest, withRedisDoneLock).
DigestDone ==
  \A r \in Runs : at[r] # 0 ~> (r \in done \cup lost \cup (busy \cap failed))
=============================================================================
