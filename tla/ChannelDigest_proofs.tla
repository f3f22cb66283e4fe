------------------------- MODULE ChannelDigest_proofs -------------------------
(* The lock keeps workers apart as long as it does not expire under one,   *)
(* for any number of workers, runs, posts and failures.                    *)
EXTENDS ChannelDigest, TLAPS

Places == {"idle", "lock"} \cup Holding

\* A worker past the lock is the one whose name the lock holds.
Owner(w) == pc[w] \in Holding => lock[job[w].run] = w

Inv ==
  /\ lock \in [Runs -> Workers \cup {NoOne}]
  /\ pc \in [Workers -> Places]
  /\ DOMAIN job = Workers
  /\ \A w \in Workers : pc[w] # "idle" => job[w].run \in Runs
  /\ ~overrun => \A w \in Workers : Owner(w)

\* A step that leaves the lock, the places and the jobs alone keeps Inv.
LEMMA Untouched ==
  ASSUME Inv, UNCHANGED <<lock, pc, job, overrun>>
  PROVE  Inv'
  BY DEF Inv, Owner

\* A worker that stops gives up its job; the lock of a run it held may go.
LEMMA Stopping ==
  ASSUME Inv, NEW w \in Workers, Stop(w), overrun' = overrun,
         \/ lock' = lock
         \/ pc[w] \in Holding /\ lock' = [lock EXCEPT ![job[w].run] = NoOne]
  PROVE  Inv'
  <1>1. pc' = [pc EXCEPT ![w] = "idle"] /\ job' = [job EXCEPT ![w] = NoJob]
    BY DEF Stop, Goto
  <1>2. pc' \in [Workers -> Places] /\ DOMAIN job' = Workers
    BY <1>1 DEF Inv, Places
  <1>3. \A v \in Workers : pc'[v] # "idle" =>
          v # w /\ pc'[v] = pc[v] /\ job'[v] = job[v] /\ job[v].run \in Runs
    BY <1>1 DEF Inv
  <1>4. lock' \in [Runs -> Workers \cup {NoOne}]
    <2>1. pc[w] \in Holding => job[w].run \in Runs
      BY DEF Inv, Holding
    <2> QED BY <2>1 DEF Inv
  <1>5. ASSUME ~overrun', NEW v \in Workers, pc'[v] \in Holding PROVE lock'[job'[v].run] = v
    <2>1. pc'[v] # "idle"
      BY <1>5 DEF Holding
    <2>2. v # w /\ pc[v] \in Holding /\ job'[v] = job[v] /\ job[v].run \in Runs
      BY <1>5, <1>3, <2>1
    <2>3. lock[job[v].run] = v
      BY <1>5, <2>2 DEF Inv, Owner
    <2>4. CASE lock' = lock
      BY <2>2, <2>3, <2>4
    <2>5. CASE pc[w] \in Holding /\ lock' = [lock EXCEPT ![job[w].run] = NoOne]
      <3>1. lock[job[w].run] = w
        BY <2>5, <1>5 DEF Inv, Owner
      <3>2. job[w].run # job[v].run
        BY <3>1, <2>3, <2>2
      <3> QED BY <2>2, <2>3, <2>5, <3>2 DEF Inv
    <2> QED BY <2>4, <2>5
  <1> QED BY <1>2, <1>3, <1>4, <1>5 DEF Inv, Owner

\* A worker that goes on with its run keeps the lock it had.
LEMMA Working ==
  ASSUME Inv, NEW w \in Workers, NEW place \in Holding, pc[w] \in Holding,
         pc' = [pc EXCEPT ![w] = place], lock' = lock, overrun' = overrun,
         DOMAIN job' = Workers,
         \A v \in Workers : job'[v].run = job[v].run
  PROVE  Inv'
  <1>1. pc' \in [Workers -> Places]
    BY DEF Inv, Places
  <1>2. \A v \in Workers : pc'[v] \in Holding => pc[v] \in Holding
    BY DEF Inv
  <1>3. \A v \in Workers : pc'[v] # "idle" => pc[v] # "idle"
    BY DEF Inv, Holding
  <1> QED BY <1>1, <1>2, <1>3 DEF Inv, Owner

\* A definition that is enabled or disabled, or a delivery that finds none: no run,
\* worker or digest changes.
Aside == Switch \/ \E w \in Workers, r \in Runs : NoDefinition(w, r)

LEMMA AsideFrame ==
  ASSUME Aside
  PROVE  /\ UNCHANGED <<now, posts, at, digests, done, lock, pc, job, failures, overrun, busy, failed>>
         /\ messages' \subseteq messages /\ lost' \subseteq lost \cup Runs
         /\ enabled \in BOOLEAN => enabled' \in BOOLEAN
  BY DEF Aside, Switch, NoDefinition

LEMMA Inductive == Inv /\ [Next]_vars => Inv'
  <1> SUFFICES ASSUME Inv, [Next]_vars PROVE Inv'
    OBVIOUS
  <1>1. CASE CreatePost \/ \E r \in Runs : Schedule(r)
    BY <1>1, Untouched DEF CreatePost, Schedule
  <1>2. ASSUME NEW r \in Runs, ExpireLock(r) PROVE Inv'
    <2>1. lock' = [lock EXCEPT ![r] = NoOne] /\ pc' = pc /\ job' = job
      BY <1>2 DEF ExpireLock
    <2>2. ~overrun' =>
            ~overrun /\ \A w \in Workers : pc[w] \in Holding => job[w].run # r
      BY <1>2 DEF ExpireLock
    <2>3. \A w \in Workers : pc[w] \in Holding => job[w].run \in Runs
      BY DEF Inv, Holding
    <2> QED BY <2>1, <2>2, <2>3 DEF Inv, Owner
  <1>3. ASSUME NEW r \in Runs, NEW w \in Workers, CheckDone(w, r) PROVE Inv'
    <2>1. CASE r \in done
      BY <1>3, <2>1, Untouched DEF CheckDone
    <2>2. CASE r \notin done
      <3>1. /\ pc' = [pc EXCEPT ![w] = "lock"] /\ job' = [job EXCEPT ![w] = [run |-> r]]
            /\ lock' = lock /\ overrun' = overrun
        BY <1>3, <2>2 DEF CheckDone, Goto
      <3>2. \A v \in Workers : v # w => pc'[v] = pc[v] /\ job'[v] = job[v]
        BY <3>1 DEF Inv
      <3>3. pc'[w] = "lock" /\ pc'[w] \notin Holding /\ job'[w].run = r
        BY <3>1 DEF Inv, Holding
      <3>4. pc' \in [Workers -> Places] /\ DOMAIN job' = Workers
        BY <3>1 DEF Inv, Places
      <3> QED BY <3>1, <3>2, <3>3, <3>4 DEF Inv, Owner
    <2> QED BY <2>1, <2>2
  <1>4. ASSUME NEW w \in Workers, TakeLock(w) PROVE Inv'
    <2>1. /\ pc[w] = "lock" /\ lock[job[w].run] = NoOne
          /\ lock' = [lock EXCEPT ![job[w].run] = w] /\ pc' = [pc EXCEPT ![w] = "window"]
          /\ job' = job /\ (~overrun' => ~overrun)
      BY <1>4 DEF TakeLock, Goto
    <2>2. job[w].run \in Runs
      BY <2>1 DEF Inv
    <2>3. lock' \in [Runs -> Workers \cup {NoOne}] /\ pc' \in [Workers -> Places]
      BY <2>1, <2>2 DEF Inv, Places, Holding
    <2>4. ASSUME ~overrun', NEW v \in Workers, pc'[v] \in Holding PROVE lock'[job'[v].run] = v
      <3>1. CASE v = w
        BY <3>1, <2>1, <2>2 DEF Inv
      <3>2. CASE v # w
        <4>1. pc[v] \in Holding
          BY <3>2, <2>1, <2>4 DEF Inv
        <4>2. lock[job[v].run] = v /\ job[v].run \in Runs
          BY <4>1, <2>1, <2>4 DEF Inv, Owner, Holding
        <4>3. job[v].run # job[w].run
          BY <4>2, <2>1, NoOneAssumption
        <4> QED BY <4>2, <4>3, <2>1 DEF Inv
      <3> QED BY <3>1, <3>2
    <2>5. \A v \in Workers : pc'[v] # "idle" => job'[v].run \in Runs
      BY <2>1, <2>2 DEF Inv
    <2> QED BY <2>1, <2>3, <2>4, <2>5 DEF Inv, Owner
  <1>5. ASSUME NEW w \in Workers, LockBusy(w) \/ Crash(w) PROVE Inv'
    BY <1>5, Stopping DEF LockBusy, Crash
  <1>6. ASSUME NEW w \in Workers, Release(w) \/ Fail(w) PROVE Inv'
    <2>1. pc[w] \in Holding /\ lock' = [lock EXCEPT ![job[w].run] = NoOne]
          /\ overrun' = overrun /\ Stop(w)
      BY <1>6 DEF Release, Fail, Holding, Generating
    <2> QED BY <2>1, Stopping
  <1>7. ASSUME NEW w \in Workers, ReadPrevious(w) PROVE Inv'
    <2>1. /\ pc[w] \in Holding /\ "find" \in Holding /\ pc' = [pc EXCEPT ![w] = "find"]
          /\ lock' = lock /\ overrun' = overrun
      BY <1>7 DEF ReadPrevious, Goto, Holding
    <2>2. DOMAIN job' = Workers /\ \A v \in Workers : job'[v].run = job[v].run
      BY <1>7 DEF ReadPrevious, Inv
    <2> QED BY <2>1, <2>2, Working
  <1>8. ASSUME NEW w \in Workers, findDigestPosts(w) PROVE Inv'
    <2>1. PICK place \in {"mark", "save"} : pc' = [pc EXCEPT ![w] = place]
      BY <1>8 DEF findDigestPosts, Goto
    <2>2. pc[w] \in Holding /\ place \in Holding /\ lock' = lock /\ overrun' = overrun
      BY <1>8 DEF findDigestPosts, Holding
    <2>3. DOMAIN job' = Workers /\ \A v \in Workers : job'[v].run = job[v].run
      BY <1>8 DEF findDigestPosts, Inv
    <2> QED BY <2>1, <2>2, <2>3, Working
  <1>9. ASSUME NEW w \in Workers, createDigestPost(w) \/ MarkDone(w) PROVE Inv'
    <2>1. PICK place \in {"mark", "release"} : pc' = [pc EXCEPT ![w] = place]
      BY <1>9 DEF createDigestPost, MarkDone, Goto
    <2>2. /\ pc[w] \in Holding /\ place \in Holding /\ lock' = lock /\ overrun' = overrun
          /\ job' = job
      BY <1>9 DEF createDigestPost, MarkDone, Holding
    <2>3. DOMAIN job' = Workers
      BY <2>2 DEF Inv
    <2> QED BY <2>1, <2>2, <2>3, Working
  <1>10. CASE Aside \/ UNCHANGED vars
    BY <1>10, AsideFrame, Untouched DEF vars
  <1> QED
    BY <1>1, <1>2, <1>3, <1>4, <1>5, <1>6, <1>7, <1>8, <1>9, <1>10 DEF Next, Work, Aside

\* One worker at a time generates a run, unless a lock expired under one or two
\* runs overlapped, although a worker deletes the lock without looking whose it
\* is (withRedisDoneLock.ts).
THEOREM OneWorkerGenerates == Spec => []OneGenerates
  <1>1. Init => Inv
    BY DEF Init, Inv, Owner, Places, Holding
  <1>2. Inv => OneGenerates
    BY DEF Inv, Owner, OneGenerates
  <1> QED BY <1>1, Inductive, <1>2, PTL DEF Spec

-----------------------------------------------------------------------------
(* Types.                                                                  *)

\* What a worker has read by the place where it is.
JobOf(w) ==
  /\ pc[w] = "idle" => job[w] = NoJob
  /\ pc[w] # "idle" => job[w].run \in Runs
  /\ pc[w] = "find" => job[w].from \in Nat
  /\ pc[w] = "save" => job[w].found \in Nat /\ job[w].posts \subseteq posts

Types ==
  /\ TypeOK /\ DOMAIN job = Workers
  /\ \A w \in Workers : JobOf(w)

LEMMA WindowInNat ==
  ASSUME TypeOK, NEW r \in Runs
  PROVE  getDigestWindowStart(r) \in Nat
  <1>1. Fallback(r) \in Nat
    <2>1. r # 1 => r - 1 \in Runs
      BY BoundsAssumption DEF Runs
    <2> QED BY <2>1 DEF Fallback, TypeOK
  <1>2. \A d \in Latest : d.createdAt \in Nat
    BY DEF Latest, TypeOK, Digest
  <1>3. Latest # {} => (CHOOSE d \in Latest : TRUE) \in Latest
    OBVIOUS
  <1> QED BY <1>1, <1>2, <1>3 DEF getDigestWindowStart

\* Posts only come: a digest stays one.
LEMMA DigestsStay ==
  ASSUME TypeOK, posts \subseteq posts'
  PROVE  digests \subseteq Digest'
  <1>1. SUFFICES ASSUME NEW d \in digests PROVE d \in Digest'
    OBVIOUS
  <1>2. PICK run \in Runs, found \in Nat, ps \in SUBSET posts, createdAt \in Nat :
          d = [run |-> run, found |-> found, posts |-> ps, createdAt |-> createdAt]
    BY <1>1 DEF TypeOK, Digest
  <1> QED BY <1>2 DEF Digest

\* A worker that stops.
LEMMA StoppingTypes ==
  ASSUME Types, NEW w \in Workers, Stop(w), posts' = posts
  PROVE  /\ pc' \in [Workers -> {"idle", "lock"} \cup Holding] /\ DOMAIN job' = Workers
         /\ \A v \in Workers : JobOf(v)' /\ job'[v].run \in Runs \cup {0}
  <1>1. pc' = [pc EXCEPT ![w] = "idle"] /\ job' = [job EXCEPT ![w] = NoJob]
    BY DEF Stop, Goto
  <1>2. pc'[w] = "idle" /\ job'[w] = NoJob
    BY <1>1 DEF Types, TypeOK
  <1>3. \A v \in Workers \ {w} : pc'[v] = pc[v] /\ job'[v] = job[v]
    BY <1>1 DEF Types, TypeOK
  <1>4. JobOf(w)' /\ job'[w].run \in Runs \cup {0}
    BY <1>2 DEF JobOf, NoJob
  <1>5. \A v \in Workers \ {w} : JobOf(v)' /\ job'[v].run \in Runs \cup {0}
    BY <1>3 DEF JobOf, Types, TypeOK
  <1> QED BY <1>1, <1>4, <1>5 DEF Types, TypeOK

\* A worker that goes on.
LEMMA GoingTypes ==
  ASSUME Types, NEW w \in Workers, NEW place \in {"lock"} \cup Holding, Goto(w, place),
         posts' = posts, DOMAIN job' = Workers,
         \A v \in Workers \ {w} : job'[v] = job[v],
         job'[w].run \in Runs,
         place = "find" => job'[w].from \in Nat,
         place = "save" => job'[w].found \in Nat /\ job'[w].posts \subseteq posts
  PROVE  /\ pc' \in [Workers -> {"idle", "lock"} \cup Holding]
         /\ \A v \in Workers : JobOf(v)' /\ job'[v].run \in Runs \cup {0}
  <1>1. pc' = [pc EXCEPT ![w] = place]
    BY DEF Goto
  <1>2. pc'[w] = place /\ place # "idle"
    BY <1>1 DEF Types, TypeOK, Holding
  <1>3. \A v \in Workers \ {w} : pc'[v] = pc[v]
    BY <1>1 DEF Types, TypeOK
  <1>4. JobOf(w)'
    BY <1>2 DEF JobOf
  <1>5. \A v \in Workers \ {w} : JobOf(v)' /\ job'[v].run \in Runs \cup {0}
    BY <1>3 DEF JobOf, Types, TypeOK
  <1> QED BY <1>1, <1>4, <1>5 DEF Types, TypeOK

LEMMA TypesInductive == Types /\ [Next]_vars => Types'
  <1> SUFFICES ASSUME Types, [Next]_vars PROVE Types'
    OBVIOUS
  <1> USE BoundsAssumption
  <1>0. TypeOK /\ DOMAIN job = Workers
    BY DEF Types
  <1>1. CASE CreatePost
    <2>1. now' \in Nat /\ posts' \subseteq Nat /\ posts \subseteq posts'
      BY <1>0, <1>1 DEF CreatePost, TypeOK
    <2>2. UNCHANGED <<enabled, at, digests, lost, messages, done, lock, pc, job, failures, overrun, busy, failed>>
      BY <1>1 DEF CreatePost
    <2>3. digests' \subseteq Digest'
      BY <1>0, <2>1, <2>2, DigestsStay
    <2>4. \A w \in Workers : JobOf(w)'
      BY <2>1, <2>2 DEF JobOf, Types
    <2> QED BY <1>0, <2>1, <2>2, <2>3, <2>4 DEF TypeOK, Types
  <1>2. ASSUME NEW r \in Runs, Schedule(r) \/ ExpireLock(r) PROVE Types'
    <2>1. /\ now' \in Nat /\ at' \in [Runs -> Nat] /\ messages' \subseteq Runs
          /\ lock' \in [Runs -> Workers \cup {NoOne}] /\ overrun' \in BOOLEAN
          /\ failures' \in 0..MaxFailures /\ lost' \subseteq Runs
      <3>1. CASE Schedule(r)
        BY <1>0, <3>1 DEF Schedule, TypeOK
      <3>2. CASE ExpireLock(r)
        BY <1>0, <3>2 DEF ExpireLock, TypeOK, store
      <3> QED BY <1>2, <3>1, <3>2
    <2>2. UNCHANGED <<enabled, posts, digests, done, pc, job, busy, failed>>
      BY <1>2 DEF Schedule, ExpireLock, store
    <2>3. Digest' = Digest /\ \A w \in Workers : JobOf(w)'
      BY <2>2 DEF JobOf, Types, Digest
    <2> QED BY <1>0, <2>1, <2>2, <2>3 DEF TypeOK, Types
  <1>3. ASSUME NEW w \in Workers, NEW r \in Runs, CheckDone(w, r) PROVE Types'
    <2>1. /\ messages' \subseteq Runs
          /\ UNCHANGED <<now, store, done, lock, failures, overrun, busy, failed>>
      BY <1>0, <1>3 DEF CheckDone, TypeOK
    <2>2. /\ pc' \in [Workers -> {"idle", "lock"} \cup Holding] /\ DOMAIN job' = Workers
          /\ \A v \in Workers : JobOf(v)' /\ job'[v].run \in Runs \cup {0}
      <3>1. CASE r \in done
        BY <1>0, <1>3, <2>1, <3>1 DEF CheckDone, JobOf, Types, TypeOK, store
      <3>2. CASE r \notin done
        <4>1. Goto(w, "lock") /\ job' = [job EXCEPT ![w] = [run |-> r]] /\ posts' = posts
          BY <1>3, <3>2 DEF CheckDone, store
        <4>2. DOMAIN job' = Workers /\ job'[w].run = r /\ \A v \in Workers \ {w} : job'[v] = job[v]
          BY <1>0, <4>1
        <4> QED BY <4>1, <4>2, GoingTypes DEF Holding
      <3> QED BY <3>1, <3>2
    <2> QED BY <1>0, <2>1, <2>2 DEF TypeOK, Types, store, Digest
  <1>4. ASSUME NEW w \in Workers, TakeLock(w) PROVE Types'
    <2>1. job[w].run \in Runs
      BY <1>4 DEF TakeLock, Types, JobOf
    <2>2. /\ Goto(w, "window") /\ lock' = [lock EXCEPT ![job[w].run] = w] /\ overrun' \in BOOLEAN
          /\ UNCHANGED <<now, store, messages, done, job, failures, busy, failed>>
      BY <1>0, <1>4 DEF TakeLock, TypeOK
    <2>3. lock' \in [Runs -> Workers \cup {NoOne}]
      BY <1>0, <2>1, <2>2 DEF TypeOK
    <2>4. /\ pc' \in [Workers -> {"idle", "lock"} \cup Holding]
          /\ \A v \in Workers : JobOf(v)' /\ job'[v].run \in Runs \cup {0}
      BY <1>0, <2>1, <2>2, GoingTypes DEF Holding, store
    <2> QED BY <1>0, <2>2, <2>3, <2>4 DEF TypeOK, Types, store, Digest
  <1>5. ASSUME NEW w \in Workers, LockBusy(w) \/ Release(w) \/ Fail(w) \/ Crash(w) PROVE Types'
    <2>1. Stop(w) /\ UNCHANGED <<now, store, done, overrun>> /\ job[w].run \in Runs
      BY <1>5 DEF LockBusy, Release, Fail, Crash, Generating, Types, JobOf
    <2>2. /\ messages' \subseteq Runs /\ busy' \subseteq Runs /\ failed' \subseteq Runs
          /\ lock' \in [Runs -> Workers \cup {NoOne}] /\ failures' \in 0..MaxFailures
      BY <1>0, <1>5, <2>1 DEF LockBusy, Release, Fail, Crash, TypeOK
    <2>3. /\ pc' \in [Workers -> {"idle", "lock"} \cup Holding] /\ DOMAIN job' = Workers
          /\ \A v \in Workers : JobOf(v)' /\ job'[v].run \in Runs \cup {0}
      BY <2>1, StoppingTypes DEF store
    <2> QED BY <1>0, <2>1, <2>2, <2>3 DEF TypeOK, Types, store, Digest
  <1>6. ASSUME NEW w \in Workers, ReadPrevious(w) PROVE Types'
    <2>1. job[w].run \in Runs
      BY <1>6 DEF ReadPrevious, Types, JobOf
    <2>2. /\ Goto(w, "find")
          /\ job' = [job EXCEPT ![w] = [run |-> job[w].run,
                                        from |-> getDigestWindowStart(job[w].run)]]
          /\ UNCHANGED <<now, store, messages, done, lock, failures, overrun, busy, failed>>
      BY <1>6 DEF ReadPrevious
    <2>3. job'[w] = [run |-> job[w].run, from |-> getDigestWindowStart(job[w].run)]
      BY <1>0, <2>2
    <2>4. getDigestWindowStart(job[w].run) \in Nat
      BY <1>0, <2>1, WindowInNat
    <2>5. DOMAIN job' = Workers /\ job'[w].run \in Runs /\ job'[w].from \in Nat
      BY <1>0, <2>1, <2>2, <2>3, <2>4
    <2>6. \A v \in Workers \ {w} : job'[v] = job[v]
      BY <1>0, <2>2
    <2>7. /\ pc' \in [Workers -> {"idle", "lock"} \cup Holding]
          /\ \A v \in Workers : JobOf(v)' /\ job'[v].run \in Runs \cup {0}
      BY <2>2, <2>5, <2>6, GoingTypes DEF Holding, store
    <2> QED BY <1>0, <2>2, <2>5, <2>7 DEF TypeOK, Types, store, Digest
  <1>7. ASSUME NEW w \in Workers, findDigestPosts(w) PROVE Types'
    <2> DEFINE found == {p \in posts : p >= job[w].from}
    <2>1. job[w].run \in Runs
      BY <1>7 DEF findDigestPosts, Types, JobOf
    <2>2. PICK place \in {"mark", "save"} : Goto(w, place)
      BY <1>7 DEF findDigestPosts
    <2>3. /\ job' = [job EXCEPT ![w] = [run |-> job[w].run, found |-> now, posts |-> found]]
          /\ UNCHANGED <<now, store, messages, done, lock, failures, overrun, busy, failed>>
      BY <1>7 DEF findDigestPosts
    <2>4. found \subseteq posts
      OBVIOUS
    <2> HIDE DEF found
    <2>5. /\ job'[w].run \in Runs /\ job'[w].found \in Nat /\ job'[w].posts \subseteq posts
          /\ DOMAIN job' = Workers
      BY <1>0, <2>1, <2>3, <2>4 DEF TypeOK
    <2>6. \A v \in Workers \ {w} : job'[v] = job[v]
      BY <1>0, <2>3
    <2>7. /\ pc' \in [Workers -> {"idle", "lock"} \cup Holding]
          /\ \A v \in Workers : JobOf(v)' /\ job'[v].run \in Runs \cup {0}
      BY <2>2, <2>3, <2>5, <2>6, GoingTypes DEF Holding, store
    <2> QED BY <1>0, <2>3, <2>5, <2>7 DEF TypeOK, Types, store, Digest
  <1>8. ASSUME NEW w \in Workers, createDigestPost(w) \/ MarkDone(w) PROVE Types'
    <2>1. PICK place \in {"mark", "release"} : Goto(w, place)
      BY <1>8 DEF createDigestPost, MarkDone
    <2>2. job[w].run \in Runs
      BY <1>8 DEF createDigestPost, MarkDone, Types, JobOf
    <2>3. UNCHANGED <<enabled, posts, at, lost, messages, lock, job, failures, overrun, busy, failed>>
      BY <1>8 DEF createDigestPost, MarkDone, store
    <2>4. now' \in Nat /\ done' \subseteq Runs
      BY <1>0, <1>8, <2>2 DEF createDigestPost, MarkDone, TypeOK
    <2>5. digests' \subseteq Digest
      <3>1. CASE createDigestPost(w)
        <4>1. job[w].found \in Nat /\ job[w].posts \subseteq posts
          BY <3>1 DEF createDigestPost, Types, JobOf
        <4>2. [run |-> job[w].run, found |-> job[w].found, posts |-> job[w].posts,
               createdAt |-> now'] \in Digest
          BY <2>2, <2>4, <4>1 DEF Digest
        <4> QED BY <1>0, <3>1, <4>2 DEF createDigestPost, TypeOK
      <3>2. CASE MarkDone(w)
        BY <1>0, <3>2 DEF MarkDone, TypeOK, store
      <3> QED BY <1>8, <3>1, <3>2
    <2>6. /\ pc' \in [Workers -> {"idle", "lock"} \cup Holding]
          /\ \A v \in Workers : JobOf(v)' /\ job'[v].run \in Runs \cup {0}
      BY <1>0, <2>1, <2>2, <2>3, GoingTypes DEF Holding
    <2> QED BY <1>0, <2>3, <2>4, <2>5, <2>6 DEF TypeOK, Types, Digest
  <1>9. CASE Aside
    <2>1. /\ UNCHANGED <<now, posts, at, digests, done, lock, pc, job, failures, overrun, busy, failed>>
          /\ messages' \subseteq Runs /\ lost' \subseteq Runs /\ enabled' \in BOOLEAN
      BY <1>0, <1>9, AsideFrame DEF TypeOK
    <2> QED BY <1>0, <2>1 DEF Types, TypeOK, JobOf, Digest
  <1>10. CASE UNCHANGED vars
    BY <1>0, <1>10 DEF vars, store, Types, TypeOK, JobOf, Digest
  <1> QED
    BY <1>1, <1>2, <1>3, <1>4, <1>5, <1>6, <1>7, <1>8, <1>9, <1>10 DEF Next, Work, Aside

THEOREM AlwaysTypes == Spec => []Types
  <1>1. Init => Types
    <2> SUFFICES ASSUME Init PROVE Types
      OBVIOUS
    <2>1. \A w \in Workers : JobOf(w) /\ job[w].run = 0
      BY DEF Init, JobOf, NoJob
    <2>2. DOMAIN job = Workers
      BY DEF Init
    <2>3. pc \in [Workers -> {"idle", "lock"} \cup Holding] /\ failures \in 0..MaxFailures
      BY BoundsAssumption DEF Init
    <2>4. /\ at \in [Runs -> Nat] /\ lock \in [Runs -> Workers \cup {NoOne}]
          /\ now \in Nat /\ enabled \in BOOLEAN /\ overrun \in BOOLEAN
      BY DEF Init
    <2>5. posts = {} /\ messages = {} /\ done = {} /\ busy = {} /\ failed = {} /\ lost = {} /\ digests = {}
      BY DEF Init
    <2>6. TypeOK
      BY <2>1, <2>3, <2>4, <2>5 DEF TypeOK
    <2> QED BY <2>1, <2>2, <2>6 DEF Types
  <1> QED BY <1>1, TypesInductive, PTL DEF Spec

\* Every variable of ChannelDigest has its type.
THEOREM TypeCorrect == Spec => []TypeOK
  <1>1. Types => TypeOK
    BY DEF Types
  <1> QED BY <1>1, AlwaysTypes, PTL

-----------------------------------------------------------------------------
(* Windows.                                                                *)

Sole == \A v, w \in Workers : pc[v] \in Holding /\ pc[w] \in Holding => v = w

\* Digests are dated when they are created, after their posts.
Dated(d) == d.createdAt <= now /\ \A p \in d.posts : p < d.createdAt

\* A window and what is found in it begin where the last digest ended.
From(w) == pc[w] = "find" => \A d \in digests : d.createdAt <= job[w].from
Found(w) ==
  pc[w] = "save" => \A d \in digests, p \in job[w].posts : d.createdAt <= p

Windows ==
  /\ \A p \in posts : p <= now
  /\ \A d \in digests : Dated(d)
  /\ digests # {} => Latest # {}
  /\ ~overrun =>
       /\ Sole
       /\ \A w \in Workers : From(w) /\ Found(w)
       /\ PostDigestedOnce

LEMMA WindowAfterDigests ==
  ASSUME TypeOK, Windows, NEW r \in Runs, NEW d \in digests
  PROVE  d.createdAt <= getDigestWindowStart(r)
  <1>1. PICK l \in Latest : TRUE
    BY DEF Windows
  <1>2. \A k \in Latest : d.createdAt <= k.createdAt /\ l.createdAt <= k.createdAt
    BY <1>1 DEF Latest
  <1>3. (CHOOSE k \in Latest : TRUE) \in Latest
    BY <1>1
  <1>4. \A k \in Latest : k.createdAt <= l.createdAt /\ k.createdAt \in Nat
    BY <1>1 DEF Latest, TypeOK, Digest
  <1>5. Fallback(r) \in Nat
    <2>1. r # 1 => r - 1 \in Runs
      BY BoundsAssumption DEF Runs
    <2> QED BY <2>1 DEF Fallback, TypeOK
  <1>6. d.createdAt \in Nat
    BY DEF TypeOK, Digest
  <1>7. CASE \E k \in Latest : k.createdAt > Fallback(r)
    BY <1>2, <1>3, <1>7 DEF getDigestWindowStart
  <1>8. CASE ~\E k \in Latest : k.createdAt > Fallback(r)
    <2>1. l.createdAt <= Fallback(r)
      BY <1>1, <1>4, <1>5, <1>8
    <2> QED BY <1>1, <1>2, <1>4, <1>5, <1>6, <1>8, <2>1 DEF getDigestWindowStart
  <1> QED BY <1>7, <1>8

\* What creates no digest only has to say where it leaves the workers.
LEMMA WindowsFrame ==
  ASSUME Windows, digests' = digests, now' = now, posts' = posts,
         overrun => overrun',
         ~overrun' => Sole',
         ~overrun' => \A w \in Workers : From(w)' /\ Found(w)'
  PROVE  Windows'
  <1>1. \A d \in digests : Dated(d)'
    BY DEF Windows, Dated
  <1>2. Latest' = Latest
    BY DEF Latest
  <1> QED BY <1>1, <1>2 DEF Windows, PostDigestedOnce

\* Workers that go on, stop or begin outside the lock.
LEMMA SoleStays ==
  ASSUME Sole, TypeOK, NEW w \in Workers, \A v \in Workers \ {w} : pc'[v] = pc[v],
         pc'[w] \in Holding => pc[w] \in Holding
  PROVE  Sole'
  BY DEF Sole

LEMMA ElsewhereSame ==
  ASSUME Windows, ~overrun, digests' = digests, NEW v \in Workers,
         pc'[v] = pc[v], job'[v] = job[v]
  PROVE  From(v)' /\ Found(v)'
  BY DEF Windows, From, Found

LEMMA SaveStep ==
  ASSUME Types, Windows, NEW w \in Workers, createDigestPost(w)
  PROVE  Windows'
  <1> DEFINE new == [run |-> job[w].run, found |-> job[w].found, posts |-> job[w].posts,
                     createdAt |-> now']
  <1>1. /\ TypeOK /\ pc[w] = "save" /\ job[w].posts \subseteq posts /\ now \in Nat
    BY DEF Types, TypeOK, JobOf, createDigestPost
  <1>2. /\ digests' = digests \cup {new} /\ now' = now + 1
        /\ UNCHANGED <<posts, job, overrun>>
    BY DEF createDigestPost
  <1>3. new.createdAt = now + 1 /\ new.posts = job[w].posts
    BY <1>2
  <1> HIDE DEF new
  <1>4. \A d \in digests : d.createdAt \in Nat /\ d.createdAt <= now
    BY <1>1 DEF Windows, Dated, TypeOK, Digest
  <1>5. \A p \in posts : p \in Nat /\ p <= now
    BY <1>1 DEF Windows, TypeOK
  <1>6. ASSUME NEW d \in digests' PROVE Dated(d)'
    <2>1. CASE d = new
      BY <1>1, <1>2, <1>3, <1>5, <2>1 DEF Dated
    <2>2. CASE d \in digests
      BY <1>1, <1>2, <1>4, <2>2 DEF Windows, Dated
    <2> QED BY <1>2, <2>1, <2>2
  <1>7. new \in Latest'
    BY <1>1, <1>2, <1>3, <1>4 DEF Latest
  <1>8. ASSUME ~overrun
        PROVE  /\ Sole' /\ PostDigestedOnce'
               /\ \A v \in Workers : From(v)' /\ Found(v)'
    <2>1. pc' = [pc EXCEPT ![w] = "mark"]
      BY DEF createDigestPost, Goto
    <2>2. pc'[w] = "mark" /\ \A v \in Workers \ {w} : pc'[v] = pc[v]
      BY <1>1, <2>1 DEF TypeOK
    <2>3. pc[w] \in Holding
      BY <1>1 DEF Holding
    <2>4. Sole /\ \A v \in Workers \ {w} : pc[v] \notin Holding
      BY <1>8, <2>3 DEF Windows, Sole
    <2>5. Sole'
      BY <1>1, <2>2, <2>3, <2>4, SoleStays
    <2>6. \A v \in Workers : From(v)' /\ Found(v)'
      BY <2>2, <2>4 DEF From, Found, Holding
    <2>7. ASSUME NEW d \in digests PROVE d.posts \cap new.posts = {}
      <3>1. \A p \in new.posts : d.createdAt <= p /\ p \in Nat
        BY <1>1, <1>3, <1>5, <1>8 DEF Windows, Found
      <3>2. \A p \in d.posts : p < d.createdAt
        BY DEF Windows, Dated
      <3> QED BY <1>4, <3>1, <3>2
    <2>8. PostDigestedOnce'
      BY <1>2, <1>8, <2>7 DEF Windows, PostDigestedOnce
    <2> QED BY <2>5, <2>6, <2>8
  <1>9. \A p \in posts' : p <= now'
    BY <1>1, <1>2, <1>5
  <1> QED BY <1>2, <1>6, <1>7, <1>8, <1>9 DEF Windows

LEMMA WindowsInductive == Inv /\ Types /\ Windows /\ [Next]_vars => Windows'
  <1> SUFFICES ASSUME Inv, Types, Windows, [Next]_vars PROVE Windows'
    OBVIOUS
  <1>0. TypeOK /\ DOMAIN job = Workers
    BY DEF Types
  <1>1. ASSUME CreatePost \/ (\E r \in Runs : Schedule(r)) PROVE Windows'
    <2>1. /\ now' = now + 1 /\ now \in Nat /\ posts' \subseteq posts \cup {now'}
          /\ UNCHANGED <<digests, pc, job, overrun>>
      BY <1>0, <1>1 DEF CreatePost, Schedule, TypeOK
    <2>2. ASSUME NEW p \in posts' PROVE p <= now'
      <3>1. CASE p \in posts
        <4>1. p \in Nat /\ p <= now
          BY <1>0, <3>1 DEF Windows, TypeOK
        <4> QED BY <2>1, <4>1
      <3>2. CASE p = now'
        BY <2>1, <3>2
      <3> QED BY <2>1, <2>2, <3>1, <3>2
    <2>3. \A d \in digests : Dated(d)'
      BY <1>0, <2>1 DEF Windows, Dated, TypeOK, Digest
    <2>4. Latest' = Latest /\ Sole' = Sole
      BY <2>1 DEF Latest, Sole
    <2>5. \A w \in Workers : (From(w) => From(w)') /\ (Found(w) => Found(w)')
      BY <2>1 DEF From, Found
    <2> QED BY <2>1, <2>2, <2>3, <2>4, <2>5 DEF Windows, PostDigestedOnce
  <1>2. ASSUME NEW r \in Runs, ExpireLock(r) PROVE Windows'
    <2>1. UNCHANGED <<digests, now, posts, pc, job>> /\ (overrun => overrun')
      BY <1>2 DEF ExpireLock, store
    <2>2. ~overrun' => Sole'
      BY <2>1 DEF Windows, Sole
    <2>3. ~overrun' => \A w \in Workers : From(w)' /\ Found(w)'
      BY <2>1, ElsewhereSame
    <2> QED BY <2>1, <2>2, <2>3, WindowsFrame
  <1>3. ASSUME NEW w \in Workers, NEW r \in Runs, CheckDone(w, r) PROVE Windows'
    <2>1. /\ UNCHANGED <<digests, now, posts, overrun>>
          /\ \A v \in Workers \ {w} : pc'[v] = pc[v] /\ job'[v] = job[v]
          /\ pc'[w] \in {"idle", "lock"}
      BY <1>0, <1>3 DEF CheckDone, Goto, store, TypeOK
    <2>2. ~overrun' => Sole'
      BY <1>0, <2>1, SoleStays DEF Windows, Holding
    <2>3. From(w)' /\ Found(w)'
      BY <2>1 DEF From, Found
    <2>4. ~overrun' => \A v \in Workers : From(v)' /\ Found(v)'
      BY <2>1, <2>3, ElsewhereSame
    <2> QED BY <2>1, <2>2, <2>4, WindowsFrame
  <1>4. ASSUME NEW w \in Workers, TakeLock(w) PROVE Windows'
    <2>1. /\ UNCHANGED <<digests, now, posts, job>> /\ (overrun => overrun')
          /\ pc[w] = "lock" /\ lock[job[w].run] = NoOne
          /\ ~overrun' => \A v \in Workers : pc[v] \in Holding => job[v].run = job[w].run
      BY <1>4 DEF TakeLock, store
    <2>2. pc'[w] = "window" /\ \A v \in Workers \ {w} : pc'[v] = pc[v]
      BY <1>0, <1>4 DEF TakeLock, Goto, TypeOK
    <2>3. ASSUME ~overrun', NEW v \in Workers PROVE pc[v] \notin Holding
      BY <2>1, <2>3, NoOneAssumption DEF Inv, Owner
    <2>4. ~overrun' => Sole'
      BY <2>2, <2>3 DEF Sole
    <2>5. From(w)' /\ Found(w)'
      BY <2>2 DEF From, Found
    <2>6. ~overrun' => \A v \in Workers : From(v)' /\ Found(v)'
      BY <2>1, <2>2, <2>5, ElsewhereSame
    <2> QED BY <2>1, <2>4, <2>6, WindowsFrame
  <1>5. ASSUME NEW w \in Workers,
               LockBusy(w) \/ Release(w) \/ Fail(w) \/ Crash(w) \/ MarkDone(w)
        PROVE  Windows'
    <2>1. UNCHANGED <<digests, now, posts, overrun>>
      BY <1>5 DEF LockBusy, Release, Fail, Crash, MarkDone, store
    <2>2. /\ pc'[w] \in {"idle", "release"} /\ (pc'[w] = "release" => pc[w] = "mark")
          /\ \A v \in Workers \ {w} : pc'[v] = pc[v] /\ job'[v] = job[v]
      BY <1>0, <1>5 DEF LockBusy, Release, Fail, Crash, MarkDone, Stop, Goto, TypeOK
    <2>3. ~overrun' => Sole'
      BY <1>0, <2>1, <2>2, SoleStays DEF Windows, Holding
    <2>4. From(w)' /\ Found(w)'
      BY <2>2 DEF From, Found
    <2>5. ~overrun' => \A v \in Workers : From(v)' /\ Found(v)'
      BY <2>1, <2>2, <2>4, ElsewhereSame
    <2> QED BY <2>1, <2>3, <2>5, WindowsFrame
  <1>6. ASSUME NEW w \in Workers, ReadPrevious(w) PROVE Windows'
    <2>1. /\ UNCHANGED <<digests, now, posts, overrun>> /\ pc[w] = "window"
          /\ pc'[w] = "find" /\ \A v \in Workers \ {w} : pc'[v] = pc[v] /\ job'[v] = job[v]
      BY <1>0, <1>6 DEF ReadPrevious, Goto, store, TypeOK
    <2>2. job'[w].from = getDigestWindowStart(job[w].run) /\ job[w].run \in Runs
      BY <1>0, <1>6 DEF ReadPrevious, Types, JobOf
    <2>3. From(w)' /\ Found(w)'
      BY <1>0, <2>1, <2>2, WindowAfterDigests DEF From, Found
    <2>4. ~overrun' => Sole'
      BY <1>0, <2>1, SoleStays DEF Windows, Holding
    <2>5. ~overrun' => \A v \in Workers : From(v)' /\ Found(v)'
      BY <2>1, <2>3, ElsewhereSame
    <2> QED BY <2>1, <2>4, <2>5, WindowsFrame
  <1>7. ASSUME NEW w \in Workers, findDigestPosts(w) PROVE Windows'
    <2>1. /\ UNCHANGED <<digests, now, posts, overrun>> /\ pc[w] = "find"
          /\ pc'[w] \in {"mark", "save"}
          /\ \A v \in Workers \ {w} : pc'[v] = pc[v] /\ job'[v] = job[v]
      BY <1>0, <1>7 DEF findDigestPosts, Goto, store, TypeOK
    <2>2. job'[w].posts = {p \in posts : p >= job[w].from}
      BY <1>0, <1>7 DEF findDigestPosts
    <2>3. job[w].from \in Nat
      BY <2>1 DEF Types, JobOf
    <2>4. ASSUME ~overrun' PROVE From(w)' /\ Found(w)'
      <3>1. \A d \in digests : d.createdAt \in Nat /\ d.createdAt <= job[w].from
        BY <1>0, <2>1, <2>4 DEF Windows, From, TypeOK, Digest
      <3>2. \A p \in job'[w].posts : p \in Nat /\ job[w].from <= p
        BY <1>0, <2>2, <2>3 DEF TypeOK
      <3>3. \A d \in digests', p \in job'[w].posts : d.createdAt <= p
        BY <2>1, <2>3, <3>1, <3>2
      <3> QED BY <2>1, <3>3 DEF From, Found
    <2>5. ~overrun' => Sole'
      BY <1>0, <2>1, SoleStays DEF Windows, Holding
    <2>6. ~overrun' => \A v \in Workers : From(v)' /\ Found(v)'
      BY <2>1, <2>4, ElsewhereSame
    <2> QED BY <2>1, <2>5, <2>6, WindowsFrame
  <1>8. ASSUME NEW w \in Workers, createDigestPost(w) PROVE Windows'
    BY <1>8, SaveStep
  <1>9. CASE Aside \/ UNCHANGED vars
    <2>1. UNCHANGED <<digests, now, posts, pc, job, overrun>>
      BY <1>9, AsideFrame DEF vars, store
    <2> QED BY <2>1, WindowsFrame, ElsewhereSame DEF Windows, Sole
  <1> QED
    BY <1>1, <1>2, <1>3, <1>4, <1>5, <1>6, <1>7, <1>8, <1>9 DEF Next, Work, Aside

\* No post is in two digests unless a lock expired under its worker or two runs
\* overlapped: a second execution of a run starts from the digest of the first
\* (getDigestWindowStart).
THEOREM DigestedOnce == Spec => []PostDigestedOnce
  <1>1. Init => Inv
    BY DEF Init, Inv, Owner, Places, Holding
  <1>2. Init => Windows
    BY DEF Init, Windows, Sole, From, Found, PostDigestedOnce, Holding
  <1>3. Windows => PostDigestedOnce
    BY DEF Windows, PostDigestedOnce
  <1> QED BY <1>1, <1>2, <1>3, Inductive, AlwaysTypes, WindowsInductive, PTL DEF Spec

-----------------------------------------------------------------------------
(* What a run that is done leaves behind.                                  *)

\* The post comes after every run before r was scheduled.
Since(r, p) == \A q \in Runs : q < r => at[q] < p

\* A digest answers for the post, as far as run r has to.
Served(r, p) ==
  \E d \in digests : p \in d.posts \/ (d.found < p /\ p < d.createdAt) \/ d.run > r

\* Runs are scheduled one after the other, and nothing is dated later than now.
Clock ==
  /\ \A p \in posts : p <= now
  /\ \A r \in Runs : at[r] <= now
  /\ \A r \in Runs : at[r] # 0 => \A q \in Runs : q < r => at[q] # 0 /\ at[q] < at[r]
  /\ \A d \in digests : d.createdAt <= now
  /\ \A r \in messages \cup done : at[r] # 0
  /\ \A w \in Workers : pc[w] # "idle" => at[job[w].run] # 0
  /\ \A w \in Workers : pc[w] = "find" => job[w].from <= now
  /\ \A w \in Workers : pc[w] = "save" => job[w].found <= now

\* The posts before a digest of r, or of a run before it, are served.
Past(d) == \A r \in Runs, p \in posts : d.run <= r /\ Since(r, p) /\ p < d.createdAt => Served(r, p)

\* So are those before the window, ...
Before(w) ==
  pc[w] = "find" => \A r \in Runs, p \in posts :
    job[w].run <= r /\ Since(r, p) /\ p < job[w].from => Served(r, p)

\* ... and those created until the posts were looked up, unless they were found.
Gathered(w) ==
  pc[w] = "save" => \A r \in Runs, p \in posts :
    job[w].run <= r /\ Since(r, p) /\ p <= job[w].found => p \in job[w].posts \/ Served(r, p)

Ended(r) == \A p \in posts : Fallback(r) < p /\ p < at[r] => Served(r, p)

Digested ==
  /\ Clock
  /\ \A d \in digests : Past(d)
  /\ \A w \in Workers : Before(w) /\ Gathered(w) /\ (pc[w] = "mark" => Ended(job[w].run))
  /\ \A r \in done : Ended(r)

\* The times are numbers.
LEMMA Times ==
  ASSUME Types
  PROVE  /\ now \in Int /\ (\A p \in posts : p \in Int /\ p >= 0)
         /\ (\A r \in Runs : r \in Int /\ at[r] \in Int /\ at[r] >= 0)
         /\ messages \subseteq Runs /\ done \subseteq Runs
         /\ \A d \in digests : d.run \in Runs /\ d.found \in Int /\ d.createdAt \in Int
  <1>1. TypeOK
    BY DEF Types
  <1>2. \A d \in digests : d \in Digest
    BY <1>1 DEF TypeOK
  <1>3. \A d \in Digest : d.run \in Runs /\ d.found \in Nat /\ d.createdAt \in Nat
    BY DEF Digest
  <1> QED BY <1>1, <1>2, <1>3 DEF TypeOK, Runs

\* A post that a run has to digest comes after all the runs before it.
LEMMA DueIsSince ==
  ASSUME Types, Clock, NEW r \in Runs, NEW p \in posts, Fallback(r) < p, p < at[r]
  PROVE  Since(r, p)
  <1> SUFFICES ASSUME NEW q \in Runs, q < r PROVE at[q] < p
    BY DEF Since
  <1>1. at[r] # 0 /\ r \in Int /\ q \in Int /\ r # 1
    BY Times DEF Runs
  <1>2. r - 1 \in Runs /\ q <= r - 1
    BY <1>1, BoundsAssumption DEF Runs
  <1>3. at[q] <= at[r - 1]
    <2>1. at[r - 1] # 0
      BY <1>1, <1>2 DEF Clock
    <2> QED BY <1>1, <1>2, <2>1, Times DEF Clock
  <1>4. at[r - 1] < p
    BY <1>1 DEF Fallback
  <1> QED BY <1>2, <1>3, <1>4, Times

\* A step that dates no digest, as far as the workers claim nothing new.
LEMMA DigestedFrame ==
  ASSUME Digested, Clock', UNCHANGED <<posts, at, digests>>,
         \A r \in done' : Ended(r),
         \A w \in Workers :
           \/ pc'[w] = pc[w] /\ job'[w] = job[w]
           \/ pc'[w] \notin {"find", "save", "mark"}
           \/ (Before(w) /\ Gathered(w) /\ (pc[w] = "mark" => Ended(job[w].run)))'
  PROVE  Digested'
  <1>1. \A r, p : Since(r, p)' = Since(r, p) /\ Served(r, p)' = Served(r, p)
    BY DEF Since, Served
  <1>2. \A r : Ended(r)' = Ended(r)
    BY <1>1 DEF Ended, Fallback
  <1>3. \A d \in digests' : Past(d)'
    BY <1>1 DEF Digested, Past
  <1>4. ASSUME NEW w \in Workers
        PROVE  (Before(w) /\ Gathered(w) /\ (pc[w] = "mark" => Ended(job[w].run)))'
    <2>1. CASE pc'[w] = pc[w] /\ job'[w] = job[w]
      <3>1. Before(w)'
        BY <1>1, <2>1 DEF Digested, Before
      <3>2. Gathered(w)'
        BY <1>1, <2>1 DEF Digested, Gathered
      <3>3. (pc[w] = "mark" => Ended(job[w].run))'
        BY <1>1, <2>1 DEF Digested, Ended, Fallback
      <3> QED BY <3>1, <3>2, <3>3
    <2>2. CASE pc'[w] \notin {"find", "save", "mark"}
      BY <2>2 DEF Before, Gathered
    <2> QED BY <2>1, <2>2
  <1>5. \A r \in done' : Ended(r)'
    BY <1>2
  <1> QED BY <1>3, <1>4, <1>5 DEF Digested

\* What is served stays served when a digest comes.
LEMMA ServedStays ==
  ASSUME NEW r, NEW p, Served(r, p), digests \subseteq digests'
  PROVE  Served(r, p)'
  BY DEF Served

\* The clock when the time and the runs stand still.
LEMMA ClockStays ==
  ASSUME Clock, UNCHANGED <<now, posts, at, digests>>,
         messages' \subseteq messages, \A r \in done' : at[r] # 0,
         \A w \in Workers :
           \/ pc'[w] = "idle"
           \/ pc'[w] = pc[w] /\ job'[w] = job[w]
           \/ /\ at[job'[w].run] # 0
              /\ pc'[w] = "find" => job'[w].from <= now
              /\ pc'[w] = "save" => job'[w].found <= now
  PROVE  Clock'
  <1> USE DEF Clock
  <1>1. \A r \in messages' \cup done' : at'[r] # 0
    OBVIOUS
  <1>2. ASSUME NEW w \in Workers
        PROVE  /\ pc'[w] # "idle" => at'[job'[w].run] # 0
               /\ pc'[w] = "find" => job'[w].from <= now'
               /\ pc'[w] = "save" => job'[w].found <= now'
    OBVIOUS
  <1> QED BY <1>1, <1>2

\* The cron schedules a run.
LEMMA ScheduleDigested ==
  ASSUME Types, Digested, NEW n \in Runs, Schedule(n)
  PROVE  Digested'
  <1>1. /\ at[n] = 0 /\ now' = now + 1 /\ at' = [at EXCEPT ![n] = now + 1]
        /\ \A q \in Runs : q < n => at[q] # 0
        /\ messages' \subseteq messages \cup {n}
        /\ UNCHANGED <<posts, digests, done, pc, job>>
    BY DEF Schedule
  <1>2. /\ at'[n] = now + 1 /\ now + 1 # 0 /\ now \in Int /\ now <= now + 1
        /\ \A r \in Runs : r # n => at'[r] = at[r]
        /\ \A r \in Runs : at[r] # 0 => r # n /\ at'[r] = at[r]
    <2>1. now \in Nat /\ at \in [Runs -> Nat]
      BY DEF Types, TypeOK
    <2> QED BY <1>1, <2>1
  <1>3. \A r \in Runs, p \in posts : Since(r, p)' => Since(r, p)
    <2> SUFFICES ASSUME NEW r \in Runs, NEW p \in posts, Since(r, p)', NEW q \in Runs, q < r
                 PROVE  at[q] < p
      BY DEF Since
    <2>1. at'[q] < p /\ p <= now
      BY DEF Since, Digested, Clock
    <2> QED BY <1>2, <2>1, Times
  <1>4. \A r, p : Served(r, p)' = Served(r, p)
    BY <1>1 DEF Served
  <1>5. \A r \in Runs : at[r] # 0 /\ Ended(r) => Ended(r)'
    <2> SUFFICES ASSUME NEW r \in Runs, at[r] # 0, Ended(r) PROVE Ended(r)'
      OBVIOUS
    <2>1. Fallback(r)' = Fallback(r)
      <3>1. CASE r = 1
        BY <3>1 DEF Fallback
      <3>2. CASE r # 1
        <4>1. r - 1 \in Runs /\ r - 1 < r
          BY <3>2, BoundsAssumption DEF Runs
        <4>2. at[r - 1] # 0
          BY <4>1 DEF Digested, Clock
        <4> QED BY <1>2, <3>2, <4>1, <4>2 DEF Fallback
      <3> QED BY <3>1, <3>2
    <2> QED BY <1>1, <1>2, <1>4, <2>1 DEF Ended
  <1>6. Clock'
    <2>1. \A p \in posts : p <= now + 1
      BY <1>2, Times DEF Digested, Clock
    <2>2. \A r \in Runs : at'[r] <= now + 1
      BY <1>2, Times DEF Digested, Clock
    <2>3. ASSUME NEW r \in Runs, at'[r] # 0, NEW q \in Runs, q < r
          PROVE  at'[q] # 0 /\ at'[q] < at'[r]
      <3>1. CASE r = n
        <4>1. q # n /\ at[q] # 0 /\ at[q] <= now
          BY <1>1, <2>3, <3>1, Times DEF Digested, Clock
        <4> QED BY <1>2, <3>1, <4>1, Times
      <3>2. CASE r # n
        <4>1. at[r] # 0 /\ at[q] # 0 /\ at[q] < at[r]
          BY <1>2, <2>3, <3>2 DEF Digested, Clock
        <4> QED BY <1>2, <4>1
      <3> QED BY <3>1, <3>2
    <2>4. \A d \in digests : d.createdAt <= now + 1
      BY <1>2, Times DEF Digested, Clock
    <2>5. \A r \in messages' \cup done' : at'[r] # 0
      BY <1>1, <1>2, Times DEF Digested, Clock
    <2>6. \A w \in Workers : pc[w] # "idle" => at'[job[w].run] # 0
      <3>1. \A w \in Workers : pc[w] # "idle" => job[w].run \in Runs
        BY DEF Types, JobOf
      <3> QED BY <1>2, <3>1 DEF Digested, Clock
    <2>7. ASSUME NEW w \in Workers
          PROVE  /\ pc[w] = "find" => job[w].from <= now + 1
                 /\ pc[w] = "save" => job[w].found <= now + 1
      <3>1. JobOf(w)
        BY DEF Types
      <3> QED BY <1>2, <3>1 DEF Digested, Clock, JobOf
    <2> QED BY <1>1, <2>1, <2>2, <2>3, <2>4, <2>5, <2>6, <2>7 DEF Clock
  <1>7. \A d \in digests : Past(d)'
    BY <1>1, <1>3, <1>4 DEF Digested, Past
  <1>8. \A w \in Workers : (Before(w) /\ Gathered(w))'
    BY <1>1, <1>3, <1>4 DEF Digested, Before, Gathered
  <1>9. \A w \in Workers : pc[w] = "mark" => Ended(job[w].run)'
    <2> SUFFICES ASSUME NEW w \in Workers, pc[w] = "mark" PROVE Ended(job[w].run)'
      OBVIOUS
    <2>1. PICK r \in Runs : r = job[w].run
      BY DEF Types, JobOf
    <2>2. at[r] # 0 /\ Ended(r)
      BY <2>1 DEF Digested, Clock
    <2>3. Ended(r)'
      BY <1>5, <2>2
    <2> QED BY <1>1, <2>1, <2>3
  <1>10. \A r \in done : Ended(r)'
    BY <1>5, Times DEF Digested, Clock
  <1> QED BY <1>1, <1>6, <1>7, <1>8, <1>9, <1>10 DEF Digested

\* A post is created: later than every window, and before the next digest.
LEMMA CreatePostDigested ==
  ASSUME Types, Digested, CreatePost
  PROVE  Digested'
  <1>1. /\ now' = now + 1 /\ posts' = posts \cup {now + 1} /\ now \in Int
        /\ UNCHANGED <<at, digests, messages, done, pc, job>>
    BY Times DEF CreatePost
  <1>2. \A r, p : Since(r, p)' = Since(r, p) /\ Served(r, p)' = Served(r, p)
    BY <1>1 DEF Since, Served
  <1>3. ASSUME NEW w \in Workers
        PROVE  /\ pc[w] = "find" => job[w].from \in Int /\ job[w].from <= now
               /\ pc[w] = "save" => job[w].found \in Int /\ job[w].found <= now
               /\ pc[w] # "idle" => job[w].run \in Runs
    BY DEF Types, JobOf, Digested, Clock
  <1>4. Clock'
    <2>1. \A p \in posts' : p <= now + 1
      BY <1>1, Times DEF Digested, Clock
    <2>2. \A r \in Runs : at[r] <= now + 1
      BY <1>1, Times DEF Digested, Clock
    <2>3. \A d \in digests : d.createdAt <= now + 1
      BY <1>1, Times DEF Digested, Clock
    <2>4. \A w \in Workers : /\ pc[w] = "find" => job[w].from <= now + 1
                             /\ pc[w] = "save" => job[w].found <= now + 1
      BY <1>1, <1>3
    <2> QED BY <1>1, <2>1, <2>2, <2>3, <2>4 DEF Digested, Clock
  <1>5. \A d \in digests : Past(d)'
    <2>1. \A d \in digests : ~(now + 1 < d.createdAt)
      BY <1>1, Times DEF Digested, Clock
    <2> QED BY <1>1, <1>2, <2>1 DEF Digested, Past
  <1>6. \A w \in Workers : Before(w)'
    <2>1. \A w \in Workers : pc[w] = "find" => ~(now + 1 < job[w].from)
      BY <1>1, <1>3
    <2> QED BY <1>1, <1>2, <2>1 DEF Digested, Before
  <1>7. \A w \in Workers : Gathered(w)'
    <2>1. \A w \in Workers : pc[w] = "save" => ~(now + 1 <= job[w].found)
      BY <1>1, <1>3
    <2> QED BY <1>1, <1>2, <2>1 DEF Digested, Gathered
  <1>8. \A r \in Runs : Ended(r) => Ended(r)'
    <2>1. \A r \in Runs : ~(now + 1 < at[r])
      BY <1>1, Times DEF Digested, Clock
    <2> QED BY <1>1, <1>2, <2>1 DEF Ended, Fallback
  <1>9. \A w \in Workers : pc[w] = "mark" => Ended(job[w].run)'
    <2> SUFFICES ASSUME NEW w \in Workers, pc[w] = "mark" PROVE Ended(job[w].run)'
      OBVIOUS
    <2>1. PICK r \in Runs : r = job[w].run
      BY <1>3
    <2>2. Ended(r)'
      BY <1>8, <2>1 DEF Digested
    <2> QED BY <1>1, <2>1, <2>2
  <1>10. \A r \in done : Ended(r)'
    BY <1>8, Times DEF Digested
  <1> QED BY <1>1, <1>4, <1>5, <1>6, <1>7, <1>9, <1>10 DEF Digested

\* The window of a run begins at the previous digest, or at the run before.
LEMMA WindowDigested ==
  ASSUME Types, Digested, NEW n \in Runs, NEW from \in Nat, from = getDigestWindowStart(n),
         at[n] # 0
  PROVE  /\ from <= now
         /\ \A r \in Runs, p \in posts : n <= r /\ Since(r, p) /\ p < from => Served(r, p)
  <1>1. CASE \E d \in Latest : d.createdAt > Fallback(n)
    <2>1. PICK d \in digests : from = d.createdAt
      <3>1. (CHOOSE d \in Latest : TRUE) \in Latest
        BY <1>1
      <3> QED BY <1>1, <3>1 DEF getDigestWindowStart, Latest
    <2>2. from <= now
      BY <2>1 DEF Digested, Clock
    <2>3. ASSUME NEW r \in Runs, NEW p \in posts, Since(r, p), p < from
          PROVE  Served(r, p)
      <3>1. CASE d.run <= r
        BY <2>1, <2>3, <3>1 DEF Digested, Past
      <3>2. CASE d.run > r
        BY <3>2 DEF Served
      <3>3. d.run \in Int /\ r \in Int
        BY Times DEF Runs
      <3> QED BY <3>1, <3>2, <3>3
    <2> QED BY <2>2, <2>3
  <1>2. CASE ~\E d \in Latest : d.createdAt > Fallback(n)
    <2>1. from = Fallback(n)
      BY <1>2 DEF getDigestWindowStart
    <2>2. CASE n = 1
      <3>1. from = 0 /\ from <= now
        BY <2>1, <2>2 DEF Fallback, Types, TypeOK
      <3>2. \A p \in posts : ~(p < from)
        BY <3>1, Times
      <3> QED BY <3>1, <3>2
    <2>3. CASE n # 1
      <3>1. n - 1 \in Runs /\ from = at[n - 1] /\ \A r \in Runs : n <= r => n - 1 < r
        BY <2>1, <2>3, BoundsAssumption DEF Fallback, Runs
      <3>2. PICK q \in Runs : q = n - 1
        BY <3>1
      <3>3. from <= now
        BY <3>1, <3>2 DEF Digested, Clock
      <3>4. ASSUME NEW r \in Runs, NEW p \in posts, n <= r, Since(r, p) PROVE ~(p < from)
        <4>1. at[q] < p
          BY <3>1, <3>2, <3>4 DEF Since
        <4> QED BY <3>1, <3>2, <4>1, Times
      <3> QED BY <3>3, <3>4
    <2> QED BY <2>2, <2>3
  <1> QED BY <1>1, <1>2

\* The previous digest is read.
LEMMA ReadPreviousDigested ==
  ASSUME Types, Digested, NEW w \in Workers, ReadPrevious(w)
  PROVE  Digested'
  <1>1. PICK n \in Runs, from \in Nat :
          /\ n = job[w].run /\ from = getDigestWindowStart(n)
          /\ pc[w] = "window" /\ pc' = [pc EXCEPT ![w] = "find"]
          /\ job' = [job EXCEPT ![w] = [run |-> n, from |-> from]]
    BY WindowInNat DEF Types, JobOf, ReadPrevious, Goto
  <1>2. /\ pc'[w] = "find" /\ job'[w] = [run |-> n, from |-> from]
        /\ \A v \in Workers \ {w} : pc'[v] = pc[v] /\ job'[v] = job[v]
        /\ UNCHANGED <<now, posts, at, digests, messages, done>>
    BY <1>1 DEF ReadPrevious, Types, TypeOK, store
  <1>3. at[n] # 0
    BY <1>1 DEF Digested, Clock
  <1>4. /\ from <= now
        /\ \A r \in Runs, p \in posts : n <= r /\ Since(r, p) /\ p < from => Served(r, p)
    BY <1>1, <1>3, WindowDigested
  <1>5. Clock'
    <2>1. \A r \in done' : at[r] # 0
      BY <1>2 DEF Digested, Clock
    <2>2. \A v \in Workers :
            \/ pc'[v] = pc[v] /\ job'[v] = job[v]
            \/ /\ at[job'[v].run] # 0
               /\ pc'[v] = "find" => job'[v].from <= now
               /\ pc'[v] = "save" => job'[v].found <= now
      BY <1>2, <1>3, <1>4
    <2>3. Clock
      BY DEF Digested
    <2> QED BY <1>2, <2>1, <2>2, <2>3, ClockStays
  <1>6. \A r, p : Since(r, p)' = Since(r, p) /\ Served(r, p)' = Served(r, p)
    BY <1>2 DEF Since, Served
  <1>7. Before(w)'
    BY <1>2, <1>4, <1>6 DEF Before
  <1>8. Gathered(w)' /\ pc'[w] # "mark"
    BY <1>2 DEF Gathered
  <1>9. \A r \in done' : Ended(r)
    BY <1>2 DEF Digested
  <1>10. \A v \in Workers :
           \/ pc'[v] = pc[v] /\ job'[v] = job[v]
           \/ (Before(v) /\ Gathered(v) /\ (pc[v] = "mark" => Ended(job[v].run)))'
    <2>1. (Before(w) /\ Gathered(w) /\ (pc[w] = "mark" => Ended(job[w].run)))'
      BY <1>7, <1>8
    <2> QED BY <1>2, <2>1
  <1> QED BY <1>2, <1>5, <1>9, <1>10, DigestedFrame

\* The posts are looked up: none to digest ends the run.
LEMMA FindDigested ==
  ASSUME Types, Digested, NEW w \in Workers, findDigestPosts(w)
  PROVE  Digested'
  <1>1. PICK n \in Runs, from \in Nat, ps \in SUBSET posts :
          /\ n = job[w].run /\ from = job[w].from /\ ps = {p \in posts : p >= from}
          /\ pc[w] = "find" /\ pc' = [pc EXCEPT ![w] = IF ps = {} THEN "mark" ELSE "save"]
          /\ job' = [job EXCEPT ![w] = [run |-> n, found |-> now, posts |-> ps]]
    <2>1. job[w].run \in Runs /\ job[w].from \in Nat
      BY DEF findDigestPosts, Types, JobOf
    <2>2. {p \in posts : p >= job[w].from} \in SUBSET posts
      OBVIOUS
    <2> QED BY <2>1, <2>2 DEF findDigestPosts, Goto
  <1>2. /\ pc'[w] = (IF ps = {} THEN "mark" ELSE "save")
        /\ job'[w] = [run |-> n, found |-> now, posts |-> ps]
        /\ \A v \in Workers \ {w} : pc'[v] = pc[v] /\ job'[v] = job[v]
        /\ UNCHANGED <<now, posts, at, digests, messages, done>>
    BY <1>1 DEF findDigestPosts, Types, TypeOK, store
  <1>3. at[n] # 0
    BY <1>1 DEF Digested, Clock
  <1>4. \A r \in Runs, p \in posts : n <= r /\ Since(r, p) => p \in ps \/ Served(r, p)
    <2>1. \A r \in Runs, p \in posts : n <= r /\ Since(r, p) /\ p < from => Served(r, p)
      BY <1>1 DEF Digested, Before
    <2>2. \A p \in posts : p < from \/ p \in ps
      BY <1>1, Times
    <2> QED BY <2>1, <2>2
  <1>5. Clock'
    <2>1. \A r \in done' : at[r] # 0
      BY <1>2 DEF Digested, Clock
    <2>2. now <= now /\ Clock
      BY Times DEF Digested
    <2>3. \A v \in Workers :
            \/ pc'[v] = pc[v] /\ job'[v] = job[v]
            \/ /\ at[job'[v].run] # 0
               /\ pc'[v] = "find" => job'[v].from <= now
               /\ pc'[v] = "save" => job'[v].found <= now
      BY <1>2, <1>3, <2>2
    <2> QED BY <1>2, <2>1, <2>2, <2>3, ClockStays
  <1>6. \A r, p : Since(r, p)' = Since(r, p) /\ Served(r, p)' = Served(r, p)
    BY <1>2 DEF Since, Served
  <1>7. Before(w)'
    BY <1>2 DEF Before
  <1>8. Gathered(w)'
    BY <1>2, <1>4, <1>6 DEF Gathered
  <1>9. ps = {} => Ended(n)
    <2> SUFFICES ASSUME ps = {}, NEW p \in posts, Fallback(n) < p, p < at[n]
                 PROVE  Served(n, p)
      BY DEF Ended
    <2>1. Since(n, p)
      BY DueIsSince DEF Digested
    <2>2. n <= n
      BY DEF Runs
    <2> QED BY <1>4, <2>1, <2>2
  <1>10. (pc[w] = "mark" => Ended(job[w].run))'
    <2>1. Ended(n)' = Ended(n)
      BY <1>2, <1>6 DEF Ended, Fallback
    <2>2. pc'[w] = "mark" => Ended(n)'
      BY <1>2, <1>9, <2>1
    <2> QED BY <1>2, <2>2 DEF Ended
  <1>11. \A r \in done' : Ended(r)
    BY <1>2 DEF Digested
  <1>12. \A v \in Workers :
           \/ pc'[v] = pc[v] /\ job'[v] = job[v]
           \/ (Before(v) /\ Gathered(v) /\ (pc[v] = "mark" => Ended(job[v].run)))'
    <2>1. (Before(w) /\ Gathered(w) /\ (pc[w] = "mark" => Ended(job[w].run)))'
      BY <1>7, <1>8, <1>10
    <2> QED BY <1>2, <2>1
  <1> QED BY <1>2, <1>5, <1>11, <1>12, DigestedFrame

\* The digest is written: it serves what was found, and answers for what came since.
LEMMA CreateDigestDigested ==
  ASSUME Types, Digested, NEW w \in Workers, createDigestPost(w)
  PROVE  Digested'
  <1>1. PICK n \in Runs, found \in Nat, ps \in SUBSET posts, e \in Digest :
          /\ n = job[w].run /\ found = job[w].found /\ ps = job[w].posts
          /\ e = [run |-> n, found |-> found, posts |-> ps, createdAt |-> now + 1]
          /\ digests' = digests \cup {e}
          /\ pc[w] = "save" /\ pc' = [pc EXCEPT ![w] = "mark"] /\ now' = now + 1
    <2>1. job[w].run \in Runs /\ job[w].found \in Nat /\ job[w].posts \in SUBSET posts
      BY DEF createDigestPost, Types, JobOf
    <2>2. [run |-> job[w].run, found |-> job[w].found,
           posts |-> job[w].posts, createdAt |-> now + 1] \in Digest
      BY <2>1 DEF Types, TypeOK, Digest
    <2> QED BY <2>1, <2>2 DEF createDigestPost, Goto
  <1>2. /\ pc'[w] = "mark" /\ now \in Int /\ found <= now
        /\ \A v \in Workers \ {w} : pc'[v] = pc[v]
        /\ UNCHANGED <<posts, at, messages, done, job>>
    BY <1>1 DEF createDigestPost, Types, TypeOK, Digested, Clock
  <1>3. /\ \A r, p : Since(r, p)' = Since(r, p)
        /\ \A r, p : Served(r, p) => Served(r, p)'
        /\ \A r : Ended(r) => Ended(r)'
    BY <1>1, <1>2 DEF Since, Served, Ended, Fallback
  <1>4. Clock'
    <2>1. \A p \in posts : p <= now + 1
      BY <1>2, Times DEF Digested, Clock
    <2>2. \A r \in Runs : at[r] <= now + 1
      BY <1>2, Times DEF Digested, Clock
    <2>3. \A d \in digests' : d.createdAt <= now + 1
      <3>1. \A d \in digests : d.createdAt <= now + 1
        BY <1>2, Times DEF Digested, Clock
      <3>2. e.createdAt <= now + 1
        BY <1>1, <1>2
      <3> QED BY <1>1, <3>1, <3>2
    <2>4. ASSUME NEW v \in Workers
          PROVE  /\ pc'[v] # "idle" => at[job[v].run] # 0
                 /\ pc'[v] = "find" => job[v].from <= now + 1
                 /\ pc'[v] = "save" => job[v].found <= now + 1
      <3>1. JobOf(v)
        BY DEF Types
      <3>2. CASE v = w
        BY <1>1, <1>2, <3>2 DEF Digested, Clock
      <3>3. CASE v # w
        BY <1>2, <3>1, <3>3 DEF Digested, Clock, JobOf
      <3> QED BY <3>2, <3>3
    <2> QED BY <1>1, <1>2, <2>1, <2>2, <2>3, <2>4 DEF Digested, Clock
  <1>5. ASSUME NEW r \in Runs, NEW p \in posts, n <= r, Since(r, p), p <= now
        PROVE  Served(r, p)'
    <2>1. CASE p <= found
      <3>1. p \in ps \/ Served(r, p)
        BY <1>1, <1>5, <2>1 DEF Digested, Gathered
      <3>2. CASE p \in ps
        BY <1>1, <3>2 DEF Served
      <3> QED BY <1>3, <3>1, <3>2
    <2>2. CASE ~(p <= found)
      <3>1. found < p /\ p < now + 1
        BY <1>2, <1>5, <2>2, Times
      <3> QED BY <1>1, <3>1 DEF Served
    <2> QED BY <2>1, <2>2
  <1>6. \A d \in digests' : Past(d)'
    <2>1. \A d \in digests : Past(d)'
      BY <1>2, <1>3 DEF Digested, Past
    <2>2. \A p \in posts : p < now + 1 => p <= now
      BY <1>2, Times
    <2>3. Past(e)'
      BY <1>1, <1>2, <1>3, <1>5, <2>2 DEF Past
    <2> QED BY <1>1, <2>1, <2>3
  <1>7. Ended(n)'
    <2>1. \A p \in posts : Fallback(n) < p /\ p < at[n] => Served(n, p)'
      <3> SUFFICES ASSUME NEW p \in posts, Fallback(n) < p, p < at[n] PROVE Served(n, p)'
        OBVIOUS
      <3>1. Since(n, p)
        BY DueIsSince DEF Digested
      <3>2. p <= now /\ n <= n
        BY <1>2, Times DEF Digested, Clock, Runs
      <3> QED BY <1>5, <3>1, <3>2
    <2> QED BY <1>2, <2>1 DEF Ended, Fallback
  <1>8. ASSUME NEW v \in Workers
        PROVE  (Before(v) /\ Gathered(v) /\ (pc[v] = "mark" => Ended(job[v].run)))'
    <2>1. CASE v = w
      <3>1. Before(v)' /\ Gathered(v)'
        BY <1>2, <2>1 DEF Before, Gathered
      <3>2. job'[v].run = n
        BY <1>1, <1>2, <2>1
      <3>3. (pc[v] = "mark" => Ended(job[v].run))'
        BY <1>7, <3>2 DEF Ended
      <3> QED BY <3>1, <3>3
    <2>2. CASE v # w
      <3>1. pc'[v] = pc[v] /\ job'[v] = job[v]
        BY <1>2, <2>2
      <3>2. Before(v)'
        BY <1>2, <1>3, <3>1 DEF Digested, Before
      <3>3. Gathered(v)'
        BY <1>2, <1>3, <3>1 DEF Digested, Gathered
      <3>4. (pc[v] = "mark" => Ended(job[v].run))'
        <4>1. PICK k \in {job[v].run} : TRUE
          OBVIOUS
        <4>2. pc[v] = "mark" => Ended(k)'
          BY <1>3, <4>1 DEF Digested
        <4> QED BY <1>2, <3>1, <4>1, <4>2 DEF Ended
      <3> QED BY <3>2, <3>3, <3>4
    <2> QED BY <2>1, <2>2
  <1>9. \A r \in done' : Ended(r)'
    BY <1>2, <1>3 DEF Digested
  <1> QED BY <1>4, <1>6, <1>8, <1>9 DEF Digested

\* The steps that read and write neither posts nor digests.
LEMMA OtherwiseDigested ==
  ASSUME Types, Digested, UNCHANGED <<now, posts, at, digests>>,
         messages' \subseteq messages,
         \A r \in done' : Ended(r) /\ at[r] # 0,
         \A v \in Workers :
           \/ pc'[v] = pc[v] /\ job'[v] = job[v]
           \/ pc'[v] = "idle"
           \/ pc'[v] \notin {"find", "save", "mark"} /\ at[job'[v].run] # 0
  PROVE  Digested'
  <1>1. Clock
    BY DEF Digested
  <1>2. Clock'
    BY <1>1, ClockStays
  <1> QED BY <1>2, DigestedFrame

LEMMA DigestedInductive == Types /\ Digested /\ [Next]_vars => Digested'
  <1> SUFFICES ASSUME Types, Digested, [Next]_vars PROVE Digested'
    OBVIOUS
  <1>0. /\ TypeOK /\ DOMAIN job = Workers
        /\ \A r \in done : Ended(r) /\ at[r] # 0
        /\ \A v \in Workers : pc[v] # "idle" => at[job[v].run] # 0
    BY DEF Types, Digested, Clock
  <1>1. CASE CreatePost
    BY <1>1, CreatePostDigested
  <1>2. ASSUME NEW r \in Runs, Schedule(r) PROVE Digested'
    BY <1>2, ScheduleDigested
  <1>3. ASSUME NEW r \in Runs, ExpireLock(r) PROVE Digested'
    BY <1>0, <1>3, OtherwiseDigested DEF ExpireLock, store
  <1>4. ASSUME NEW w \in Workers, NEW r \in Runs, CheckDone(w, r) PROVE Digested'
    <2>1. /\ UNCHANGED <<now, posts, at, digests, done>> /\ messages' \subseteq messages
          /\ at[r] # 0
      BY <1>4 DEF CheckDone, store, Digested, Clock
    <2>2. \A v \in Workers :
            \/ pc'[v] = pc[v] /\ job'[v] = job[v]
            \/ pc'[v] = "lock" /\ at[job'[v].run] # 0
      <3>1. CASE r \in done
        BY <1>4, <3>1 DEF CheckDone
      <3>2. CASE r \notin done
        <4>1. pc' = [pc EXCEPT ![w] = "lock"] /\ job' = [job EXCEPT ![w] = [run |-> r]]
          BY <1>4, <3>2 DEF CheckDone, Goto
        <4> QED BY <1>0, <2>1, <4>1 DEF TypeOK
      <3> QED BY <3>1, <3>2
    <2> QED BY <1>0, <2>1, <2>2, OtherwiseDigested
  <1>5. ASSUME NEW w \in Workers, TakeLock(w) PROVE Digested'
    <2>1. /\ UNCHANGED <<now, posts, at, digests, done, messages, job>>
          /\ pc[w] = "lock" /\ pc' = [pc EXCEPT ![w] = "window"]
      BY <1>5 DEF TakeLock, Goto, store
    <2>2. at[job'[w].run] # 0
      BY <1>0, <2>1
    <2>3. \A v \in Workers :
            \/ pc'[v] = pc[v] /\ job'[v] = job[v]
            \/ pc'[v] = "window" /\ at[job'[v].run] # 0
      <3>1. pc'[w] = "window" /\ \A v \in Workers \ {w} : pc'[v] = pc[v]
        BY <1>0, <2>1 DEF TypeOK
      <3> QED BY <2>1, <2>2, <3>1
    <2> QED BY <1>0, <2>1, <2>3, OtherwiseDigested
  <1>6. ASSUME NEW w \in Workers, LockBusy(w) \/ Release(w) \/ Fail(w) \/ Crash(w) PROVE Digested'
    <2>1. /\ UNCHANGED <<now, posts, at, digests, done>> /\ messages' \subseteq messages
          /\ Stop(w)
      BY <1>6 DEF LockBusy, Release, Fail, Crash, store
    <2>2. \A v \in Workers :
            \/ pc'[v] = pc[v] /\ job'[v] = job[v]
            \/ pc'[v] = "idle"
      BY <1>0, <2>1 DEF Stop, Goto, TypeOK
    <2> QED BY <1>0, <2>1, <2>2, OtherwiseDigested
  <1>7. ASSUME NEW w \in Workers, ReadPrevious(w) PROVE Digested'
    BY <1>7, ReadPreviousDigested
  <1>8. ASSUME NEW w \in Workers, findDigestPosts(w) PROVE Digested'
    BY <1>8, FindDigested
  <1>9. ASSUME NEW w \in Workers, createDigestPost(w) PROVE Digested'
    BY <1>9, CreateDigestDigested
  <1>10. ASSUME NEW w \in Workers, MarkDone(w) PROVE Digested'
    <2>1. /\ UNCHANGED <<now, posts, at, digests, messages, job>>
          /\ pc[w] = "mark" /\ pc' = [pc EXCEPT ![w] = "release"]
          /\ done' = done \cup {job[w].run}
      BY <1>10 DEF MarkDone, Goto, store
    <2>2. Ended(job[w].run) /\ at[job[w].run] # 0
      BY <1>0, <2>1 DEF Digested
    <2>3. \A r \in done' : Ended(r) /\ at[r] # 0
      BY <1>0, <2>1, <2>2
    <2>4. \A v \in Workers :
            \/ pc'[v] = pc[v] /\ job'[v] = job[v]
            \/ pc'[v] = "release" /\ at[job'[v].run] # 0
      <3>1. pc'[w] = "release" /\ \A v \in Workers \ {w} : pc'[v] = pc[v]
        BY <1>0, <2>1 DEF TypeOK
      <3> QED BY <2>1, <2>2, <3>1
    <2> QED BY <2>1, <2>3, <2>4, OtherwiseDigested
  <1>11. CASE Aside \/ UNCHANGED vars
    BY <1>0, <1>11, AsideFrame, OtherwiseDigested DEF vars, store
  <1> QED
    BY <1>1, <1>2, <1>3, <1>4, <1>5, <1>6, <1>7, <1>8, <1>9, <1>10, <1>11 DEF Next, Work, Aside

\* A run that is done leaves no post of its time without a digest that has it or
\* was being written when it came, unless a later run was digested first: however
\* often the run is delivered, interrupted or executed by two workers whose lock
\* expired (getDigestWindowStart, createDigestPost).
THEOREM DoneIsDigested == Spec => []PostsAreDigested
  <1>1. Init => Digested
    <2> SUFFICES ASSUME Init PROVE Digested
      OBVIOUS
    <2>1. posts = {} /\ digests = {} /\ messages = {} /\ done = {} /\ now = 0
          /\ (\A r \in Runs : at[r] = 0) /\ \A w \in Workers : pc[w] = "idle"
      BY DEF Init
    <2>2. Clock
      BY <2>1 DEF Clock
    <2>3. \A w \in Workers : Before(w) /\ Gathered(w)
      BY <2>1 DEF Before, Gathered
    <2> QED BY <2>1, <2>2, <2>3 DEF Digested
  <1>2. Digested => PostsAreDigested
    BY DEF Digested, Ended, Served, PostsAreDigested
  <1> QED BY <1>1, <1>2, AlwaysTypes, DigestedInductive, PTL DEF Spec
=============================================================================
