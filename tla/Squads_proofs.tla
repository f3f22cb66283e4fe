----------------------------- MODULE Squads_proofs -----------------------------
(* What the members and the queue of a squad keep to, for any   *)
(* number of users, submissions, requests and handlers.                    *)
EXTENDS Squads, FiniteSetTheorems, TLAPS

Actors == Requests \cup Workers

-----------------------------------------------------------------------------
(* Types.                                                                  *)

LEMMA WorkFacts ==
  /\ NoWork \in Work
  /\ \A v \in Users, new \in Roles \cup {"none"}, barred \in BOOLEAN :
       [NoWork EXCEPT !.users = {v}, !.role = new, !.barred = barred] \in Work
  /\ \A new \in Inputs : [NoWork EXCEPT !.gates = {new}] \in Work
  /\ \A S \in SUBSET Submissions, status \in {"none", "approved", "rejected"} :
       [NoWork EXCEPT !.submissions = S, !.status = status] \in Work
  /\ \A s \in Submissions, c \in Contents : [NoWork EXCEPT !.submissions = {s}, !.content = c] \in Work
BY DEF NoWork, Work, Contents

\* A queue of messages, when one is put behind or before it or is taken.
LEMMA Messages ==
  ASSUME NEW q \in Seq(Contents)
  PROVE  /\ Len(q) \in Nat /\ q = <<>> => Len(q) = 0
         /\ \A c \in Contents : Append(q, c) \in Seq(Contents) /\ Len(Append(q, c)) = Len(q) + 1
         /\ \A c \in Contents : <<c>> \o q \in Seq(Contents) /\ Len(<<c>> \o q) = Len(q) + 1
         /\ q # <<>> => Head(q) \in Contents /\ Tail(q) \in Seq(Contents) /\ Len(q) > 0 /\ Len(Tail(q)) = Len(q) - 1
OBVIOUS

LEMMA StartTypes ==
  ASSUME TypeOK, NEW r \in Actors, NEW place \in Places, NEW what \in Work, Start(r, place, what)
  PROVE  pc' \in [Actors -> Places] /\ work' \in [Actors -> Work]
BY DEF TypeOK, Start, Goto, Actors

LEMMA EndTypes ==
  ASSUME TypeOK, NEW r \in Actors, End(r)
  PROVE  pc' \in [Actors -> Places] /\ work' \in [Actors -> Work]
BY WorkFacts DEF TypeOK, End, Goto, Actors, Places

LEMMA GotoTypes ==
  ASSUME TypeOK, NEW r \in Actors, NEW place \in Places, Goto(r, place)
  PROVE  pc' \in [Actors -> Places]
BY DEF TypeOK, Goto, Actors

LEMMA MergedFacts ==
  ASSUME NEW old \in Gates, NEW new \in Inputs
  PROVE  Merged(old, new) \in Gates
<1>1. CASE new \in [moderation : BOOLEAN] BY <1>1 DEF Merged, Gates
<1>2. CASE new \in [reputation : BOOLEAN] BY <1>2 DEF Merged, Gates
<1>3. CASE new \in Gates BY <1>3 DEF Merged, Gates
<1> QED BY <1>1, <1>2, <1>3 DEF Inputs

LEMMA SetStatusTypes ==
  ASSUME TypeOK, NEW S \in SUBSET Submissions, NEW status \in {"none", "approved", "rejected"},
         SetStatus(S, status)
  PROVE  queue' \in [Submissions -> Statuses] /\ approvals' \in [Submissions -> Seq(Contents)]
<1>1. queue' \in [Submissions -> Statuses] BY DEF SetStatus, TypeOK, Statuses
<1>2. ASSUME NEW s \in Submissions PROVE Append(approvals[s], content[s]) \in Seq(Contents)
  BY Messages DEF TypeOK
<1> QED BY <1>1, <1>2 DEF SetStatus, TypeOK

LEMMA Counts ==
  ASSUME TypeOK, NEW s \in Submissions
  PROVE  Len(approvals[s]) \in Nat /\ posts[s] \in Nat
<1>1. approvals[s] \in Seq(Contents) /\ posts[s] \in 0..2 BY DEF TypeOK
<1>2. Len(approvals[s]) \in Nat BY <1>1, Messages
<1>3. posts[s] \in Nat BY ONLY <1>1
<1> QED BY <1>2, <1>3

LEMMA SetRoleTypes ==
  ASSUME TypeOK, NEW r \in Requests, NEW u \in Users, NEW new \in Roles \cup {"none"}, SetRole(r, u, new)
  PROVE  TypeOK'
<1>1. role' \in [Users -> Roles \cup {"none"}] BY DEF SetRole, TypeOK
<1> QED BY <1>1, EndTypes DEF SetRole, TypeOK, Actors, queueVars, histVars, boundVars

LEMMA ChangeTypes ==
  ASSUME TypeOK, NEW r \in Requests, NEW u \in Users, NEW v \in Users,
         NEW place \in Places, NEW new \in Roles \cup {"none"}, Change(r, u, v, place, new)
  PROVE  TypeOK'
<1>1. [NoWork EXCEPT !.users = {v}, !.role = new,
                       !.barred = (u = v /\ role[v] = "blocked")] \in Work
  BY WorkFacts DEF TypeOK
<1>2. pc' \in [Actors -> Places] /\ work' \in [Actors -> Work] BY <1>1, StartTypes DEF Change, Actors
<1>3. changes' \in 0..MaxChanges BY BoundAssumption DEF Change, TypeOK
<1> QED BY <1>2, <1>3 DEF Change, TypeOK, Actors, squadVars, queueVars

LEMMA OnTypes ==
  ASSUME TypeOK, NEW r \in Requests, NEW place \in Places, NEW S \in SUBSET Submissions,
         NEW status \in {"none", "approved", "rejected"}, BeginOn(r, place, S, status),
         changes' \in 0..MaxChanges
  PROVE  TypeOK'
<1>1. pc' \in [Actors -> Places] /\ work' \in [Actors -> Work]
  BY WorkFacts, StartTypes DEF BeginOn, Actors
<1> QED BY <1>1 DEF BeginOn, TypeOK, Actors, squadVars, queueVars

\* A step of a request that changes members or starts to.
LEMMA MemberTypes ==
  ASSUME TypeOK, NEW r \in Requests, NEW u \in Users, NEW v \in Users, NEW new \in Roles \cup {"owner"},
         \/ BeginDemote(r, u) \/ BeginLeave(r, u) \/ BeginJoin(r, u) \/ BeginUnblock(r, u, v)
         \/ BeginUpdateRole(r, u, v, new)
         \/ ReadOwnRole(r, u) \/ demoteSelf(r, u) \/ updateMemberRole(r, u)
         \/ removeSourceMember(r, u) \/ joinSource(r, u)
  PROVE  TypeOK'
<1>0. {"own", "remove", "join", "role"} \subseteq Places BY DEF Places
<1>1. CASE BeginDemote(r, u) BY <1>0, <1>1, ChangeTypes DEF BeginDemote
<1>2. CASE BeginLeave(r, u) BY <1>0, <1>2, ChangeTypes DEF BeginLeave
<1>3. CASE BeginJoin(r, u) BY <1>0, <1>3, ChangeTypes DEF BeginJoin
<1>4. CASE BeginUnblock(r, u, v) BY <1>0, <1>4, ChangeTypes DEF BeginUnblock
<1>5. CASE BeginUpdateRole(r, u, v, new)
  <2>1. new \in Roles BY <1>5 DEF BeginUpdateRole, ValidRole, Roles
  <2> QED BY <1>0, <1>5, <2>1, ChangeTypes DEF BeginUpdateRole
<1>6. CASE ReadOwnRole(r, u)
  <2>1. pc' \in [Actors -> Places] /\ work' \in [Actors -> Work]
    <3>1. CASE IsModerator(u)
      BY <1>6, <3>1 DEF ReadOwnRole, Goto, TypeOK, Actors, Places
    <3> QED BY <1>6, <3>1, EndTypes DEF ReadOwnRole, Actors
  <2> QED BY <1>6, <2>1 DEF ReadOwnRole, TypeOK, Actors, squadVars, queueVars, histVars, boundVars
<1>8. CASE demoteSelf(r, u) BY <1>8, SetRoleTypes DEF demoteSelf, Roles
<1>9. CASE updateMemberRole(r, u)
  <2>1. work[r].role \in Roles \cup {"none"} BY DEF TypeOK, Work
  <2> QED BY <1>9, <2>1, SetRoleTypes DEF updateMemberRole
<1>10. CASE removeSourceMember(r, u) BY <1>10, SetRoleTypes DEF removeSourceMember
<1>11. CASE joinSource(r, u)
  <2>1. role' \in [Users -> Roles \cup {"none"}] BY <1>11 DEF joinSource, TypeOK, Roles
  <2> QED BY <1>11, <2>1, EndTypes DEF joinSource, TypeOK, Actors, queueVars, histVars, boundVars
<1> QED BY <1>1, <1>2, <1>3, <1>4, <1>5, <1>6, <1>8, <1>9, <1>10, <1>11

LEMMA LockTypes ==
  ASSUME TypeOK, NEW r \in Requests, LockAdmins(r)
  PROVE  TypeOK'
<1>1. pc' \in [Actors -> Places] /\ work' \in [Actors -> Work]
  <2>1. CASE Cardinality(Admins) <= 1 BY <2>1, EndTypes DEF LockAdmins, Actors
  <2>2. CASE ~(Cardinality(Admins) <= 1)
    <3>1. [work[r] EXCEPT !.rows = Admins] \in Work BY DEF TypeOK, Work, Admins
    <3>2. work' = [work EXCEPT ![r] = [work[r] EXCEPT !.rows = Admins]]
      BY <2>2 DEF LockAdmins
    <3> QED BY <2>2, <3>1, <3>2, GotoTypes DEF LockAdmins, TypeOK, Actors, Places
  <2> QED BY <2>1, <2>2
<1> QED BY <1>1 DEF LockAdmins, TypeOK, Actors, squadVars, queueVars, histVars, boundVars

LEMMA GateTypes ==
  ASSUME TypeOK, NEW r \in Requests, NEW u \in Users, NEW new \in Inputs, BeginEdit(r, u, new)
  PROVE  TypeOK'
<1>1. [NoWork EXCEPT !.gates = {new}] \in Work BY WorkFacts DEF TypeOK
<1>2. pc' \in [Actors -> Places] /\ work' \in [Actors -> Work]
  BY <1>1, StartTypes DEF BeginEdit, Actors, Places
<1>3. changes' \in 0..MaxChanges BY BoundAssumption DEF BeginEdit, TypeOK
<1> QED BY <1>2, <1>3 DEF BeginEdit, TypeOK, Actors, squadVars, queueVars

LEMMA EditTypes ==
  ASSUME TypeOK, NEW r \in Requests, editSquad(r)
  PROVE  TypeOK'
<1>1. work[r].gates \subseteq Inputs BY DEF TypeOK, Work
<1>2. gates' \in Gates BY <1>1, MergedFacts DEF editSquad, TypeOK
<1>3. opened' \in Nat BY DEF editSquad, TypeOK
<1> QED BY <1>2, <1>3, EndTypes DEF editSquad, TypeOK, Actors, histVars, boundVars

LEMMA QueueTypes ==
  ASSUME TypeOK, NEW r \in Requests, NEW s \in Submissions,
         \/ BeginSubmit(r, s) \/ BeginRevise(r, s) \/ BeginDiscard(r, s)
         \/ createSourcePostModeration(r, s) \/ editSourcePostModeration(r, s)
         \/ deleteSourcePostModeration(r, s)
  PROVE  TypeOK'
<1>0. {"submit", "revise", "discard", "moderate"} \subseteq Places BY DEF Places
<1>1. CASE BeginSubmit(r, s) BY <1>0, <1>1, OnTypes DEF BeginSubmit, TypeOK
<1>2. CASE BeginRevise(r, s)
  <2>1. changes' \in 0..MaxChanges BY <1>2, BoundAssumption DEF BeginRevise, TypeOK
  <2> QED BY <1>0, <1>2, <2>1, OnTypes DEF BeginRevise
<1>3. CASE BeginDiscard(r, s) BY <1>0, <1>3, OnTypes DEF BeginDiscard, TypeOK
<1>5. CASE createSourcePostModeration(r, s)
  <2>1. queue' \in [Submissions -> Statuses] /\ content' \in [Submissions -> Contents]
    BY <1>5 DEF createSourcePostModeration, Validated, TypeOK, Statuses
  <2> QED BY <1>5, <2>1, EndTypes
         DEF createSourcePostModeration, TypeOK, Actors, squadVars, histVars, boundVars
<1>6. CASE editSourcePostModeration(r, s)
  <2>1. queue' \in [Submissions -> Statuses] /\ content' \in [Submissions -> Contents]
    BY <1>6 DEF editSourcePostModeration, Validated, TypeOK, Statuses
  <2>2. reopened' \subseteq Submissions BY <1>6 DEF editSourcePostModeration, TypeOK
  <2> QED BY <1>6, <2>1, <2>2, EndTypes
         DEF editSourcePostModeration, TypeOK, Actors, squadVars, boundVars
<1>7. CASE deleteSourcePostModeration(r, s)
  <2>1. queue' \in [Submissions -> Statuses] /\ content' \in [Submissions -> Contents]
    BY <1>7 DEF deleteSourcePostModeration, TypeOK, Statuses, Contents
  <2> QED BY <1>7, <2>1, EndTypes
         DEF deleteSourcePostModeration, TypeOK, Actors, squadVars, histVars, boundVars
<1> QED BY <1>1, <1>2, <1>3, <1>5, <1>6, <1>7

LEMMA DecisionTypes ==
  ASSUME TypeOK, NEW r \in Requests, moderateSourcePosts(r)
  PROVE  TypeOK'
<1>1. queue' \in [Submissions -> Statuses] /\ approvals' \in [Submissions -> Seq(Contents)]
  <2> DEFINE waiting == {t \in work[r].submissions : queue[t] = "pending"}
  <2>1. work[r] \in Work BY DEF TypeOK
  <2>2. waiting \in SUBSET Submissions /\ work[r].status \in {"none", "approved", "rejected"}
    BY <2>1 DEF Work
  <2>3. SetStatus(waiting, work[r].status) BY DEF moderateSourcePosts
  <2> HIDE DEF waiting
  <2> QED BY <2>2, <2>3, SetStatusTypes
<1> QED BY <1>1, EndTypes
       DEF moderateSourcePosts, TypeOK, Actors, squadVars, histVars, boundVars

LEMMA ModerateTypes ==
  ASSUME TypeOK, NEW r \in Requests, NEW u \in Users, NEW S \in SUBSET Submissions,
         NEW status \in {"approved", "rejected"}, BeginModerate(r, u, S, status)
  PROVE  TypeOK'
<1>1. "moderate" \in Places BY DEF Places
<1>2. changes' \in 0..MaxChanges BY DEF BeginModerate, TypeOK
<1> QED BY <1>1, <1>2, OnTypes DEF BeginModerate

LEMMA ReturnTypes ==
  ASSUME TypeOK, NEW w \in Workers, Return(w)
  PROVE  /\ approvals' \in [Submissions -> Seq(Contents)] /\ opened' \in Nat /\ posts' = posts
         /\ pc' \in [Actors -> Places] /\ work' \in [Actors -> Work]
<1>1. work[w].content \in Contents BY DEF TypeOK, Work
<1>2. ASSUME NEW s \in Submissions PROVE <<work[w].content>> \o approvals[s] \in Seq(Contents)
  BY <1>1, Messages DEF TypeOK
<1>3. approvals' \in [Submissions -> Seq(Contents)] /\ opened' \in Nat /\ posts' = posts
  BY <1>2 DEF Return, TypeOK
<1> QED BY <1>3, EndTypes DEF Return, Actors

LEMMA PublishTypes ==
  ASSUME TypeOK, NEW w \in Workers, NEW s \in Submissions,
         BeginPublish(w, s) \/ processApprovedModeratedPost(w, s)
  PROVE  TypeOK'
<1>0. {"publish", "open", "ack"} \subseteq Places BY DEF Places
<1>1. CASE BeginPublish(w, s)
  <2>1. Head(approvals[s]) \in Contents /\ Tail(approvals[s]) \in Seq(Contents)
    BY <1>1, Messages DEF BeginPublish, TypeOK
  <2>2. approvals' \in [Submissions -> Seq(Contents)] BY <1>1, <2>1 DEF BeginPublish, TypeOK
  <2>3. pc' \in [Actors -> Places] /\ work' \in [Actors -> Work]
    BY <1>0, <1>1, <2>1, WorkFacts, StartTypes DEF BeginPublish, Take, Actors
  <2> QED BY <1>1, <2>2, <2>3 DEF BeginPublish, Take, TypeOK, Actors, squadVars, histVars, boundVars
<1>3. CASE processApprovedModeratedPost(w, s)
  <2>1. /\ approvals' \in [Submissions -> Seq(Contents)] /\ opened' \in Nat /\ posts' \in [Submissions -> 0..2]
        /\ pc' \in [Actors -> Places] /\ work' \in [Actors -> Work]
    <3>1. CASE CreatePost(w, s)
      <4> DEFINE next == IF posts[s] = 2 THEN 2 ELSE posts[s] + 1
      <4>0. posts \in [Submissions -> 0..2] BY DEF TypeOK
      <4>2. posts[s] \in 0..2 BY <4>0
      <4>3. next \in 0..2 BY <4>2
      <4>4. posts' = [posts EXCEPT ![s] = next] BY <3>1 DEF CreatePost
      <4> HIDE DEF next
      <4>1. posts' \in [Submissions -> 0..2] BY <4>0, <4>3, <4>4
      <4> QED BY <1>0, <3>1, <4>1, GotoTypes DEF CreatePost, TypeOK, Actors
    <3>2. CASE Dismiss(w) BY <1>0, <3>2, GotoTypes DEF Dismiss, TypeOK, Actors
    <3>3. CASE Refuse(w) BY <3>3, ReturnTypes DEF Refuse, TypeOK
    <3> QED BY <1>3, <3>1, <3>2, <3>3 DEF processApprovedModeratedPost
  <2> QED BY <1>3, <2>1
         DEF processApprovedModeratedPost, TypeOK, Actors, squadVars, histVars, boundVars
<1> QED BY <1>1, <1>3

LEMMA HandlerTypes ==
  ASSUME TypeOK, NEW w \in Workers, BeginOpen(w) \/ approvePending(w) \/ Ack(w) \/ Fail(w)
  PROVE  TypeOK'
<1>0. {"publish", "open", "ack"} \subseteq Places BY DEF Places
<1>2. CASE BeginOpen(w)
  <2>1. opened' \in Nat BY <1>2 DEF BeginOpen, TypeOK
  <2>2. pc' \in [Actors -> Places] /\ work' \in [Actors -> Work]
    BY <1>0, <1>2, WorkFacts, StartTypes DEF BeginOpen, Take, Actors
  <2> QED BY <1>2, <2>1, <2>2 DEF BeginOpen, Take, TypeOK, Actors, squadVars, histVars, boundVars
<1>4. CASE approvePending(w)
  <2>1. queue' \in [Submissions -> Statuses] /\ approvals' \in [Submissions -> Seq(Contents)]
    <3> DEFINE waiting == {t \in Submissions : queue[t] = "pending"}
    <3>1. waiting \in SUBSET Submissions OBVIOUS
    <3>2. SetStatus(waiting, "approved") BY <1>4 DEF approvePending
    <3> HIDE DEF waiting
    <3> QED BY <3>1, <3>2, SetStatusTypes
  <2> QED BY <1>0, <1>4, <2>1, GotoTypes
         DEF approvePending, TypeOK, Actors, squadVars, histVars, boundVars
<1>5. CASE Ack(w)
  BY <1>5, EndTypes DEF Ack, TypeOK, Actors, squadVars, queueVars, histVars, boundVars
<1>6. CASE Fail(w)
  <2>1. failures' \in 0..MaxFailures BY <1>6, BoundAssumption DEF Fail, Failing, TypeOK
  <2>2. repeated' \subseteq Submissions
    <3>1. work[w].submissions \subseteq Submissions BY DEF TypeOK, Work
    <3> QED BY <1>6, <3>1 DEF Fail, Failing, TypeOK
  <2>3. /\ approvals' \in [Submissions -> Seq(Contents)] /\ opened' \in Nat
        /\ pc' \in [Actors -> Places] /\ work' \in [Actors -> Work]
    BY <1>6, ReturnTypes DEF Fail
  <2> QED BY <1>6, <2>1, <2>2, <2>3 DEF Fail, Failing, TypeOK, Actors, squadVars
<1> QED BY <1>2, <1>4, <1>5, <1>6

LEMMA TypesStep == TypeOK /\ [Next]_vars => TypeOK'
<1> SUFFICES ASSUME TypeOK, [Next]_vars PROVE TypeOK' OBVIOUS
<1>1. CASE UNCHANGED vars
  BY <1>1 DEF TypeOK, vars, squadVars, queueVars, histVars, boundVars
<1>2. CASE Next
  <2>1. ASSUME NEW r \in Requests, Begin(r) PROVE TypeOK'
    <3>1. PICK u \in Users :
            \/ BeginDemote(r, u) \/ BeginLeave(r, u) \/ BeginJoin(r, u)
            \/ \E v \in Users : BeginUnblock(r, u, v) \/ \E new \in Roles \cup {"owner"} : BeginUpdateRole(r, u, v, new)
            \/ \E new \in Inputs : BeginEdit(r, u, new)
            \/ \E S \in SUBSET Submissions, status \in {"approved", "rejected"} : BeginModerate(r, u, S, status)
      BY <2>1 DEF Begin
    <3>2. CASE \E v \in Users : BeginUnblock(r, u, v) BY <3>2, MemberTypes
    <3>3. CASE \E v \in Users, new \in Roles \cup {"owner"} : BeginUpdateRole(r, u, v, new)
      BY <3>3, MemberTypes
    <3>4. CASE BeginDemote(r, u) \/ BeginLeave(r, u) \/ BeginJoin(r, u) BY <3>4, MemberTypes
    <3>5. CASE \E new \in Inputs : BeginEdit(r, u, new) BY <3>5, GateTypes
    <3>6. CASE \E S \in SUBSET Submissions, status \in {"approved", "rejected"} : BeginModerate(r, u, S, status)
      BY <3>6, ModerateTypes
    <3> QED BY <3>1, <3>2, <3>3, <3>4, <3>5, <3>6
  <2>2. ASSUME NEW r \in Requests, BeginAuthor(r) PROVE TypeOK' BY <2>2, QueueTypes DEF BeginAuthor
  <2>3. ASSUME NEW r \in Requests, Step(r) PROVE TypeOK' 
    <3>1. CASE \E u \in Users : ReadOwnRole(r, u) \/ demoteSelf(r, u) \/ updateMemberRole(r, u)
                                \/ removeSourceMember(r, u) \/ joinSource(r, u)
      BY <3>1, MemberTypes DEF Roles
    <3>2. CASE LockAdmins(r) \/ editSquad(r) \/ moderateSourcePosts(r)
      BY <3>2, LockTypes, EditTypes, DecisionTypes
    <3>3. CASE \E s \in Submissions : createSourcePostModeration(r, s)
                 \/ editSourcePostModeration(r, s) \/ deleteSourcePostModeration(r, s)
      BY <3>3, QueueTypes
    <3> QED BY <2>3, <3>1, <3>2, <3>3 DEF Step
  <2>4. ASSUME NEW w \in Workers, Handle(w) \/ Fail(w) PROVE TypeOK' 
    BY <2>4, PublishTypes, HandlerTypes DEF Handle
  <2> QED BY <1>2, <2>1, <2>2, <2>3, <2>4 DEF Next
<1> QED BY <1>1, <1>2

LEMMA TypesInit == Init => TypeOK
<1> SUFFICES ASSUME Init PROVE TypeOK OBVIOUS
<1>1. role \in [Users -> Roles \cup {"none"}] /\ gates \in Gates
  BY MemberAssumption DEF Init, Gates
<1>2. /\ queue \in [Submissions -> Statuses] /\ content \in [Submissions -> Contents]
      /\ approvals \in [Submissions -> Seq(Contents)] /\ opened \in Nat
      /\ posts \in [Submissions -> 0..2]
  BY DEF Init, Statuses, Contents
<1>3. pc \in [Actors -> Places] /\ work \in [Actors -> Work]
  BY WorkFacts DEF Init, Places, Actors
<1>4. changes \in 0..MaxChanges /\ failures \in 0..MaxFailures
  BY BoundAssumption DEF Init
<1> QED BY <1>1, <1>2, <1>3, <1>4 DEF Init, TypeOK, Actors

\* Every variable of Squads has its type.
THEOREM TypeCorrect == Spec => []TypeOK
BY TypesInit, TypesStep, PTL DEF Spec

-----------------------------------------------------------------------------
(* The four kinds of steps, and what each leaves alone.                    *)

BeginMember(r) ==
  \E u \in Users :
    \/ BeginDemote(r, u) \/ BeginLeave(r, u) \/ BeginJoin(r, u)
    \/ \E v \in Users : BeginUnblock(r, u, v) \/ \E new \in Roles \cup {"owner"} : BeginUpdateRole(r, u, v, new)

StepMember(r) ==
  \/ LockAdmins(r)
  \/ \E u \in Users : \/ ReadOwnRole(r, u) \/ demoteSelf(r, u) \/ updateMemberRole(r, u)
                     \/ removeSourceMember(r, u) \/ joinSource(r, u)

GateAct(r) == editSquad(r) \/ \E u \in Users, new \in Inputs : BeginEdit(r, u, new)

QueueAct(r) ==
  \/ BeginAuthor(r) \/ moderateSourcePosts(r)
  \/ \E u \in Users, S \in SUBSET Submissions, status \in {"approved", "rejected"} : BeginModerate(r, u, S, status)
  \/ \E s \in Submissions : \/ createSourcePostModeration(r, s) \/ editSourcePostModeration(r, s)
                           \/ deleteSourcePostModeration(r, s)

HandlerAct(w) == Handle(w) \/ Fail(w)

LEMMA Acts ==
  ASSUME Next
  PROVE  \/ \E r \in Requests : BeginMember(r) \/ StepMember(r) \/ GateAct(r) \/ QueueAct(r)
         \/ \E w \in Workers : HandlerAct(w)
BY DEF Next, Begin, Step, BeginMember, StepMember, GateAct, QueueAct, HandlerAct

MemberPlaces == {"own", "count", "demote", "step down", "role", "remove", "join"}
QueuePlaces == {"submit", "revise", "discard", "moderate"}
HandlerPlaces == {"publish", "open", "ack"}

\* Only the actor itself moves.
Moves(r, S) ==
  /\ pc[r] \in S \cup {"idle"} /\ pc'[r] \in S \cup {"idle"}
  /\ \A q \in Actors \ {r} : pc'[q] = pc[q] /\ work'[q] = work[q]

LEMMA MemberFrame ==
  ASSUME TypeOK, NEW r \in Requests, BeginMember(r) \/ StepMember(r)
  PROVE  Moves(r, MemberPlaces) /\ UNCHANGED <<gates, queueVars, reopened, repeated>>
<1>1. CASE BeginMember(r)
  <2>1. \E u, v \in Users, place \in MemberPlaces, new \in Roles \cup {"none", "owner"} :
          Change(r, u, v, place, new)
    BY <1>1 DEF BeginMember, BeginDemote, BeginLeave, BeginJoin, BeginUnblock, BeginUpdateRole, MemberPlaces
  <2> QED BY <2>1 DEF Change, Start, Goto, TypeOK, Moves, Actors, squadVars
<1>2. CASE StepMember(r)
  BY <1>2 DEF StepMember, LockAdmins, ReadOwnRole, demoteSelf, updateMemberRole, removeSourceMember,
     joinSource, SetRole, End, Goto, TypeOK, Moves, Actors, MemberPlaces, squadVars, histVars
<1> QED BY <1>1, <1>2

LEMMA GateFrame ==
  ASSUME TypeOK, NEW r \in Requests, GateAct(r)
  PROVE  Moves(r, {"settings"}) /\ UNCHANGED <<role, queue, content, approvals, posts, reopened, repeated>>
BY DEF GateAct, editSquad, BeginEdit, Start, End, Goto, TypeOK, Moves, Actors, squadVars, queueVars, histVars

LEMMA QueueFrame ==
  ASSUME TypeOK, NEW r \in Requests, QueueAct(r)
  PROVE  Moves(r, QueuePlaces) /\ UNCHANGED <<squadVars, opened, posts, repeated>>
BY DEF QueueAct, BeginAuthor, BeginSubmit, BeginRevise, BeginDiscard, BeginModerate, BeginOn,
   createSourcePostModeration, editSourcePostModeration, deleteSourcePostModeration,
   moderateSourcePosts, Start, End, Goto, TypeOK, Moves, Actors, QueuePlaces, queueVars, histVars

LEMMA HandlerFrame ==
  ASSUME TypeOK, NEW w \in Workers, HandlerAct(w)
  PROVE  Moves(w, HandlerPlaces) /\ UNCHANGED <<squadVars, reopened>>
BY DEF HandlerAct, Handle, BeginPublish, BeginOpen, Take, processApprovedModeratedPost, CreatePost,
   Dismiss, Refuse, Return, approvePending, Ack, Fail, Failing, Start, End, Goto, TypeOK, Moves, Actors, HandlerPlaces, histVars

-----------------------------------------------------------------------------
(* Members.  A request that holds the admins' rows knows an admin besides  *)
(* the one who steps down, and no request of a blocked user writes a role. *)

Locked(r) ==
  pc[r] = "step down" => \A u \in work[r].users : \E v \in work[r].rows \ {u} : role[v] = "admin"

Asked(r) ==
  pc[r] \in MemberPlaces \ {"join"} => ~work[r].barred

MemberInv == TypeOK /\ \A r \in Requests : Locked(r) /\ Asked(r)

\* A set that counts more than one has another element than any given one.
LEMMA AnotherOne ==
  ASSUME NEW S, ~(Cardinality(S) <= 1), NEW u
  PROVE  \E v \in S : v # u
<1>1. CASE S = {} BY <1>1, FS_EmptySet
<1>2. CASE S = {u}
  <2>1. Cardinality({u}) = 1 BY FS_Singleton
  <2> QED BY <1>2, <2>1
<1> QED BY <1>1, <1>2

\* What a write of a role leaves alone.
LEMMA RoleFrame ==
  ASSUME TypeOK, NEW r \in Requests, NEW u \in Users, NEW new \in Roles \cup {"none"},
         SetRole(r, u, new)
  PROVE  /\ \A v \in Users \ {u} : role'[v] = role[v]
         /\ \A q \in Requests \ {r} : pc[q] = "step down" => u \notin work[q].rows
<1>1. \A v \in Users \ {u} : role'[v] = role[v] BY DEF SetRole, TypeOK
<1>2. ASSUME NEW q \in Requests \ {r}, pc[q] = "step down", u \in work[q].rows PROVE FALSE
  BY <1>2 DEF SetRole, Free, RowsOf
<1> QED BY <1>1, <1>2

\* The steps that write a role, and the one that only adds a missing one.
LEMMA RoleWrites ==
  ASSUME TypeOK, NEW r \in Requests, StepMember(r)
  PROVE  \/ UNCHANGED role
         \/ \E u \in Users : joinSource(r, u)
         \/ \E u \in Users, new \in Roles \cup {"none"} :
              /\ pc[r] \in MemberPlaces \ {"join"} /\ u \in work[r].users
              /\ pc[r] = "step down" => new = "member"
              /\ SetRole(r, u, new)
<1>1. CASE LockAdmins(r) BY <1>1 DEF LockAdmins, squadVars
<1>2. ASSUME NEW u \in Users, ReadOwnRole(r, u) PROVE UNCHANGED role BY <1>2 DEF ReadOwnRole, squadVars
<1>3. ASSUME NEW u \in Users, demoteSelf(r, u)
      PROVE  /\ pc[r] \in MemberPlaces \ {"join"} /\ u \in work[r].users
             /\ SetRole(r, u, "member") /\ "member" \in Roles
  BY <1>3 DEF demoteSelf, MemberPlaces, Roles
<1>4. ASSUME NEW u \in Users, updateMemberRole(r, u)
      PROVE  /\ pc[r] = "role" /\ "role" \in MemberPlaces \ {"join"} /\ u \in work[r].users
             /\ SetRole(r, u, work[r].role) /\ work[r].role \in Roles \cup {"none"}
  BY <1>4 DEF updateMemberRole, MemberPlaces, TypeOK, Work
<1>5. ASSUME NEW u \in Users, removeSourceMember(r, u)
      PROVE  /\ pc[r] = "remove" /\ "remove" \in MemberPlaces \ {"join"} /\ u \in work[r].users
             /\ SetRole(r, u, "none")
  BY <1>5 DEF removeSourceMember, MemberPlaces
<1> QED BY <1>1, <1>2, <1>3, <1>4, <1>5 DEF StepMember

\* Other requests keep what they know, whatever role r writes.
LEMMA OthersLocked ==
  ASSUME MemberInv, NEW r \in Requests, BeginMember(r) \/ StepMember(r), NEW q \in Requests \ {r}
  PROVE  Locked(q)'
<1> SUFFICES ASSUME pc'[q] = "step down", NEW u \in work'[q].users
             PROVE  \E v \in work'[q].rows \ {u} : role'[v] = "admin"
  BY DEF Locked
<1>1. pc[q] = "step down" /\ work'[q] = work[q]
  BY MemberFrame DEF MemberInv, Moves, Actors
<1>2. PICK v \in work[q].rows \ {u} : role[v] = "admin" BY <1>1 DEF MemberInv, Locked
<1>3. v \in Users BY <1>2 DEF MemberInv, TypeOK, Work
<1>4. role'[v] = "admin"
  <2>1. CASE BeginMember(r)
    BY <1>2, <2>1 DEF BeginMember, BeginDemote, BeginLeave, BeginJoin, BeginUnblock, BeginUpdateRole,
       Change, squadVars
  <2>2. ASSUME NEW w \in Users, joinSource(r, w) PROVE role'[v] = "admin"
    BY <1>2, <1>3, <2>2 DEF joinSource, MemberInv, TypeOK
  <2>3. ASSUME NEW w \in Users, NEW new \in Roles \cup {"none"}, SetRole(r, w, new)
        PROVE  role'[v] = "admin"
    <3>1. TypeOK BY DEF MemberInv
    <3>2. w \notin work[q].rows BY <1>1, <2>3, <3>1, RoleFrame
    <3>3. \A t \in Users \ {w} : role'[t] = role[t] BY <2>3, <3>1, RoleFrame
    <3> QED BY <1>2, <1>3, <3>2, <3>3
  <2> QED BY <1>2, <2>1, <2>2, <2>3, RoleWrites DEF MemberInv
<1> QED BY <1>1, <1>2, <1>4

\* What r itself knows afterwards.
LEMMA ActorLocked ==
  ASSUME MemberInv, NEW r \in Requests, BeginMember(r) \/ StepMember(r)
  PROVE  Locked(r)' /\ Asked(r)'
<1> USE DEF MemberInv
<1>1. CASE BeginMember(r)
  <2>1. ASSUME NEW u \in Users, NEW v \in Users, NEW place \in MemberPlaces \ {"step down"}, NEW new,
               Change(r, u, v, place, new), place = "join" \/ u # v \/ role[u] # "blocked"
        PROVE  Locked(r)' /\ Asked(r)'
    <3>1. /\ pc'[r] = place
          /\ work'[r] = [NoWork EXCEPT !.users = {v}, !.role = new, !.barred = (u = v /\ role[v] = "blocked")]
      BY <2>1 DEF Change, Start, Goto, TypeOK
    <3>2. work'[r].barred = (u = v /\ role[v] = "blocked")
      BY <3>1 DEF NoWork
    <3> QED BY <2>1, <3>1, <3>2 DEF Locked, Asked
  <2>2. {"own", "remove", "join", "role"} \subseteq MemberPlaces \ {"step down"} BY DEF MemberPlaces
  <2>3. ASSUME NEW u \in Users, BeginDemote(r, u) \/ BeginLeave(r, u) \/ BeginJoin(r, u)
        PROVE  Locked(r)' /\ Asked(r)'
    BY <2>1, <2>2, <2>3 DEF BeginDemote, BeginLeave, BeginJoin, IsMember
  <2>4. ASSUME NEW u \in Users, NEW v \in Users, BeginUnblock(r, u, v)
        PROVE  Locked(r)' /\ Asked(r)'
    BY <2>1, <2>2, <2>4 DEF BeginUnblock, IsModerator
  <2>5. ASSUME NEW u \in Users, NEW v \in Users, NEW new, BeginUpdateRole(r, u, v, new)
        PROVE  Locked(r)' /\ Asked(r)'
    BY <2>1, <2>2, <2>5 DEF BeginUpdateRole, IsModerator, IsAdmin
  <2> QED BY <1>1, <2>3, <2>4, <2>5 DEF BeginMember
<1>2. CASE LockAdmins(r)
  <2>1. CASE Cardinality(Admins) <= 1
    BY <1>2, <2>1 DEF LockAdmins, End, Goto, TypeOK, Locked, Asked, MemberPlaces
  <2>2. CASE ~(Cardinality(Admins) <= 1)
    <3>1. /\ work'[r].users = work[r].users /\ work'[r].barred = work[r].barred
          /\ work'[r].rows = Admins
      <4>1. work' = [work EXCEPT ![r] = [work[r] EXCEPT !.rows = Admins]]
        BY <1>2, <2>2 DEF LockAdmins
      <4>2. work'[r] = [work[r] EXCEPT !.rows = Admins] BY <4>1 DEF TypeOK
      <4>3. work[r] \in Work BY DEF TypeOK
      <4> QED BY <4>2, <4>3 DEF Work
    <3>2. Asked(r)' BY <1>2, <3>1 DEF LockAdmins, Asked, MemberPlaces
    <3>3. \A u : \E v \in Admins : v # u BY <2>2, AnotherOne
    <3>4. \A v \in Admins : role'[v] = "admin" BY <1>2 DEF LockAdmins, squadVars, Admins
    <3> QED BY <3>1, <3>2, <3>3, <3>4 DEF Locked
  <2> QED BY <2>1, <2>2
<1>3. ASSUME NEW u \in Users, ReadOwnRole(r, u) PROVE Locked(r)' /\ Asked(r)'
  BY <1>3 DEF ReadOwnRole, End, Goto, TypeOK, Locked, Asked, MemberPlaces
<1>4. CASE End(r) BY <1>4 DEF End, Goto, TypeOK, Locked, Asked, MemberPlaces
<1>5. CASE \E u \in Users : joinSource(r, u) \/ \E new : SetRole(r, u, new)
  BY <1>4, <1>5 DEF joinSource, SetRole
<1> QED BY <1>1, <1>2, <1>3, <1>5
       DEF StepMember, demoteSelf, updateMemberRole, removeSourceMember

LEMMA MemberStep == MemberInv /\ [Next]_vars => MemberInv'
<1> SUFFICES ASSUME MemberInv, [Next]_vars PROVE MemberInv' OBVIOUS
<1>0. TypeOK' BY TypesStep DEF MemberInv
<1>1. CASE UNCHANGED vars
  BY <1>0, <1>1 DEF MemberInv, Locked, Asked, vars, squadVars
<1>2. ASSUME NEW r \in Requests, BeginMember(r) \/ StepMember(r) PROVE MemberInv'
  <2>1. \A q \in Requests \ {r} : Asked(q)'
    BY <1>2, MemberFrame DEF MemberInv, Asked, Moves, Actors
  <2> QED BY <1>0, <1>2, <2>1, OthersLocked, ActorLocked DEF MemberInv
<1>3. ASSUME NEW r \in Actors, NEW S, Moves(r, S), S \cap MemberPlaces = {}, UNCHANGED role
      PROVE  MemberInv'
  <2>1. ASSUME NEW q \in Requests, q # r PROVE Locked(q)' /\ Asked(q)'
    BY <1>3, <2>1 DEF MemberInv, Locked, Asked, Moves, Actors
  <2>2. r \in Requests => Locked(r)' /\ Asked(r)'
    BY <1>3 DEF Locked, Asked, Moves, MemberPlaces
  <2> QED BY <1>0, <2>1, <2>2 DEF MemberInv
<1>4. CASE Next
  <2>1. ASSUME NEW r \in Requests, GateAct(r) PROVE MemberInv'
    BY <1>3, <2>1, GateFrame DEF MemberInv, MemberPlaces, Actors
  <2>2. ASSUME NEW r \in Requests, QueueAct(r) PROVE MemberInv'
    BY <1>3, <2>2, QueueFrame DEF MemberInv, QueuePlaces, MemberPlaces, Actors, squadVars
  <2>3. ASSUME NEW w \in Workers, HandlerAct(w) PROVE MemberInv'
    BY <1>3, <2>3, HandlerFrame DEF MemberInv, HandlerPlaces, MemberPlaces, Actors, squadVars
  <2> QED BY <1>2, <1>4, <2>1, <2>2, <2>3, Acts
<1> QED BY <1>1, <1>4

LEMMA MemberInit == Init => MemberInv
BY TypesInit DEF Init, MemberInv, Locked, Asked, MemberPlaces

-----------------------------------------------------------------------------
(* A step that changes a role is one of a request about members.           *)

LEMMA OnlyMembersChange ==
  ASSUME TypeOK, Next, role' # role
  PROVE  \E r \in Requests :
           /\ StepMember(r) /\ Moves(r, MemberPlaces)
           /\ \/ \E u \in Users : joinSource(r, u)
              \/ \E u \in Users, new \in Roles \cup {"none"} :
                   /\ pc[r] \in MemberPlaces \ {"join"} /\ u \in work[r].users
                   /\ pc[r] = "step down" => new = "member"
                   /\ SetRole(r, u, new)
<1>1. ASSUME NEW r \in Requests, BeginMember(r) PROVE FALSE
  BY <1>1 DEF BeginMember, BeginDemote, BeginLeave, BeginJoin, BeginUnblock, BeginUpdateRole,
     Change, squadVars
<1>2. ASSUME NEW r \in Requests, GateAct(r) \/ QueueAct(r) PROVE FALSE
  BY <1>2, GateFrame, QueueFrame DEF squadVars
<1>3. ASSUME NEW w \in Workers, HandlerAct(w) PROVE FALSE
  BY <1>3, HandlerFrame DEF squadVars
<1>4. PICK r \in Requests : StepMember(r) BY <1>1, <1>2, <1>3, Acts
<1> QED BY <1>4, RoleWrites, MemberFrame

\* An admin who steps down leaves another, however many admins step down, leave
\* or demote each other at once.
THEOREM AdminRemains == Spec => DemotionLeavesAdmin
<1> DEFINE A == \A r \in Requests :
       (pc[r] = "step down" /\ pc'[r] = "idle" /\ role' # role) => \E u \in Users : role'[u] = "admin"
<1>1. ASSUME MemberInv, [Next]_vars PROVE A
  <2> SUFFICES ASSUME NEW r \in Requests, pc[r] = "step down", pc'[r] = "idle", role' # role
               PROVE  \E u \in Users : role'[u] = "admin"
    OBVIOUS
  <2>1. Next BY <1>1 DEF vars, squadVars
  <2>2. PICK q \in Requests :
          /\ StepMember(q) /\ Moves(q, MemberPlaces)
          /\ \/ \E u \in Users : joinSource(q, u)
             \/ \E u \in Users, new \in Roles \cup {"none"} :
                  /\ pc[q] \in MemberPlaces \ {"join"} /\ u \in work[q].users
                  /\ pc[q] = "step down" => new = "member"
                  /\ SetRole(q, u, new)
    BY <1>1, <2>1, OnlyMembersChange DEF MemberInv
  <2>3. q = r BY <2>2 DEF Moves, Actors
  <2>4. PICK u \in Users, new \in Roles \cup {"none"} : u \in work[r].users /\ SetRole(r, u, new)
    BY <2>2, <2>3 DEF joinSource
  <2>5. PICK v \in work[r].rows \ {u} : role[v] = "admin" BY <1>1, <2>4 DEF MemberInv, Locked
  <2>6. v \in Users BY <1>1, <2>5 DEF MemberInv, TypeOK, Work
  <2> QED BY <1>1, <2>4, <2>5, <2>6, RoleFrame DEF MemberInv
<1> QED BY <1>1, MemberInit, MemberStep, PTL DEF Spec, DemotionLeavesAdmin

\* A blocked user is let out by somebody else or by what he asked before, never
\* by joining again.
THEOREM BlockHolds == Spec => BlockIsLifted
<1> DEFINE A == \A u \in Users :
       (role[u] = "blocked" /\ role'[u] # "blocked") =>
          \E r \in Requests :
            pc[r] # "idle" /\ pc'[r] = "idle" /\ u \in work[r].users /\ ~work[r].barred
<1>1. ASSUME MemberInv, [Next]_vars PROVE A
  <2> SUFFICES ASSUME NEW u \in Users, role[u] = "blocked", role'[u] # "blocked"
               PROVE  \E r \in Requests :
                        pc[r] # "idle" /\ pc'[r] = "idle" /\ u \in work[r].users /\ ~work[r].barred
    OBVIOUS
  <2>1. Next BY <1>1 DEF vars, squadVars
  <2>2. PICK r \in Requests :
          \/ \E v \in Users : joinSource(r, v)
          \/ \E v \in Users, new \in Roles \cup {"none"} :
               /\ pc[r] \in MemberPlaces \ {"join"} /\ v \in work[r].users
               /\ SetRole(r, v, new)
    BY <1>1, <2>1, OnlyMembersChange DEF MemberInv
  <2>3. ASSUME NEW v \in Users, joinSource(r, v) PROVE FALSE
    BY <1>1, <2>3 DEF joinSource, MemberInv, TypeOK
  <2>4. PICK v \in Users, new \in Roles \cup {"none"} :
          /\ pc[r] \in MemberPlaces \ {"join"} /\ v \in work[r].users
          /\ SetRole(r, v, new)
    BY <2>2, <2>3
  <2>5. v = u BY <1>1, <2>4, RoleFrame DEF MemberInv
  <2>6. pc[r] # "idle" /\ pc'[r] = "idle"
    BY <1>1, <2>4 DEF SetRole, End, Goto, MemberInv, TypeOK, MemberPlaces
  <2> QED BY <1>1, <2>4, <2>5, <2>6 DEF MemberInv, Asked
<1> QED BY <1>1, MemberInit, MemberStep, PTL DEF Spec, BlockIsLifted

-----------------------------------------------------------------------------
(* The queue.  What was approved has one token: a message, a handler that  *)
(* has taken it or the post itself.                                        *)

Has(r, S, s) == pc[r] \in S /\ s \in work[r].submissions

\* A submission has a row after its request to add it, never before.
Born(s) ==
  /\ \A r \in Requests : Has(r, {"submit"}, s) =>
       queue[s] = "none" /\ \A q \in Requests \ {r} : ~Has(q, {"submit"}, s)
  /\ (s \in reopened \/ \E r \in Requests : Has(r, {"revise", "discard"}, s)) => queue[s] # "none"

\* Only what was approved has a token.
Vouched(s) ==
  (s \notin reopened /\ (posts[s] > 0 \/ Len(approvals[s]) > 0 \/ \E w \in Actors : Has(w, HandlerPlaces, s)))
    => queue[s] \in {"approved", "deleted"}

\* It has one, unless it was approved or delivered again.
OneToken(s) ==
  s \notin reopened \cup repeated =>
    /\ posts[s] + Len(approvals[s]) <= 1
    /\ \A w \in Actors : Has(w, {"publish"}, s) =>
         /\ posts[s] = 0 /\ Len(approvals[s]) = 0
         /\ \A v \in Actors \ {w} : ~Has(v, {"publish"}, s)

\* What a request or a handler works on fits where it is.
Sensible(w) ==
  /\ pc[w] = "open" => work[w].submissions = {}
  /\ pc[w] = "moderate" => work[w].status # "none"

QueueInv ==
  /\ TypeOK
  /\ \A w \in Actors : Sensible(w)
  /\ \A s \in Submissions : Born(s) /\ Vouched(s) /\ OneToken(s)

\* Steps that only begin or end leave the queue as it is.
LEMMA Elsewhere ==
  ASSUME QueueInv, TypeOK', NEW r \in Actors, NEW S, Moves(r, S), S \cap (QueuePlaces \cup HandlerPlaces) = {},
         UNCHANGED <<queue, approvals, posts, reopened, repeated>>
  PROVE  QueueInv'
<1>1. \A w \in Actors : Sensible(w)'
  BY DEF QueueInv, Sensible, Moves, HandlerPlaces, QueuePlaces
<1>2. ASSUME NEW s \in Submissions, NEW q \in Actors, NEW T \in SUBSET (QueuePlaces \cup HandlerPlaces), Has(q, T, s)'
      PROVE  Has(q, T, s)
  <2>1. q # r BY <1>2 DEF Has, Moves, QueuePlaces, HandlerPlaces
  <2> QED BY <1>2, <2>1 DEF Has, Moves
<1>3. /\ {{"submit"}, {"revise", "discard"}} \subseteq SUBSET (QueuePlaces \cup HandlerPlaces)
      /\ {HandlerPlaces, {"publish"}} \subseteq SUBSET (QueuePlaces \cup HandlerPlaces)
  BY DEF QueuePlaces, HandlerPlaces
<1>4. ASSUME NEW s \in Submissions PROVE Born(s)'
  <2>1. Born(s) BY DEF QueueInv
  <2> QED BY <1>2, <1>3, <2>1 DEF Born, Actors
<1>5. ASSUME NEW s \in Submissions PROVE Vouched(s)'
  <2>1. Vouched(s) BY DEF QueueInv
  <2> QED BY <1>2, <1>3, <2>1 DEF Vouched
<1>6. ASSUME NEW s \in Submissions PROVE OneToken(s)'
  <2>1. OneToken(s) BY DEF QueueInv
  <2> QED BY <1>2, <1>3, <2>1 DEF OneToken
<1> QED BY <1>1, <1>4, <1>5, <1>6 DEF QueueInv

\* What a step of a may do to the row of s and to its messages.
Writes(a, s) ==
  \/ UNCHANGED <<queue[s], approvals[s], s \in reopened>>
  \/ /\ a \in Requests /\ Has(a, {"submit"}, s)
     /\ queue'[s] = "pending" /\ UNCHANGED <<approvals[s], s \in reopened>>
  \/ queue[s] # "none" /\ s \in reopened' /\ queue'[s] # "none" /\ UNCHANGED approvals[s]
  \/ queue[s] \in {"pending", "rejected"} /\ queue'[s] = "pending" /\ UNCHANGED <<approvals[s], s \in reopened>>
  \/ queue[s] # "none" /\ queue'[s] = "deleted" /\ UNCHANGED <<approvals[s], s \in reopened>>
  \/ /\ queue[s] = "pending" /\ UNCHANGED (s \in reopened)
     /\ \/ queue'[s] = "approved" /\ Len(approvals'[s]) = Len(approvals[s]) + 1
        \/ queue'[s] = "rejected" /\ UNCHANGED approvals[s]

\* A step that ends a request, or that opens the queue, keeps the invariant.
LEMMA QueueWrites ==
  ASSUME QueueInv, TypeOK', NEW a \in Actors,
         \A q \in Actors \ {a} : pc'[q] = pc[q] /\ work'[q] = work[q],
         pc'[a] = "idle" \/ (pc'[a] = "ack" /\ work'[a].submissions = {}),
         UNCHANGED <<posts, repeated>>,
         \A s \in Submissions : Writes(a, s)
  PROVE  QueueInv'
<1>1. ASSUME NEW w \in Actors PROVE Sensible(w)'
  BY DEF QueueInv, Sensible
<1>2. ASSUME NEW s \in Submissions, NEW q \in Actors, NEW T, "idle" \notin T, Has(q, T, s)'
      PROVE  q # a /\ Has(q, T, s)
  BY <1>2 DEF Has
<1>3. "idle" \notin HandlerPlaces BY DEF HandlerPlaces
<1>4. ASSUME NEW s \in Submissions PROVE Born(s)'
  <2>1. Born(s) BY DEF QueueInv
  <2>2. \A q \in Requests : Has(q, {"submit"}, s)' => q # a /\ Has(q, {"submit"}, s) BY <1>2 DEF Actors
  <2>3. \A q \in Requests : Has(q, {"revise", "discard"}, s)' => Has(q, {"revise", "discard"}, s)
    BY <1>2 DEF Actors
  <2>4. Writes(a, s) OBVIOUS
  <2> QED BY <2>1, <2>2, <2>3, <2>4 DEF Born, Writes
<1>5. ASSUME NEW s \in Submissions PROVE Vouched(s)'
  <2>1. Vouched(s) /\ Born(s) BY DEF QueueInv
  <2>2. \A q \in Actors : Has(q, HandlerPlaces, s)' => Has(q, HandlerPlaces, s) BY <1>2, <1>3
  <2>3. Writes(a, s) OBVIOUS
  <2>4. Len(approvals[s]) \in Nat /\ posts[s] \in Nat BY Counts DEF QueueInv
  <2> QED BY <2>1, <2>2, <2>3, <2>4 DEF Vouched, Born, Writes
<1>6. ASSUME NEW s \in Submissions PROVE OneToken(s)'
  <2>1. OneToken(s) /\ Vouched(s) BY DEF QueueInv
  <2>2. \A q \in Actors : Has(q, {"publish"}, s)' => q # a /\ Has(q, {"publish"}, s) BY <1>2
  <2>3. Len(approvals[s]) \in Nat /\ posts[s] \in Nat BY Counts DEF QueueInv
  <2>4. CASE UNCHANGED approvals[s] /\ (s \in reopened => s \in reopened')
    BY <2>1, <2>2, <2>4 DEF OneToken
  <2>5. CASE queue[s] = "pending" /\ Len(approvals'[s]) = Len(approvals[s]) + 1 /\ UNCHANGED (s \in reopened)
    <3>1. s \in reopened \/ (posts[s] = 0 /\ Len(approvals[s]) = 0 /\ \A q \in Actors : ~Has(q, HandlerPlaces, s))
      BY <2>1, <2>3, <2>5 DEF Vouched
    <3>2. \A q \in Actors : Has(q, {"publish"}, s) => Has(q, HandlerPlaces, s)
      BY DEF Has, HandlerPlaces
    <3> QED BY <2>2, <2>3, <2>5, <3>1, <3>2 DEF OneToken
  <2>6. Writes(a, s) OBVIOUS
  <2> QED BY <2>4, <2>5, <2>6 DEF Writes
<1> QED BY <1>1, <1>4, <1>5, <1>6 DEF QueueInv

\* So does one that begins a request about the queue.
LEMMA QueueBegins ==
  ASSUME QueueInv, TypeOK', NEW r \in Requests, NEW place \in QueuePlaces, NEW S \in SUBSET Submissions,
         NEW status \in {"none", "approved", "rejected"}, BeginOn(r, place, S, status),
         place = "submit" => \A s \in S : queue[s] = "none" /\ \A q \in Requests : ~Has(q, {"submit"}, s),
         place \in {"revise", "discard"} => \A s \in S : queue[s] # "none",
         place = "moderate" => status # "none"
  PROVE  QueueInv'
<1>1. /\ pc'[r] = place /\ work'[r].submissions = S /\ work'[r].status = status
      /\ \A q \in Actors \ {r} : pc'[q] = pc[q] /\ work'[q] = work[q]
  <2>1. work'[r] = [NoWork EXCEPT !.submissions = S, !.status = status]
    BY DEF BeginOn, Start, QueueInv, TypeOK, Actors
  <2>2. pc'[r] = place /\ \A q \in Actors \ {r} : pc'[q] = pc[q] /\ work'[q] = work[q]
    BY DEF BeginOn, Start, Goto, QueueInv, TypeOK, Actors
  <2> QED BY <2>1, <2>2 DEF NoWork
<1>2. UNCHANGED <<queue, approvals, posts, reopened, repeated>> BY DEF BeginOn, queueVars
<1>3. ASSUME NEW w \in Actors PROVE Sensible(w)'
  BY <1>1 DEF QueueInv, Sensible, QueuePlaces
<1>4. place \notin HandlerPlaces /\ place # "publish" BY DEF QueuePlaces, HandlerPlaces
<1>5. ASSUME NEW s \in Submissions PROVE Born(s)'
  <2>1. Born(s) BY DEF QueueInv
  <2>2. \A T : \A q \in Requests \ {r} : Has(q, T, s)' <=> Has(q, T, s) BY <1>1 DEF Has, Actors
  <2>3. Has(r, {"submit"}, s)' => place = "submit" /\ s \in S BY <1>1 DEF Has
  <2>4. Has(r, {"revise", "discard"}, s)' => place \in {"revise", "discard"} /\ s \in S BY <1>1 DEF Has
  <2> QED BY <1>2, <2>1, <2>2, <2>3, <2>4 DEF Born
<1>6. ASSUME NEW s \in Submissions, NEW q \in Actors, NEW T, place \notin T, Has(q, T, s)' PROVE Has(q, T, s)
  BY <1>1, <1>6 DEF Has
<1>7. ASSUME NEW s \in Submissions PROVE Vouched(s)' /\ OneToken(s)'
  <2>1. Vouched(s) /\ OneToken(s) BY DEF QueueInv
  <2>2. \A q \in Actors : Has(q, HandlerPlaces, s)' => Has(q, HandlerPlaces, s) BY <1>4, <1>6
  <2>3. \A q \in Actors : Has(q, {"publish"}, s)' => Has(q, {"publish"}, s) BY <1>4, <1>6
  <2> QED BY <1>2, <2>1, <2>2, <2>3 DEF Vouched, OneToken
<1> QED BY <1>3, <1>5, <1>7 DEF QueueInv

LEMMA QueueActs ==
  ASSUME QueueInv, TypeOK', NEW r \in Requests, QueueAct(r)
  PROVE  QueueInv'
<1>0. TypeOK BY DEF QueueInv
<1>1. ASSUME NEW s \in Submissions, BeginSubmit(r, s) PROVE QueueInv'
  BY <1>1, QueueBegins DEF BeginSubmit, Underway, Has, QueuePlaces
<1>2. ASSUME NEW s \in Submissions, BeginRevise(r, s) \/ BeginDiscard(r, s) PROVE QueueInv'
  <2>1. PICK place \in {"revise", "discard"} : BeginOn(r, place, {s}, "none") /\ queue[s] # "none"
    BY <1>2 DEF BeginRevise, BeginDiscard
  <2> QED BY <2>1, QueueBegins DEF QueuePlaces
<1>3. ASSUME NEW u \in Users, NEW S \in SUBSET Submissions, NEW status \in {"approved", "rejected"},
             BeginModerate(r, u, S, status)
      PROVE  QueueInv'
  BY <1>3, QueueBegins DEF BeginModerate, QueuePlaces
<1>4. ASSUME End(r), UNCHANGED <<posts, repeated>>, \A s \in Submissions : Writes(r, s) PROVE QueueInv'
  <2>1. pc'[r] = "idle" /\ \A q \in Actors \ {r} : pc'[q] = pc[q] /\ work'[q] = work[q]
    BY <1>0, <1>4 DEF End, Goto, TypeOK, Actors
  <2>2. r \in Actors BY DEF Actors
  <2> QED BY <1>4, <2>1, <2>2, QueueWrites
<1>5. ASSUME NEW s \in Submissions, createSourcePostModeration(r, s) PROVE QueueInv'
  <2>1. \A t \in Submissions : Writes(r, t)
    BY <1>0, <1>5 DEF createSourcePostModeration, Writes, Has, TypeOK, histVars
  <2> QED BY <1>4, <1>5, <2>1 DEF createSourcePostModeration, histVars
<1>6. ASSUME NEW s \in Submissions, editSourcePostModeration(r, s) PROVE QueueInv'
  <2>1. queue[s] # "none"
    <3>1. Has(r, {"revise", "discard"}, s) BY <1>6 DEF editSourcePostModeration, Has
    <3> QED BY <3>1 DEF QueueInv, Born
  <2>2. \A t \in Submissions \ {s} : UNCHANGED <<queue[t], approvals[t], t \in reopened>>
    BY <1>0, <1>6 DEF editSourcePostModeration, TypeOK
  <2>3. queue[s] \in {"pending", "rejected", "approved", "deleted"} BY <1>0, <2>1 DEF TypeOK, Statuses
  <2>4. Writes(r, s)
    BY <1>0, <1>6, <2>3 DEF editSourcePostModeration, Writes, TypeOK
  <2>5. \A t \in Submissions : Writes(r, t) BY <2>2, <2>4 DEF Writes
  <2> QED BY <1>4, <1>6, <2>5 DEF editSourcePostModeration
<1>7. ASSUME NEW s \in Submissions, deleteSourcePostModeration(r, s) PROVE QueueInv'
  <2>1. queue[s] # "none"
    <3>1. Has(r, {"revise", "discard"}, s) BY <1>7 DEF deleteSourcePostModeration, Has
    <3> QED BY <3>1 DEF QueueInv, Born
  <2>2. \A t \in Submissions : Writes(r, t)
    BY <1>0, <1>7, <2>1 DEF deleteSourcePostModeration, Writes, TypeOK, histVars
  <2> QED BY <1>4, <1>7, <2>2 DEF deleteSourcePostModeration, histVars
<1>8. CASE moderateSourcePosts(r)
  <2>1. work[r].status \in {"approved", "rejected"}
    <3>1. r \in Actors /\ pc[r] = "moderate" BY <1>8 DEF moderateSourcePosts, Actors
    <3>2. work[r].status # "none" BY <3>1 DEF QueueInv, Sensible
    <3>3. work[r] \in Work BY <1>0 DEF TypeOK
    <3> QED BY <3>2, <3>3 DEF Work
  <2>2. \A t \in Submissions : Writes(r, t)
    <3>1. \A t \in Submissions : Len(Append(approvals[t], content[t])) = Len(approvals[t]) + 1
      BY <1>0, Messages DEF TypeOK
    <3> QED BY <1>0, <1>8, <2>1, <3>1 DEF moderateSourcePosts, SetStatus, Writes, TypeOK, histVars
  <2> QED BY <1>4, <1>8, <2>2 DEF moderateSourcePosts, histVars
<1> QED BY <1>1, <1>2, <1>3, <1>5, <1>6, <1>7, <1>8 DEF QueueAct, BeginAuthor

\* A handler that has what was told to it, or tells it again, keeps it too.
LEMMA Handlers ==
  ASSUME QueueInv, TypeOK', NEW w \in Workers, HandlerAct(w)
  PROVE  QueueInv'
<1>0. TypeOK /\ w \in Actors BY DEF QueueInv, Actors
<1>1. /\ Moves(w, HandlerPlaces)
      /\ UNCHANGED reopened
      /\ \A s, T : \A q \in Actors \ {w} : Has(q, T, s)' <=> Has(q, T, s)
  <2>1. Moves(w, HandlerPlaces) /\ UNCHANGED reopened BY <1>0, HandlerFrame
  <2> QED BY <2>1 DEF Moves, Has
<1>2. CASE approvePending(w)
  <2>1. pc'[w] = "ack" /\ work' = work /\ work[w].submissions = {}
    BY <1>0, <1>2 DEF approvePending, Goto, TypeOK, QueueInv, Sensible
  <2>2. \A s \in Submissions : Writes(w, s)
    <3>1. \A t \in Submissions : Len(Append(approvals[t], content[t])) = Len(approvals[t]) + 1
      BY <1>0, Messages DEF TypeOK
    <3> QED BY <1>0, <1>2, <3>1 DEF approvePending, SetStatus, Writes, TypeOK, histVars
  <2> QED BY <1>0, <1>1, <1>2, <2>1, <2>2, QueueWrites DEF approvePending, Moves, histVars
<1>3. ASSUME UNCHANGED queue, Sensible(w)',
             \A s \in Submissions : Vouched(s)' /\ OneToken(s)'
      PROVE  QueueInv'
  <2>1. \A q \in Requests : pc'[q] \notin HandlerPlaces \cup {"idle"} => q # w
    BY <1>1 DEF Moves
  <2>2. \A s \in Submissions : Born(s)'
    <3> SUFFICES ASSUME NEW s \in Submissions PROVE Born(s)' OBVIOUS
    <3>1. Born(s) BY DEF QueueInv
    <3>2. ASSUME NEW q \in Requests, NEW T, T \cap (HandlerPlaces \cup {"idle"}) = {}, Has(q, T, s)'
          PROVE  Has(q, T, s)
      BY <1>1, <2>1, <3>2 DEF Has, Actors
    <3>3. \A q \in Requests : Has(q, {"submit"}, s)' => Has(q, {"submit"}, s)
      BY <3>2 DEF HandlerPlaces
    <3>4. \A q \in Requests : Has(q, {"revise", "discard"}, s)' => Has(q, {"revise", "discard"}, s)
      BY <3>2 DEF HandlerPlaces
    <3>5. queue' = queue /\ reopened' = reopened BY <1>1, <1>3
    <3> QED BY <3>1, <3>3, <3>4, <3>5 DEF Born
  <2>3. \A q \in Actors : Sensible(q)' BY <1>1, <1>3 DEF QueueInv, Sensible, Moves
  <2> QED BY <1>3, <2>2, <2>3 DEF QueueInv
<1>4. ASSUME NEW s \in Submissions,
             UNCHANGED <<queue[s], posts[s], s \in repeated>>, approvals'[s] = approvals[s],
             Has(w, HandlerPlaces, s)' => Has(w, HandlerPlaces, s),
             Has(w, {"publish"}, s)' => Has(w, {"publish"}, s)
      PROVE  Vouched(s)' /\ OneToken(s)'
  BY <1>1, <1>4 DEF QueueInv, Vouched, OneToken
<1>5. ASSUME NEW s \in Submissions, BeginPublish(w, s) PROVE QueueInv'
  <2>1. /\ pc[w] = "idle" /\ pc'[w] = "publish" /\ work'[w].submissions = {s}
        /\ approvals[s] # <<>> /\ approvals' = [approvals EXCEPT ![s] = Tail(@)]
        /\ UNCHANGED <<queue, posts, repeated>>
    BY <1>0, <1>5 DEF BeginPublish, Take, Start, Goto, TypeOK, NoWork, Actors, histVars
  <2>2. posts[s] \in Nat /\ Len(approvals[s]) \in Nat /\ Len(approvals[s]) > 0
        /\ Len(approvals'[s]) = Len(approvals[s]) - 1
    <3>1. approvals[s] \in Seq(Contents) /\ approvals'[s] = Tail(approvals[s]) BY <1>0, <2>1 DEF TypeOK
    <3> QED BY <1>0, <2>1, <3>1, Messages DEF TypeOK
  <2>3. Vouched(s)' BY <1>1, <2>1, <2>2 DEF QueueInv, Vouched
  <2>4. OneToken(s)'
    <3>1. OneToken(s) BY DEF QueueInv
    <3>2. ASSUME s \notin reopened \cup repeated
          PROVE  posts[s] = 0 /\ Len(approvals[s]) = 1 /\ \A q \in Actors : ~Has(q, {"publish"}, s)
      <4>1. /\ posts[s] + Len(approvals[s]) <= 1
            /\ \A q \in Actors : Has(q, {"publish"}, s) => Len(approvals[s]) = 0
        BY <3>1, <3>2 DEF OneToken
      <4>2. ASSUME NEW p \in Nat, NEW n \in Nat, n > 0, p + n <= 1 PROVE p = 0 /\ n = 1 BY <4>2
      <4>3. posts[s] = 0 /\ Len(approvals[s]) = 1 BY <2>2, <4>1, <4>2
      <4> QED BY <4>1, <4>3
    <3>3. /\ Len(approvals'[s]) = Len(approvals[s]) - 1
          /\ posts'[s] = posts[s] /\ repeated' = repeated /\ reopened' = reopened
      BY <1>1, <2>1, <2>2
    <3>4. ASSUME s \notin reopened' \cup repeated'
          PROVE  /\ posts'[s] = 0 /\ Len(approvals'[s]) = 0
                 /\ \A q \in Actors \ {w} : ~Has(q, {"publish"}, s)'
      <4>1. s \notin reopened \cup repeated BY <3>3, <3>4
      <4>2. posts[s] = 0 /\ Len(approvals[s]) = 1 BY <3>2, <4>1
      <4>3. \A q \in Actors \ {w} : ~Has(q, {"publish"}, s)' BY <1>1, <3>2, <4>1
      <4> QED BY <3>3, <4>2, <4>3
    <3>5. s \notin reopened' \cup repeated' => posts'[s] + Len(approvals'[s]) <= 1 BY <3>4
    <3> HIDE DEF Has
    <3> QED BY <3>4, <3>5 DEF OneToken
  <2>5. ASSUME NEW t \in Submissions \ {s} PROVE Vouched(t)' /\ OneToken(t)'
    BY <1>0, <1>4, <2>1 DEF Has, TypeOK
  <2> QED BY <1>3, <2>1, <2>3, <2>4, <2>5 DEF Sensible
<1>6. CASE BeginOpen(w)
  <2>1. pc'[w] = "open" /\ work'[w].submissions = {} /\ UNCHANGED <<queue, posts, approvals, repeated>>
    BY <1>0, <1>6 DEF BeginOpen, Take, Start, Goto, TypeOK, NoWork, Actors, histVars
  <2> QED BY <1>3, <1>4, <2>1 DEF Has, Sensible
<1>7. ASSUME NEW s \in Submissions, pc[w] = "publish", s \in work[w].submissions, CreatePost(w, s),
             UNCHANGED <<queue, histVars>>
      PROVE  QueueInv'
  <2>1. /\ pc'[w] = "ack" /\ work' = work
        /\ posts' = [posts EXCEPT ![s] = IF @ = 2 THEN 2 ELSE @ + 1]
        /\ UNCHANGED <<queue, approvals, repeated>>
    BY <1>0, <1>7 DEF CreatePost, Goto, TypeOK, Actors, histVars
  <2>2. ASSUME NEW t \in Submissions PROVE Vouched(t)'
    <3>1. Vouched(t) BY DEF QueueInv
    <3>2. t \in work[w].submissions => Has(w, HandlerPlaces, t) BY <1>7 DEF Has, HandlerPlaces
    <3>3. posts'[t] > 0 => posts[t] > 0 \/ Has(w, HandlerPlaces, t) BY <1>0, <1>7, <2>1, <3>2 DEF TypeOK
    <3>4. Has(w, HandlerPlaces, t)' => Has(w, HandlerPlaces, t) BY <2>1, <3>2 DEF Has
    <3> QED BY <1>0, <1>1, <2>1, <3>1, <3>3, <3>4 DEF Vouched
  <2>3. OneToken(s)'
    <3>1. OneToken(s) /\ Has(w, {"publish"}, s) /\ ~Has(w, {"publish"}, s)'
      BY <1>7, <2>1 DEF QueueInv, Has
    <3>2. ASSUME s \notin reopened \cup repeated
          PROVE  /\ posts[s] = 0 /\ Len(approvals[s]) = 0 /\ posts'[s] = 1
                 /\ \A q \in Actors \ {w} : ~Has(q, {"publish"}, s)
      BY <1>0, <2>1, <3>1, <3>2 DEF OneToken, TypeOK
    <3> QED BY <1>1, <2>1, <3>1, <3>2 DEF OneToken
  <2>4. ASSUME NEW t \in Submissions \ {s} PROVE OneToken(t)'
    <3>1. OneToken(t) /\ posts'[t] = posts[t] /\ ~Has(w, {"publish"}, t)' BY <1>0, <2>1 DEF QueueInv, TypeOK, Has
    <3> QED BY <1>1, <2>1, <3>1 DEF OneToken
  <2> QED BY <1>3, <2>1, <2>2, <2>3, <2>4 DEF Sensible
\* What is returned is there again, behind nothing.
<1>10. ASSUME pc[w] \in HandlerPlaces, Return(w), UNCHANGED <<queue, reopened>>,
              repeated' = IF pc[w] = "ack" THEN repeated \cup work[w].submissions ELSE repeated
       PROVE  QueueInv'
  <2>1. /\ pc'[w] = "idle" /\ UNCHANGED posts
        /\ \A s \in Submissions : approvals'[s] =
             IF s \in work[w].submissions THEN <<work[w].content>> \o approvals[s] ELSE approvals[s]
    BY <1>0, <1>10 DEF Return, End, Goto, TypeOK, Actors
  <2>2. ASSUME NEW s \in Submissions, s \in work[w].submissions PROVE Vouched(s)' /\ OneToken(s)'
    <3>0. /\ posts[s] \in Nat /\ Len(approvals[s]) \in Nat /\ Len(approvals'[s]) = Len(approvals[s]) + 1
      <4>1. work[w].content \in Contents BY <1>0 DEF TypeOK, Work
      <4> QED BY <1>0, <2>1, <2>2, <4>1, Messages DEF TypeOK
    <3>1. Has(w, HandlerPlaces, s) BY <1>10, <2>2 DEF Has
    <3>2. Vouched(s)' BY <1>0, <1>1, <1>10, <2>1, <3>1 DEF QueueInv, Vouched
    <3>3. CASE pc[w] = "publish"
      <4>1. OneToken(s) /\ Has(w, {"publish"}, s) BY <2>2, <3>3 DEF QueueInv, Has
      <4>2. ~Has(w, {"publish"}, s)' BY <2>1 DEF Has
      <4>3. posts'[s] = posts[s] /\ repeated' = repeated BY <1>10, <2>1, <3>3
      <4>5. ASSUME s \notin reopened \cup repeated
            PROVE  posts[s] = 0 /\ Len(approvals[s]) = 0 /\ \A q \in Actors \ {w} : ~Has(q, {"publish"}, s)
        BY <1>0, <4>1, <4>5 DEF OneToken
      <4>6. OneToken(s)' BY <1>0, <1>1, <3>0, <4>2, <4>3, <4>5 DEF OneToken
      <4> QED BY <3>2, <4>6
    <3>4. CASE pc[w] = "ack"
      <4>1. s \in repeated' BY <1>10, <2>2, <3>4
      <4> QED BY <3>2, <4>1 DEF OneToken
    <3>5. pc[w] # "open" BY <1>0, <2>2 DEF QueueInv, Sensible
    <3> QED BY <1>10, <3>3, <3>4, <3>5 DEF HandlerPlaces
  <2>3. ASSUME NEW s \in Submissions, s \notin work[w].submissions PROVE Vouched(s)' /\ OneToken(s)'
    <3>1. approvals'[s] = approvals[s] BY <1>0, <2>1, <2>3 DEF TypeOK
    <3>2. UNCHANGED <<queue[s], posts[s], s \in repeated>> BY <1>10, <2>1, <2>3
    <3> QED BY <1>4, <2>1, <3>1, <3>2 DEF Has, HandlerPlaces
  <2> QED BY <1>3, <1>10, <2>1, <2>2, <2>3 DEF Sensible
<1>11. ASSUME NEW s \in Submissions, processApprovedModeratedPost(w, s) PROVE QueueInv'
  <2>1. pc[w] = "publish" /\ s \in work[w].submissions /\ UNCHANGED <<queue, histVars>>
    BY <1>11 DEF processApprovedModeratedPost
  <2>2. CASE CreatePost(w, s) BY <1>7, <2>1, <2>2
  <2>3. CASE Dismiss(w)
    <3>1. pc'[w] = "ack" /\ work' = work /\ UNCHANGED <<queue, approvals, posts, repeated>>
      BY <1>0, <2>1, <2>3 DEF Dismiss, Goto, TypeOK, Actors, histVars
    <3> QED BY <1>3, <1>4, <2>1, <3>1 DEF Has, HandlerPlaces, Sensible
  <2>4. CASE Refuse(w)
    BY <1>10, <2>1, <2>4 DEF Refuse, HandlerPlaces, histVars
  <2> QED BY <1>11, <2>2, <2>3, <2>4 DEF processApprovedModeratedPost
<1>8. CASE Ack(w)
  <2>1. pc'[w] = "idle" /\ UNCHANGED <<queue, approvals, posts, repeated>>
    BY <1>0, <1>8 DEF Ack, End, Goto, TypeOK, Actors, queueVars, histVars
  <2> QED BY <1>3, <1>4, <2>1 DEF Has, HandlerPlaces, Sensible
<1>9. CASE Fail(w) BY <1>9, <1>10 DEF Fail, Failing, HandlerPlaces
<1> QED BY <1>2, <1>5, <1>6, <1>8, <1>9, <1>11 DEF HandlerAct, Handle

LEMMA QueueStep == QueueInv /\ [Next]_vars => QueueInv'
<1> SUFFICES ASSUME QueueInv, [Next]_vars PROVE QueueInv' OBVIOUS
<1>0. TypeOK /\ TypeOK' BY TypesStep DEF QueueInv
<1>1. CASE UNCHANGED vars
  BY <1>0, <1>1 DEF QueueInv, Sensible, Born, Vouched, OneToken, Has, vars, queueVars, histVars
<1>2. ASSUME NEW r \in Requests, BeginMember(r) \/ StepMember(r) PROVE QueueInv'
  <2>1. MemberPlaces \cap (QueuePlaces \cup HandlerPlaces) = {}
    BY DEF MemberPlaces, QueuePlaces, HandlerPlaces
  <2> QED BY <1>0, <1>2, <2>1, MemberFrame, Elsewhere DEF Actors, queueVars
<1>3. ASSUME NEW r \in Requests, GateAct(r) PROVE QueueInv'
  <2>1. {"settings"} \cap (QueuePlaces \cup HandlerPlaces) = {}
    BY DEF QueuePlaces, HandlerPlaces
  <2> QED BY <1>0, <1>3, <2>1, GateFrame, Elsewhere DEF Actors
<1>4. CASE Next BY <1>0, <1>2, <1>3, <1>4, Acts, QueueActs, Handlers
<1> QED BY <1>1, <1>4

LEMMA QueueInit == Init => QueueInv
<1> SUFFICES ASSUME Init PROVE QueueInv OBVIOUS
<1>1. \A w \in Actors : \A T, s : pc[w] = "idle" /\ ("idle" \notin T => ~Has(w, T, s))
  BY DEF Init, Actors, Has
<1>2. "idle" \notin HandlerPlaces BY DEF HandlerPlaces
<1> QED BY <1>1, <1>2, TypesInit DEF Init, QueueInv, Sensible, Born, Vouched, OneToken, Actors

\* Nothing that waits or was rejected is published, unless an edit of its author
\* reopened it, whatever moderators decide at once.
THEOREM NothingUnapproved == Spec => []PendingIsUnpublished
<1>1. QueueInv => PendingIsUnpublished BY DEF QueueInv, Vouched, PendingIsUnpublished
<1> QED BY <1>1, QueueInit, QueueStep, PTL DEF Spec

\* An approval becomes one post, however often it is decided and delivered,
\* unless its handler failed after the post or an edit reopened it.
THEOREM OnePost == Spec => []PublishedOnce
<1>1. ASSUME QueueInv PROVE PublishedOnce
  <2> SUFFICES ASSUME NEW s \in Submissions, posts[s] > 1, s \notin reopened \cup repeated PROVE FALSE
    BY DEF PublishedOnce
  <2>1. posts[s] + Len(approvals[s]) <= 1 BY <1>1 DEF QueueInv, OneToken
  <2>2. posts[s] \in 0..2 /\ Len(approvals[s]) \in Nat BY <1>1, Messages DEF QueueInv, TypeOK
  <2> QED BY <2>1, <2>2
<1> QED BY <1>1, QueueInit, QueueStep, PTL DEF Spec
=============================================================================
