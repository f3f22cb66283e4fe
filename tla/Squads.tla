-------------------------------- MODULE Squads --------------------------------
(***************************************************************************)
(* One public squad: its members and their roles, the two gates that hold  *)
(* posts of members back, and the queue of posts that moderators approve.  *)
(*                                                                         *)
(* Every mutation first checks the role of its caller, and often the row   *)
(* it is about, and writes later.  Only demoteSelf locks what it read, and *)
(* only moderateSourcePosts repeats its check in the update.  An approval  *)
(* becomes a post when the change of the row is delivered to a worker.     *)
(* Only then is it asked whether there is something to post.               *)
(***************************************************************************)
EXTENDS Integers, Sequences, FiniteSets

CONSTANTS
  Users,
  Members,         \* roles when the model starts
  Newcomers,       \* users below the reputation a gate asks for
  Submissions,     \* posts that members submit for moderation
  Author,          \* user of each submission
  Requests,        \* requests handled at the same time
  Workers,         \* handlers of change messages
  MaxChanges,      \* bound: requests that change members or gates or edit a submission
  MaxFailures      \* bound: failures of a handler

Roles == {"blocked", "member", "moderator", "admin"}

ASSUME MemberAssumption == Members \in [Users -> Roles \cup {"none"}]
ASSUME AuthorAssumption == Author \in [Submissions -> Users] /\ Newcomers \subseteq Users
ASSUME BoundAssumption == {MaxChanges, MaxFailures} \subseteq Nat

VARIABLES
  role,        \* source_member: role of each user, or none
  gates,       \* moderationRequired, and whether postingMinReputation is set
  queue,       \* source_post_moderation: status of each submission
  content,     \* what it has to post
  approvals,   \* messages that it was approved, not handled: what they have to post
  opened,      \* messages that the squad stopped to require moderation, not handled
  posts,       \* posts of each submission, counted to two
  pc,          \* where each request and handler is
  work,        \* what it works on
  changes, failures,   \* so far
  reopened,    \* history: submissions set back to pending after they were approved
  repeated     \* history: submissions that were done with before the worker failed

squadVars == <<role, gates>>
queueVars == <<queue, content, approvals, opened, posts>>
boundVars == <<changes, failures>>
histVars == <<boundVars, reopened, repeated>>
vars == <<squadVars, queueVars, pc, work, histVars>>

Rank == [blocked |-> -1, member |-> 0, moderator |-> 5, admin |-> 10]

Admins == {u \in Users : role[u] = "admin"}
IsAdmin(u) == role[u] = "admin"
IsModerator(u) == role[u] \in {"moderator", "admin"}
IsMember(u) == role[u] \in Roles \ {"blocked"}

Statuses == {"none", "pending", "approved", "rejected", "deleted"}
\* A post, a share of neither a post nor a link, or one that is refused whenever it
\* is to be posted: its link is no URL, or the post it shares is not there.
Contents == {"whole", "nothing", "refused"}

Gates == [moderation : BOOLEAN, reputation : BOOLEAN]

\* What an edit gives: one gate, the other or both.
Inputs == [moderation : BOOLEAN] \cup [reputation : BOOLEAN] \cup Gates

NoWork ==
  [users |-> {}, barred |-> FALSE, rows |-> {}, role |-> "none",
   gates |-> {}, submissions |-> {}, status |-> "none", content |-> "nothing"]

Work ==
  [users : SUBSET Users, barred : BOOLEAN, rows : SUBSET Users,
   role : Roles \cup {"none"}, gates : SUBSET Inputs,
   submissions : SUBSET Submissions, status : {"none", "approved", "rejected"},
   content : Contents]

Places ==
  {"idle", "own", "count", "demote", "step down", "role", "remove", "join", "settings",
   "submit", "revise", "discard", "moderate", "publish", "open", "ack"}

TypeOK ==
  /\ role \in [Users -> Roles \cup {"none"}]
  /\ gates \in Gates
  /\ queue \in [Submissions -> Statuses] /\ content \in [Submissions -> Contents]
  /\ approvals \in [Submissions -> Seq(Contents)] /\ opened \in Nat
  /\ posts \in [Submissions -> 0..2]
  /\ pc \in [Requests \cup Workers -> Places] /\ work \in [Requests \cup Workers -> Work]
  /\ changes \in 0..MaxChanges /\ failures \in 0..MaxFailures
  /\ reopened \subseteq Submissions /\ repeated \subseteq Submissions

Init ==
  /\ role = Members /\ gates = [moderation |-> FALSE, reputation |-> FALSE]
  /\ queue = [s \in Submissions |-> "none"] /\ content = [s \in Submissions |-> "nothing"]
  /\ approvals = [s \in Submissions |-> <<>>]
  /\ opened = 0 /\ posts = [s \in Submissions |-> 0]
  /\ pc = [r \in Requests \cup Workers |-> "idle"]
  /\ work = [r \in Requests \cup Workers |-> NoWork]
  /\ changes = 0 /\ failures = 0
  /\ reopened = {} /\ repeated = {}

Goto(r, place) == pc' = [pc EXCEPT ![r] = place]
Start(r, place, what) == pc[r] = "idle" /\ Goto(r, place) /\ work' = [work EXCEPT ![r] = what]
End(r) == Goto(r, "idle") /\ work' = [work EXCEPT ![r] = NoWork]

\* Rows of members that the transaction of a request holds.
RowsOf(r) == IF pc[r] = "step down" THEN work[r].rows ELSE {}
Free(r, S) == \A v \in Requests \ {r} : RowsOf(v) \cap S = {}

-----------------------------------------------------------------------------
(* Members.  A request is checked against the role of its caller, and its  *)
(* write is unconditional.  What a blocked user asks for himself is barred. *)

Change(r, u, v, place, new) ==
  /\ changes < MaxChanges /\ changes' = changes + 1
  /\ Start(r, place, [NoWork EXCEPT !.users = {v}, !.role = new,
                                  !.barred = (u = v /\ role[v] = "blocked")])
  /\ UNCHANGED <<squadVars, queueVars, failures, reopened, repeated>>

\* demoteSelf, leaveSource: what a member may do, not a blocked one.
BeginDemote(r, u) == IsMember(u) /\ Change(r, u, u, "own", "none")
BeginLeave(r, u) == IsMember(u) /\ Change(r, u, u, "remove", "none")

\* unblockMember deletes the row, whatever its role.
BeginUnblock(r, u, v) == IsModerator(u) /\ Change(r, u, v, "remove", "none")

\* hasGreaterAccessCheck.
HasGreaterAccess(u, v) == IsAdmin(u) \/ Rank[role[u]] > Rank[role[v]]

ValidRole(new) == new \in Roles

\* updateMemberRole: a moderator may block a member of lower rank, an admin may
\* give anyone any role.
BeginUpdateRole(r, u, v, new) ==
  /\ IF new = "blocked"
     THEN IsModerator(u) /\ role[v] # "none" /\ HasGreaterAccess(u, v)
     ELSE IsAdmin(u) /\ ValidRole(new)
  /\ Change(r, u, v, "role", new)

BeginJoin(r, u) == Change(r, u, u, "join", "none")

\* demoteSelf, in its transaction: the caller's role is read again, ...
ReadOwnRole(r, u) ==
  /\ pc[r] = "own" /\ u \in work[r].users
  /\ IF IsModerator(u)
     THEN Goto(r, IF IsAdmin(u) THEN "count" ELSE "demote") /\ UNCHANGED work
     ELSE End(r)
  /\ UNCHANGED <<squadVars, queueVars, histVars>>

\* Mutant of LockAdmins: the admins are counted, not locked.
CountAdmins(r) ==
  /\ pc[r] = "count"
  /\ IF Cardinality(Admins) <= 1 THEN End(r) ELSE Goto(r, "step down") /\ UNCHANGED work
  /\ UNCHANGED <<squadVars, queueVars, histVars>>

\* ... an admin's request locks the admins and counts them, ...
LockAdmins(r) ==
  /\ pc[r] = "count" /\ Free(r, Admins)
  /\ IF Cardinality(Admins) <= 1
     THEN End(r)
     ELSE Goto(r, "step down") /\ work' = [work EXCEPT ![r].rows = Admins]
  /\ UNCHANGED <<squadVars, queueVars, histVars>>

\* The update of a row that is gone does nothing.
SetRole(r, u, new) ==
  /\ Free(r, {u})
  /\ role' = IF role[u] = "none" THEN role ELSE [role EXCEPT ![u] = new]
  /\ End(r)
  /\ UNCHANGED <<gates, queueVars, histVars>>

\* ... and the caller becomes a member.
demoteSelf(r, u) ==
  pc[r] \in {"demote", "step down"} /\ u \in work[r].users /\ SetRole(r, u, "member")

updateMemberRole(r, u) == pc[r] = "role" /\ u \in work[r].users /\ SetRole(r, u, work[r].role)

removeSourceMember(r, u) ==
  pc[r] = "remove" /\ u \in work[r].users /\ SetRole(r, u, "none")

\* Mutant of joinSource: an existing row is taken over.
JoinAnew(r, u) ==
  /\ pc[r] = "join" /\ u \in work[r].users /\ Free(r, {u})
  /\ role' = [role EXCEPT ![u] = "member"]
  /\ End(r)
  /\ UNCHANGED <<gates, queueVars, histVars>>

\* The insert of a user who has a row, also a blocked one, does nothing.
joinSource(r, u) ==
  /\ pc[r] = "join" /\ u \in work[r].users
  /\ role' = IF role[u] = "none" THEN [role EXCEPT ![u] = "member"] ELSE role
  /\ End(r)
  /\ UNCHANGED <<gates, queueVars, histVars>>

-----------------------------------------------------------------------------
(* Gates.  An edit gives one, the other or both of them.                   *)

Merged(old, new) ==
  [moderation |-> IF "moderation" \in DOMAIN new THEN new.moderation ELSE old.moderation,
   reputation |-> IF "reputation" \in DOMAIN new THEN new.reputation ELSE old.reputation]

\* validateSquadData: what the edit would make of the squad it has read.
Compatible(old, new) == ~(Merged(old, new).moderation /\ Merged(old, new).reputation)

BeginEdit(r, u, new) ==
  /\ IsModerator(u) /\ Compatible(gates, new)
  /\ changes < MaxChanges /\ changes' = changes + 1
  /\ Start(r, "settings", [NoWork EXCEPT !.gates = {new}])
  /\ UNCHANGED <<squadVars, queueVars, failures, reopened, repeated>>

\* What was validated is not asked again: two edits at once, each of one gate, leave
\* both on.  The change from moderated to not moderated is delivered to a handler.
editSquad(r) ==
  /\ pc[r] = "settings"
  /\ \E new \in work[r].gates : gates' = Merged(gates, new)
  /\ opened' = opened + (IF gates.moderation /\ ~gates'.moderation THEN 1 ELSE 0)
  /\ End(r)
  /\ UNCHANGED <<role, queue, content, approvals, posts, histVars>>

-----------------------------------------------------------------------------
(* Submissions.  Their author adds, edits and deletes them, moderators     *)
(* approve or reject them.                                                 *)

\* canPostToSquad for a request to post: the reputation gate holds members
\* back, the moderation gate does not.
MayRequest(u) ==
  /\ IsMember(u)
  /\ IsModerator(u) \/ gates.moderation \/ ~gates.reputation \/ u \notin Newcomers

BeginOn(r, place, S, status) ==
  /\ Start(r, place, [NoWork EXCEPT !.submissions = S, !.status = status])
  /\ UNCHANGED <<squadVars, queueVars, failures, reopened, repeated>>

Underway(s) == \E r \in Requests : pc[r] = "submit" /\ s \in work[r].submissions

BeginSubmit(r, s) ==
  /\ MayRequest(Author[s]) /\ queue[s] = "none" /\ ~Underway(s)
  /\ BeginOn(r, "submit", {s}, "none") /\ UNCHANGED changes

\* validateSourcePostModeration asks for a title and the options of a poll, but not
\* whether a share has a link, nor whether the link is a URL.
Validated == Contents

createSourcePostModeration(r, s) ==
  /\ pc[r] = "submit" /\ s \in work[r].submissions
  /\ queue' = [queue EXCEPT ![s] = "pending"]
  /\ \E c \in Validated : content' = [content EXCEPT ![s] = c]
  /\ End(r)
  /\ UNCHANGED <<squadVars, approvals, opened, posts, histVars>>

BeginRevise(r, s) ==
  /\ MayRequest(Author[s]) /\ queue[s] \in {"pending", "rejected"}
  /\ changes < MaxChanges /\ changes' = changes + 1
  /\ BeginOn(r, "revise", {s}, "none")

\* The update does not ask again whether the submission was approved.
editSourcePostModeration(r, s) ==
  /\ pc[r] = "revise" /\ s \in work[r].submissions
  /\ \/ queue[s] = "deleted" /\ UNCHANGED <<queue, content>>
     \/ /\ queue[s] # "deleted" /\ queue' = [queue EXCEPT ![s] = "pending"]
        /\ \E c \in Validated : content' = [content EXCEPT ![s] = c]
  /\ reopened' = IF queue[s] = "approved" THEN reopened \cup {s} ELSE reopened
  /\ End(r)
  /\ UNCHANGED <<squadVars, approvals, opened, posts, boundVars, repeated>>

BeginDiscard(r, s) ==
  /\ MayRequest(Author[s]) /\ queue[s] \in {"pending", "approved", "rejected"}
  /\ BeginOn(r, "discard", {s}, "none") /\ UNCHANGED changes

deleteSourcePostModeration(r, s) ==
  /\ pc[r] = "discard" /\ s \in work[r].submissions
  /\ queue' = [queue EXCEPT ![s] = "deleted"] /\ content' = [content EXCEPT ![s] = "nothing"]
  /\ End(r)
  /\ UNCHANGED <<squadVars, approvals, opened, posts, histVars>>

\* canModeratePosts.
BeginModerate(r, u, S, status) ==
  /\ IsModerator(u) /\ \E s \in S : queue[s] \notin {"none", "deleted"}
  /\ BeginOn(r, "moderate", S, status) /\ UNCHANGED changes

\* The rows of S become status; each that was not approved and is now is told
\* to a handler, with what is in the row.
SetStatus(S, status) ==
  /\ queue' = [s \in Submissions |-> IF s \in S THEN status ELSE queue[s]]
  /\ approvals' = [s \in Submissions |->
       IF queue[s] # "approved" /\ queue'[s] = "approved"
       THEN Append(approvals[s], content[s]) ELSE approvals[s]]

\* Mutant of moderateSourcePosts: a decision is written over another.
ModerateAny(r) ==
  /\ pc[r] = "moderate"
  /\ SetStatus({s \in work[r].submissions : queue[s] \notin {"none", "deleted"}}, work[r].status)
  /\ End(r)
  /\ UNCHANGED <<squadVars, content, opened, posts, histVars>>

moderateSourcePosts(r) ==
  /\ pc[r] = "moderate"
  /\ SetStatus({s \in work[r].submissions : queue[s] = "pending"}, work[r].status)
  /\ End(r)
  /\ UNCHANGED <<squadVars, content, opened, posts, histVars>>

-----------------------------------------------------------------------------
(* Handlers of change messages (cdc/primary).  The messages of one row come *)
(* in order: the next one waits until one is acknowledged.  A message whose *)
(* handler fails is delivered again.                                       *)

Handling(S) == \E w \in Workers : pc[w] # "idle" /\ work[w].submissions = S

Take(w, place, what) ==
  /\ ~Handling(what.submissions) /\ Start(w, place, what)
  /\ UNCHANGED <<squadVars, queue, content, posts, histVars>>

BeginPublish(w, s) ==
  /\ approvals[s] # <<>> /\ approvals' = [approvals EXCEPT ![s] = Tail(@)]
  /\ Take(w, "publish", [NoWork EXCEPT !.submissions = {s}, !.content = Head(approvals[s])])
  /\ UNCHANGED opened

BeginOpen(w) ==
  /\ opened > 0 /\ opened' = opened - 1
  /\ Take(w, "open", NoWork) /\ UNCHANGED approvals

\* The message carries the submission: what became of the row is not read.
CreatePost(w, s) ==
  /\ work[w].content = "whole"
  /\ posts' = [posts EXCEPT ![s] = IF @ = 2 THEN 2 ELSE @ + 1]
  /\ Goto(w, "ack") /\ UNCHANGED <<approvals, opened, work>>

\* There is nothing to post: the message is acknowledged all the same.
Dismiss(w) ==
  /\ work[w].content = "nothing"
  /\ Goto(w, "ack") /\ UNCHANGED <<approvals, opened, posts, work>>

\* The message of a handler that throws is delivered again.
Return(w) ==
  /\ approvals' = [s \in Submissions |->
       IF s \in work[w].submissions THEN <<work[w].content>> \o approvals[s] ELSE approvals[s]]
  /\ opened' = IF work[w].submissions = {} THEN opened + 1 ELSE opened
  /\ End(w) /\ UNCHANGED posts

\* What is refused is refused at every delivery.
Refuse(w) == work[w].content = "refused" /\ Return(w)

processApprovedModeratedPost(w, s) ==
  /\ pc[w] = "publish" /\ s \in work[w].submissions
  /\ CreatePost(w, s) \/ Dismiss(w) \/ Refuse(w)
  /\ UNCHANGED <<squadVars, queue, content, histVars>>

\* What was pending when the squad stopped to require moderation is approved.
approvePending(w) ==
  /\ pc[w] = "open"
  /\ SetStatus({s \in Submissions : queue[s] = "pending"}, "approved")
  /\ Goto(w, "ack")
  /\ UNCHANGED <<squadVars, content, opened, posts, work, histVars>>

Ack(w) ==
  /\ pc[w] = "ack" /\ End(w)
  /\ UNCHANGED <<squadVars, queueVars, histVars>>

\* The handler fails, perhaps after its post was created.
Failing(w) ==
  /\ pc[w] \in {"publish", "open", "ack"}
  /\ failures < MaxFailures /\ failures' = failures + 1
  /\ repeated' = IF pc[w] = "ack" THEN repeated \cup work[w].submissions ELSE repeated
  /\ UNCHANGED <<squadVars, queue, content, posts, changes, reopened>>

\* Mutant of Fail: the message is gone.
FailAcked(w) == Failing(w) /\ End(w) /\ UNCHANGED <<approvals, opened>>

Fail(w) == Failing(w) /\ Return(w)

-----------------------------------------------------------------------------
Begin(r) ==
  \E u \in Users :
    \/ BeginDemote(r, u)
    \/ BeginLeave(r, u)
    \/ BeginJoin(r, u)
    \/ \E v \in Users :
         \/ BeginUnblock(r, u, v)
         \/ \E new \in Roles \cup {"owner"} : BeginUpdateRole(r, u, v, new)
    \/ \E new \in Inputs : BeginEdit(r, u, new)
    \/ \E S \in SUBSET Submissions, status \in {"approved", "rejected"} :
         BeginModerate(r, u, S, status)

BeginAuthor(r) ==
  \E s \in Submissions : BeginSubmit(r, s) \/ BeginRevise(r, s) \/ BeginDiscard(r, s)

Step(r) ==
  \/ \E u \in Users :
       \/ ReadOwnRole(r, u)
       \/ demoteSelf(r, u)
       \/ updateMemberRole(r, u)
       \/ removeSourceMember(r, u)
       \/ joinSource(r, u)
  \/ LockAdmins(r)
  \/ editSquad(r)
  \/ moderateSourcePosts(r)
  \/ \E s \in Submissions :
       \/ createSourcePostModeration(r, s)
       \/ editSourcePostModeration(r, s)
       \/ deleteSourcePostModeration(r, s)

Handle(w) ==
  \/ \E s \in Submissions : BeginPublish(w, s) \/ processApprovedModeratedPost(w, s)
  \/ BeginOpen(w)
  \/ approvePending(w)
  \/ Ack(w)

Next ==
  \/ \E r \in Requests : Begin(r) \/ BeginAuthor(r) \/ Step(r)
  \/ \E w \in Workers : Handle(w) \/ Fail(w)

\* A request that began ends, and a handler that can take a step does.  Messages
\* of different rows do not wait for each other: one that is delivered again and
\* again does not keep another from being delivered.
Fairness ==
  /\ \A r \in Requests : WF_vars(Step(r))
  /\ \A w \in Workers : WF_vars(Handle(w))
  /\ SF_vars(\E w \in Workers : BeginOpen(w))
  /\ \A s \in Submissions : SF_vars(\E w \in Workers : BeginPublish(w, s))

Spec == Init /\ [][Next]_vars /\ Fairness

-----------------------------------------------------------------------------
(* Properties.                                                             *)

\* An admin who steps down, having locked the admins and counted another,
\* leaves one, whatever the others do to themselves or each other meanwhile
\* (demoteSelf).  Leaving has no such promise.
DemotionLeavesAdmin ==
  [][\A r \in Requests :
       (pc[r] = "step down" /\ pc'[r] = "idle" /\ role' # role) => \E u \in Users : role'[u] = "admin"]_vars

\* A blocked user is let out by what somebody else asked, or by what he asked
\* himself before he was blocked: never by joining again (joinSource).
BlockIsLifted ==
  [][\A u \in Users :
       (role[u] = "blocked" /\ role'[u] # "blocked") =>
          \E r \in Requests :
            pc[r] # "idle" /\ pc'[r] = "idle" /\ u \in work[r].users /\ ~work[r].barred]_vars

\* A submission becomes one post, unless its handler failed after creating it
\* or its author's edit was written over an approval
\* (onSourcePostModerationChange).
PublishedOnce == \A s \in Submissions : posts[s] > 1 => s \in reopened \cup repeated

\* What waits for a moderator or was rejected is no post, unless its author's
\* edit was written over an approval (moderateSourcePosts).
PendingIsUnpublished ==
  \A s \in Submissions : (queue[s] \in {"pending", "rejected"} /\ posts[s] > 0) => s \in reopened

\* An earlier approval of s, whose author's edit was written over it, is refused
\* again and again, and what comes after it waits.
Stuck(s) ==
  \/ approvals[s] # <<>> /\ Head(approvals[s]) = "refused"
  \/ \E w \in Workers : s \in work[w].submissions /\ work[w].content = "refused"

\* An approved submission that has something to post becomes a post in the end,
\* though its handler may fail, unless an earlier approval of it is refused for
\* ever (onSourcePostModerationChange, processApprovedModeratedPost).
ApprovedIsPublished ==
  \A s \in Submissions :
    (queue[s] = "approved" /\ content[s] = "whole") ~> (posts[s] > 0 \/ Stuck(s))

\* What waits when the squad stops to require moderation does not wait forever,
\* though the handler of the change may fail, and other messages are refused and
\* delivered again for ever (onSourceChange).
QueueIsDrained ==
  \A s \in Submissions : (queue[s] = "pending" /\ opened > 0) ~> (queue[s] # "pending")
=============================================================================
