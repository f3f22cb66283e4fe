------------------------------ MODULE MCSquads ------------------------------
(***************************************************************************)
(* Two admins, of whom one submits a post: he may step down, be made a     *)
(* member or a moderator, be blocked, and leave, before or after he does.  *)
(***************************************************************************)
EXTENDS Squads

CONSTANTS ann, bob, post

TeamMembers == [u \in Users |-> "admin"]
PostAuthor == [s \in Submissions |-> bob]
=============================================================================
