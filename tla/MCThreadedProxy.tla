---------------------------- MODULE MCThreadedProxy ----------------------------
(***************************************************************************)
(* Two threads; one id that is sent both for a branch protection change,   *)
(* to be reviewed, and for the deletion of a production repository, denied.*)
(***************************************************************************)
EXTENDS ThreadedProxy, TLC

Body(id, type, target) ==
    [action_id |-> id, actor_id |-> "agent", action_type |-> type, target_resource |-> target]

Protect == Body("a", "github.change_branch_protection", "main")
Delete == Body("a", "github.delete_repository", "production")

\* The threads of the pool are interchangeable.
Threads == Permutations(Worker)

SameId == {Protect, Delete}
SameIdPolicy == [a \in SameId |-> IF a = Delete THEN "DENY" ELSE "REVIEW_REQUIRED"]
=============================================================================
