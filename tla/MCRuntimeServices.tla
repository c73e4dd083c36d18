--------------------------- MODULE MCRuntimeServices ---------------------------
(***************************************************************************)
(* A small instance of RuntimeServices: two gateways over one engine, one  *)
(* nonce that clients choose and may choose again; two executors, one of   *)
(* them for a repository that is no sandbox, and an action of each kind.   *)
(***************************************************************************)
EXTENDS RuntimeServices

Intents == {"create_branch", "modify_docs", "merge"}
=============================================================================
