---------------------------- MODULE MCSettlingProxy ----------------------------
(***************************************************************************)
(* A small instance of SettlingProxy: a reviewed purchase of gold, the same *)
(* one with an amount or with a currency that has no string, and a         *)
(* deletion of a repository, which the policy denies.                      *)
(***************************************************************************)
EXTENDS SettlingProxy

Value(kind) == [kind |-> kind, n |-> 0]
Body(id, type, system, currency, amount) ==
    [action_id |-> id, actor_type |-> "ai_agent", actor_id |-> "agent", action_type |-> type,
     target_system |-> system, target_resource |-> "vault",
     parameters |-> [loanAmountRLUSD |-> Value("absent"), currency |-> Value(currency),
                     settlementAmount |-> Value(amount)],
     context |-> "ctx"]

Buy == Body("a", "BUY_GOLD", "settlement_orchestrator", "text", "text")
BuyUnreadable == Body("a", "BUY_GOLD", "settlement_orchestrator", "text", "unprintable")
BuyUnprintable == Body("a", "BUY_GOLD", "settlement_orchestrator", "unprintable", "text")
Delete == Body("b", "delete", "github", "absent", "absent")

Bodies == {Buy, BuyUnreadable, BuyUnprintable, Delete}
Policy == [a \in Bodies |-> IF a = Delete THEN "DENY" ELSE "REVIEW_REQUIRED"]
=============================================================================
