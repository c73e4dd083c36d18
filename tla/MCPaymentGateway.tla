---------------------------- MODULE MCPaymentGateway ----------------------------
(***************************************************************************)
(* A small instance of PaymentGateway: two agents that share a wallet, a   *)
(* destination off the whitelist, amounts that leave room for one payment  *)
(* but not for two, and a request without a usable amount.                 *)
(***************************************************************************)
EXTENDS PaymentGateway

O(agent, wallet, destination, currency, amount) ==
    [agent_id |-> agent, wallet_address |-> wallet, purpose |-> "ops",
     destination |-> destination, currency |-> currency, amount |-> amount, spikes |-> 0]

Payments ==
    {O("a", "w", "r1", "XRP", 3), O("b", "w", "r1", "RLUSD", 5), O("a", "v", "r1", "RLUSD", 4),
     O("a", "w", "r2", "RLUSD", 2)}
Unusable == {O("a", "w", "r1", "XRP", Missing), O("a", "w", "r1", "XRP", Words)}
ToReview == {O("a", "w", "r1", "XRP", 3)} \cup Unusable
Orders == Payments \cup Unusable

P(agent, daily) ==
    [agent_id |-> agent, purposes |-> {"ops"}, max_amount |-> 2, daily_limit |-> daily,
     whitelist |-> {"r1"}, allow_new_destination |-> TRUE, new_destination_score |-> 20,
     approve_below |-> 30, conditional_from |-> 31, block_from |-> 70]
PolicyFiles == {P("a", 2), P("b", 3)}
=============================================================================
