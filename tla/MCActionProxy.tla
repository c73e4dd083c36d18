----------------------------- MODULE MCActionProxy -----------------------------
(***************************************************************************)
(* Small instances of ActionProxy: one id, a loan, sent with two amounts   *)
(* (drift) or with one in two forms, and a purchase that String() raises   *)
(* at.                                                                     *)
(***************************************************************************)
EXTENDS ActionProxy, TLC

Absent == [kind |-> "absent", n |-> 0]
Unprintable == [kind |-> "unprintable", n |-> 0]
Body(type, loan, currency) ==
    [action_id |-> "a", actor_type |-> "ai_agent", actor_id |-> "agent", action_type |-> type,
     target_system |-> "settlement_orchestrator", target_resource |-> "vault",
     parameters |-> [loanAmountRLUSD |-> loan, currency |-> currency,
                     settlementAmount |-> Absent],
     context |-> "ctx"]

Loan(n) == [kind |-> "number", n |-> n]
LoanText(n) == [kind |-> "numeric_string", n |-> n]

Borrow500 == Body("borrow", Loan(500), Absent)
Borrow900 == Body("borrow", Loan(900), Absent)
\* The same amount in two forms, equal to numberValue and different to the fingerprint, of a loan
\* in a currency that the settlement executor raises at
Unreadable500 == Body("borrow", Loan(500), Unprintable)
Unreadable500Text == Body("borrow", LoanText(500), Unprintable)
\* A purchase whose handlers raise
Purchase == Body("BUY_GOLD", Absent, Unprintable)

\* One id, three bodies, all to be reviewed: what a token binds.
Requests == {Unreadable500, Unreadable500Text, Purchase}
RequestsPolicy == [a \in Requests |-> "REVIEW_REQUIRED"]
Symmetry == Permutations(TokenId)

\* One id, two amounts, the larger one denied.
MixedLoans == {Borrow500, Borrow900}
MixedPolicy == [a \in MixedLoans |-> IF a = Borrow900 THEN "DENY" ELSE "REVIEW_REQUIRED"]
=============================================================================
