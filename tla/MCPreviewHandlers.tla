--------------------------- MODULE MCPreviewHandlers ---------------------------
(***************************************************************************)
(* Small instances of PreviewHandlers: request bodies on both sides of     *)
(* each boundary, and clients that use two of them at a time.              *)
(***************************************************************************)
EXTENDS PreviewHandlers, TLC

\* A body about which no rule has anything to say.
Plain ==
    [action_id |-> "i", actor_id |-> "agent", action_type |-> "browser.open",
     target_resource |-> "page",
     parameters |-> [current_budget |-> Absent, new_budget |-> Absent,
                     goldAmountGrams |-> Absent, currency |-> "XRP",
                     collateralAmountKGLD |-> Absent, kgldPriceRLUSD |-> Absent,
                     loanAmountRLUSD |-> Absent],
     context |-> [collateralValueRLUSD |-> Absent, ltv |-> Absent, compromised |-> FALSE,
                  admin_level_action |-> "absent"]]

Loan(loan, collateral, price) ==
    [Plain EXCEPT !.action_type = Kgld,
                  !.parameters = [@ EXCEPT !.loanAmountRLUSD = loan,
                                           !.collateralAmountKGLD = collateral,
                                           !.kgldPriceRLUSD = price]]
Stated(value, percent) ==
    [Loan(60, 10, 10) EXCEPT !.context = [@ EXCEPT !.collateralValueRLUSD = value,
                                                   !.ltv = percent]]

Loans ==
    {Loan(n, 10, 10) : n \in {-1, 60, 61, 70, 71, Words, Absent}}
    \cup {Loan(60, n, 1) : n \in {0, -1, 99, 100, Words, Absent}}
    \cup {Stated(v, p) : v \in {0, 90, Words}, p \in {0, 60, 61, 70, 71, Words}}

Purchase(grams, currency, target) ==
    [Plain EXCEPT !.action_type = Gold, !.target_resource = target,
                  !.parameters = [@ EXCEPT !.goldAmountGrams = grams, !.currency = currency]]

Purchases ==
    {Purchase(n, "XRP", "gold:vault_1") : n \in {100, 101, 1000, 1001, Words, Absent}}
    \cup {Purchase(1, "other", "gold:vault_1"), Purchase(1, "XRP", "page")}

Budget(before, after) ==
    [Plain EXCEPT !.action_type = "browser.update_ad_budget",
                  !.parameters = [@ EXCEPT !.current_budget = before, !.new_budget = after]]
Amounts == {-1, 0, 1, 9, 10, Absent, Words, Empty}
Budgets == {Budget(b, c) : b, c \in Amounts}

Types == {"github.delete_repository", "aws.open_security_group",
          "github.change_branch_protection", "github.read_token_attempt",
          "github.export_secrets", "github.modify_ci_workflow",
          "automation.mass_action_abuse", "github.get_repository_status",
          "drive.share_external", "share_external", "browser.open"}

Governed ==
    {[Plain EXCEPT !.action_type = t, !.target_resource = r,
                   !.context = [@ EXCEPT !.compromised = c, !.admin_level_action = d]] :
        t \in Types, r \in {"page", "production-db"}, c \in BOOLEAN,
        d \in {"absent", "true", "truthy"}}

Bodies == Loans \cup Purchases \cup Budgets \cup Governed

\* Any one body, and pairs of one key: of one id, and of two.
Other == [Budget(1, 10) EXCEPT !.action_id = "j"]
Alone == {{a} : a \in Bodies}
Pairs == {{Budget(1, 9), Budget(1, 10)}, {Budget(1, 9), Other}, {Budget(1, 10), Other}}
AllTraffic == Alone \cup Pairs
AllBodies == Bodies \cup {Other}
Symmetry == Permutations(Worker)
=============================================================================
