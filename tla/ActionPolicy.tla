----------------------------- MODULE ActionPolicy -----------------------------
(***************************************************************************)
(* The two judgements that a preview puts on an action, as the two servers *)
(* compute them: evaluatePolicy and scoreRisk of ts-agentguard (policy.ts, *)
(* risk.ts, gold.ts, kgld.ts), evaluate_policy and score_risk of the       *)
(* Python package (action_policy.py, risk.py).                             *)
(*                                                                         *)
(* Of a string is kept what the rules ask of it: whether a target names a  *)
(* production resource or a gold vault, whether an action type ends in     *)
(* ".share_external" or in "share_external".  Names of matched policies,   *)
(* reasons and factors are left out, and numbers are integers.             *)
(***************************************************************************)
EXTENDS Integers

CONSTANTS
    Words,            \* a parameter: a string that is no number
    Empty,            \* a parameter: the empty string
    Absent,           \* a parameter that is not there
    NaN,              \* what Number() makes of Words
    Production,       \* the targets whose name contains "production"
    GoldVault,        \* the targets whose name starts with "gold:vault_"
    Sharing,          \* the action types that end in "share_external"
    DottedSharing     \* those that end in ".share_external"

Kgld == "BORROW_RLUSD_AGAINST_KGLD"
Gold == "BUY_GOLD"

\* The action types that a rule names.
NamedType == {Kgld, Gold, "github.delete_repository", "aws.open_security_group",
              "github.change_branch_protection", "github.read_token_attempt",
              "github.export_secrets", "github.modify_ci_workflow",
              "automation.mass_action_abuse", "github.get_repository_status",
              "browser.update_ad_budget"}

ASSUME SharingAssumption == DottedSharing \subseteq Sharing /\ Sharing \cap NamedType = {}
ASSUME ValuesAssumption ==
    /\ NaN \notin Int
    /\ {Words, Empty, Absent} \cap Int = {}
    /\ Words \notin {Empty, Absent}

Value == Int \cup {Words, Empty, Absent}

\* The part of a request body that the judgements read.  A field of `context` that holds
\* anything JavaScript and Python both take for true is "truthy" unless it is true itself.
ActionRequest ==
    [action_id : STRING, actor_id : STRING, action_type : STRING, target_resource : STRING,
     parameters : [current_budget : Value, new_budget : Value, goldAmountGrams : Value,
                   currency : {"XRP", "other"}, collateralAmountKGLD : Value,
                   kgldPriceRLUSD : Value, loanAmountRLUSD : Value],
     context : [collateralValueRLUSD : Value, ltv : Value, compromised : BOOLEAN,
                admin_level_action : {"absent", "true", "truthy"}]]
-----------------------------------------------------------------------------
(***************************************************************************)
(* Numbers in JavaScript.  NaN answers every comparison with false.        *)
(***************************************************************************)
numberParameter(v) == IF v \in Int THEN v ELSE IF v = Words THEN NaN ELSE 0

Truthy(x) == x \notin {0, NaN}
Above(x, limit) == x # NaN /\ x > limit
Times(x, y) == IF NaN \in {x, y} THEN NaN ELSE x * y

\* before > 0 && after / before >= 10
Tenfold(before, after) == Above(before, 0) /\ after # NaN /\ after >= 10 * before

BudgetTenfold(a) ==
    Tenfold(numberParameter(a.parameters.current_budget),
            numberParameter(a.parameters.new_budget))

\* contextCollateralValue || collateralAmountKGLD * kgldPriceRLUSD
collateralValueRLUSD(a) ==
    LET stated == numberParameter(a.context.collateralValueRLUSD)
    IN IF Truthy(stated) THEN stated
       ELSE Times(numberParameter(a.parameters.collateralAmountKGLD),
                  numberParameter(a.parameters.kgldPriceRLUSD))

\* The loan to value ratio in per cent, as a fraction: what the context states, or the
\* loan over the collateral, or 0 where there is no collateral.  1/0 stands for NaN.
Ratio(a) ==
    LET stated == numberParameter(a.context.ltv)
        value == collateralValueRLUSD(a)
        loan == numberParameter(a.parameters.loanAmountRLUSD)
    IN IF Truthy(stated) THEN [num |-> stated, den |-> 1]
       ELSE IF ~Above(value, 0) THEN [num |-> 0, den |-> 1]
       ELSE IF loan = NaN THEN [num |-> 1, den |-> 0]
       ELSE [num |-> 100 * loan, den |-> value]

LtvAtMost(a, limit) == Ratio(a).num <= limit * Ratio(a).den

Grams(a) == numberParameter(a.parameters.goldAmountGrams)
-----------------------------------------------------------------------------
(***************************************************************************)
(* ts-agentguard: the policy                                               *)
(***************************************************************************)
Allow == "ALLOW"
Review == "REVIEW_REQUIRED"
Deny == "DENY"
Decision == {Allow, Review, Deny}

\* Mutated: the first limit itself is no longer safe.
LendingDecisionBelow(a) ==
    IF Ratio(a).num < 60 * Ratio(a).den THEN Allow
    ELSE IF LtvAtMost(a, 70) THEN Review ELSE Deny

LendingDecision(a) ==
    IF LtvAtMost(a, 60) THEN Allow ELSE IF LtvAtMost(a, 70) THEN Review ELSE Deny

GoldDecision(a) ==
    IF \/ a.parameters.currency # "XRP"
       \/ a.target_resource \notin GoldVault
       \/ Above(Grams(a), 1000)
    THEN Deny
    ELSE IF Above(Grams(a), 100) THEN Review ELSE Allow

\* The rules after the two asset rules, in their order: those for one action type come
\* before those that look at the type's ending or at the context.
evaluatePolicy(a) ==
    CASE a.action_type = Kgld -> LendingDecision(a)
      [] a.action_type = Gold -> GoldDecision(a)
      [] a.action_type = "github.read_token_attempt" -> Deny
      [] a.action_type = "github.export_secrets" ->
            IF a.context.compromised THEN Deny ELSE Review
      [] a.action_type \in {"github.change_branch_protection", "github.modify_ci_workflow",
                            "automation.mass_action_abuse"} -> Review
      [] a.action_type = "github.get_repository_status" -> Allow
      [] OTHER ->
            IF a.action_type = "github.delete_repository" /\ a.target_resource \in Production
            THEN Deny
            ELSE IF \/ a.action_type = "browser.update_ad_budget" /\ BudgetTenfold(a)
                    \/ a.action_type \in DottedSharing
                    \/ a.context.admin_level_action = "true"
            THEN Review
            ELSE Allow
-----------------------------------------------------------------------------
(***************************************************************************)
(* ts-agentguard: the risk                                                 *)
(***************************************************************************)
RiskLevel == {"LOW", "MEDIUM", "HIGH", "CRITICAL"}

level(score) ==
    IF score >= 90 THEN "CRITICAL" ELSE IF score >= 70 THEN "HIGH"
    ELSE IF score >= 40 THEN "MEDIUM" ELSE "LOW"

\* Mutated: the larger of two.
AtLeastOf(x, y) == IF x < y THEN y ELSE x

AtMostOf(x, y) == IF x < y THEN x ELSE y
Points(holds, points) == IF holds THEN points ELSE 0

\* The levels that risk.ts writes out beside these six scores are those of level().
LendingScore(a) == IF LtvAtMost(a, 60) THEN 25 ELSE IF LtvAtMost(a, 70) THEN 55 ELSE 90
GoldScore(a) == IF Above(Grams(a), 1000) THEN 95 ELSE IF Above(Grams(a), 100) THEN 60 ELSE 20

\* Mutated: the deletion of a repository is not in the list.
TypeScoreWithoutDeletion(type) ==
    CASE type \in {"aws.open_security_group", "automation.mass_action_abuse"} -> 65
      [] type = "github.read_token_attempt" -> 80
      [] type = "github.modify_ci_workflow" -> 75
      [] type = "github.export_secrets" -> 85
      [] OTHER -> 0

\* The points of each action type.
TypeScore(type) ==
    CASE type \in {"github.delete_repository", "aws.open_security_group",
                   "automation.mass_action_abuse"} -> 65
      [] type = "github.read_token_attempt" -> 80
      [] type = "github.modify_ci_workflow" -> 75
      [] type = "github.export_secrets" -> 85
      [] OTHER -> 0

\* Mutated: a repeated attempt counts for the action instead of against it.
RepeatsForgiven(attempts) == 15 - AtMostOf(15, 5 * attempts)

Repeats(attempts) == AtMostOf(15, 5 * attempts)

\* hasHumanApproval is never passed: every score has the 10 points for its lack.
scoreRisk(a, attempts) ==
    CASE a.action_type = Kgld -> LendingScore(a)
      [] a.action_type = Gold -> GoldScore(a)
      [] OTHER -> AtMostOf(100,
            TypeScore(a.action_type)
            + Points(a.target_resource \in Production, 25)
            + Points(a.action_type \in Sharing, 15)
            + Points(\/ a.action_type = "github.change_branch_protection"
                     \/ a.context.admin_level_action # "absent", 20)
            + Points(a.action_type = "browser.update_ad_budget" /\ BudgetTenfold(a), 65)
            + 10
            + Repeats(attempts))
-----------------------------------------------------------------------------
(***************************************************************************)
(* The Python package.  float() raises where Number() gives NaN, and for   *)
(* the empty string; the budgets are read for one action type only.        *)
(***************************************************************************)
\* Mutated: the default for a missing budget is 1.
float_default_one(v) == IF v = Absent THEN 1 ELSE v

float(v) == IF v = Absent THEN 0 ELSE v

Answers(a) ==
    a.action_type = "browser.update_ad_budget" =>
        {a.parameters.current_budget, a.parameters.new_budget} \cap {Words, Empty} = {}

budget_tenfold(a) ==
    LET before == float(a.parameters.current_budget)
        after == float(a.parameters.new_budget)
    IN before > 0 /\ after >= 10 * before

evaluate_policy(a) ==
    IF \/ a.action_type = "github.delete_repository" /\ a.target_resource \in Production
       \/ a.action_type = "github.read_token_attempt"
       \/ a.action_type = "github.export_secrets" /\ a.context.compromised
    THEN Deny
    ELSE IF a.action_type \in {"github.change_branch_protection", "github.export_secrets",
                               "github.modify_ci_workflow", "automation.mass_action_abuse"}
    THEN Review
    ELSE IF /\ a.action_type # "github.get_repository_status"
            /\ \/ a.action_type = "browser.update_ad_budget" /\ budget_tenfold(a)
               \/ a.action_type \in DottedSharing
               \/ a.context.admin_level_action = "true"
    THEN Review
    ELSE Allow

score_risk(a, attempts) ==
    LET score ==
            Points(a.action_type \in {"github.delete_repository", "aws.open_security_group"}, 65)
            + Points(a.action_type = "github.read_token_attempt", 80)
            + Points(a.action_type = "github.modify_ci_workflow", 75)
            + Points(a.action_type = "github.export_secrets", 85)
            + Points(a.action_type = "automation.mass_action_abuse", 65)
            + Points(a.target_resource \in Production, 25)
            + Points(a.action_type \in Sharing, 15)
            + Points(\/ a.action_type = "github.change_branch_protection"
                     \/ a.context.admin_level_action # "absent", 20)
            + Points(a.action_type = "browser.update_ad_budget" /\ budget_tenfold(a), 65)
            + 10
            + Points(attempts > 0, AtMostOf(15, 5 * attempts))
    IN AtMostOf(100, score)
=============================================================================
