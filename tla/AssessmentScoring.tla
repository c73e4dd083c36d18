--------------------------- MODULE AssessmentScoring ---------------------------
(***************************************************************************)
(* The evaluation of an AI governance assessment (scoring.ts, questions.ts *)
(* and the scoring part of standards-mapping.ts): from the answers to 25   *)
(* questions in five domains to scores, levels, named risks and a summary. *)
(* Texts are left out, except which of them is chosen.                     *)
(***************************************************************************)
EXTENDS Integers, FiniteSets

\* The domains, numbered in the order of their labels D04, D08, D13, D17 and
\* D25, which is also the order in which the sort breaks ties.
FINANCIAL_ACTIONS == 1
AI_RISK_MANAGEMENT == 2
PRIVACY_DATA_PROTECTION == 3
MODEL_GOVERNANCE_HUMAN_OVERSIGHT == 4
STRATEGIC_GOVERNANCE == 5
Domain == FINANCIAL_ACTIONS..STRATEGIC_GOVERNANCE

\* Question <<d, i>> is the i-th of domain d.
PerDomain == 5
assessmentQuestions == Domain \X (1..PerDomain)

\* YES, PARTIAL, NOT SURE and NO; Unanswered stands for a question that the
\* answers do not mention.
YES == 4
AnswerValue == {0, 1, 2, YES}
Unanswered == -1
Answers == [assessmentQuestions -> AnswerValue \cup {Unanswered}]

IsComplete(a) == \A q \in assessmentQuestions : a[q] # Unanswered

\* a is answer for answer at least as good as b.
AtLeast(a, b) == \A q \in assessmentQuestions : b[q] <= a[q]

\* What a session without a questionnaire reports on: PARTIAL throughout.
demoAssessmentAnswers == [q \in assessmentQuestions |-> 2]

------------------------------------------------------------------------------
\* Math.round(n / m) for n >= 0 and m > 0: halves are rounded up.
Round(n, m) == (2 * n + m) \div (2 * m)

Points(a, d, i) == IF a[<<d, i>>] = Unanswered THEN 0 ELSE a[<<d, i>>]

answeredPoints(a, d) ==
    Points(a, d, 1) + Points(a, d, 2) + Points(a, d, 3) + Points(a, d, 4) + Points(a, d, 5)

\* Mutated: only the questions that were answered count.
domainScoresOfAnswered(a) ==
    [d \in Domain |->
        LET answered == Cardinality({i \in 1..PerDomain : a[<<d, i>>] # Unanswered})
        IN  IF answered = 0 THEN 0 ELSE Round(100 * answeredPoints(a, d), answered * YES)]

domainScores(a) == [d \in Domain |-> Round(100 * answeredPoints(a, d), PerDomain * YES)]

totalScore(score) == Round(score[1] + score[2] + score[3] + score[4] + score[5], 5)

\* The scales, by rank from the worst: Critical, High, Medium, Low Risk;
\* D, C, B, A, A+; Not Ready, Partially Ready, Ready, Advanced; levels 1 to 5.

\* Mutated: the first bound with <=.
riskLevelOffByOne(n) ==
    IF n <= 50 THEN 1 ELSE IF n < 70 THEN 2 ELSE IF n < 90 THEN 3 ELSE 4

calculateAssessmentRiskLevel(n) ==
    IF n < 50 THEN 1 ELSE IF n < 70 THEN 2 ELSE IF n < 90 THEN 3 ELSE 4
LowRisk == 4

calculateAssessmentGrade(n) ==
    IF n <= 49 THEN 1 ELSE IF n <= 69 THEN 2 ELSE IF n <= 84 THEN 3 ELSE IF n <= 94 THEN 4 ELSE 5

calculateReadiness(n) ==
    IF n <= 49 THEN 1 ELSE IF n <= 69 THEN 2 ELSE IF n <= 84 THEN 3 ELSE 4

calculateMaturityLevel(n) ==
    IF n <= 49 THEN 1 ELSE IF n <= 69 THEN 2 ELSE IF n <= 84 THEN 3 ELSE IF n <= 94 THEN 4 ELSE 5

standardsStatusForScore(n) == IF n >= 90 THEN "GREEN" ELSE IF n >= 70 THEN "YELLOW" ELSE "RED"

\* The colour of each domain; its impact follows from it.
buildStandardsAlignment(score) == [d \in Domain |-> standardsStatusForScore(score[d])]

\* Mutated: without Math.min.
percentageUnbounded(n, m) == Round(n, m)

\* percentage(n / m)
percentage(n, m) == IF Round(n, m) > 100 THEN 100 ELSE Round(n, m)

------------------------------------------------------------------------------
\* Mutated: the best domains first.
BeforeDescending(score, d, e) == score[e] < score[d] \/ (score[d] = score[e] /\ d < e)

\* Domain d is listed before e: lower score first, then the label.
Before(score, d, e) == score[d] < score[e] \/ (score[d] = score[e] /\ d < e)

\* The first three of the domains below 70, none when the whole is Low Risk.
weakDomainScores(score, risk) ==
    LET weak == {d \in Domain : risk # LowRisk /\ score[d] < 70 /\ score[d] < 90}
    IN  {d \in weak : Cardinality({e \in weak : Before(score, e, d)}) < 3}

\* Which of its four texts the summary is, and the domains it names.
buildExecutiveSummary(total, risk, named) ==
    [text |-> IF risk = LowRisk THEN "no serious risk area was found"
              ELSE IF total >= 70 THEN "some controls are to be completed"
              ELSE IF total >= 50 THEN "main controls are not settled"
              ELSE "core controls are missing",
     names |-> IF risk = LowRisk THEN {} ELSE named]

answerLabel(value) ==
    IF value = 4 THEN "YES" ELSE IF value = 2 THEN "PARTIAL"
    ELSE IF value = 1 THEN "NOT SURE" ELSE "NO"

\* Per domain the answers as they are shown, one that is missing as NO, and
\* those that the narrative lists for review; findings are always the same.
buildExplanations(a) ==
    [d \in Domain |->
        [answeredPoints |-> answeredPoints(a, d),
         answerBreakdown |-> [i \in 1..PerDomain |-> answerLabel(Points(a, d, i))],
         negativeAnswers |-> {i \in 1..PerDomain : answerLabel(Points(a, d, i)) # "YES"}]]

\* The actions for 30, 90 and 180 days: one of four plans, by risk level.
timeHorizonActions == <<"emergency", "remedy", "complete", "maintain">>
buildRecommendedActions(risk) == timeHorizonActions[risk]

evaluateAssessment(a) ==
    LET score == domainScores(a)
        total == totalScore(score)
        risk == calculateAssessmentRiskLevel(total)
        named == weakDomainScores(score, risk)
    IN  [totalScore |-> total,
         riskLevel |-> risk,
         maturityLevel |-> calculateMaturityLevel(total),
         governanceGrade |-> calculateAssessmentGrade(total),
         aiReadiness |-> calculateReadiness(total),
         domainScores |-> score,
         standardsAlignment |-> buildStandardsAlignment(score),
         priorityRisks |-> named,
         explanations |-> buildExplanations(a),
         recommendedActions |-> buildRecommendedActions(risk),
         executiveSummary |-> buildExecutiveSummary(total, risk, named),
         controlMaturity |-> percentage(score[FINANCIAL_ACTIONS] + score[AI_RISK_MANAGEMENT]
                                        + score[MODEL_GOVERNANCE_HUMAN_OVERSIGHT], 3),
         auditReadiness |-> percentage(score[FINANCIAL_ACTIONS] + score[PRIVACY_DATA_PROTECTION]
                                       + score[MODEL_GOVERNANCE_HUMAN_OVERSIGHT]
                                       + score[STRATEGIC_GOVERNANCE] + 20, 4)]
=============================================================================
