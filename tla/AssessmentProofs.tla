---------------------------- MODULE AssessmentProofs ----------------------------
(***************************************************************************)
(* Proofs about the assessment: its arithmetic for every answer sheet, and *)
(* its pages for any sheets and any number of requests in flight.          *)
(***************************************************************************)
EXTENDS AssessmentPages, FiniteSetTheorems, WellFoundedInduction, TLAPS

(***************************************************************************)
(* The arithmetic.                                                         *)
(***************************************************************************)
\* An answer is worth 0 to 4 points, a better one no fewer.
LEMMA PointsOfAnswer ==
    ASSUME NEW a \in Answers, NEW d \in Domain, NEW i \in 1..PerDomain
    PROVE  /\ Points(a, d, i) \in {0, 1, 2, 4}
           /\ \A b \in Answers : AtLeast(a, b) => Points(b, d, i) <= Points(a, d, i)
  <1>1. <<d, i>> \in assessmentQuestions
    BY DEF assessmentQuestions
  <1>2. \A b \in Answers : b[<<d, i>>] \in {-1, 0, 1, 2, 4}
    BY <1>1 DEF Answers, AnswerValue, YES, Unanswered
  <1>3. \A b \in Answers : AtLeast(a, b) => b[<<d, i>>] <= a[<<d, i>>]
    BY <1>1 DEF AtLeast
  <1> QED BY <1>2, <1>3 DEF Points, Unanswered

\* A domain has 0 to 20 points, and its score is five times as much: the rounding of
\* evaluateAssessment never rounds a domain.
LEMMA ScoreOfDomain ==
    ASSUME NEW a \in Answers, NEW d \in Domain
    PROVE  /\ answeredPoints(a, d) \in 0..20
           /\ domainScores(a)[d] = 5 * answeredPoints(a, d)
           /\ \A b \in Answers : AtLeast(a, b) => answeredPoints(b, d) <= answeredPoints(a, d)
  <1>1. \A i \in 1..5 : Points(a, d, i) \in 0..4
    BY PointsOfAnswer DEF PerDomain
  <1>2. answeredPoints(a, d) \in 0..20
    BY <1>1 DEF answeredPoints
  <1>3. domainScores(a)[d] = 5 * answeredPoints(a, d)
    <2>1. domainScores(a)[d] = Round(100 * answeredPoints(a, d), 20)
      BY DEF domainScores, PerDomain, YES
    <2>2. \A n \in 0..20 : Round(100 * n, 20) = 5 * n
      BY DEF Round
    <2> QED BY <1>2, <2>1, <2>2
  <1>4. ASSUME NEW b \in Answers, AtLeast(a, b)
        PROVE  answeredPoints(b, d) <= answeredPoints(a, d)
    <2>1. \A i \in 1..5 : Points(b, d, i) \in 0..4 /\ Points(b, d, i) <= Points(a, d, i)
      BY <1>4, PointsOfAnswer DEF PerDomain
    <2> QED BY <1>1, <2>1 DEF answeredPoints
  <1> QED BY <1>2, <1>3, <1>4

\* A domain's score is a number from 0 to 100 and no lower for better answers.
LEMMA DomainScoresRise ==
    ASSUME NEW a \in Answers
    PROVE  /\ domainScores(a) \in [Domain -> 0..100]
           /\ \A b \in Answers : AtLeast(a, b) =>
                \A d \in Domain : domainScores(b)[d] <= domainScores(a)[d]
  <1>1. domainScores(a) \in [Domain -> 0..100]
    <2>1. \A d \in Domain : domainScores(a)[d] \in 0..100
      BY ScoreOfDomain
    <2> QED BY <2>1 DEF domainScores
  <1>2. ASSUME NEW b \in Answers, AtLeast(a, b), NEW d \in Domain
        PROVE  domainScores(b)[d] <= domainScores(a)[d]
    BY <1>2, ScoreOfDomain
  <1> QED BY <1>1, <1>2

\* What the rounding of an average of five leaves.
LEMMA Tenths ==
    ASSUME NEW n \in Nat
    PROVE  /\ Round(n, 5) \in Nat
           /\ 10 * Round(n, 5) <= 2 * n + 5
           /\ 2 * n + 5 < 10 * Round(n, 5) + 10
  <1>1. Round(n, 5) = (2 * n + 5) \div 10
    BY DEF Round
  <1> QED BY <1>1

\* What the five scores of a domain map are, one by one.
LEMMA FiveScores ==
    ASSUME NEW s \in [Domain -> 0..100]
    PROVE  /\ s[1] \in Int /\ s[2] \in Int /\ s[3] \in Int /\ s[4] \in Int /\ s[5] \in Int
           /\ s[1] >= 0 /\ s[2] >= 0 /\ s[3] >= 0 /\ s[4] >= 0 /\ s[5] >= 0
           /\ s[1] <= 100 /\ s[2] <= 100 /\ s[3] <= 100 /\ s[4] <= 100 /\ s[5] <= 100
           /\ Domain = {1, 2, 3, 4, 5}
  <1>1. Domain = {1, 2, 3, 4, 5}
    BY DEF Domain, FINANCIAL_ACTIONS, STRATEGIC_GOVERNANCE
  <1>2. \A d \in Domain : s[d] \in Int /\ s[d] >= 0 /\ s[d] <= 100
    OBVIOUS
  <1> QED BY <1>1, <1>2

\* The sum that totalScore rounds.
SumOf(s) == s[1] + s[2] + s[3] + s[4] + s[5]

\* It is a number, and the total its fifth, rounded.
LEMMA TotalIsFloor ==
    ASSUME NEW s \in [Domain -> 0..100]
    PROVE  /\ SumOf(s) \in Nat /\ SumOf(s) <= 500
           /\ totalScore(s) \in Nat
           /\ 10 * totalScore(s) <= 2 * SumOf(s) + 5
           /\ 2 * SumOf(s) + 5 < 10 * totalScore(s) + 10
  <1>1. SumOf(s) \in Int /\ SumOf(s) >= 0 /\ SumOf(s) <= 500
    BY FiveScores DEF SumOf
  <1>2. totalScore(s) = Round(SumOf(s), 5)
    BY DEF totalScore, SumOf
  <1>3. SumOf(s) \in Nat
    BY <1>1
  <1> QED BY <1>1, <1>2, <1>3, Tenths

\* The total of scores from 0 to 100 is one itself, between the lowest and the highest.
LEMMA TotalIsBetween ==
    ASSUME NEW s \in [Domain -> 0..100]
    PROVE  /\ totalScore(s) \in 0..100
           /\ \A n \in 0..100 : (\A d \in Domain : n <= s[d]) => n <= totalScore(s)
           /\ \A n \in 0..100 : (\A d \in Domain : s[d] <= n) => totalScore(s) <= n
           /\ totalScore(s) >= 90 => \A d \in Domain : s[d] >= 48
  <1>1. totalScore(s) \in 0..100
    BY TotalIsFloor
  <1>2. ASSUME NEW n \in 0..100, \A d \in Domain : n <= s[d]
        PROVE  n <= totalScore(s)
    <2>1. n <= s[1] /\ n <= s[2] /\ n <= s[3] /\ n <= s[4] /\ n <= s[5]
      BY <1>2, FiveScores
    <2>2. 5 * n <= SumOf(s)
      BY <2>1, FiveScores DEF SumOf
    <2> QED BY <2>2, TotalIsFloor
  <1>3. ASSUME NEW n \in 0..100, \A d \in Domain : s[d] <= n
        PROVE  totalScore(s) <= n
    <2>1. s[1] <= n /\ s[2] <= n /\ s[3] <= n /\ s[4] <= n /\ s[5] <= n
      BY <1>3, FiveScores
    <2>2. SumOf(s) <= 5 * n
      BY <2>1, FiveScores DEF SumOf
    <2> QED BY <2>2, TotalIsFloor
  <1>4. ASSUME totalScore(s) >= 90
        PROVE  \A d \in Domain : s[d] >= 48
    <2>1. SumOf(s) >= 448
      BY <1>4, TotalIsFloor
    <2>2. s[1] >= 48 /\ s[2] >= 48 /\ s[3] >= 48 /\ s[4] >= 48 /\ s[5] >= 48
      BY <2>1, FiveScores DEF SumOf
    <2> QED BY <2>2, FiveScores
  <1> QED BY <1>1, <1>2, <1>3, <1>4

\* The total is no lower for scores no lower.
LEMMA TotalRises ==
    ASSUME NEW s \in [Domain -> 0..100], NEW z \in [Domain -> 0..100],
           \A d \in Domain : s[d] <= z[d]
    PROVE  totalScore(s) <= totalScore(z)
  <1>1. s[1] <= z[1] /\ s[2] <= z[2] /\ s[3] <= z[3] /\ s[4] <= z[4] /\ s[5] <= z[5]
    BY FiveScores
  <1>2. SumOf(s) <= SumOf(z)
    BY <1>1, FiveScores DEF SumOf
  <1> QED BY <1>2, TotalIsFloor

\* A percentage is one, and no lower for a higher numerator.
LEMMA PercentageRises ==
    ASSUME NEW k \in Nat, NEW n \in Nat, k <= n
    PROVE  /\ percentage(n, 3) \in 0..100 /\ percentage(k, 3) <= percentage(n, 3)
           /\ percentage(n, 4) \in 0..100 /\ percentage(k, 4) <= percentage(n, 4)
  BY DEF percentage, Round

\* Each scale is no lower for a higher total.
LEMMA ScalesRise ==
    ASSUME NEW k \in 0..100, NEW n \in 0..100, k <= n
    PROVE  /\ calculateAssessmentRiskLevel(k) <= calculateAssessmentRiskLevel(n)
           /\ calculateAssessmentGrade(k) <= calculateAssessmentGrade(n)
           /\ calculateReadiness(k) <= calculateReadiness(n)
           /\ calculateMaturityLevel(k) <= calculateMaturityLevel(n)
  <1>1. calculateAssessmentRiskLevel(k) <= calculateAssessmentRiskLevel(n)
    BY DEF calculateAssessmentRiskLevel
  <1>2. calculateAssessmentGrade(k) <= calculateAssessmentGrade(n)
    BY DEF calculateAssessmentGrade
  <1>3. calculateReadiness(k) <= calculateReadiness(n)
    BY DEF calculateReadiness
  <1>4. calculateMaturityLevel(k) <= calculateMaturityLevel(n)
    BY DEF calculateMaturityLevel
  <1> QED BY <1>1, <1>2, <1>3, <1>4

(***************************************************************************)
(* Evaluations.                                                            *)
(***************************************************************************)
\* What evaluateAssessment puts together.
LEMMA EvaluationFields ==
    ASSUME NEW a
    PROVE  LET r == evaluateAssessment(a)
               total == totalScore(domainScores(a))
           IN  /\ r.totalScore = total
               /\ r.domainScores = domainScores(a)
               /\ r.riskLevel = calculateAssessmentRiskLevel(total)
               /\ r.maturityLevel = calculateMaturityLevel(total)
               /\ r.governanceGrade = calculateAssessmentGrade(total)
               /\ r.aiReadiness = calculateReadiness(total)
               /\ r.standardsAlignment =
                    [d \in Domain |-> standardsStatusForScore(domainScores(a)[d])]
               /\ r.priorityRisks =
                    weakDomainScores(domainScores(a), calculateAssessmentRiskLevel(total))
               /\ r.controlMaturity = percentage(domainScores(a)[1] + domainScores(a)[2]
                                                 + domainScores(a)[4], 3)
               /\ r.auditReadiness = percentage(domainScores(a)[1] + domainScores(a)[3]
                                                + domainScores(a)[4] + domainScores(a)[5] + 20, 4)
  BY DEF evaluateAssessment, buildStandardsAlignment, FINANCIAL_ACTIONS, AI_RISK_MANAGEMENT,
         PRIVACY_DATA_PROTECTION, MODEL_GOVERNANCE_HUMAN_OVERSIGHT, STRATEGIC_GOVERNANCE

\* The two numerators behind the percentages, no lower for scores no lower.
ControlSum(s) == s[1] + s[2] + s[4]
AuditSum(s) == s[1] + s[3] + s[4] + s[5] + 20

LEMMA NumeratorsRise ==
    ASSUME NEW s \in [Domain -> 0..100], NEW z \in [Domain -> 0..100],
           \A d \in Domain : s[d] <= z[d]
    PROVE  /\ ControlSum(s) \in Nat /\ ControlSum(z) \in Nat /\ ControlSum(s) <= ControlSum(z)
           /\ AuditSum(s) \in Nat /\ AuditSum(z) \in Nat /\ AuditSum(s) <= AuditSum(z)
  <1>1. s[1] <= z[1] /\ s[2] <= z[2] /\ s[3] <= z[3] /\ s[4] <= z[4] /\ s[5] <= z[5]
    BY FiveScores
  <1>2. ControlSum(s) \in Nat /\ ControlSum(z) \in Nat /\ ControlSum(s) <= ControlSum(z)
    BY <1>1, FiveScores DEF ControlSum
  <1>3. AuditSum(s) \in Nat /\ AuditSum(z) \in Nat /\ AuditSum(s) <= AuditSum(z)
    BY <1>1, FiveScores DEF AuditSum
  <1> QED BY <1>2, <1>3

\* An evaluation is a result that can be printed.
LEMMA EvaluationIsResult ==
    ASSUME NEW a \in Answers
    PROVE  IsResult(evaluateAssessment(a))
  <1> DEFINE s == domainScores(a)
  <1>1. s \in [Domain -> 0..100]
    BY DomainScoresRise
  <1>2. totalScore(s) \in 0..100
    BY <1>1, TotalIsBetween
  <1>3. ControlSum(s) \in Nat /\ AuditSum(s) \in Nat
    BY <1>1, NumeratorsRise
  <1>4. percentage(ControlSum(s), 3) \in 0..100 /\ percentage(AuditSum(s), 4) \in 0..100
    BY <1>3, PercentageRises
  <1>5. /\ evaluateAssessment(a).totalScore = totalScore(s)
        /\ evaluateAssessment(a).controlMaturity = percentage(ControlSum(s), 3)
        /\ evaluateAssessment(a).auditReadiness = percentage(AuditSum(s), 4)
    BY EvaluationFields DEF ControlSum, AuditSum
  <1> HIDE DEF s
  <1> QED BY <1>2, <1>4, <1>5 DEF IsResult

\* Better answers lower nothing in an evaluation.
LEMMA EvaluationsRise ==
    ASSUME NEW a \in Answers, NEW b \in Answers, AtLeast(a, b)
    PROVE  LET r == evaluateAssessment(a)
               w == evaluateAssessment(b)
           IN  /\ \A d \in Domain : r.domainScores[d] >= w.domainScores[d]
               /\ r.totalScore >= w.totalScore
               /\ r.riskLevel >= w.riskLevel
               /\ r.governanceGrade >= w.governanceGrade
               /\ r.aiReadiness >= w.aiReadiness
               /\ r.maturityLevel >= w.maturityLevel
               /\ r.controlMaturity >= w.controlMaturity
               /\ r.auditReadiness >= w.auditReadiness
  <1> DEFINE s == domainScores(a)
             z == domainScores(b)
             n == totalScore(s)
             k == totalScore(z)
             r == evaluateAssessment(a)
             w == evaluateAssessment(b)
  <1>1. s \in [Domain -> 0..100] /\ z \in [Domain -> 0..100] /\ \A d \in Domain : z[d] <= s[d]
    BY DomainScoresRise
  <1>2. \A d \in Domain : r.domainScores[d] >= w.domainScores[d]
    <2>1. r.domainScores = s /\ w.domainScores = z
      BY EvaluationFields
    <2>2. \A d \in Domain : s[d] >= z[d]
      <3> HIDE DEF s, z
      <3> QED BY <1>1
    <2> QED BY <2>1, <2>2
  <1>3. n \in 0..100 /\ k \in 0..100 /\ k <= n
    <2> HIDE DEF s, z
    <2> QED BY <1>1, TotalIsBetween, TotalRises
  <1>4. /\ calculateAssessmentRiskLevel(n) >= calculateAssessmentRiskLevel(k)
        /\ calculateAssessmentGrade(n) >= calculateAssessmentGrade(k)
        /\ calculateReadiness(n) >= calculateReadiness(k)
        /\ calculateMaturityLevel(n) >= calculateMaturityLevel(k)
        /\ n >= k
    <2> HIDE DEF n, k
    <2>1. /\ calculateAssessmentRiskLevel(n) \in Int /\ calculateAssessmentRiskLevel(k) \in Int
          /\ calculateAssessmentGrade(n) \in Int /\ calculateAssessmentGrade(k) \in Int
          /\ calculateReadiness(n) \in Int /\ calculateReadiness(k) \in Int
          /\ calculateMaturityLevel(n) \in Int /\ calculateMaturityLevel(k) \in Int
      BY DEF calculateAssessmentRiskLevel, calculateAssessmentGrade, calculateReadiness,
             calculateMaturityLevel
    <2> QED BY <1>3, <2>1, ScalesRise
  <1>5. /\ percentage(ControlSum(s), 3) >= percentage(ControlSum(z), 3)
        /\ percentage(AuditSum(s), 4) >= percentage(AuditSum(z), 4)
    <2> HIDE DEF s, z
    <2>1. /\ ControlSum(s) \in Nat /\ ControlSum(z) \in Nat /\ ControlSum(z) <= ControlSum(s)
          /\ AuditSum(s) \in Nat /\ AuditSum(z) \in Nat /\ AuditSum(z) <= AuditSum(s)
      BY <1>1, NumeratorsRise
    <2> QED BY <2>1, PercentageRises
  <1>6. /\ r.totalScore = n /\ w.totalScore = k
        /\ r.riskLevel = calculateAssessmentRiskLevel(n)
        /\ w.riskLevel = calculateAssessmentRiskLevel(k)
        /\ r.governanceGrade = calculateAssessmentGrade(n)
        /\ w.governanceGrade = calculateAssessmentGrade(k)
        /\ r.aiReadiness = calculateReadiness(n) /\ w.aiReadiness = calculateReadiness(k)
        /\ r.maturityLevel = calculateMaturityLevel(n)
        /\ w.maturityLevel = calculateMaturityLevel(k)
    BY EvaluationFields
  <1>7. /\ r.controlMaturity = percentage(ControlSum(s), 3)
        /\ w.controlMaturity = percentage(ControlSum(z), 3)
        /\ r.auditReadiness = percentage(AuditSum(s), 4)
        /\ w.auditReadiness = percentage(AuditSum(z), 4)
    BY EvaluationFields DEF ControlSum, AuditSum
  <1> HIDE DEF s, z, n, k, r, w
  <1>8. /\ r.totalScore >= w.totalScore /\ r.riskLevel >= w.riskLevel
        /\ r.governanceGrade >= w.governanceGrade /\ r.aiReadiness >= w.aiReadiness
        /\ r.maturityLevel >= w.maturityLevel
    BY <1>4, <1>6
  <1>9. r.controlMaturity >= w.controlMaturity /\ r.auditReadiness >= w.auditReadiness
    BY <1>5, <1>7
  <1> QED BY Zenon, <1>2, <1>8, <1>9 DEF r, w

\* The scales of one total.
LEMMA ScalesOfTotal ==
    ASSUME NEW n \in 0..100
    PROVE  LET level == calculateAssessmentRiskLevel(n)
               grade == calculateAssessmentGrade(n)
           IN  /\ (level = 1) = (grade = 1)
               /\ (level <= 2) = (grade <= 2)
               /\ level = LowRisk => grade >= 4
               /\ grade = 5 => level = LowRisk
               /\ calculateReadiness(n) = IF grade = 5 THEN 4 ELSE grade
               /\ calculateMaturityLevel(n) = grade
               /\ n >= 90 => level = LowRisk
               /\ n < 70 => level <= 2
               /\ level = LowRisk => n >= 90
  BY DEF calculateAssessmentRiskLevel, calculateAssessmentGrade, calculateReadiness,
         calculateMaturityLevel, LowRisk

\* The scales of an evaluation do not contradict each other.
LEMMA EvaluationScalesAgree ==
    ASSUME NEW a \in Answers
    PROVE  LET r == evaluateAssessment(a)
           IN  /\ (r.riskLevel = 1) = (r.governanceGrade = 1)
               /\ (r.riskLevel <= 2) = (r.governanceGrade <= 2)
               /\ r.riskLevel = LowRisk => r.governanceGrade >= 4
               /\ r.governanceGrade = 5 => r.riskLevel = LowRisk
               /\ r.aiReadiness = IF r.governanceGrade = 5 THEN 4 ELSE r.governanceGrade
               /\ r.maturityLevel = r.governanceGrade
               /\ (\A d \in Domain : r.standardsAlignment[d] = "GREEN") => r.riskLevel = LowRisk
               /\ (\A d \in Domain : r.standardsAlignment[d] = "RED") => r.riskLevel <= 2
  <1> DEFINE s == domainScores(a)
             n == totalScore(s)
             r == evaluateAssessment(a)
  <1>1. s \in [Domain -> 0..100]
    BY DomainScoresRise
  <1>2. /\ r.riskLevel = calculateAssessmentRiskLevel(n)
        /\ r.governanceGrade = calculateAssessmentGrade(n)
        /\ r.aiReadiness = calculateReadiness(n)
        /\ r.maturityLevel = calculateMaturityLevel(n)
        /\ r.standardsAlignment = [d \in Domain |-> standardsStatusForScore(s[d])]
    BY EvaluationFields
  <1>3. n \in 0..100
    <2> HIDE DEF s
    <2> QED BY <1>1, TotalIsBetween
  <1>4. ASSUME \A d \in Domain : r.standardsAlignment[d] = "GREEN"
        PROVE  r.riskLevel = LowRisk
    <2> HIDE DEF s, r
    <2>1. \A d \in Domain : 90 <= s[d]
      BY <1>1, <1>2, <1>4 DEF standardsStatusForScore
    <2>2. n >= 90
      BY <1>1, <1>3, <2>1, TotalIsBetween
    <2> HIDE DEF n
    <2> QED BY <1>2, <1>3, <2>2, ScalesOfTotal
  <1>5. ASSUME \A d \in Domain : r.standardsAlignment[d] = "RED"
        PROVE  r.riskLevel <= 2
    <2> HIDE DEF s, r
    <2>1. \A d \in Domain : s[d] <= 69
      BY <1>1, <1>2, <1>5 DEF standardsStatusForScore
    <2>2. n < 70
      BY <1>1, <1>3, <2>1, TotalIsBetween
    <2> HIDE DEF n
    <2> QED BY <1>2, <1>3, <2>2, ScalesOfTotal
  <1>6. /\ (r.riskLevel = 1) = (r.governanceGrade = 1)
        /\ (r.riskLevel <= 2) = (r.governanceGrade <= 2)
        /\ r.riskLevel = LowRisk => r.governanceGrade >= 4
        /\ r.governanceGrade = 5 => r.riskLevel = LowRisk
        /\ r.aiReadiness = IF r.governanceGrade = 5 THEN 4 ELSE r.governanceGrade
        /\ r.maturityLevel = r.governanceGrade
    <2> HIDE DEF n, r
    <2> QED BY <1>2, <1>3, ScalesOfTotal
  <1> QED BY Zenon, <1>4, <1>5, <1>6

(***************************************************************************)
(* The pages.                                                              *)
(***************************************************************************)
\* The invariant without what follows from it: everything but the results is well typed.
Shape ==
    /\ form \in Answers
    /\ page.view \in Views /\ page.answers \in Answers /\ page.dashboards \in 0..2
    /\ DOMAIN calls = Call
    /\ \A c \in Call : /\ calls[c].to \in Routes /\ calls[c].stage \in Stages
                       /\ calls[c].answers \in Answers
    /\ message \in Messages
    /\ submitted \in Answers
    /\ crossed \in BOOLEAN

\* The blank form and the demonstration are answer sheets.
LEMMA KnownSheets == Blank \in Answers /\ demoAssessmentAnswers \in Answers
  BY DEF Blank, demoAssessmentAnswers, Answers, AnswerValue

\* One request changes, the others stay.
LEMMA OneRequest ==
    ASSUME DOMAIN calls = Call, NEW c \in Call, NEW q, calls' = [calls EXCEPT ![c] = q]
    PROVE  /\ DOMAIN calls' = Call
           /\ calls'[c] = q
           /\ \A d \in Call \ {c} : calls'[d] = calls[d]
  OBVIOUS

\* The state is well shaped initially and after every step.
LEMMA ShapeInvariant == Spec => []Shape
  <1>1. ASSUME Init
        PROVE  Shape
    <2>1. page.view \in Views /\ page.answers \in Answers /\ page.dashboards \in 0..2
      BY <1>1, KnownSheets DEF Init, Questionnaire, Document, Views
    <2>2. /\ DOMAIN calls = Call
          /\ \A c \in Call : /\ calls[c].to \in Routes /\ calls[c].stage \in Stages
                             /\ calls[c].answers \in Answers
      BY <1>1, KnownSheets DEF Init, Idle, Request, Routes, Stages
    <2>3. message \in Messages /\ crossed \in BOOLEAN
      BY <1>1 DEF Init, Messages
    <2> QED BY <1>1, <2>1, <2>2, <2>3, KnownSheets DEF Init, Shape
  <1>2. ASSUME Shape, [Next]_vars
        PROVE  Shape'
    <2> USE DEF Shape
    <2> DEFINE Typed(q) == q.to \in Routes /\ q.stage \in Stages /\ q.answers \in Answers
    <2>1. ASSUME NEW c \in Call, NEW q, Typed(q), calls' = [calls EXCEPT ![c] = q]
          PROVE  DOMAIN calls' = Call /\ \A d \in Call : Typed(calls'[d])
      BY <1>2, <2>1, OneRequest
    <2>2. ASSUME NEW a \in FormSheets, FillIn(a)
          PROVE  Shape'
      BY <1>2, <2>2, SheetsAssumption DEF FillIn
    <2>3. CASE SubmitIncomplete
      BY <1>2, <2>3 DEF SubmitIncomplete, Messages
    <2>4. CASE OpenQuestionnaire
      <3>1. page'.view \in Views /\ page'.answers \in Answers /\ page'.dashboards \in 0..2
        BY <2>4, KnownSheets DEF OpenQuestionnaire, Open, Questionnaire, Document, Views
      <3>2. DOMAIN calls' = Call /\ \A d \in Call : Typed(calls'[d])
        BY <1>2, <2>4, KnownSheets DEF OpenQuestionnaire, Open, Idle, Request, Routes, Stages
      <3> QED BY <2>4, <3>1, <3>2, KnownSheets DEF OpenQuestionnaire, Open, Messages
    <2>5. CASE OpenDemoReport
      <3>1. page'.view \in Views /\ page'.answers \in Answers /\ page'.dashboards \in 0..2
        BY <2>5, KnownSheets DEF OpenDemoReport, demoReport, Open, Document, Views
      <3>2. DOMAIN calls' = Call /\ \A d \in Call : Typed(calls'[d])
        BY <1>2, <2>5, KnownSheets DEF OpenDemoReport, demoReport, Open, Idle, Request, Routes, Stages
      <3> QED BY <2>5, <3>1, <3>2, KnownSheets DEF OpenDemoReport, demoReport, Open, Messages
    <2>6. ASSUME NEW c \in Call, NEW to \in {"dashboard", "report"}, Submit(c, to)
          PROVE  Shape'
      <3>1. Typed(Request(to, "sent", form, NoResult))
        BY <1>2 DEF Request, Routes, Stages
      <3>2. DOMAIN calls' = Call /\ \A d \in Call : Typed(calls'[d])
        BY <2>1, <2>6, <3>1 DEF Submit, Send
      <3> QED BY <1>2, <2>6, <3>2 DEF Submit, Messages
    <2>7. ASSUME NEW c \in Call, NEW a \in DirectSheets, PostDirectly(c, a)
          PROVE  Shape'
      <3>1. Typed(Request("direct", "sent", a, NoResult))
        BY SheetsAssumption DEF Request, Routes, Stages
      <3>2. DOMAIN calls' = Call /\ \A d \in Call : Typed(calls'[d])
        BY <2>1, <2>7, <3>1 DEF PostDirectly, Send
      <3> QED BY <1>2, <2>7, <3>2 DEF PostDirectly
    <2>8. ASSUME NEW c \in Call, AskSummary(c)
          PROVE  Shape'
      <3>1. Typed(Request("summary", "sent", page.answers, page.result))
        BY <1>2 DEF Request, Routes, Stages
      <3>2. DOMAIN calls' = Call /\ \A d \in Call : Typed(calls'[d])
        BY <2>1, <2>8, <3>1 DEF AskSummary, Send
      <3> QED BY <1>2, <2>8, <3>2 DEF AskSummary
    <2>9. ASSUME NEW c \in Call, Serve(c)
          PROVE  Shape'
      <3>1. \A r : Typed(Request(calls[c].to, "answered", calls[c].answers, r))
        BY <1>2 DEF Request, Stages
      <3>2. DOMAIN calls' = Call /\ \A d \in Call : Typed(calls'[d])
        BY <2>1, <2>9, <3>1 DEF Serve
      <3> QED BY <1>2, <2>9, <3>2 DEF Serve
    <2>10. ASSUME NEW c \in Call, Refuse(c)
           PROVE  Shape'
      <3>1. Typed(Request(calls[c].to, "refused", calls[c].answers, calls[c].result))
        BY <1>2 DEF Request, Stages
      <3>2. DOMAIN calls' = Call /\ \A d \in Call : Typed(calls'[d])
        BY <2>1, <2>10, <3>1 DEF Refuse
      <3> QED BY <1>2, <2>10, <3>2 DEF Refuse
    <2>11. Typed(Idle)
      BY KnownSheets DEF Idle, Request, Routes, Stages
    <2>12. ASSUME NEW c \in Call, Lose(c)
           PROVE  Shape'
      <3>1. DOMAIN calls' = Call /\ \A d \in Call : Typed(calls'[d])
        BY <2>1, <2>11, <2>12 DEF Lose
      <3> QED BY <1>2, <2>12, <3>1 DEF Lose
    <2>13. ASSUME NEW c \in Call, Arrive(c)
           PROVE  Shape'
      <3>1. DOMAIN calls' = Call /\ \A d \in Call : Typed(calls'[d])
        BY <2>1, <2>11, <2>13 DEF Arrive
      <3>2. page'.view \in Views /\ page'.answers \in Answers /\ page'.dashboards \in 0..2
        BY <1>2, <2>13 DEF Arrive, Document, Views
      <3>3. form' \in Answers /\ message' \in Messages
        BY <1>2, <2>13, KnownSheets DEF Arrive, Messages
      <3> QED BY <1>2, <2>13, <3>1, <3>2, <3>3 DEF Arrive
    <2>14. ASSUME NEW c \in Call, ArriveRefused(c)
           PROVE  Shape'
      <3>1. DOMAIN calls' = Call /\ \A d \in Call : Typed(calls'[d])
        BY <2>1, <2>11, <2>14 DEF ArriveRefused
      <3>2. page'.view \in Views /\ page'.answers \in Answers /\ page'.dashboards \in 0..2
        BY <1>2, <2>14, KnownSheets DEF ArriveRefused, Document, Views
      <3>3. form' \in Answers /\ message' \in Messages
        BY <1>2, <2>14, KnownSheets DEF ArriveRefused, Messages
      <3> QED BY <1>2, <2>14, <3>1, <3>2, <3>3 DEF ArriveRefused
    <2>15. CASE UNCHANGED vars
      BY <1>2, <2>15 DEF vars
    <2> QED BY <1>2, <2>2, <2>3, <2>4, <2>5, <2>6, <2>7, <2>8, <2>9, <2>10, <2>12, <2>13, <2>14,
               <2>15 DEF Next
  <1> QED BY <1>1, <1>2, PTL DEF Spec

\* What PagesInv says of one request.
Explained(q) ==
    /\ Evaluated(q.result, q.answers)
    /\ q.stage = "answered" => q.result = evaluateAssessment(q.answers)
    /\ q.to \in {"dashboard", "report", "summary"} => FromForm(q.answers)

LEMMA PagesInvByRequest ==
    PagesInv <=>
        /\ Evaluated(page.result, page.answers)
        /\ page.view \in {"dashboard", "report"} =>
             page.result = evaluateAssessment(page.answers) /\ FromForm(page.answers)
        /\ \A c \in Call : Explained(calls[c])
  BY Zenon DEF PagesInv, Explained, Own

\* A request that nobody has sent says nothing.
LEMMA IdleIsExplained == Explained(Idle) /\ ~(Idle.to \in {"dashboard", "report", "summary"})
  BY DEF Explained, Idle, Request, Evaluated

\* Every step keeps the invariant of the pages.
LEMMA PagesInvStep ==
    ASSUME Shape, PagesInv, [Next]_vars
    PROVE  PagesInv'
  <1> DEFINE Displayed(document) ==
        /\ Evaluated(document.result, document.answers)
        /\ document.view \in {"dashboard", "report"} =>
             document.result = evaluateAssessment(document.answers) /\ FromForm(document.answers)
  <1>1. Displayed(page) /\ \A c \in Call : Explained(calls[c])
    BY PagesInvByRequest
  <1>2. ASSUME Displayed(page)', \A c \in Call : Explained(calls[c])'
        PROVE  PagesInv'
    BY Zenon, <1>2 DEF PagesInv, Explained, Own
  <1>3. DOMAIN calls = Call
    BY DEF Shape
  <1>4. ASSUME UNCHANGED <<submitted, crossed>>, NEW c \in Call, NEW q, Explained(q),
               calls' = [calls EXCEPT ![c] = q]
        PROVE  \A d \in Call : Explained(calls[d])'
    BY <1>1, <1>3, <1>4, OneRequest DEF Explained, FromForm
  <1>5. ASSUME UNCHANGED <<page, submitted, crossed>>
        PROVE  Displayed(page)'
    BY <1>1, <1>5 DEF FromForm
  <1>6. ASSUME UNCHANGED <<calls, submitted, crossed>>
        PROVE  \A d \in Call : Explained(calls[d])'
    BY <1>1, <1>6 DEF Explained, FromForm
  <1>7. ASSUME NEW a \in FormSheets, FillIn(a)
        PROVE  PagesInv'
    BY <1>2, <1>5, <1>6, <1>7 DEF FillIn
  <1>8. CASE SubmitIncomplete
    BY <1>2, <1>5, <1>6, <1>8 DEF SubmitIncomplete
  <1>9. ASSUME NEW document, Open(document), document.view \notin {"dashboard", "report"},
               Evaluated(document.result, document.answers)
        PROVE  PagesInv'
    <2>1. Displayed(page)'
      BY <1>9 DEF Open
    <2>2. \A d \in Call : calls'[d] = IF Own(d) THEN Idle ELSE calls[d]
      BY <1>9 DEF Open
    <2>3. \A d \in Call : Explained(calls[d])'
      BY <1>1, <2>2, IdleIsExplained DEF Explained, Own
    <2> QED BY <1>2, <2>1, <2>3
  <1>10. CASE OpenQuestionnaire
    <2>1. /\ Questionnaire.view = "questionnaire"
          /\ Evaluated(Questionnaire.result, Questionnaire.answers)
      BY DEF Questionnaire, Document, Evaluated
    <2> QED BY <1>9, <1>10, <2>1 DEF OpenQuestionnaire
  <1>11. CASE OpenDemoReport
    <2>1. demoReport.view = "demo" /\ Evaluated(demoReport.result, demoReport.answers)
      BY DEF demoReport, Document, Evaluated
    <2> QED BY <1>9, <1>11, <2>1 DEF OpenDemoReport
  <1>12. ASSUME NEW c \in Call, NEW to \in {"dashboard", "report"}, Submit(c, to)
         PROVE  PagesInv'
    <2> DEFINE q == Request(to, "sent", form, NoResult)
    <2>1. calls' = [calls EXCEPT ![c] = q] /\ page' = page /\ submitted' = form
      BY <1>12 DEF Submit, Send
    <2>2. Explained(calls[c])'
      <3>1. calls'[c] = q
        BY <1>3, <2>1, OneRequest
      <3> QED BY <1>12, <2>1, <3>1 DEF Submit, Explained, Request, Evaluated, FromForm
    <2>3. Displayed(page)'
      BY <1>1, <1>12, <2>1 DEF Submit
    <2>4. ASSUME NEW d \in Call \ {c}
          PROVE  Explained(calls[d])'
      <3>1. calls'[d] = calls[d]
        BY <1>3, <2>1, OneRequest
      <3>2. Own(d) => crossed'
        BY <1>12 DEF Submit
      <3> QED BY <1>1, <3>1, <3>2 DEF Explained, FromForm, Own
    <2>5. \A d \in Call : Explained(calls[d])'
      BY <2>2, <2>4
    <2> QED BY <1>2, <2>3, <2>5
  <1>13. ASSUME NEW c \in Call, NEW a \in DirectSheets, PostDirectly(c, a)
         PROVE  PagesInv'
    <2>1. Explained(Request("direct", "sent", a, NoResult))
      BY DEF Explained, Request, Evaluated
    <2> QED BY <1>2, <1>4, <1>5, <1>13, <2>1 DEF PostDirectly, Send
  <1>14. ASSUME NEW c \in Call, AskSummary(c)
         PROVE  PagesInv'
    <2> DEFINE q == Request("summary", "sent", page.answers, page.result)
    <2>1. /\ calls' = [calls EXCEPT ![c] = q] /\ page' = page /\ submitted' = submitted
          /\ crossed => crossed'
      BY <1>14 DEF AskSummary, Send
    <2>2. Explained(calls[c])'
      <3>1. calls'[c] = q
        BY <1>3, <2>1, OneRequest
      <3> QED BY <1>1, <1>14, <2>1, <3>1 DEF AskSummary, Explained, Request, Evaluated, FromForm
    <2>3. Displayed(page)'
      BY <1>1, <2>1 DEF FromForm
    <2>4. ASSUME NEW d \in Call \ {c}
          PROVE  Explained(calls[d])'
      <3>1. calls'[d] = calls[d]
        BY <1>3, <2>1, OneRequest
      <3> QED BY <1>1, <2>1, <3>1 DEF Explained, FromForm
    <2>5. \A d \in Call : Explained(calls[d])'
      BY <2>2, <2>4
    <2> QED BY <1>2, <2>3, <2>5
  <1>15. ASSUME NEW c \in Call, Serve(c)
         PROVE  PagesInv'
    <2> DEFINE q == Request(calls[c].to, "answered", calls[c].answers,
                            IF calls[c].result = NoResult THEN evaluateAssessment(calls[c].answers)
                            ELSE calls[c].result)
    <2>1. Explained(q)
      BY <1>1 DEF Explained, Request, Evaluated
    <2>2. calls' = [calls EXCEPT ![c] = q] /\ UNCHANGED <<page, submitted, crossed>>
      BY <1>15 DEF Serve
    <2> HIDE DEF q
    <2> QED BY <1>2, <1>4, <1>5, <2>1, <2>2
  <1>16. ASSUME NEW c \in Call, Refuse(c)
         PROVE  PagesInv'
    <2> DEFINE q == Request(calls[c].to, "refused", calls[c].answers, calls[c].result)
    <2>1. Explained(q)
      BY <1>1 DEF Explained, Request
    <2>2. calls' = [calls EXCEPT ![c] = q] /\ UNCHANGED <<page, submitted, crossed>>
      BY <1>16 DEF Refuse
    <2> HIDE DEF q
    <2> QED BY <1>2, <1>4, <1>5, <2>1, <2>2
  <1>17. ASSUME NEW c \in Call, Lose(c)
         PROVE  PagesInv'
    BY <1>2, <1>4, <1>5, <1>17, IdleIsExplained DEF Lose
  <1>18. ASSUME NEW c \in Call, Arrive(c)
         PROVE  PagesInv'
    <2>1. \A d \in Call : Explained(calls[d])'
      BY <1>4, <1>18, IdleIsExplained DEF Arrive
    <2>2. CASE Own(c)
      <3>1. /\ page'.answers = calls[c].answers
            /\ page'.result = calls[c].result
        BY <1>18, <2>2 DEF Arrive, Document
      <3>2. /\ calls[c].result = evaluateAssessment(calls[c].answers)
            /\ FromForm(calls[c].answers)
            /\ UNCHANGED <<submitted, crossed>>
        BY <1>1, <1>18, <2>2 DEF Arrive, Explained, Own
      <3>3. Displayed(page)'
        BY <3>1, <3>2 DEF FromForm, Evaluated
      <3> QED BY <1>2, <2>1, <3>3
    <2>3. CASE ~Own(c)
      BY <1>2, <1>5, <1>18, <2>1, <2>3 DEF Arrive
    <2> QED BY <2>2, <2>3
  <1>19. ASSUME NEW c \in Call, ArriveRefused(c)
         PROVE  PagesInv'
    <2>1. \A d \in Call : Explained(calls[d])'
      BY <1>4, <1>19, IdleIsExplained DEF ArriveRefused
    <2>2. CASE calls[c].to = "summary"
      <3>1. page'.view = "error" /\ page'.result = NoResult
        BY <1>19, <2>2 DEF ArriveRefused, Document
      <3>2. Displayed(page)'
        BY <3>1 DEF Evaluated
      <3> QED BY <1>2, <2>1, <3>2
    <2>3. CASE calls[c].to # "summary"
      BY <1>2, <1>5, <1>19, <2>1, <2>3 DEF ArriveRefused
    <2> QED BY <2>2, <2>3
  <1>20. CASE UNCHANGED vars
    BY <1>2, <1>5, <1>6, <1>20 DEF vars
  <1> HIDE DEF Displayed
  <1> QED BY <1>7, <1>8, <1>10, <1>11, <1>12, <1>13, <1>14, <1>15, <1>16, <1>17, <1>18, <1>19,
             <1>20 DEF Next

\* Every result on display or on its way is the evaluation of the answers it is kept with, and
\* what the page asked for goes back to a complete form (server.ts routes, questionnaire.ts).
THEOREM ResultsAreEvaluations == Spec => []PagesInv
  <1>1. Init => PagesInv
    BY IdleIsExplained DEF Init, PagesInv, Explained, Own, Questionnaire, Document, Evaluated
  <1> QED BY <1>1, ShapeInvariant, PagesInvStep, PTL DEF Spec

\* Pages, requests and answers stay well typed, and what is printed as a score or a percentage
\* is one, for any answer sheets (evaluateAssessment, percentage).
THEOREM TypeCorrect == Spec => []TypeOK
  <1>1. ASSUME Shape, PagesInv
        PROVE  TypeOK
    <2>1. ASSUME NEW r, NEW a \in Answers, Evaluated(r, a)
          PROVE  IsResult(r)
      BY <2>1, EvaluationIsResult DEF Evaluated, IsResult
    <2>2. IsResult(page.result) /\ \A c \in Call : IsResult(calls[c].result)
      BY <1>1, <2>1 DEF Shape, PagesInv
    <2> QED BY <1>1, <2>2 DEF Shape, TypeOK
  <1> QED BY <1>1, ShapeInvariant, ResultsAreEvaluations, PTL

\* A dashboard or report shows the evaluation of a complete form, of the last one submitted
\* unless requests overlapped (questionnaire.ts submit handler, dashboard.ts summary button).
THEOREM PagesShowWhatWasSubmitted == Spec => []ShownWasSubmitted
  <1>1. PagesInv => ShownWasSubmitted
    BY DEF PagesInv, ShownWasSubmitted, FromForm
  <1> QED BY <1>1, ResultsAreEvaluations, PTL

\* Of each result there is: it is an evaluation of an answer sheet.
LEMMA ResultsOfSheets ==
    ASSUME Shape, PagesInv, NEW x \in Results
    PROVE  x.answers \in Answers /\ x.result = evaluateAssessment(x.answers)
  BY DEF Shape, PagesInv, Results, Evaluated

\* Better answers never cost anything, whatever the sheets (evaluateAssessment).
THEOREM AnswersAreMonotone == Spec => []BetterAnswersNeverLose
  <1>1. ASSUME Shape, PagesInv
        PROVE  BetterAnswersNeverLose
    <2> SUFFICES ASSUME NEW x \in Results, NEW y \in Results, AtLeast(x.answers, y.answers)
                 PROVE  /\ \A d \in Domain : x.result.domainScores[d] >= y.result.domainScores[d]
                        /\ x.result.totalScore >= y.result.totalScore
                        /\ x.result.riskLevel >= y.result.riskLevel
                        /\ x.result.governanceGrade >= y.result.governanceGrade
                        /\ x.result.aiReadiness >= y.result.aiReadiness
                        /\ x.result.maturityLevel >= y.result.maturityLevel
                        /\ x.result.controlMaturity >= y.result.controlMaturity
                        /\ x.result.auditReadiness >= y.result.auditReadiness
      BY Zenon DEF BetterAnswersNeverLose
    <2>1. /\ x.answers \in Answers /\ x.result = evaluateAssessment(x.answers)
          /\ y.answers \in Answers /\ y.result = evaluateAssessment(y.answers)
      BY <1>1, ResultsOfSheets
    <2> QED BY <2>1, EvaluationsRise
  <1> QED BY <1>1, ShapeInvariant, ResultsAreEvaluations, PTL

\* The scales and colours of a report do not contradict each other, whatever the answers
\* (scoring.ts, standards-mapping.ts).
THEOREM ScalesNeverContradict == Spec => []ScalesAgree
  <1>1. ASSUME Shape, PagesInv
        PROVE  ScalesAgree
    <2>1. ASSUME NEW x \in Results
          PROVE  x.answers \in Answers /\ x.result = evaluateAssessment(x.answers)
      BY <1>1, ResultsOfSheets
    <2> QED BY <2>1, EvaluationScalesAgree DEF ScalesAgree
  <1> QED BY <1>1, ShapeInvariant, ResultsAreEvaluations, PTL

(***************************************************************************)
(* Weak domains.  Sorting and taking the first three is, in the model, to  *)
(* count the domains ahead of each.  That this names three, whenever it    *)
(* leaves one out, is shown by taking the first one after the other.       *)
(***************************************************************************)
\* The order of the list is a total order of the domains (scoring.ts, buildPriorityRisks).
LEMMA ListOrder ==
    ASSUME NEW s \in [Domain -> 0..100]
    PROVE  /\ \A d \in Domain : ~Before(s, d, d)
           /\ \A d, e \in Domain : d # e => Before(s, d, e) \/ Before(s, e, d)
           /\ \A d, e, f \in Domain : Before(s, d, e) /\ Before(s, e, f) => Before(s, d, f)
           /\ \A d, e \in Domain : Before(s, d, e) => s[d] <= s[e]
  <1>1. \A d \in Domain : s[d] \in Int /\ d \in Int
    BY DEF Domain, FINANCIAL_ACTIONS, STRATEGIC_GOVERNANCE
  <1> QED BY <1>1 DEF Before

\* The order by a score and, for equal scores, a label from 1 to 5 is one of numbers.
LEMMA Places ==
    ASSUME NEW a \in Int, NEW b \in Int, NEW d \in 1..5, NEW e \in 1..5,
           10 * a + d <= 10 * b + e
    PROVE  a < b \/ (a = b /\ d <= e)
    OBVIOUS

\* Among any domains there is a first one.
LEMMA FirstDomain ==
    ASSUME NEW s \in [Domain -> 0..100], NEW W \in SUBSET Domain, W # {}
    PROVE  \E m \in W : \A e \in W : e = m \/ Before(s, m, e)
  <1> DEFINE place(d) == 10 * s[d] + d
             K == {place(d) : d \in W}
  <1>1. \A d \in Domain : s[d] \in 0..100 /\ d \in 1..5
    BY DEF Domain, FINANCIAL_ACTIONS, STRATEGIC_GOVERNANCE
  <1>2. \A d \in W : place(d) \in Nat
    BY <1>1
  <1>3. K \subseteq Nat /\ K # {}
    <2> HIDE DEF place
    <2> QED BY <1>2
  <1>4. ASSUME NEW d \in W, NEW e \in W, place(d) <= place(e)
        PROVE  e = d \/ Before(s, d, e)
    <2>1. s[d] \in 0..100 /\ d \in 1..5 /\ s[e] \in 0..100 /\ e \in 1..5
      BY <1>1
    <2>2. s[d] < s[e] \/ (s[d] = s[e] /\ d <= e)
      <3>1. 10 * s[d] + d <= 10 * s[e] + e
        BY <1>4
      <3> HIDE DEF place
      <3>2. s[d] \in Int /\ s[e] \in Int
        BY <2>1
      <3> QED BY <2>1, <3>1, <3>2, Places
    <2> QED BY <2>1, <2>2 DEF Before
  <1>5. \E k \in K : \A j \in K : ~(<<j, k>> \in OpToRel(<, Nat))
    <2> HIDE DEF K
    <2> QED BY <1>3, NatLessThanWellFounded, WFMin
  <1>6. PICK m \in W : \A e \in W : ~(<<place(e), place(m)>> \in OpToRel(<, Nat))
    <2>1. PICK k \in K : \A j \in K : ~(<<j, k>> \in OpToRel(<, Nat))
      BY <1>5
    <2> QED BY <2>1
  <1>7. \A j, k \in Nat : j < k => <<j, k>> \in OpToRel(<, Nat)
    BY DEF OpToRel
  <1>8. \A e \in W : ~(place(e) < place(m))
    BY <1>2, <1>6, <1>7
  <1>9. \A e \in W : place(m) <= place(e)
    <2> HIDE DEF place
    <2> QED BY <1>2, <1>8
  <1> QED BY <1>4, <1>9

\* The domains that are listed before d.
Ahead(s, W, d) == {e \in W : Before(s, e, d)}

\* Sets of domains are finite, and what three different ones are.
LEMMA SomeDomains ==
    /\ \A W \in SUBSET Domain : IsFiniteSet(W)
    /\ \A W \in SUBSET Domain : \A V \in SUBSET W : Cardinality(V) <= Cardinality(W)
    /\ \A W \in SUBSET Domain : Cardinality(W) \in Nat
    /\ Cardinality({}) = 0
    /\ \A x : Cardinality({x}) = 1
    /\ \A x, y : x # y => Cardinality({x, y}) = 2
    /\ \A x, y, z : x # y /\ x # z /\ y # z => Cardinality({x, y, z}) = 3
  <1>1. IsFiniteSet(Domain)
    <2>1. Domain = 1..5 /\ 1 \in Int /\ 5 \in Int
      BY DEF Domain, FINANCIAL_ACTIONS, STRATEGIC_GOVERNANCE
    <2> QED BY <2>1, FS_Interval
  <1>2. /\ \A W \in SUBSET Domain : IsFiniteSet(W)
        /\ \A W \in SUBSET Domain : \A V \in SUBSET W : Cardinality(V) <= Cardinality(W)
        /\ \A W \in SUBSET Domain : Cardinality(W) \in Nat
    BY <1>1, FS_Subset, FS_CardinalityType
  <1>3. Cardinality({}) = 0 /\ \A x : IsFiniteSet({x}) /\ Cardinality({x}) = 1
    BY FS_EmptySet, FS_Singleton
  <1>4. ASSUME NEW x, NEW y, x # y
        PROVE  IsFiniteSet({x, y}) /\ Cardinality({x, y}) = 2
    <2> DEFINE one == {x}
    <2>1. one \cup {y} = {x, y} /\ y \notin one
      BY <1>4
    <2>2. IsFiniteSet(one) /\ Cardinality(one) = 1
      BY <1>3
    <2> HIDE DEF one
    <2>3. IsFiniteSet(one \cup {y}) /\ Cardinality(one \cup {y}) = 1 + 1
      BY <2>1, <2>2, FS_AddElement
    <2> QED BY <2>1, <2>3
  <1>5. ASSUME NEW x, NEW y, NEW z, x # y, x # z, y # z
        PROVE  Cardinality({x, y, z}) = 3
    <2> DEFINE two == {x, y}
    <2>1. two \cup {z} = {x, y, z} /\ z \notin two
      BY <1>5
    <2>2. IsFiniteSet(two) /\ Cardinality(two) = 2
      BY <1>4, <1>5
    <2> HIDE DEF two
    <2>3. Cardinality(two \cup {z}) = 2 + 1
      BY <2>1, <2>2, FS_AddElement
    <2> QED BY <2>1, <2>3
  <1>6. \A x : Cardinality({x}) = 1
    BY <1>3
  <1>7. \A x, y : x # y => Cardinality({x, y}) = 2
    BY <1>4
  <1>8. \A x, y, z : x # y /\ x # z /\ y # z => Cardinality({x, y, z}) = 3
    BY <1>5
  <1> QED BY Zenon, <1>2, <1>3, <1>6, <1>7, <1>8

\* If a domain has three ahead of it, exactly three have fewer, and none of these is better.
LEMMA FirstThree ==
    ASSUME NEW s \in [Domain -> 0..100], NEW W \in SUBSET Domain, NEW d \in W,
           ~(Cardinality(Ahead(s, W, d)) < 3)
    PROVE  LET named == {e \in W : Cardinality(Ahead(s, W, e)) < 3}
           IN  Cardinality(named) = 3 /\ \A e \in named : s[e] <= s[d]
  <1> DEFINE named == {e \in W : Cardinality(Ahead(s, W, e)) < 3}
  <1>1. \A e \in W : Ahead(s, W, e) \in SUBSET W /\ Ahead(s, W, e) \in SUBSET Domain
    BY DEF Ahead
  <1>2. PICK x \in W : \A e \in W : e = x \/ Before(s, x, e)
    BY FirstDomain
  <1>3. ASSUME NEW V \in SUBSET W, Cardinality(V) \in 1..2
        PROVE  W \ V # {}
    <2> SUFFICES ASSUME W \ V = {}
                 PROVE  FALSE
      OBVIOUS
    <2> DEFINE A == Ahead(s, W, d)
    <2>1. V \in SUBSET Domain /\ A \in SUBSET V /\ A \in SUBSET Domain
      BY <1>1
    <2>2. ~(Cardinality(A) < 3)
      OBVIOUS
    <2> HIDE DEF A
    <2>3. Cardinality(A) <= Cardinality(V) /\ Cardinality(A) \in Nat
      BY <2>1, SomeDomains
    <2> QED BY <1>3, <2>2, <2>3
  <1>4. W \ {x} # {}
    <2>1. Cardinality({x}) = 1
      BY SomeDomains
    <2>2. Cardinality({x}) \in 1..2
      BY <2>1
    <2> QED BY <1>3, <2>2
  <1>5. PICK y \in W \ {x} : \A e \in W \ {x} : e = y \/ Before(s, y, e)
    <2>1. W \ {x} \in SUBSET Domain
      OBVIOUS
    <2> QED BY <1>4, <2>1, FirstDomain
  <1>6. W \ {x, y} # {}
    <2>1. Cardinality({x, y}) = 2
      BY <1>5, SomeDomains
    <2>2. Cardinality({x, y}) \in 1..2
      BY <2>1
    <2> QED BY <1>3, <1>5, <2>2
  <1>7. PICK z \in W \ {x, y} : \A e \in W \ {x, y} : e = z \/ Before(s, z, e)
    <2>1. W \ {x, y} \in SUBSET Domain
      OBVIOUS
    <2> QED BY <1>6, <2>1, FirstDomain
  <1>8. x # y /\ x # z /\ y # z /\ Cardinality({x, y, z}) = 3
    BY <1>5, <1>7, SomeDomains
  <1>9. Ahead(s, W, x) = {} /\ Ahead(s, W, y) = {x} /\ Ahead(s, W, z) = {x, y}
    <2>1. Ahead(s, W, x) = {}
      BY <1>2, ListOrder DEF Ahead
    <2>2. Ahead(s, W, y) = {x}
      BY <1>2, <1>5, ListOrder DEF Ahead
    <2>3. Ahead(s, W, z) = {x, y}
      BY <1>2, <1>5, <1>7, ListOrder DEF Ahead
    <2> QED BY <2>1, <2>2, <2>3
  <1>10. x \in named /\ y \in named /\ z \in named
    <2>1. Cardinality({}) < 3
      BY SomeDomains
    <2>2. Cardinality({x}) < 3
      <3>1. Cardinality({x}) = 1
        BY SomeDomains
      <3> QED BY <3>1
    <2>3. Cardinality({x, y}) < 3
      <3>1. Cardinality({x, y}) = 2
        BY <1>8, SomeDomains
      <3> QED BY <3>1
    <2> QED BY <1>5, <1>7, <1>9, <2>1, <2>2, <2>3
  <1>11. ASSUME NEW e \in W \ {x, y, z}
         PROVE  e \notin named
    <2>1. {x, y, z} \in SUBSET Ahead(s, W, e)
      BY <1>2, <1>5, <1>7 DEF Ahead
    <2>2. 3 <= Cardinality(Ahead(s, W, e))
      BY <1>1, <1>8, <2>1, SomeDomains
    <2>3. Cardinality(Ahead(s, W, e)) \in Nat
      BY <1>1, SomeDomains
    <2> QED BY <2>2, <2>3
  <1>12. named = {x, y, z}
    BY <1>10, <1>11
  <1>13. ASSUME NEW e \in named
         PROVE  s[e] <= s[d]
    <2>1. Before(s, e, d)
      BY <1>2, <1>5, <1>7, <1>10, <1>12
    <2> QED BY <2>1, ListOrder
  <1> QED BY <1>8, <1>12, <1>13

\* A domain has the full score exactly if all its answers are YES.
LEMMA NothingToReview ==
    ASSUME NEW a \in Answers, NEW d \in Domain
    PROVE  (buildExplanations(a)[d].negativeAnswers = {}) = (domainScores(a)[d] = 100)
  <1> DEFINE negative == {i \in 1..PerDomain : answerLabel(Points(a, d, i)) # "YES"}
  <1>1. buildExplanations(a)[d].negativeAnswers = negative
    BY DEF buildExplanations
  <1>2. \A i \in 1..5 : Points(a, d, i) \in {0, 1, 2, 4}
    BY PointsOfAnswer DEF PerDomain
  <1>3. negative = {} <=> \A i \in 1..5 : Points(a, d, i) = 4
    BY <1>2 DEF answerLabel, PerDomain
  <1>4. answeredPoints(a, d) = 20 <=> \A i \in 1..5 : Points(a, d, i) = 4
    BY <1>2 DEF answeredPoints
  <1>5. domainScores(a)[d] = 100 <=> answeredPoints(a, d) = 20
    BY ScoreOfDomain
  <1> HIDE DEF negative
  <1> QED BY <1>1, <1>3, <1>4, <1>5

\* A report of low risk has no domain in the worst band (calculateAssessmentRiskLevel).
LEMMA LowRiskHidesNothingWorst ==
    ASSUME NEW a \in Answers, evaluateAssessment(a).riskLevel = LowRisk, NEW d \in Domain
    PROVE  domainScores(a)[d] >= 50
  <1> DEFINE s == domainScores(a)
             n == totalScore(s)
  <1>1. s \in [Domain -> 0..100] /\ \E m \in 0..20 : s[d] = 5 * m
    BY DomainScoresRise, ScoreOfDomain
  <1>2. calculateAssessmentRiskLevel(n) = LowRisk
    BY EvaluationFields
  <1> HIDE DEF s
  <1>3. n \in 0..100
    BY <1>1, TotalIsBetween
  <1>4. n >= 90
    <2> HIDE DEF n
    <2> QED BY <1>2, <1>3, ScalesOfTotal
  <1>5. s[d] >= 48
    BY <1>1, <1>4, TotalIsBetween
  <1>6. s[d] >= 50
    BY <1>1, <1>5
  <1> QED BY <1>6 DEF s

\* What an evaluation says of weak domains.
LEMMA EvaluationNamesWeak ==
    ASSUME NEW a \in Answers
    PROVE  LET r == evaluateAssessment(a)
               red == {d \in Domain : r.standardsAlignment[d] = "RED"}
           IN  /\ r.priorityRisks \subseteq red
               /\ r.executiveSummary.names = r.priorityRisks
               /\ \A d \in Domain :
                    (r.explanations[d].negativeAnswers = {}) = (r.domainScores[d] = 100)
               /\ \A d \in red \ r.priorityRisks :
                    IF r.riskLevel = LowRisk THEN r.domainScores[d] >= 50
                    ELSE /\ Cardinality(r.priorityRisks) = 3
                         /\ \A e \in r.priorityRisks : r.domainScores[e] <= r.domainScores[d]
  <1> DEFINE r == evaluateAssessment(a)
             s == domainScores(a)
             red == {d \in Domain : r.standardsAlignment[d] = "RED"}
             weak == {d \in Domain : r.riskLevel # LowRisk /\ s[d] < 70 /\ s[d] < 90}
  <1>1. /\ r.domainScores = s /\ r.explanations = buildExplanations(a)
        /\ r.standardsAlignment = [d \in Domain |-> standardsStatusForScore(s[d])]
        /\ r.priorityRisks = weakDomainScores(s, r.riskLevel)
        /\ r.executiveSummary.names = IF r.riskLevel = LowRisk THEN {} ELSE r.priorityRisks
    BY DEF evaluateAssessment, buildStandardsAlignment, buildExecutiveSummary
  <1>2. s \in [Domain -> 0..100]
    BY DomainScoresRise
  <1>3. \A d \in Domain : (r.explanations[d].negativeAnswers = {}) = (r.domainScores[d] = 100)
    BY <1>1, NothingToReview
  <1>4. r.riskLevel = LowRisk => \A d \in Domain : s[d] >= 50
    BY LowRiskHidesNothingWorst
  <1> HIDE DEF r, s
  <1>5. red = {d \in Domain : s[d] < 70}
    BY <1>1, <1>2 DEF standardsStatusForScore
  <1>6. r.priorityRisks = {d \in weak : Cardinality(Ahead(s, weak, d)) < 3}
    BY <1>1 DEF weakDomainScores, Ahead
  <1>7. r.priorityRisks \subseteq red
    BY <1>5, <1>6
  <1>8. r.executiveSummary.names = r.priorityRisks
    BY <1>1, <1>6
  <1>9. ASSUME NEW d \in red \ r.priorityRisks, r.riskLevel # LowRisk
        PROVE  /\ Cardinality(r.priorityRisks) = 3
               /\ \A e \in r.priorityRisks : r.domainScores[e] <= r.domainScores[d]
    <2>1. d \in weak /\ weak \in SUBSET Domain
      BY <1>2, <1>5, <1>9
    <2> HIDE DEF weak
    <2>2. ~(Cardinality(Ahead(s, weak, d)) < 3)
      BY <1>6, <1>9, <2>1
    <2>3. /\ Cardinality(r.priorityRisks) = 3
          /\ \A e \in r.priorityRisks : s[e] <= s[d]
      BY Zenon, <1>2, <1>6, <2>1, <2>2, FirstThree
    <2> QED BY <1>1, <2>3
  <1>10. \A d \in red \ r.priorityRisks :
           IF r.riskLevel = LowRisk THEN r.domainScores[d] >= 50
           ELSE /\ Cardinality(r.priorityRisks) = 3
                /\ \A e \in r.priorityRisks : r.domainScores[e] <= r.domainScores[d]
    BY <1>1, <1>4, <1>9
  <1> QED BY Zenon, <1>3, <1>7, <1>8, <1>10 DEF r

\* A domain whose colour is RED is named unless three that are no better are, or the whole
\* is Low Risk; only RED ones are named, and the summary names the same, whatever the answers
\* (buildPriorityRisks, buildExecutiveSummary, buildExplanations).
THEOREM WeakDomainsAreAllNamed == Spec => []WeakDomainsAreNamed
  <1>1. ASSUME Shape, PagesInv
        PROVE  WeakDomainsAreNamed
    <2>1. ASSUME NEW x \in Results
          PROVE  x.answers \in Answers /\ x.result = evaluateAssessment(x.answers)
      BY <1>1, ResultsOfSheets
    <2> QED BY <2>1, EvaluationNamesWeak DEF WeakDomainsAreNamed
  <1> QED BY <1>1, ShapeInvariant, ResultsAreEvaluations, PTL
=============================================================================
