---------------------------- MODULE AssessmentPages ----------------------------
(***************************************************************************)
(* The assessment as its users meet it: the questionnaire page, the        *)
(* requests its script sends, the server's stateless routes, and the       *)
(* dashboard and report that replace the page when a response arrives.     *)
(* Responses arrive in any order, are lost or refused, and the form can be *)
(* changed while a request is under way.  Other clients post answers of    *)
(* their own, incomplete ones included.                                    *)
(***************************************************************************)
EXTENDS AssessmentScoring

CONSTANTS
    FormSheets,     \* what the user may have set the form to
    DirectSheets,   \* what other clients post
    Call            \* the requests that may be in flight at once

ASSUME SheetsAssumption == FormSheets \subseteq Answers /\ DirectSheets \subseteq Answers

VARIABLES
    form,       \* the radio buttons of the questionnaire
    page,       \* the document on display, with the answers it goes back to
    calls,      \* the requests in flight
    message,    \* the line under the form
    submitted,  \* the answers last submitted from the page
    crossed     \* whether a request was sent while another was under way

vars == <<form, page, calls, message, submitted, crossed>>

NoResult == [none |-> TRUE]
Blank == [q \in assessmentQuestions |-> Unanswered]
\* A document, and how many dashboards (2: or more) its window has shown.
Document(view, a, r, dashboards) ==
    [view |-> view, answers |-> a, result |-> r, dashboards |-> dashboards]
Questionnaire == Document("questionnaire", Blank, NoResult, 0)

Request(to, stage, a, r) == [to |-> to, stage |-> stage, answers |-> a, result |-> r]
Idle == Request("none", "idle", Blank, NoResult)

Views == {"questionnaire", "dashboard", "report", "error", "demo"}
Routes == {"none", "dashboard", "report", "summary", "direct"}
Stages == {"idle", "sent", "answered", "refused"}
Messages == {"none", "missing", "dashboard", "report", "failed"}

\* What is printed as a score or a percentage is one.
IsResult(r) ==
    \/ r = NoResult
    \/ r.totalScore \in 0..100 /\ r.controlMaturity \in 0..100 /\ r.auditReadiness \in 0..100

TypeOK ==
    /\ form \in Answers
    /\ page.view \in Views /\ page.answers \in Answers /\ IsResult(page.result)
    /\ page.dashboards \in 0..2
    /\ DOMAIN calls = Call
    /\ \A c \in Call : /\ calls[c].to \in Routes /\ calls[c].stage \in Stages
                       /\ calls[c].answers \in Answers /\ IsResult(calls[c].result)
    /\ message \in Messages
    /\ submitted \in Answers
    /\ crossed \in BOOLEAN

Init ==
    /\ form = Blank
    /\ page = Questionnaire
    /\ calls = [c \in Call |-> Idle]
    /\ message = "none"
    /\ submitted = Blank
    /\ crossed = FALSE

\* Requests of this page; the script keeps none of them from being sent.
Own(c) == calls[c].to \in {"dashboard", "report", "summary"}

Send(c, to, a, r) ==
    /\ calls[c].stage = "idle"
    /\ calls' = [calls EXCEPT ![c] = Request(to, "sent", a, r)]

------------------------------------------------------------------------------
\* The user sets the radio buttons; nothing is sent.
FillIn(a) ==
    /\ page.view = "questionnaire"
    /\ form' = a
    /\ UNCHANGED <<page, calls, message, submitted, crossed>>

SubmitIncomplete ==
    /\ page.view = "questionnaire"
    /\ ~IsComplete(form)
    /\ message' = "missing"
    /\ UNCHANGED <<form, page, calls, submitted, crossed>>

\* Mutated: the form is not checked for open questions.
SubmitUnchecked(c, to) ==
    /\ page.view = "questionnaire"
    /\ Send(c, to, form, NoResult)
    /\ message' = to
    /\ submitted' = form
    /\ crossed' = (crossed \/ \E d \in Call : Own(d))
    /\ UNCHANGED <<form, page>>

\* One of the two submit buttons, each naming the route.
Submit(c, to) ==
    /\ page.view = "questionnaire"
    /\ IsComplete(form)
    /\ Send(c, to, form, NoResult)
    /\ message' = to
    /\ submitted' = form
    /\ crossed' = (crossed \/ \E d \in Call : Own(d))
    /\ UNCHANGED <<form, page>>

\* The button of the dashboard sends the result it shows, not the answers.
\* In a second dashboard of one window it is dead: the script declares
\* const dashboardResult again and does not start.
AskSummary(c) ==
    /\ page.view = "dashboard"
    /\ page.dashboards = 1
    /\ Send(c, "summary", page.answers, page.result)
    /\ crossed' = (crossed \/ \E d \in Call : Own(d))
    /\ UNCHANGED <<form, page, message, submitted>>

\* A client without the page posts answers; the schema does not ask for all.
PostDirectly(c, a) ==
    /\ Send(c, "direct", a, NoResult)
    /\ UNCHANGED <<form, page, message, submitted, crossed>>

\* The server evaluates answers; a posted result is rendered as it is.
Serve(c) ==
    /\ calls[c].stage = "sent"
    /\ calls' = [calls EXCEPT ![c] =
          Request(calls[c].to, "answered", calls[c].answers,
                  IF calls[c].result = NoResult THEN evaluateAssessment(calls[c].answers)
                  ELSE calls[c].result)]
    /\ UNCHANGED <<form, page, message, submitted, crossed>>

\* An error status, from the server or on the way.
Refuse(c) ==
    /\ calls[c].stage = "sent"
    /\ calls' = [calls EXCEPT ![c] =
          Request(calls[c].to, "refused", calls[c].answers, calls[c].result)]
    /\ UNCHANGED <<form, page, message, submitted, crossed>>

\* The fetch is rejected: the page stays as it is, message included.
Lose(c) ==
    /\ calls[c].stage \in {"sent", "answered", "refused"}
    /\ calls' = [calls EXCEPT ![c] = Idle]
    /\ UNCHANGED <<form, page, message, submitted, crossed>>

\* A response replaces whatever document is on display.
Arrive(c) ==
    /\ calls[c].stage = "answered"
    /\ calls' = [calls EXCEPT ![c] = Idle]
    /\ IF Own(c)
         THEN /\ page' = IF calls[c].to = "dashboard"
                 THEN Document("dashboard", calls[c].answers, calls[c].result,
                               IF page.dashboards = 0 THEN 1 ELSE 2)
                 ELSE Document("report", calls[c].answers, calls[c].result, page.dashboards)
              /\ form' = Blank
              /\ message' = "none"
         ELSE UNCHANGED <<form, page, message>>
    /\ UNCHANGED <<submitted, crossed>>

\* The questionnaire shows a message; the dashboard's script does not look at
\* the status and shows the error as if it were the report.
ArriveRefused(c) ==
    /\ calls[c].stage = "refused"
    /\ calls' = [calls EXCEPT ![c] = Idle]
    /\ page' = IF calls[c].to = "summary"
               THEN Document("error", Blank, NoResult, page.dashboards) ELSE page
    /\ form' = IF calls[c].to = "summary" THEN Blank ELSE form
    /\ message' = IF calls[c].to = "summary" THEN "none"
                  ELSE IF Own(c) /\ page.view = "questionnaire" THEN "failed" ELSE message
    /\ UNCHANGED <<submitted, crossed>>

\* A link loads a new document: the old one's requests go nowhere.
Open(document) ==
    /\ form' = Blank
    /\ page' = document
    /\ calls' = [c \in Call |-> IF Own(c) THEN Idle ELSE calls[c]]
    /\ message' = "none"
    /\ submitted' = Blank
    /\ crossed' = FALSE

OpenQuestionnaire == Open(Questionnaire)

\* The report one gets without a questionnaire.
demoReport == Document("demo", demoAssessmentAnswers,
                       evaluateAssessment(demoAssessmentAnswers), 0)
OpenDemoReport == Open(demoReport)

Next ==
    \/ \E a \in FormSheets : FillIn(a)
    \/ SubmitIncomplete
    \/ OpenQuestionnaire
    \/ OpenDemoReport
    \/ \E c \in Call :
        \/ \E to \in {"dashboard", "report"} : Submit(c, to)
        \/ \E a \in DirectSheets : PostDirectly(c, a)
        \/ AskSummary(c)
        \/ Serve(c)
        \/ Refuse(c)
        \/ Lose(c)
        \/ Arrive(c)
        \/ ArriveRefused(c)

Spec == Init /\ [][Next]_vars

------------------------------------------------------------------------------
\* What holds of every request and page, behind the properties below: a
\* result is the evaluation of the answers it is kept with, and what this
\* page asked for goes back to a complete form.
Evaluated(r, a) == r = NoResult \/ r = evaluateAssessment(a)
FromForm(a) == IsComplete(a) /\ (a = submitted \/ crossed)

PagesInv ==
    /\ Evaluated(page.result, page.answers)
    /\ page.view \in {"dashboard", "report"} =>
         page.result = evaluateAssessment(page.answers) /\ FromForm(page.answers)
    /\ \A c \in Call :
         /\ Evaluated(calls[c].result, calls[c].answers)
         /\ calls[c].stage = "answered" => calls[c].result = evaluateAssessment(calls[c].answers)
         /\ Own(c) => FromForm(calls[c].answers)

\* Every result there is: on display, or on its way to some client.
Results ==
    {[answers |-> calls[c].answers, result |-> calls[c].result] :
        c \in {d \in Call : calls[d].result # NoResult}}
    \cup (IF page.result = NoResult THEN {}
          ELSE {[answers |-> page.answers, result |-> page.result]})

\* Whatever order responses arrive in, a dashboard or report shows the
\* evaluation of one complete form that was submitted, also when the report
\* was asked for with the dashboard's result, and it is the form submitted
\* last unless two requests were under way at once (questionnaire.ts submit
\* handler, dashboard.ts summary button, server.ts /assessment routes).
ShownWasSubmitted ==
    page.view \in {"dashboard", "report"} =>
        /\ IsComplete(page.answers)
        /\ page.result = evaluateAssessment(page.answers)
        /\ page.answers = submitted \/ crossed

\* A better answer never costs anything: of two results, that of the better
\* answers, question by question, is at least as high in every domain, in
\* total and on each scale, missing answers included (evaluateAssessment
\* counts what is missing as NO; scores are rounded twice).
BetterAnswersNeverLose ==
    \A x, y \in Results :
        AtLeast(x.answers, y.answers) =>
            /\ \A d \in Domain : x.result.domainScores[d] >= y.result.domainScores[d]
            /\ x.result.totalScore >= y.result.totalScore
            /\ x.result.riskLevel >= y.result.riskLevel
            /\ x.result.governanceGrade >= y.result.governanceGrade
            /\ x.result.aiReadiness >= y.result.aiReadiness
            /\ x.result.maturityLevel >= y.result.maturityLevel
            /\ x.result.controlMaturity >= y.result.controlMaturity
            /\ x.result.auditReadiness >= y.result.auditReadiness

\* Four scales and the colours of the standards are five tables with bounds
\* of their own, some written with < and some with <=: on one report they do
\* not contradict each other (scoring.ts, standards-mapping.ts).
ScalesAgree ==
    \A x \in Results :
        LET r == x.result IN
        /\ (r.riskLevel = 1) = (r.governanceGrade = 1)
        /\ (r.riskLevel <= 2) = (r.governanceGrade <= 2)
        /\ r.riskLevel = LowRisk => r.governanceGrade >= 4
        /\ r.governanceGrade = 5 => r.riskLevel = LowRisk
        /\ r.aiReadiness = IF r.governanceGrade = 5 THEN 4 ELSE r.governanceGrade
        /\ r.maturityLevel = r.governanceGrade
        /\ (\A d \in Domain : r.standardsAlignment[d] = "GREEN") => r.riskLevel = LowRisk
        /\ (\A d \in Domain : r.standardsAlignment[d] = "RED") => r.riskLevel <= 2

\* What a reader of the report is told of weak domains: a domain whose
\* standards colour is RED is named as a risk unless three domains that are
\* no better are, or the whole is Low Risk, and then it is at least not in
\* the worst band; a domain that is not RED is never named; and the summary
\* names the same domains.  A domain has answers to review exactly if it has
\* not the full score (buildPriorityRisks, buildExecutiveSummary and
\* buildExplanations, which each go through the answers or scores anew).
WeakDomainsAreNamed ==
    \A x \in Results :
        LET r == x.result
            red == {d \in Domain : r.standardsAlignment[d] = "RED"}
        IN  /\ r.priorityRisks \subseteq red
            /\ r.executiveSummary.names = r.priorityRisks
            /\ \A d \in Domain :
                 (r.explanations[d].negativeAnswers = {}) = (r.domainScores[d] = 100)
            /\ \A d \in red \ r.priorityRisks :
                 IF r.riskLevel = LowRisk THEN r.domainScores[d] >= 50
                 ELSE /\ Cardinality(r.priorityRisks) = 3
                      /\ \A e \in r.priorityRisks : r.domainScores[e] <= r.domainScores[d]
=============================================================================
