-------------------------- MODULE PaymentGatewayProofs --------------------------
(***************************************************************************)
(* Proofs about PaymentGateway, for any orders, policies and bounds.       *)
(***************************************************************************)
EXTENDS PaymentGateway, FiniteSetTheorems, SequenceTheorems, WellFoundedInduction, TLAPS

(***************************************************************************)
(* Lemmas about sequences and about the operators of the gateway.          *)
(***************************************************************************)
\* What Append does to a log: one more entry, the others as they were.
LEMMA Appended ==
    ASSUME NEW S, NEW s \in Seq(S), NEW e \in S
    PROVE  /\ Append(s, e) \in Seq(S)
           /\ Len(Append(s, e)) = Len(s) + 1
           /\ Append(s, e)[Len(s) + 1] = e
           /\ \A k \in 1..Len(s) : Append(s, e)[k] = s[k]
    OBVIOUS

\* A sequence that is rewritten entry by entry keeps its length.
LEMMA Rewritten ==
    ASSUME NEW S, NEW n \in Nat, NEW f \in [1..n -> S]
    PROVE  f \in Seq(S) /\ Len(f) = n
    OBVIOUS

\* The lines that one call adds to a trail (gateway.py:121-131, 141-148, 189-202, 213-220).
LEMMA LinesAreTyped ==
    /\ <<>> \in Seq(TrailStatus)
    /\ <<"REQUIRE_APPROVAL">> \in Seq(TrailStatus)
    /\ <<"APPROVED_AFTER_HUMAN_APPROVAL">> \in Seq(TrailStatus)
    /\ <<"REJECTED_BY_HUMAN">> \in Seq(TrailStatus)
  <1>1. <<>> \in Seq(TrailStatus)
    OBVIOUS
  <1>2. <<"REQUIRE_APPROVAL">> \in Seq(TrailStatus)
    BY DEF TrailStatus
  <1>3. <<"APPROVED_AFTER_HUMAN_APPROVAL">> \in Seq(TrailStatus)
    BY DEF TrailStatus
  <1>4. <<"REJECTED_BY_HUMAN">> \in Seq(TrailStatus)
    BY DEF TrailStatus
  <1> QED BY <1>1, <1>2, <1>3, <1>4

\* The states of an approval request (gateway.py:115, 140, 158, 212).
LEMMA StatusesAreTyped ==
    /\ "PENDING" \in ApprovalStatus /\ "EXPIRED" \in ApprovalStatus
    /\ "APPROVED" \in ApprovalStatus /\ "REJECTED" \in ApprovalStatus
    BY DEF ApprovalStatus

\* A loaded policy is one of the policies (policy_engine.py:33-42).
LEMMA ReloadedIsPolicy == TypeOK => Reloaded \in Policies
    BY DEF TypeOK, Reloaded

\* Closing a request rewrites that one and those that are due, and touches no other
\* (gateway.py:136-148, 150-158, 205-220).
LEMMA Closes ==
    ASSUME TypeOK, NEW i \in Nat,
           NEW status \in ApprovalStatus,
           NEW lines \in Seq(TrailStatus), Close(i, status, lines)
    PROVE  /\ approvals' \in Seq(Approval) /\ Len(approvals') = Len(approvals)
           /\ trail' \in Seq(Seq(TrailStatus)) /\ Len(trail') = Len(trail)
           /\ \A k \in 1..Len(approvals) :
                /\ approvals'[k].request = approvals[k].request
                /\ approvals'[k].expires_at = approvals[k].expires_at
                /\ k = i => approvals'[k].status = status /\ trail'[k] = trail[k] \o lines
                /\ k # i /\ Due(k) => /\ approvals'[k].status = "EXPIRED"
                                      /\ trail'[k] = Append(trail[k], "EXPIRED")
                /\ k # i /\ ~Due(k) => approvals'[k] = approvals[k] /\ trail'[k] = trail[k]
  <1>1. approvals \in Seq(Approval) /\ trail \in Seq(Seq(TrailStatus)) /\ Len(trail) = Len(approvals)
    BY DEF TypeOK
  <1>2. \A k \in 1..Len(approvals) : approvals[k] \in Approval /\ trail[k] \in Seq(TrailStatus)
    BY <1>1
  <1>3. approvals' \in [1..Len(approvals) -> Approval]
    BY <1>2, StatusesAreTyped DEF Close, Approval
  <1>4. trail' \in [1..Len(trail) -> Seq(TrailStatus)]
    <2>1. \A k \in 1..Len(trail) : trail[k] \o lines \in Seq(TrailStatus)
      BY <1>1, <1>2
    <2>2. ASSUME NEW k \in 1..Len(trail) PROVE Append(trail[k], "EXPIRED") \in Seq(TrailStatus)
      <3>1. trail[k] \in Seq(TrailStatus) /\ "EXPIRED" \in TrailStatus
        BY <1>1, <1>2 DEF TrailStatus
      <3> QED BY <3>1, Appended
    <2> DEFINE e(k) == IF k = i THEN trail[k] \o lines
                       ELSE IF Due(k) THEN Append(trail[k], "EXPIRED") ELSE trail[k]
    <2>3. \A k \in 1..Len(trail) : e(k) \in Seq(TrailStatus)
      BY <1>1, <1>2, <2>1, <2>2
    <2>4. trail' = [k \in 1..Len(trail) |-> e(k)]
      BY DEF Close
    <2> HIDE DEF e
    <2> QED BY <2>3, <2>4
  <1>5. /\ approvals' \in Seq(Approval) /\ Len(approvals') = Len(approvals)
        /\ trail' \in Seq(Seq(TrailStatus)) /\ Len(trail') = Len(trail)
    <2>1. Len(approvals) \in Nat /\ Len(trail) \in Nat
      BY <1>1
    <2>2. approvals' \in Seq(Approval) /\ Len(approvals') = Len(approvals)
      BY <1>3, <2>1, Rewritten
    <2>3. trail' \in Seq(Seq(TrailStatus)) /\ Len(trail') = Len(trail)
      BY <1>4, <2>1, Rewritten
    <2> QED BY <2>2, <2>3
  <1>6. ASSUME NEW k \in 1..Len(approvals)
        PROVE  /\ approvals'[k].request = approvals[k].request
               /\ approvals'[k].expires_at = approvals[k].expires_at
               /\ k = i => approvals'[k].status = status
               /\ k # i /\ Due(k) => approvals'[k].status = "EXPIRED"
               /\ k # i /\ ~Due(k) => approvals'[k] = approvals[k]
    BY <1>2, <1>6 DEF Close, Approval
  <1>7. ASSUME NEW k \in 1..Len(approvals)
        PROVE  /\ k = i => trail'[k] = trail[k] \o lines
               /\ k # i /\ Due(k) => trail'[k] = Append(trail[k], "EXPIRED")
               /\ k # i /\ ~Due(k) => trail'[k] = trail[k]
    BY <1>1, <1>7 DEF Close
  <1> QED BY <1>5, <1>6, <1>7

\* A decision is one of the three words (policy_engine.py:122-133).
LEMMA PolicyAnswers ==
    ASSUME NEW p, NEW o, NEW s, NEW used
    PROVE  evaluate_policy(p, o, s, used) \in {"APPROVED", "CONDITIONAL_APPROVAL", "BLOCKED"}
    BY DEF evaluate_policy

\* A token is well typed (token.py:29-40).
LEMMA TokenIsTyped ==
    ASSUME TypeOK, NEW c \in Content, NEW source \in TokenSource, NEW line \in Nat,
           NEW approval \in Nat, NEW held \in BOOLEAN, NEW submit \in SubmitStatus
    PROVE  issue_token(c.order, c.amount, source, line, approval, held, submit) \in ActionToken
  <1>1. now \in Nat /\ now + TokenTTL \in Nat
    BY BoundsAssumption DEF TypeOK
  <1>2. [order |-> c.order, amount |-> c.amount] = c
    BY DEF Content
  <1> QED BY <1>1, <1>2 DEF issue_token, ActionToken

(***************************************************************************)
(* Type correctness.                                                       *)
(***************************************************************************)
\* What a granted request adds (gateway.py:586-658).
LEMMA Grants ==
    ASSUME TypeOK, NEW o \in Order, o.amount \in Int, NEW s \in Surroundings, Granted(o, s)
    PROVE  \E t \in ActionToken :
             /\ tokens' = Append(tokens, t)
             /\ t.source \in {"APPROVED", "CONDITIONAL_APPROVAL"}
             /\ t.action.order = o /\ t.line = Len(records) + 1 /\ t.approval = 0
             /\ t.iat = now /\ t.exp = now + TokenTTL
             /\ records' = Append(records, Line(o, t.source, Len(tokens) + 1))
             /\ Len(tokens) < MaxTokens
  <1> DEFINE decision == evaluate_policy(Reloaded, o, s, used_today(o))
             c == [order |-> o, amount |-> normalize_amount_for_policy(o)]
             t(submit) == issue_token(o, c.amount, decision, Len(records) + 1, 0, TRUE, submit)
  <1>1. decision \in {"APPROVED", "CONDITIONAL_APPROVAL"} /\ Len(tokens) < MaxTokens
    BY PolicyAnswers DEF Granted
  <1>2. c \in Content /\ c.order = o
    BY DEF Content
  <1>3. PICK submit \in SubmitStatus : tokens' = Append(tokens, t(submit))
    BY DEF Granted, SubmitStatus
  <1>4. Len(records) + 1 \in Nat
    BY DEF TypeOK
  <1>5. t(submit) \in ActionToken
    <2> HIDE DEF decision, c
    <2>1. issue_token(c.order, c.amount, decision, Len(records) + 1, 0, TRUE, submit)
            \in ActionToken
      BY <1>1, <1>2, <1>4, TokenIsTyped DEF TokenSource
    <2> QED BY <1>2, <2>1
  <1>6. /\ t(submit).source = decision
        /\ t(submit).action.order = o /\ t(submit).line = Len(records) + 1
        /\ t(submit).approval = 0 /\ t(submit).iat = now /\ t(submit).exp = now + TokenTTL
    BY DEF issue_token
  <1>7. records' = Append(records, Line(o, decision, Len(tokens) + 1))
    BY DEF Granted
  <1> HIDE DEF decision, t
  <1> QED BY <1>1, <1>3, <1>5, <1>6, <1>7

\* What an approval adds (gateway.py:150-203).
LEMMA Approves ==
    ASSUME TypeOK, NEW i \in 1..Len(approvals), approve_request(i)
    PROVE  \E t \in ActionToken :
             /\ tokens' = Append(tokens, t)
             /\ t.source = "HUMAN" /\ t.approval = i /\ t.line = 0
             /\ t.action.order = approvals[i].request
             /\ t.iat = now /\ t.exp = now + TokenTTL
             /\ Len(tokens) < MaxTokens
  <1> DEFINE o == approvals[i].request
             c == [order |-> o, amount |-> o.amount]
             t(submit) == issue_token(o, c.amount, "HUMAN", 0, i, o.amount \in Int, submit)
  <1>1. c \in Content /\ c.order = o
    <2>1. approvals[i] \in Approval
      BY DEF TypeOK
    <2> QED BY <2>1 DEF Content, Approval
  <1>2. PICK submit \in SubmitStatus : tokens' = Append(tokens, t(submit))
    BY DEF approve_request, SubmitStatus
  <1>3. t(submit) \in ActionToken
    <2> HIDE DEF c
    <2>1. i \in Nat /\ (o.amount \in Int) \in BOOLEAN
      OBVIOUS
    <2>2. issue_token(c.order, c.amount, "HUMAN", 0, i, o.amount \in Int, submit) \in ActionToken
      BY <1>1, <2>1, TokenIsTyped DEF TokenSource
    <2> QED BY <1>1, <2>2
  <1>4. /\ t(submit).source = "HUMAN" /\ t(submit).approval = i /\ t(submit).line = 0
        /\ t(submit).action.order = o
        /\ t(submit).iat = now /\ t(submit).exp = now + TokenTTL
    BY DEF issue_token
  <1>5. Len(tokens) < MaxTokens
    BY DEF approve_request
  <1> HIDE DEF t
  <1> QED BY <1>2, <1>3, <1>4, <1>5

\* What each call leaves of the types of the stores.
LEMMA TypeStep == TypeOK /\ [Next]_vars => TypeOK'
<1> SUFFICES ASSUME TypeOK, [Next]_vars PROVE TypeOK'
  OBVIOUS
<1>0. /\ now \in Nat /\ live \in BOOLEAN
      /\ policyFile \in Policies \cup {Unreadable} /\ policy \in Policies
      /\ records \in Seq(AuditRecord) /\ approvals \in Seq(Approval)
      /\ trail \in Seq(Seq(TrailStatus)) /\ Len(trail) = Len(approvals)
      /\ tokens \in Seq(ActionToken) /\ Len(tokens) <= MaxTokens
      /\ used_jtis \subseteq 1..Len(tokens) /\ charges \in Seq(Charge)
  BY DEF TypeOK
<1>1. Reloaded \in Policies
  BY ReloadedIsPolicy
<1>2. ASSUME NEW o \in Order, request_execution(o) PROVE TypeOK'
  <2>1. PICK s \in Surroundings : Blocked(o, s) \/ Granted(o, s)
    BY <1>2 DEF request_execution
  <2>2. o.amount \in Int /\ policy' = Reloaded
        /\ UNCHANGED <<now, live, policyFile, approvals, trail, used_jtis, charges>>
    BY <1>2 DEF request_execution
  <2>3. CASE Blocked(o, s)
    <3>1. Line(o, "BLOCKED", 0) \in AuditRecord
      BY <1>0, <1>1 DEF Line, AuditRecord
    <3>2. records' \in Seq(AuditRecord) /\ tokens' = tokens
      BY <1>0, <2>3, <3>1, Appended DEF Blocked
    <3> QED BY <1>0, <1>1, <2>2, <3>2 DEF TypeOK
  <2>4. CASE Granted(o, s)
    <3>1. PICK t \in ActionToken :
             /\ tokens' = Append(tokens, t)
             /\ t.source \in {"APPROVED", "CONDITIONAL_APPROVAL"}
             /\ records' = Append(records, Line(o, t.source, Len(tokens) + 1))
             /\ Len(tokens) < MaxTokens
      BY <2>2, <2>4, Grants
    <3>2. Line(o, t.source, Len(tokens) + 1) \in AuditRecord
      BY <1>0, <1>1, <3>1 DEF Line, AuditRecord
    <3>3. records' \in Seq(AuditRecord)
      BY <1>0, <3>1, <3>2, Appended
    <3>4. tokens' \in Seq(ActionToken) /\ Len(tokens') = Len(tokens) + 1
      BY <1>0, <3>1, Appended
    <3>5. Len(tokens') <= MaxTokens /\ used_jtis \subseteq 1..Len(tokens')
      BY <1>0, <3>1, <3>4, BoundsAssumption
    <3> QED BY <1>0, <1>1, <2>2, <3>3, <3>4, <3>5 DEF TypeOK
  <2> QED BY <2>1, <2>3, <2>4
<1>3. ASSUME NEW o \in ForReview, create_approval_request(o) PROVE TypeOK'
  <2> DEFINE a == [request |-> o, status |-> "PENDING", expires_at |-> now + ApprovalTTL]
             l == IF o.amount = Words THEN <<>> ELSE <<"REQUIRE_APPROVAL">>
  <2>1. approvals' = Append(approvals, a) /\ trail' = Append(trail, l)
        /\ UNCHANGED <<now, live, policyFile, policy, records, tokens, used_jtis, charges>>
    BY <1>3 DEF create_approval_request
  <2>2. a \in Approval /\ l \in Seq(TrailStatus)
    <3>1. a \in Approval
      BY <1>0, OrderAssumption, BoundsAssumption, StatusesAreTyped DEF Approval
    <3>2. l \in Seq(TrailStatus)
      BY LinesAreTyped, Zenon
    <3> QED BY <3>1, <3>2
  <2> HIDE DEF a, l
  <2>3. approvals' \in Seq(Approval) /\ Len(approvals') = Len(approvals) + 1
    BY <1>0, <2>1, <2>2, Appended
  <2>4. trail' \in Seq(Seq(TrailStatus)) /\ Len(trail') = Len(trail) + 1
    BY <1>0, <2>1, <2>2, Appended
  <2> QED BY <1>0, <2>1, <2>3, <2>4 DEF TypeOK
<1>4. ASSUME NEW i \in 1..Len(approvals), approve_request(i) PROVE TypeOK'
  <2> DEFINE l == IF approvals[i].request.amount \in Int
                  THEN <<"APPROVED_AFTER_HUMAN_APPROVAL">> ELSE <<>>
  <2>1. Close(i, "APPROVED", l)
        /\ UNCHANGED <<now, live, policyFile, policy, records, used_jtis, charges>>
    BY <1>4 DEF approve_request
  <2>2. i \in Nat /\ l \in Seq(TrailStatus)
    <3>1. l \in Seq(TrailStatus)
      BY LinesAreTyped, Zenon
    <3> QED BY <3>1
  <2> HIDE DEF l
  <2>3. /\ approvals' \in Seq(Approval) /\ Len(approvals') = Len(approvals)
        /\ trail' \in Seq(Seq(TrailStatus)) /\ Len(trail') = Len(trail)
    BY StatusesAreTyped, <2>1, <2>2, Closes
  <2>4. PICK t \in ActionToken : tokens' = Append(tokens, t) /\ Len(tokens) < MaxTokens
    BY <1>4, Approves
  <2>5. tokens' \in Seq(ActionToken) /\ Len(tokens') = Len(tokens) + 1
    BY <1>0, <2>4, Appended
  <2>6. Len(tokens') <= MaxTokens /\ used_jtis \subseteq 1..Len(tokens')
    BY <1>0, <2>4, <2>5, BoundsAssumption
  <2> QED BY <1>0, <2>1, <2>3, <2>5, <2>6 DEF TypeOK
<1>5. ASSUME NEW i \in 1..Len(approvals), reject_request(i) PROVE TypeOK'
  <2>1. Close(i, "REJECTED", <<"REJECTED_BY_HUMAN">>) /\ i \in Nat
        /\ UNCHANGED <<now, live, policyFile, policy, records, tokens, used_jtis, charges>>
    BY <1>5 DEF reject_request
  <2>2. <<"REJECTED_BY_HUMAN">> \in Seq(TrailStatus)
    BY LinesAreTyped
  <2>3. /\ approvals' \in Seq(Approval) /\ Len(approvals') = Len(approvals)
        /\ trail' \in Seq(Seq(TrailStatus)) /\ Len(trail') = Len(trail)
    BY StatusesAreTyped, <2>1, <2>2, Closes
  <2> QED BY <1>0, <2>1, <2>3 DEF TypeOK
<1>6. ASSUME expire_approval_requests PROVE TypeOK'
  <2>1. Close(0, "EXPIRED", <<>>) /\ 0 \in Nat /\ <<>> \in Seq(TrailStatus)
        /\ UNCHANGED <<now, live, policyFile, policy, records, tokens, used_jtis, charges>>
    BY <1>6 DEF expire_approval_requests
  <2>2. /\ approvals' \in Seq(Approval) /\ Len(approvals') = Len(approvals)
        /\ trail' \in Seq(Seq(TrailStatus)) /\ Len(trail') = Len(trail)
    BY StatusesAreTyped, <2>1, Closes
  <2> QED BY <1>0, <2>1, <2>2 DEF TypeOK
<1>7. ASSUME NEW j \in 1..Len(tokens), execute_payment(j) PROVE TypeOK'
  <2> DEFINE c == [token |-> j, request |-> tokens[j].action]
  <2>1. used_jtis' = used_jtis \cup {j} /\ charges' = Append(charges, c)
        /\ UNCHANGED <<now, live, policyFile, policy, records, approvals, trail, tokens>>
    BY <1>7 DEF execute_payment
  <2>2. c \in Charge
    <3>1. tokens[j] \in ActionToken
      BY <1>0
    <3> QED BY <3>1 DEF ActionToken, Charge
  <2> HIDE DEF c
  <2>3. charges' \in Seq(Charge) /\ used_jtis' \subseteq 1..Len(tokens)
    BY <1>0, <2>1, <2>2, Appended
  <2> QED BY <1>0, <2>1, <2>3 DEF TypeOK
<1>8. CASE reload
  BY <1>0, <1>1, <1>8 DEF reload, TypeOK
<1>9. CASE Tick
  BY <1>0, <1>9 DEF Tick, TypeOK
<1>10. CASE EditPolicy
  BY <1>0, <1>10 DEF EditPolicy, TypeOK
<1>11. CASE UNCHANGED vars
  BY <1>0, <1>11 DEF vars, TypeOK
<1> QED
  BY <1>2, <1>3, <1>4, <1>5, <1>6, <1>7, <1>8, <1>9, <1>10, <1>11 DEF Next

\* The stores keep their types (gateway.py, token.py).
THEOREM TypeCorrect == Spec => []TypeOK
<1>1. Init => TypeOK
  BY BoundsAssumption DEF Init, TypeOK
<1>2. TypeOK /\ [Next]_vars => TypeOK'
  BY TypeStep
<1> QED
  BY <1>1, <1>2, PTL DEF Spec

(***************************************************************************)
(* Approval requests.                                                      *)
(***************************************************************************)
\* The ways a step may treat an approval request that is there.
Kept(k) == approvals'[k] = approvals[k] /\ trail'[k] = trail[k]
Expires(k) ==
    /\ Due(k) /\ approvals'[k].status = "EXPIRED"
    /\ trail'[k] = Append(trail[k], "EXPIRED")
Answers(k, status, lines) ==
    /\ approvals'[k].status = status /\ trail'[k] = trail[k] \o lines
ApprovalLines(k) ==
    IF approvals[k].request.amount \in Int THEN <<"APPROVED_AFTER_HUMAN_APPROVAL">> ELSE <<>>

\* Closing a request answers that one, and every other is kept or expires.
LEMMA CloseAnswers ==
    ASSUME TypeOK, NEW i \in Nat,
           NEW status \in ApprovalStatus,
           NEW lines \in Seq(TrailStatus), Close(i, status, lines),
           NEW k \in 1..Len(approvals)
    PROVE  /\ Len(approvals) <= Len(approvals')
           /\ approvals'[k].request = approvals[k].request
           /\ approvals'[k].expires_at = approvals[k].expires_at
           /\ Kept(k) \/ Expires(k) \/ (k = i /\ Answers(k, status, lines))
  <1>1. /\ Len(approvals') = Len(approvals)
        /\ \A m \in 1..Len(approvals) :
             /\ approvals'[m].request = approvals[m].request
             /\ approvals'[m].expires_at = approvals[m].expires_at
             /\ m = i => approvals'[m].status = status /\ trail'[m] = trail[m] \o lines
             /\ m # i /\ Due(m) => /\ approvals'[m].status = "EXPIRED"
                                   /\ trail'[m] = Append(trail[m], "EXPIRED")
             /\ m # i /\ ~Due(m) => approvals'[m] = approvals[m] /\ trail'[m] = trail[m]
    BY Closes
  <1>2. Len(approvals) <= Len(approvals')
    BY <1>1 DEF TypeOK
  <1>3. /\ approvals'[k].request = approvals[k].request
        /\ approvals'[k].expires_at = approvals[k].expires_at
    BY <1>1
  <1>4. k = i => Answers(k, status, lines)
    BY <1>1, Zenon DEF Answers
  <1>5. k # i /\ Due(k) => Expires(k)
    BY <1>1, Zenon DEF Expires
  <1>6. k # i /\ ~Due(k) => Kept(k)
    BY <1>1, Zenon DEF Kept
  <1> QED BY <1>2, <1>3, <1>4, <1>5, <1>6, Zenon

\* What a step does to an approval request that is there: nothing, or it expires it when
\* it is due, or a human answers it while it is pending and not due (gateway.py:136-221).
LEMMA ApprovalSteps ==
    ASSUME TypeOK, [Next]_vars, NEW k \in 1..Len(approvals)
    PROVE  /\ Len(approvals) <= Len(approvals')
           /\ approvals'[k].request = approvals[k].request
           /\ approvals'[k].expires_at = approvals[k].expires_at
           /\ \/ Kept(k) \/ Expires(k)
              \/ Answerable(k) /\ Answers(k, "REJECTED", <<"REJECTED_BY_HUMAN">>)
              \/ Answerable(k) /\ Answers(k, "APPROVED", ApprovalLines(k))
<1>0. /\ approvals \in Seq(Approval) /\ trail \in Seq(Seq(TrailStatus))
      /\ Len(trail) = Len(approvals) /\ Len(approvals) \in Nat /\ now \in Nat
  BY DEF TypeOK
<1> DEFINE Stays == /\ Len(approvals) <= Len(approvals')
                    /\ approvals'[k].request = approvals[k].request
                    /\ approvals'[k].expires_at = approvals[k].expires_at
<1>1. ASSUME UNCHANGED <<approvals, trail>> PROVE Stays /\ Kept(k)
  BY <1>0, <1>1 DEF Kept
<1>2. ASSUME NEW o \in ForReview, create_approval_request(o) PROVE Stays /\ Kept(k)
  <2> DEFINE a == [request |-> o, status |-> "PENDING", expires_at |-> now + ApprovalTTL]
             l == IF o.amount = Words THEN <<>> ELSE <<"REQUIRE_APPROVAL">>
  <2>1. approvals' = Append(approvals, a) /\ trail' = Append(trail, l)
    BY <1>2 DEF create_approval_request
  <2>2. a \in Approval
    BY <1>0, OrderAssumption, BoundsAssumption, StatusesAreTyped DEF Approval
  <2>3. l \in Seq(TrailStatus)
    BY LinesAreTyped, Zenon
  <2> HIDE DEF a, l
  <2>4. Len(approvals') = Len(approvals) + 1 /\ approvals'[k] = approvals[k]
    BY <1>0, <2>1, <2>2, Appended
  <2>5. trail'[k] = trail[k]
    BY <1>0, <2>1, <2>3, Appended
  <2>6. Len(approvals) <= Len(approvals')
    BY <1>0, <2>4
  <2> QED BY <2>4, <2>5, <2>6, Zenon DEF Kept
<1>3. ASSUME NEW i \in 1..Len(approvals), approve_request(i)
      PROVE  /\ Stays
             /\ \/ Kept(k) \/ Expires(k)
                \/ Answerable(k) /\ Answers(k, "APPROVED", ApprovalLines(k))
  <2>1. Close(i, "APPROVED", ApprovalLines(i)) /\ Answerable(i) /\ i \in Nat
    BY <1>3 DEF approve_request, ApprovalLines
  <2>2. ApprovalLines(i) \in Seq(TrailStatus)
    BY LinesAreTyped, Zenon DEF ApprovalLines
  <2>3. /\ Stays
        /\ Kept(k) \/ Expires(k) \/ (k = i /\ Answers(k, "APPROVED", ApprovalLines(i)))
    BY StatusesAreTyped, <2>1, <2>2, CloseAnswers
  <2> HIDE DEF Stays
  <2> QED BY <2>1, <2>3, Zenon
<1>4. ASSUME NEW i \in 1..Len(approvals), reject_request(i)
      PROVE  /\ Stays
             /\ \/ Kept(k) \/ Expires(k)
                \/ Answerable(k) /\ Answers(k, "REJECTED", <<"REJECTED_BY_HUMAN">>)
  <2>1. Close(i, "REJECTED", <<"REJECTED_BY_HUMAN">>) /\ Answerable(i) /\ i \in Nat
    BY <1>4 DEF reject_request
  <2>2. /\ Stays
        /\ \/ Kept(k) \/ Expires(k)
           \/ k = i /\ Answers(k, "REJECTED", <<"REJECTED_BY_HUMAN">>)
    BY StatusesAreTyped, <2>1, LinesAreTyped, CloseAnswers
  <2> HIDE DEF Stays
  <2> QED BY <2>1, <2>2, Zenon
<1>5. ASSUME expire_approval_requests PROVE Stays /\ (Kept(k) \/ Expires(k))
  <2>1. Close(0, "EXPIRED", <<>>) /\ 0 \in Nat /\ k # 0
    BY <1>5 DEF expire_approval_requests
  <2>2. Stays /\ (Kept(k) \/ Expires(k) \/ (k = 0 /\ Answers(k, "EXPIRED", <<>>)))
    BY StatusesAreTyped, <2>1, LinesAreTyped, CloseAnswers
  <2> HIDE DEF Stays
  <2> QED BY <2>1, <2>2, Zenon
<1>6. \/ \E o \in ForReview : create_approval_request(o)
      \/ \E i \in 1..Len(approvals) : approve_request(i) \/ reject_request(i)
      \/ expire_approval_requests
      \/ UNCHANGED <<approvals, trail>>
  BY DEF Next, vars, request_execution, execute_payment, reload, Tick, EditPolicy
<1> QED
  BY <1>1, <1>2, <1>3, <1>4, <1>5, <1>6, Zenon

\* An approval request is answered once, and in time (gateway.py:136-221).
THEOREM ApprovalsAreAnsweredOnce == Spec => ApprovalsAreFinal
<1> DEFINE Final(i) ==
      LET before == approvals[i]
          after == approvals'[i]
      IN /\ before.status # "PENDING" => after = before
         /\ before.status = "PENDING" /\ after.status \in {"APPROVED", "REJECTED"}
            => now < before.expires_at
<1>1. TypeOK /\ [Next]_vars => \A i \in 1..Len(approvals) : Final(i)
  <2> SUFFICES ASSUME TypeOK, [Next]_vars, NEW i \in 1..Len(approvals) PROVE Final(i)
    OBVIOUS
  <2>1. approvals[i] \in Approval /\ now \in Nat
    BY DEF TypeOK
  <2>2. \/ approvals'[i] = approvals[i]
        \/ Due(i) /\ approvals'[i].status = "EXPIRED"
        \/ Answerable(i)
    BY ApprovalSteps, Zenon DEF Kept, Expires
  <2> QED BY <2>1, <2>2 DEF Due, Answerable, Approval
<1> QED
  BY <1>1, TypeCorrect, PTL DEF Spec, ApprovalsAreFinal

\* An approval request is new only when one is made: pending, and with the line that opens
\* its trail (gateway.py:93-131).
LEMMA NewApprovals ==
    ASSUME TypeOK, [Next]_vars, NEW k \in 1..Len(approvals'), k \notin 1..Len(approvals)
    PROVE  approvals'[k].status = "PENDING" /\ trail'[k] = Opening(approvals'[k])
<1>0. /\ approvals \in Seq(Approval) /\ trail \in Seq(Seq(TrailStatus))
      /\ Len(trail) = Len(approvals) /\ Len(approvals) \in Nat /\ now \in Nat
  BY DEF TypeOK
<1>1. ASSUME NEW o \in ForReview, create_approval_request(o)
      PROVE  approvals'[k].status = "PENDING" /\ trail'[k] = Opening(approvals'[k])
  <2> DEFINE a == [request |-> o, status |-> "PENDING", expires_at |-> now + ApprovalTTL]
  <2>1. approvals' = Append(approvals, a) /\ trail' = Append(trail, Opening(a))
    BY <1>1 DEF create_approval_request, Opening
  <2>2. a \in Approval
    BY <1>0, OrderAssumption, BoundsAssumption, StatusesAreTyped DEF Approval
  <2>3. Opening(a) \in Seq(TrailStatus)
    BY LinesAreTyped, Zenon DEF Opening
  <2>4. a.status = "PENDING"
    OBVIOUS
  <2> HIDE DEF a
  <2>5. Len(approvals') = Len(approvals) + 1 /\ approvals'[Len(approvals) + 1] = a
    BY <1>0, <2>1, <2>2, Appended
  <2>6. trail'[Len(approvals) + 1] = Opening(a)
    BY <1>0, <2>1, <2>3, Appended
  <2>7. k = Len(approvals) + 1
    BY <1>0, <2>5
  <2> QED BY <2>4, <2>5, <2>6, <2>7, Zenon
<1>2. ASSUME NEW i \in 1..Len(approvals), approve_request(i) PROVE Len(approvals') = Len(approvals)
  <2>1. Close(i, "APPROVED", ApprovalLines(i)) /\ i \in Nat
    BY <1>2 DEF approve_request, ApprovalLines
  <2>2. ApprovalLines(i) \in Seq(TrailStatus)
    BY LinesAreTyped, Zenon DEF ApprovalLines
  <2> QED BY StatusesAreTyped, <2>1, <2>2, Closes
<1>3. ASSUME NEW i \in 1..Len(approvals), reject_request(i) PROVE Len(approvals') = Len(approvals)
  <2>1. Close(i, "REJECTED", <<"REJECTED_BY_HUMAN">>) /\ i \in Nat
    BY <1>3 DEF reject_request
  <2> QED BY StatusesAreTyped, LinesAreTyped, <2>1, Closes
<1>4. ASSUME expire_approval_requests PROVE Len(approvals') = Len(approvals)
  <2>1. Close(0, "EXPIRED", <<>>) /\ 0 \in Nat
    BY <1>4 DEF expire_approval_requests
  <2> QED BY StatusesAreTyped, LinesAreTyped, <2>1, Closes
<1>5. ASSUME UNCHANGED approvals PROVE Len(approvals') = Len(approvals)
  BY <1>5
<1>6. Len(approvals') # Len(approvals)
  OBVIOUS
<1>7. \/ \E o \in ForReview : create_approval_request(o)
      \/ \E i \in 1..Len(approvals) : approve_request(i) \/ reject_request(i)
      \/ expire_approval_requests
      \/ UNCHANGED approvals
  BY DEF Next, vars, request_execution, execute_payment, reload, Tick, EditPolicy
<1> QED
  BY <1>1, <1>2, <1>3, <1>4, <1>5, <1>6, <1>7, Zenon

\* A line is appended to the trail that a request has so far.
LEMMA TrailGrows ==
    ASSUME NEW s \in Seq(TrailStatus), NEW e \in TrailStatus
    PROVE  s \o <<>> = s /\ Append(s, e) = s \o <<e>>
    BY ConcatEmptySeq, AppendIsConcat

\* The lines that open and close a trail.
LEMMA OpeningIsTyped == \A a : Opening(a) \in Seq(TrailStatus)
    BY LinesAreTyped, Zenon DEF Opening

\* The trail of an approval request that was there tells its fate after a step, too.
LEMMA FateStep ==
    ASSUME TypeOK, [Next]_vars, NEW k \in 1..Len(approvals),
           trail[k] = Opening(approvals[k]) \o Closing(approvals[k])
    PROVE  trail'[k] = Opening(approvals'[k]) \o Closing(approvals'[k])
<1>1. Opening(approvals'[k]) = Opening(approvals[k])
  BY ApprovalSteps, Zenon DEF Opening
<1>2. ASSUME approvals[k].status = "PENDING" PROVE trail[k] = Opening(approvals[k])
  <2>1. Closing(approvals[k]) = <<>>
    BY <1>2 DEF Closing
  <2> QED BY <2>1, OpeningIsTyped, TrailGrows, StatusesAreTyped DEF TrailStatus
<1>3. CASE Kept(k)
  BY <1>3, Zenon DEF Kept
<1>4. CASE Expires(k)
  <2>1. trail'[k] = Append(Opening(approvals[k]), "EXPIRED")
    BY <1>2, <1>4, Zenon DEF Expires, Due
  <2>2. Closing(approvals'[k]) = <<"EXPIRED">>
    BY <1>4 DEF Expires, Closing
  <2>3. "EXPIRED" \in TrailStatus
    BY DEF TrailStatus
  <2> QED BY <1>1, <2>1, <2>2, <2>3, OpeningIsTyped, TrailGrows
<1>5. CASE Answerable(k) /\ Answers(k, "REJECTED", <<"REJECTED_BY_HUMAN">>)
  <2>1. trail'[k] = Opening(approvals[k]) \o <<"REJECTED_BY_HUMAN">>
    BY <1>2, <1>5, Zenon DEF Answers, Answerable
  <2>2. Closing(approvals'[k]) = <<"REJECTED_BY_HUMAN">>
    BY <1>5 DEF Answers, Closing
  <2> QED BY <1>1, <2>1, <2>2, Zenon
<1>6. CASE Answerable(k) /\ Answers(k, "APPROVED", ApprovalLines(k))
  <2>1. trail'[k] = Opening(approvals[k]) \o ApprovalLines(k)
    BY <1>2, <1>6, Zenon DEF Answers, Answerable
  <2>2. approvals'[k].request = approvals[k].request
    BY ApprovalSteps
  <2>3. Closing(approvals'[k]) = ApprovalLines(k)
    BY <1>6, <2>2 DEF Answers, Closing, ApprovalLines
  <2> QED BY <1>1, <2>1, <2>3, Zenon
<1> QED
  BY <1>3, <1>4, <1>5, <1>6, ApprovalSteps, Zenon

\* The log tells what became of each approval request (gateway.py:93-131, 136-221).
THEOREM TrailsTellFates == Spec => []TrailTellsFate
<1>1. Init => TrailTellsFate
  BY DEF Init, TrailTellsFate
<1>2. TypeOK /\ TrailTellsFate /\ [Next]_vars => TrailTellsFate'
  <2> SUFFICES ASSUME TypeOK, TrailTellsFate, [Next]_vars, NEW k \in 1..Len(approvals')
               PROVE  trail'[k] = Opening(approvals'[k]) \o Closing(approvals'[k])
    BY DEF TrailTellsFate
  <2>1. CASE k \in 1..Len(approvals)
    BY <2>1, FateStep DEF TrailTellsFate
  <2>2. CASE k \notin 1..Len(approvals)
    <3>1. approvals'[k].status = "PENDING" /\ trail'[k] = Opening(approvals'[k])
      BY <2>2, NewApprovals
    <3>2. Closing(approvals'[k]) = <<>>
      BY <3>1 DEF Closing
    <3> QED BY <3>1, <3>2, OpeningIsTyped, TrailGrows DEF TrailStatus
  <2> QED BY <2>1, <2>2
<1> QED
  BY <1>1, <1>2, TypeCorrect, PTL DEF Spec

(***************************************************************************)
(* The gateway implements OneShotAuthority.                                *)
(***************************************************************************)
\* Issuing a token grants one: to a human's approval and to the policy's alike.
LEMMA IssueIsGrant ==
    ASSUME TypeOK, NEW t \in ActionToken, Len(tokens) < MaxTokens,
           tokens' = Append(tokens, t), t.exp = now + TokenTTL,
           UNCHANGED <<now, used_jtis, charges>>
    PROVE  Authority!Next
<1> DEFINE n == Len(tokens) + 1
<1>1. /\ tokens \in Seq(ActionToken) /\ Len(tokens) \in Nat /\ now \in Nat
      /\ used_jtis \subseteq 1..Len(tokens) /\ MaxTokens \in Nat /\ TokenTTL \in Nat
  BY BoundsAssumption DEF TypeOK
<1>2. /\ Len(tokens') = n /\ tokens'[n] = t
      /\ \A k \in 1..Len(tokens) : tokens'[k] = tokens[k]
  BY <1>1, Appended
<1>3. n \in 1..MaxTokens /\ t.action \in Content
  BY <1>1 DEF ActionToken
<1>4. Standings[n] = "unissued"
  BY <1>1, <1>3 DEF Standings, StandingOf
<1>5. Standings' = [Standings EXCEPT ![n] = "live"]
  <2>1. ASSUME NEW j \in 1..MaxTokens
        PROVE  StandingOf(j)' = IF j = n THEN "live" ELSE StandingOf(j)
    <3>1. CASE j = n
      <4>1. j \notin used_jtis /\ ~(t.exp < now) /\ ~(j > n)
        BY <1>1, <3>1
      <4> QED BY <1>2, <3>1, <4>1 DEF StandingOf
    <3>2. CASE j > n
      BY <1>1, <1>2, <3>2 DEF StandingOf
    <3>3. CASE j < n
      <4>1. j \in 1..Len(tokens)
        BY <1>1, <3>3
      <4> QED BY <1>1, <1>2, <3>3, <4>1 DEF StandingOf
    <3> QED BY <1>1, <3>1, <3>2, <3>3
  <2> QED BY <2>1, <1>3 DEF Standings
<1>6. GrantOf' = [u \in DOMAIN GrantOf \cup {n} |-> IF u = n THEN t.action ELSE GrantOf[u]]
  <2>1. 1..n = 1..Len(tokens) \cup {n} /\ n \notin 1..Len(tokens)
    BY <1>1
  <2>2. DOMAIN GrantOf = 1..Len(tokens)
    BY DEF GrantOf
  <2>3. GrantOf' = [u \in 1..n |-> tokens'[u].action]
    BY <1>2 DEF GrantOf
  <2>4. \A u \in 1..Len(tokens) : tokens'[u].action = GrantOf[u]
    BY <1>2 DEF GrantOf
  <2> QED BY <1>2, <2>1, <2>2, <2>3, <2>4
<1>7. Effects' = Effects
  BY DEF Effects
<1>8. Authority!Grant(n, t.action)
  BY <1>4, <1>5, <1>6, <1>7 DEF Authority!Grant
<1> QED
  BY <1>3, <1>8 DEF Authority!Next

\* Redeeming a token performs it (proxy.py:47-58, token.py:51-62).
LEMMA RedeemIsPerform ==
    ASSUME TypeOK, NEW j \in 1..Len(tokens), execute_payment(j)
    PROVE  Authority!Next
<1>1. /\ tokens \in Seq(ActionToken) /\ Len(tokens) \in Nat /\ Len(tokens) <= MaxTokens
      /\ charges \in Seq(Charge) /\ MaxTokens \in Nat
  BY BoundsAssumption DEF TypeOK
<1> DEFINE c == [token |-> j, request |-> tokens[j].action]
<1>2. /\ ~(tokens[j].exp < now) /\ j \notin used_jtis
      /\ used_jtis' = used_jtis \cup {j} /\ charges' = Append(charges, c)
      /\ tokens' = tokens /\ now' = now
  BY DEF execute_payment, verify_token
<1>3. j \in 1..MaxTokens /\ ~(j > Len(tokens))
  BY <1>1
<1>4. Standings[j] = "live"
  BY <1>2, <1>3 DEF Standings, StandingOf
<1>5. Standings' = [Standings EXCEPT ![j] = "spent"]
  <2>1. ASSUME NEW k \in 1..MaxTokens
        PROVE  StandingOf(k)' = IF k = j THEN "spent" ELSE StandingOf(k)
    BY <1>2, <1>3 DEF StandingOf
  <2> QED BY <1>3, <2>1 DEF Standings
<1>6. GrantOf' = GrantOf /\ GrantOf[j] = tokens[j].action
  BY <1>2 DEF GrantOf
<1>7. Effects' = Append(Effects, <<j, GrantOf[j]>>)
  <2>1. c \in Charge
    <3>1. tokens[j] \in ActionToken
      BY <1>1
    <3> QED BY <3>1 DEF ActionToken, Charge
  <2>2. c.token = j /\ c.request = GrantOf[j]
    BY <1>6
  <2> HIDE DEF c
  <2>3. /\ Len(charges') = Len(charges) + 1 /\ charges'[Len(charges) + 1] = c
        /\ \A k \in 1..Len(charges) : charges'[k] = charges[k]
    BY <1>1, <1>2, <2>1, Appended
  <2>4. /\ Len(charges) \in Nat
        /\ Effects = [k \in 1..Len(charges) |-> <<charges[k].token, charges[k].request>>]
        /\ Effects' = [k \in 1..Len(charges') |-> <<charges'[k].token, charges'[k].request>>]
    BY <1>1 DEF Effects
  <2> QED BY <2>2, <2>3, <2>4
<1>8. Authority!Perform(j)
  BY <1>4, <1>5, <1>6, <1>7 DEF Authority!Perform
<1> QED
  BY <1>3, <1>8 DEF Authority!Next

\* When the time passes, tokens expire.
LEMMA TickIsRevoke ==
    ASSUME TypeOK, Tick
    PROVE  Authority!Next
<1>1. /\ now \in Nat /\ now' = now + 1
      /\ UNCHANGED <<tokens, used_jtis, charges>>
      /\ tokens \in Seq(ActionToken) /\ Len(tokens) \in Nat
  BY DEF TypeOK, Tick
<1> DEFINE S == {j \in 1..MaxTokens : StandingOf(j) = "live" /\ tokens[j].exp < now'}
<1>2. \A j \in S : Standings[j] = "live"
  BY DEF Standings
<1>3. Standings' = [j \in 1..MaxTokens |-> IF j \in S THEN "void" ELSE Standings[j]]
  <2>1. ASSUME NEW j \in 1..MaxTokens
        PROVE  StandingOf(j)' = IF j \in S THEN "void" ELSE StandingOf(j)
    <3>1. CASE j > Len(tokens) \/ j \in used_jtis
      BY <1>1, <3>1 DEF StandingOf
    <3>2. CASE ~(j > Len(tokens)) /\ j \notin used_jtis
      <4>1. j \in 1..Len(tokens)
        BY <1>1, <3>2
      <4>2. tokens[j].exp \in Nat
        <5>1. tokens[j] \in ActionToken
          BY <1>1, <4>1
        <5> QED BY <5>1 DEF ActionToken
      <4>3. tokens[j].exp < now => tokens[j].exp < now'
        BY <1>1, <4>2
      <4> QED BY <1>1, <3>2, <4>3 DEF StandingOf
    <3> QED BY <3>1, <3>2
  <2> HIDE DEF S
  <2> QED BY <2>1 DEF Standings
<1>4. UNCHANGED <<GrantOf, Effects>>
  BY <1>1 DEF GrantOf, Effects
<1>5. S \in SUBSET (1..MaxTokens) /\ Authority!Revoke(S)
  <2> HIDE DEF S
  <2>1. Authority!Revoke(S)
    BY <1>2, <1>3, <1>4 DEF Authority!Revoke
  <2>2. S \in SUBSET (1..MaxTokens)
    BY DEF S
  <2> QED BY <2>1, <2>2
<1> QED
  BY <1>5 DEF Authority!Next

\* A step of the gateway is a step of the authority, or none.
LEMMA AuthorityStep == TypeOK /\ [Next]_vars => [Authority!Next]_(Authority!vars)
<1> SUFFICES ASSUME TypeOK, [Next]_vars
             PROVE  Authority!Next \/ UNCHANGED Authority!vars
  OBVIOUS
<1>1. ASSUME NEW o \in Order, request_execution(o)
      PROVE  Authority!Next \/ UNCHANGED Authority!vars
  <2>1. PICK s \in Surroundings : Blocked(o, s) \/ Granted(o, s)
    BY <1>1 DEF request_execution
  <2>2. o.amount \in Int /\ UNCHANGED <<now, used_jtis, charges>>
    BY <1>1 DEF request_execution
  <2>3. CASE Blocked(o, s)
    <3>1. tokens' = tokens
      BY <2>3 DEF Blocked
    <3> QED BY <2>2, <3>1
          DEF Authority!vars, GrantOf, Standings, StandingOf, Effects
  <2>4. CASE Granted(o, s)
    <3>1. PICK t \in ActionToken :
             tokens' = Append(tokens, t) /\ t.exp = now + TokenTTL /\ Len(tokens) < MaxTokens
      BY <2>2, <2>4, Grants
    <3> QED BY <2>2, <3>1, IssueIsGrant
  <2> QED BY <2>1, <2>3, <2>4
<1>2. ASSUME NEW i \in 1..Len(approvals), approve_request(i) PROVE Authority!Next
  <2>1. UNCHANGED <<now, used_jtis, charges>>
    BY <1>2 DEF approve_request
  <2>2. PICK t \in ActionToken :
           tokens' = Append(tokens, t) /\ t.exp = now + TokenTTL /\ Len(tokens) < MaxTokens
    BY <1>2, Approves
  <2> QED BY <2>1, <2>2, IssueIsGrant
<1>3. ASSUME NEW j \in 1..Len(tokens), execute_payment(j) PROVE Authority!Next
  BY <1>3, RedeemIsPerform
<1>4. CASE Tick
  BY <1>4, TickIsRevoke
<1>5. ASSUME UNCHANGED <<now, tokens, used_jtis, charges>> PROVE UNCHANGED Authority!vars
  BY <1>5 DEF Authority!vars, GrantOf, Standings, StandingOf, Effects
<1>6. \/ \E o \in Order : request_execution(o)
      \/ \E i \in 1..Len(approvals) : approve_request(i)
      \/ \E j \in 1..Len(tokens) : execute_payment(j)
      \/ Tick
      \/ UNCHANGED <<now, tokens, used_jtis, charges>>
  BY DEF Next, vars, create_approval_request, reject_request, expire_approval_requests, reload,
         EditPolicy
<1> QED
  BY <1>1, <1>2, <1>3, <1>4, <1>5, <1>6, Zenon

\* The gateway's tokens are one-shot authorities.
THEOREM GatewayImplementsAuthority == Spec => ImplementsAuthority
<1>1. Init => Authority!Init
  <2> SUFFICES ASSUME Init PROVE Authority!Init
    OBVIOUS
  <2>1. Len(tokens) = 0 /\ Len(charges) = 0
    BY DEF Init
  <2>2. GrantOf = [t \in {} |-> t]
    BY <2>1 DEF GrantOf
  <2>3. Standings = [j \in 1..MaxTokens |-> "unissued"]
    BY <2>1, BoundsAssumption DEF Standings, StandingOf
  <2>4. Effects = <<>>
    BY <2>1 DEF Effects
  <2> QED BY <2>2, <2>3, <2>4 DEF Authority!Init
<1> QED
  BY <1>1, AuthorityStep, TypeCorrect, PTL DEF Spec, ImplementsAuthority, Authority!Spec

\* The authority's own steps, whoever takes them, perform each token once and as granted.
LEMMA AuthorityKeeps ==
    ASSUME Authority!TypeOK, Authority!EffectsAreAuthorised,
           [Authority!Next]_(Authority!vars)
    PROVE  Authority!TypeOK' /\ Authority!EffectsAreAuthorised'
<1> DEFINE n == Len(Effects)
           Id == 1..MaxTokens
<1>0. /\ \A t \in Id : Standings[t] \in {"live", "spent"} => t \in DOMAIN GrantOf
      /\ \A i \in 1..n :
           /\ Effects[i][1] \in Id /\ Standings[Effects[i][1]] = "spent"
           /\ Effects[i][2] = GrantOf[Effects[i][1]]
           /\ \A j \in 1..n : Effects[j][1] = Effects[i][1] => j = i
  BY DEF Authority!EffectsAreAuthorised
<1>t. /\ DOMAIN GrantOf \subseteq Id /\ \A t \in DOMAIN GrantOf : GrantOf[t] \in Content
      /\ Standings \in [Id -> Authority!Standing] /\ Effects \in Seq(Id \X Content)
  BY DEF Authority!TypeOK
<1>n. n \in Nat
  BY <1>t
<1> HIDE DEF n, Id
<1>1. ASSUME NEW t \in Id, NEW c \in Content, Authority!Grant(t, c)
      PROVE  Authority!TypeOK' /\ Authority!EffectsAreAuthorised'
  <2>1. /\ Standings[t] = "unissued" /\ Standings' = [Standings EXCEPT ![t] = "live"]
        /\ GrantOf' = [u \in DOMAIN GrantOf \cup {t} |-> IF u = t THEN c ELSE GrantOf[u]]
        /\ Effects' = Effects
    BY <1>1 DEF Authority!Grant
  <2>2. \A u \in Id : Standings'[u] \in {"live", "spent"} => u \in DOMAIN GrantOf'
    BY <1>0, <1>t, <2>1
  <2>3. ASSUME NEW i \in 1..n
        PROVE  /\ Standings'[Effects[i][1]] = "spent"
               /\ Effects[i][2] = GrantOf'[Effects[i][1]]
    BY <1>0, <1>t, <2>1
  <2>4. Authority!EffectsAreAuthorised'
    BY <1>0, <2>1, <2>2, <2>3 DEF Authority!EffectsAreAuthorised, n, Id
  <2>5. /\ DOMAIN GrantOf' \subseteq Id /\ \A u \in DOMAIN GrantOf' : GrantOf'[u] \in Content
        /\ Standings' \in [Id -> Authority!Standing]
    BY <1>t, <1>1, <2>1 DEF Authority!Standing
  <2> QED BY <1>t, <2>1, <2>4, <2>5 DEF Authority!TypeOK, Id
<1>2. ASSUME NEW t \in Id, Authority!Perform(t)
      PROVE  Authority!TypeOK' /\ Authority!EffectsAreAuthorised'
  <2> DEFINE e == <<t, GrantOf[t]>>
  <2>1. /\ Standings[t] = "live" /\ Standings' = [Standings EXCEPT ![t] = "spent"]
        /\ Effects' = Append(Effects, e) /\ GrantOf' = GrantOf
    BY <1>2 DEF Authority!Perform
  <2>2. e[1] = t /\ e[2] = GrantOf[t] /\ e \in Id \X Content
    BY <1>0, <1>t, <2>1
  <2> HIDE DEF e
  <2>3. /\ Len(Effects') = n + 1 /\ Effects'[n + 1] = e
        /\ \A i \in 1..n : Effects'[i] = Effects[i]
        /\ Effects' \in Seq(Id \X Content)
    BY <1>t, <2>1, <2>2, Appended DEF n
  <2>4. \A u \in Id : Standings'[u] \in {"live", "spent"} => u \in DOMAIN GrantOf'
    BY <1>0, <1>t, <2>1
  <2>5. \A i \in 1..n : Effects[i][1] # t
    BY <1>0, <2>1
  <2>6. Standings' \in [Id -> Authority!Standing] /\ Standings'[t] = "spent"
    BY <1>t, <2>1 DEF Authority!Standing
  <2>7. \A j \in 1..n + 1 : j \in 1..n \/ j = n + 1
    BY <1>n
  <2>8. ASSUME NEW i \in 1..n
        PROVE  Standings'[Effects[i][1]] = "spent"
    BY <1>0, <1>t, <2>1
  <2>9. ASSUME NEW i \in 1..n + 1
        PROVE  /\ Effects'[i][1] \in Id /\ Standings'[Effects'[i][1]] = "spent"
               /\ Effects'[i][2] = GrantOf'[Effects'[i][1]]
               /\ \A j \in 1..n + 1 : Effects'[j][1] = Effects'[i][1] => j = i
    <3>1. CASE i = n + 1
      BY <2>1, <2>2, <2>3, <2>5, <2>6, <2>7, <3>1
    <3>2. CASE i \in 1..n
      BY <1>0, <2>1, <2>2, <2>3, <2>5, <2>7, <2>8, <3>2
    <3> QED BY <2>7, <3>1, <3>2
  <2>10. Authority!EffectsAreAuthorised'
    BY <2>3, <2>4, <2>9 DEF Authority!EffectsAreAuthorised, Id
  <2> QED BY <1>t, <2>1, <2>3, <2>6, <2>10 DEF Authority!TypeOK, Id
<1>3. ASSUME NEW S \in SUBSET Id, Authority!Revoke(S)
      PROVE  Authority!TypeOK' /\ Authority!EffectsAreAuthorised'
  <2>1. /\ \A t \in S : Standings[t] = "live"
        /\ Standings' = [t \in Id |-> IF t \in S THEN "void" ELSE Standings[t]]
        /\ GrantOf' = GrantOf /\ Effects' = Effects
    BY <1>3 DEF Authority!Revoke, Id
  <2>2. Standings' \in [Id -> Authority!Standing]
    BY <1>t, <2>1 DEF Authority!Standing
  <2>3. Authority!EffectsAreAuthorised'
    BY <1>0, <2>1 DEF Authority!EffectsAreAuthorised, n, Id
  <2> QED BY <1>t, <2>1, <2>2, <2>3 DEF Authority!TypeOK, Id
<1>4. CASE UNCHANGED Authority!vars
  BY <1>4 DEF Authority!vars, Authority!TypeOK, Authority!EffectsAreAuthorised
<1> QED
  BY <1>1, <1>2, <1>3, <1>4 DEF Authority!Next, Id

\* A payment token is charged once, for the very order it was issued for, and what was not
\* issued is never charged (proxy.py:47-58, token.py:51-62).
THEOREM ChargesAreAuthorised == Spec => []Authority!EffectsAreAuthorised
<1>1. Authority!Init => Authority!TypeOK /\ Authority!EffectsAreAuthorised
  BY DEF Authority!Init, Authority!TypeOK, Authority!Standing, Authority!EffectsAreAuthorised
<1>2. Authority!Spec => []Authority!EffectsAreAuthorised
  BY <1>1, AuthorityKeeps, PTL DEF Authority!Spec
<1> QED
  BY <1>2, GatewayImplementsAuthority, PTL DEF ImplementsAuthority

(***************************************************************************)
(* Every token is explained by one decision.                               *)
(***************************************************************************)
\* What was approved stays approved, as it was.
LEMMA ApprovedStays ==
    ASSUME TypeOK, [Next]_vars, NEW k \in 1..Len(approvals), approvals[k].status = "APPROVED"
    PROVE  /\ k \in 1..Len(approvals') /\ approvals'[k].status = "APPROVED"
           /\ approvals'[k].request = approvals[k].request
           /\ approvals'[k].expires_at = approvals[k].expires_at
  <1>1. ~Due(k) /\ ~Answerable(k)
    BY DEF Due, Answerable
  <1>2. approvals'[k] = approvals[k]
    BY <1>1, ApprovalSteps, Zenon DEF Kept, Expires
  <1>3. Len(approvals) <= Len(approvals')
    BY ApprovalSteps
  <1>4. Len(approvals) \in Nat /\ Len(approvals') \in Nat
    <2>1. TypeOK'
      BY TypeStep
    <2> QED BY <2>1 DEF TypeOK
  <1>5. k \in 1..Len(approvals')
    BY <1>3, <1>4
  <1> QED BY <1>2, <1>5

\* The explanation of a token that was there holds on, as the log only grows.
LEMMA ExplanationStays ==
    ASSUME TypeOK, [Next]_vars, NEW j \in 1..Len(tokens), TokenIsExplained(j),
           tokens'[j] = tokens[j],
           \A n \in 1..Len(records) : n \in 1..Len(records') /\ records'[n] = records[n]
    PROVE  TokenIsExplained(j)'
  <1>1. CASE tokens[j].source = "HUMAN"
    <2> DEFINE a == tokens[j].approval
    <2>1. /\ a \in 1..Len(approvals) /\ approvals[a].status = "APPROVED"
          /\ approvals[a].request = tokens[j].action.order
          /\ tokens[j].iat < approvals[a].expires_at
      BY <1>1 DEF TokenIsExplained
    <2> HIDE DEF a
    <2>2. /\ a \in 1..Len(approvals') /\ approvals'[a].status = "APPROVED"
          /\ approvals'[a].request = tokens[j].action.order
          /\ tokens[j].iat < approvals'[a].expires_at
      BY <2>1, ApprovedStays
    <2> QED BY <1>1, <2>2 DEF TokenIsExplained, a
  <1>2. CASE tokens[j].source # "HUMAN"
    BY <1>2 DEF TokenIsExplained
  <1> QED BY <1>1, <1>2

\* What a step adds to the tokens and to the lines of requests: nothing, or a blocked line,
\* or a line and its token, or the token of a human's approval.
LEMMA StoresGrow ==
    ASSUME TypeOK, [Next]_vars
    PROVE  \/ UNCHANGED <<tokens, records>>
           \/ \E r \in AuditRecord :
                /\ records' = Append(records, r) /\ tokens' = tokens
                /\ r.status = "BLOCKED" /\ r.token_id = 0
           \/ \E r \in AuditRecord, t \in ActionToken :
                /\ records' = Append(records, r) /\ tokens' = Append(tokens, t)
                /\ t.source # "HUMAN" /\ t.line = Len(records) + 1
                /\ r.status = t.source /\ r.status # "BLOCKED"
                /\ r.token_id = Len(tokens) + 1 /\ r.order = t.action.order
           \/ \E i \in 1..Len(approvals), t \in ActionToken :
                /\ approve_request(i) /\ records' = records /\ tokens' = Append(tokens, t)
                /\ t.source = "HUMAN" /\ t.approval = i /\ t.iat = now
                /\ t.action.order = approvals[i].request
<1>0. /\ now \in Nat /\ Len(tokens) \in Nat /\ Reloaded \in Policies
  BY ReloadedIsPolicy DEF TypeOK
<1>1. ASSUME NEW o \in Order, NEW s \in Surroundings, Blocked(o, s)
      PROVE  \E r \in AuditRecord :
                /\ records' = Append(records, r) /\ tokens' = tokens
                /\ r.status = "BLOCKED" /\ r.token_id = 0
  <2>1. Line(o, "BLOCKED", 0) \in AuditRecord
    BY <1>0 DEF Line, AuditRecord
  <2>2. Line(o, "BLOCKED", 0).status = "BLOCKED" /\ Line(o, "BLOCKED", 0).token_id = 0
    BY DEF Line
  <2>3. records' = Append(records, Line(o, "BLOCKED", 0)) /\ tokens' = tokens
    BY <1>1 DEF Blocked
  <2> QED BY <2>1, <2>2, <2>3
<1>2. ASSUME NEW o \in Order, o.amount \in Int, NEW s \in Surroundings, Granted(o, s)
      PROVE  \E r \in AuditRecord, t \in ActionToken :
                /\ records' = Append(records, r) /\ tokens' = Append(tokens, t)
                /\ t.source # "HUMAN" /\ t.line = Len(records) + 1
                /\ r.status = t.source /\ r.status # "BLOCKED"
                /\ r.token_id = Len(tokens) + 1 /\ r.order = t.action.order
  <2>1. PICK t \in ActionToken :
             /\ tokens' = Append(tokens, t)
             /\ t.source \in {"APPROVED", "CONDITIONAL_APPROVAL"}
             /\ t.action.order = o /\ t.line = Len(records) + 1
             /\ records' = Append(records, Line(o, t.source, Len(tokens) + 1))
    BY <1>2, Grants
  <2> DEFINE r == Line(o, t.source, Len(tokens) + 1)
  <2>2. r \in AuditRecord
    BY <1>0, <2>1 DEF Line, AuditRecord
  <2>3. r.status = t.source /\ r.token_id = Len(tokens) + 1 /\ r.order = o
    BY DEF Line
  <2>4. t.source # "HUMAN" /\ t.source # "BLOCKED"
    BY <2>1
  <2> HIDE DEF r
  <2>5. records' = Append(records, r)
    BY <2>1 DEF r
  <2> QED BY <2>1, <2>2, <2>3, <2>4, <2>5
<1>3. ASSUME NEW o \in Order, request_execution(o)
      PROVE  o.amount \in Int /\ \E s \in Surroundings : Blocked(o, s) \/ Granted(o, s)
  BY <1>3 DEF request_execution
<1>4. ASSUME NEW i \in 1..Len(approvals), approve_request(i)
      PROVE  \E t \in ActionToken :
                /\ records' = records /\ tokens' = Append(tokens, t)
                /\ t.source = "HUMAN" /\ t.approval = i /\ t.iat = now
                /\ t.action.order = approvals[i].request
  <2>1. records' = records
    BY <1>4 DEF approve_request
  <2> QED BY <1>4, <2>1, Approves
<1>5. \/ \E o \in Order : request_execution(o)
      \/ \E i \in 1..Len(approvals) : approve_request(i)
      \/ UNCHANGED <<tokens, records>>
  BY DEF Next, vars, create_approval_request, reject_request, expire_approval_requests, reload,
         execute_payment, Tick, EditPolicy
<1>6. CASE \E o \in Order : request_execution(o)
  <2>1. PICK o \in Order : request_execution(o)
    BY <1>6
  <2>2. PICK s \in Surroundings : o.amount \in Int /\ (Blocked(o, s) \/ Granted(o, s))
    BY <1>3, <2>1
  <2>3. CASE Blocked(o, s)
    BY <1>1, <2>3
  <2>4. CASE Granted(o, s)
    BY <1>2, <2>2, <2>4
  <2> QED BY <2>2, <2>3, <2>4
<1>7. CASE \E i \in 1..Len(approvals) : approve_request(i)
  BY <1>4, <1>7
<1> QED
  BY <1>5, <1>6, <1>7

\* The parts of AuthorityIsExplained: tokens, pairs of tokens, and lines.
LinesAreHonest ==
    \A n \in 1..Len(records) :
      IF records[n].status = "BLOCKED" THEN records[n].token_id = 0
      ELSE /\ records[n].token_id \in 1..Len(tokens)
           /\ tokens[records[n].token_id].line = n
SameDecision(j, k) ==
    /\ tokens[j].source = "HUMAN" /\ tokens[k].source = "HUMAN"
    /\ tokens[j].approval = tokens[k].approval

LEMMA ExplainedParts ==
    AuthorityIsExplained <=>
      /\ \A j \in 1..Len(tokens) : TokenIsExplained(j)
      /\ \A j, k \in 1..Len(tokens) : SameDecision(j, k) => j = k
      /\ LinesAreHonest
  BY Zenon DEF AuthorityIsExplained, LinesAreHonest, SameDecision

\* Each kind of step leaves every token explained.
LEMMA ExplainedStep ==
    TypeOK /\ AuthorityIsExplained /\ [Next]_vars => AuthorityIsExplained'
<1> SUFFICES ASSUME TypeOK, AuthorityIsExplained, [Next]_vars PROVE AuthorityIsExplained'
  OBVIOUS
<1>0. /\ records \in Seq(AuditRecord) /\ tokens \in Seq(ActionToken) /\ now \in Nat
      /\ approvals \in Seq(Approval)
      /\ Len(tokens) \in Nat /\ Len(records) \in Nat
  BY DEF TypeOK
<1>1. /\ \A j \in 1..Len(tokens) : TokenIsExplained(j)
      /\ \A j, k \in 1..Len(tokens) : SameDecision(j, k) => j = k
      /\ LinesAreHonest
  BY ExplainedParts
<1>2. SUFFICES /\ \A j \in 1..Len(tokens') : TokenIsExplained(j)'
               /\ \A j, k \in 1..Len(tokens') : SameDecision(j, k)' => j = k
               /\ LinesAreHonest'
  BY ONLY <1>2, Zenon DEF AuthorityIsExplained, LinesAreHonest, SameDecision
<1>3. CASE UNCHANGED <<tokens, records>>
  <2>1. ASSUME NEW j \in 1..Len(tokens') PROVE TokenIsExplained(j)'
    BY <1>1, <1>3, ExplanationStays
  <2>2. \A j, k \in 1..Len(tokens') : SameDecision(j, k)' => j = k
    BY <1>1, <1>3 DEF SameDecision
  <2>3. LinesAreHonest'
    BY <1>1, <1>3 DEF LinesAreHonest
  <2> QED BY <2>1, <2>2, <2>3
<1>4. ASSUME NEW r \in AuditRecord, records' = Append(records, r), tokens' = tokens,
             r.status = "BLOCKED", r.token_id = 0
      PROVE  /\ \A j \in 1..Len(tokens') : TokenIsExplained(j)'
             /\ \A j, k \in 1..Len(tokens') : SameDecision(j, k)' => j = k
             /\ LinesAreHonest'
  <2>1. /\ Len(records') = Len(records) + 1 /\ records'[Len(records) + 1] = r
        /\ \A n \in 1..Len(records) : records'[n] = records[n]
    BY <1>0, <1>4, Appended
  <2>2. \A n \in 1..Len(records) : n \in 1..Len(records') /\ records'[n] = records[n]
    BY <1>0, <2>1
  <2>3. ASSUME NEW j \in 1..Len(tokens') PROVE TokenIsExplained(j)'
    BY <1>1, <1>4, <2>2, ExplanationStays
  <2>4. \A j, k \in 1..Len(tokens') : SameDecision(j, k)' => j = k
    BY <1>1, <1>4 DEF SameDecision
  <2>5. ASSUME NEW n \in 1..Len(records')
        PROVE  IF records'[n].status = "BLOCKED" THEN records'[n].token_id = 0
               ELSE /\ records'[n].token_id \in 1..Len(tokens')
                    /\ tokens'[records'[n].token_id].line = n
    <3>1. CASE n = Len(records) + 1
      BY <1>4, <2>1, <3>1
    <3>2. CASE n # Len(records) + 1
      <4>1. n \in 1..Len(records)
        BY <1>0, <2>1, <3>2
      <4> QED BY <1>1, <1>4, <2>1, <4>1 DEF LinesAreHonest
    <3> QED BY <3>1, <3>2
  <2> QED BY <2>3, <2>4, <2>5 DEF LinesAreHonest
<1>5. ASSUME NEW r \in AuditRecord, NEW t \in ActionToken,
             records' = Append(records, r), tokens' = Append(tokens, t),
             t.source # "HUMAN", t.line = Len(records) + 1,
             r.status = t.source, r.status # "BLOCKED",
             r.token_id = Len(tokens) + 1, r.order = t.action.order
      PROVE  /\ \A j \in 1..Len(tokens') : TokenIsExplained(j)'
             /\ \A j, k \in 1..Len(tokens') : SameDecision(j, k)' => j = k
             /\ LinesAreHonest'
  <2>1. /\ Len(records') = Len(records) + 1 /\ records'[Len(records) + 1] = r
        /\ \A n \in 1..Len(records) : records'[n] = records[n]
    BY <1>0, <1>5, Appended
  <2>2. /\ Len(tokens') = Len(tokens) + 1 /\ tokens'[Len(tokens) + 1] = t
        /\ \A j \in 1..Len(tokens) : tokens'[j] = tokens[j]
    BY <1>0, <1>5, Appended
  <2>3. \A n \in 1..Len(records) : n \in 1..Len(records') /\ records'[n] = records[n]
    BY <1>0, <2>1
  <2>4. \A j \in 1..Len(tokens') : j \in 1..Len(tokens) \/ j = Len(tokens) + 1
    BY <1>0, <2>2
  <2>5. ASSUME NEW j \in 1..Len(tokens') PROVE TokenIsExplained(j)'
    <3>1. CASE j \in 1..Len(tokens)
      BY <1>1, <2>2, <2>3, <3>1, ExplanationStays
    <3>2. CASE j = Len(tokens) + 1
      <4>1. t.line \in 1..Len(records')
        BY <1>0, <1>5, <2>1
      <4> QED BY <1>5, <2>1, <2>2, <3>2, <4>1 DEF TokenIsExplained
    <3> QED BY <2>4, <3>1, <3>2
  <2>6. ASSUME NEW j \in 1..Len(tokens'), NEW k \in 1..Len(tokens'), SameDecision(j, k)'
        PROVE  j = k
    <3>1. j \in 1..Len(tokens) /\ k \in 1..Len(tokens)
      BY <1>5, <2>2, <2>4, <2>6 DEF SameDecision
    <3>2. SameDecision(j, k)
      BY <2>2, <2>6, <3>1 DEF SameDecision
    <3> QED BY <1>1, <3>1, <3>2
  <2>7. ASSUME NEW n \in 1..Len(records')
        PROVE  IF records'[n].status = "BLOCKED" THEN records'[n].token_id = 0
               ELSE /\ records'[n].token_id \in 1..Len(tokens')
                    /\ tokens'[records'[n].token_id].line = n
    <3>1. CASE n = Len(records) + 1
      <4>1. Len(tokens) + 1 \in 1..Len(tokens')
        BY <1>0, <2>2
      <4> QED BY <1>5, <2>1, <2>2, <3>1, <4>1
    <3>2. CASE n # Len(records) + 1
      <4>1. n \in 1..Len(records) /\ records'[n] = records[n]
        BY <1>0, <2>1, <3>2
      <4>2. CASE records[n].status = "BLOCKED"
        BY <1>1, <4>1, <4>2 DEF LinesAreHonest
      <4>3. CASE records[n].status # "BLOCKED"
        <5>1. records[n].token_id \in 1..Len(tokens) /\ tokens[records[n].token_id].line = n
          BY <1>1, <4>1, <4>3 DEF LinesAreHonest
        <5>2. records[n].token_id \in 1..Len(tokens')
          BY <1>0, <2>2, <5>1
        <5> QED BY <2>2, <4>1, <4>3, <5>1, <5>2
      <4> QED BY <4>2, <4>3
    <3> QED BY <3>1, <3>2
  <2> QED BY <2>5, <2>6, <2>7 DEF LinesAreHonest
<1>6. ASSUME NEW i \in 1..Len(approvals), NEW t \in ActionToken, approve_request(i),
             records' = records, tokens' = Append(tokens, t),
             t.source = "HUMAN", t.approval = i, t.iat = now,
             t.action.order = approvals[i].request
      PROVE  /\ \A j \in 1..Len(tokens') : TokenIsExplained(j)'
             /\ \A j, k \in 1..Len(tokens') : SameDecision(j, k)' => j = k
             /\ LinesAreHonest'
  <2>1. Answerable(i) /\ Close(i, "APPROVED", ApprovalLines(i)) /\ i \in Nat
    BY <1>6 DEF approve_request, ApprovalLines
  <2>2. /\ Len(tokens') = Len(tokens) + 1 /\ tokens'[Len(tokens) + 1] = t
        /\ \A j \in 1..Len(tokens) : tokens'[j] = tokens[j]
    BY <1>0, <1>6, Appended
  <2>3. \A n \in 1..Len(records) : n \in 1..Len(records') /\ records'[n] = records[n]
    BY <1>6
  <2>4. \A j \in 1..Len(tokens') : j \in 1..Len(tokens) \/ j = Len(tokens) + 1
    BY <1>0, <2>2
  <2>5. /\ i \in 1..Len(approvals') /\ approvals'[i].status = "APPROVED"
        /\ approvals'[i].request = approvals[i].request
        /\ now < approvals'[i].expires_at
    <3>1. ApprovalLines(i) \in Seq(TrailStatus)
      BY LinesAreTyped, Zenon DEF ApprovalLines
    <3>2. /\ Len(approvals') = Len(approvals) /\ approvals'[i].status = "APPROVED"
          /\ approvals'[i].request = approvals[i].request
          /\ approvals'[i].expires_at = approvals[i].expires_at
      BY StatusesAreTyped, <2>1, <3>1, Closes
    <3>3. approvals[i] \in Approval
      BY <1>0
    <3>4. now < approvals[i].expires_at
      BY <1>0, <2>1, <3>3 DEF Answerable, Due, Approval
    <3> QED BY <3>2, <3>4
  <2>6. ASSUME NEW j \in 1..Len(tokens') PROVE TokenIsExplained(j)'
    <3>1. CASE j \in 1..Len(tokens)
      BY <1>1, <2>2, <2>3, <3>1, ExplanationStays
    <3>2. CASE j = Len(tokens) + 1
      BY <1>6, <2>2, <2>5, <3>2 DEF TokenIsExplained
    <3> QED BY <2>4, <3>1, <3>2
  <2>7. ASSUME NEW j \in 1..Len(tokens), tokens[j].source = "HUMAN"
        PROVE  tokens[j].approval # i
    <3>1. approvals[tokens[j].approval].status = "APPROVED"
      BY <1>1, <2>7 DEF TokenIsExplained
    <3>2. approvals[i].status = "PENDING"
      BY <2>1 DEF Answerable
    <3> QED BY <3>1, <3>2
  <2>8. ASSUME NEW j \in 1..Len(tokens'), NEW k \in 1..Len(tokens'), SameDecision(j, k)'
        PROVE  j = k
    <3>1. CASE j \in 1..Len(tokens) /\ k \in 1..Len(tokens)
      <4>1. SameDecision(j, k)
        BY <2>2, <2>8, <3>1 DEF SameDecision
      <4> QED BY <1>1, <3>1, <4>1
    <3>2. CASE j = Len(tokens) + 1 /\ k \in 1..Len(tokens)
      BY <1>6, <2>2, <2>7, <2>8, <3>2 DEF SameDecision
    <3>3. CASE j \in 1..Len(tokens) /\ k = Len(tokens) + 1
      BY <1>6, <2>2, <2>7, <2>8, <3>3 DEF SameDecision
    <3>4. CASE j = Len(tokens) + 1 /\ k = Len(tokens) + 1
      BY <3>4
    <3> QED BY <2>4, <3>1, <3>2, <3>3, <3>4
  <2>9. ASSUME NEW n \in 1..Len(records')
        PROVE  IF records'[n].status = "BLOCKED" THEN records'[n].token_id = 0
               ELSE /\ records'[n].token_id \in 1..Len(tokens')
                    /\ tokens'[records'[n].token_id].line = n
    <3>1. n \in 1..Len(records) /\ records'[n] = records[n]
      BY <1>6
    <3>2. CASE records[n].status = "BLOCKED"
      BY <1>1, <3>1, <3>2 DEF LinesAreHonest
    <3>3. CASE records[n].status # "BLOCKED"
      <4>1. records[n].token_id \in 1..Len(tokens) /\ tokens[records[n].token_id].line = n
        BY <1>1, <3>1, <3>3 DEF LinesAreHonest
      <4>2. records[n].token_id \in 1..Len(tokens')
        BY <1>0, <2>2, <4>1
      <4> QED BY <2>2, <3>1, <3>3, <4>1, <4>2
    <3> QED BY <3>2, <3>3
  <2> QED BY <2>6, <2>8, <2>9 DEF LinesAreHonest
<1> QED
  BY <1>3, <1>4, <1>5, <1>6, StoresGrow

\* Every token comes from one decision, and every line names the token it gave.
THEOREM TokensAreExplained == Spec => []AuthorityIsExplained
<1>1. Init => AuthorityIsExplained
  BY DEF Init, AuthorityIsExplained
<1> QED
  BY <1>1, ExplainedStep, TypeCorrect, PTL DEF Spec

(***************************************************************************)
(* What is charged follows from what was ordered.                          *)
(***************************************************************************)
\* What a quotient of integers is.
LEMMA Quotient ==
    ASSUME NEW a \in Int, NEW p \in Nat \ {0}
    PROVE  a \div p \in Int /\ p * (a \div p) <= a /\ a < p * (a \div p) + p
  <1>1. a = p * (a \div p) + (a % p) /\ a % p \in 0..p - 1 /\ a \div p \in Int
    OBVIOUS
  <1>2. \A x \in Int : p * x \in Int
    OBVIOUS
  <1> QED BY <1>1, <1>2

\* An order that is not barred is one the policy allows (policy_engine.py:52-65).
LEMMA OrderIsAllowed ==
    ASSUME TypeOK, NEW o \in Order, o.amount \in Int, NEW s, ~Barred(Reloaded, o, s)
    PROVE  Allows(Reloaded, o)
  <1>1. Reloaded.max_amount \in Int
    BY ReloadedIsPolicy, PoliciesAssumption DEF PolicyShape
  <1>2. o.amount \div Parts \in Int
    BY UnitsAssumption, Quotient
  <1> QED BY <1>1, <1>2 DEF Barred, Allows, whole

\* A token that comes from the policy is for an order that the policy in its line
\* allows, and for the amount of that order, normalized.
TokenFollowsOrder(j) ==
    LET t == tokens[j]
        o == t.action.order
    IN t.source # "HUMAN" =>
         /\ t.line \in 1..Len(records)
         /\ Allows(records[t.line].policy, o)
         /\ t.action.amount = normalize_amount_for_policy(o)

\* Such is the token of a granted request (gateway.py:533-545, 586-658).
LEMMA GrantFollowsOrder ==
    ASSUME TypeOK, NEW o \in Order, o.amount \in Int, NEW s \in Surroundings, Granted(o, s)
    PROVE  /\ Len(tokens') = Len(tokens) + 1 /\ Len(records') = Len(records) + 1
           /\ tokens'[Len(tokens) + 1].line = Len(records) + 1
           /\ tokens'[Len(tokens) + 1].action.order = o
           /\ tokens'[Len(tokens) + 1].action.amount = normalize_amount_for_policy(o)
           /\ Allows(records'[Len(records) + 1].policy, o)
  <1> DEFINE decision == evaluate_policy(Reloaded, o, s, used_today(o))
             amount == normalize_amount_for_policy(o)
             t(submit) == issue_token(o, amount, decision, Len(records) + 1, 0, TRUE, submit)
             l == Line(o, decision, Len(tokens) + 1)
  <1>1. ~Barred(Reloaded, o, s)
    BY DEF Granted, evaluate_policy
  <1>2. Allows(Reloaded, o)
    BY <1>1, OrderIsAllowed
  <1>3. \E submit : tokens' = Append(tokens, t(submit))
    BY DEF Granted
  <1>4. records' = Append(records, l)
    BY DEF Granted
  <1>5. \A submit : /\ t(submit).line = Len(records) + 1
                    /\ t(submit).action.amount = amount /\ t(submit).action.order = o
    BY DEF issue_token
  <1>6. l.policy = Reloaded
    BY DEF Line
  <1> HIDE DEF t, l, amount
  <1>7. tokens \in Seq(ActionToken) /\ records \in Seq(AuditRecord)
    BY DEF TypeOK
  <1>8. PICK submit : tokens' = Append(tokens, t(submit))
    BY <1>3
  <1>9. Len(tokens') = Len(tokens) + 1 /\ tokens'[Len(tokens) + 1] = t(submit)
    BY <1>7, <1>8
  <1>10. Len(records') = Len(records) + 1 /\ records'[Len(records) + 1] = l
    BY <1>4, <1>7
  <1> QED BY <1>2, <1>5, <1>6, <1>9, <1>10 DEF amount

\* The inductive invariant: a charge is of what its token says.
ChargeIsOfToken(c) == c.token \in 1..Len(tokens) /\ c.request = tokens[c.token].action
OrderInv ==
    /\ \A j \in 1..Len(tokens) : TokenFollowsOrder(j)
    /\ \A k \in 1..Len(charges) : ChargeIsOfToken(charges[k])

LEMMA OrderStep == TypeOK /\ OrderInv /\ [Next]_vars => OrderInv'
  <1> SUFFICES ASSUME TypeOK, OrderInv, [Next]_vars
               PROVE  OrderInv'
    OBVIOUS
  <1>1. /\ records \in Seq(AuditRecord) /\ tokens \in Seq(ActionToken) /\ charges \in Seq(Charge)
        /\ Len(tokens) \in Nat /\ Len(records) \in Nat /\ Len(charges) \in Nat
    BY DEF TypeOK
  <1>2. /\ 1..Len(tokens) \subseteq 1..Len(tokens')
        /\ \A j \in 1..Len(tokens) : tokens'[j] = tokens[j]
        /\ 1..Len(records) \subseteq 1..Len(records')
        /\ \A n \in 1..Len(records) : records'[n] = records[n]
    <2>1. CASE UNCHANGED <<tokens, records>>
      BY <2>1
    <2>2. ASSUME NEW r \in AuditRecord, records' = Append(records, r), tokens' = tokens
          PROVE  <1>2
      BY <1>1, <2>2, Appended
    <2>3. ASSUME NEW r \in AuditRecord, NEW t \in ActionToken,
                 records' = Append(records, r), tokens' = Append(tokens, t)
          PROVE  <1>2
      BY <1>1, <2>3, Appended
    <2>4. ASSUME NEW t \in ActionToken, records' = records, tokens' = Append(tokens, t)
          PROVE  <1>2
      BY <1>1, <2>4, Appended
    <2> QED BY <2>1, <2>2, <2>3, <2>4, StoresGrow
  <1>3. ASSUME NEW j \in 1..Len(tokens)
        PROVE  TokenFollowsOrder(j)'
    BY <1>2 DEF OrderInv, TokenFollowsOrder, Allows, normalize_amount_for_policy, whole
  <1>4. ASSUME NEW j \in 1..Len(tokens'), j \notin 1..Len(tokens)
        PROVE  TokenFollowsOrder(j)'
    <2>1. CASE \E o \in Order : request_execution(o)
      <3>1. PICK o \in Order : request_execution(o)
        BY <2>1
      <3>2. PICK s \in Surroundings : o.amount \in Int /\ (Blocked(o, s) \/ Granted(o, s))
        BY <3>1 DEF request_execution
      <3>3. ~Blocked(o, s)
        BY <1>4 DEF Blocked
      <3>4. /\ Len(tokens') = Len(tokens) + 1 /\ Len(records') = Len(records) + 1
            /\ tokens'[Len(tokens) + 1].line = Len(records) + 1
            /\ tokens'[Len(tokens) + 1].action.order = o
            /\ tokens'[Len(tokens) + 1].action.amount = normalize_amount_for_policy(o)
            /\ Allows(records'[Len(records) + 1].policy, o)
        BY <3>2, <3>3, GrantFollowsOrder
      <3>5. j = Len(tokens) + 1 /\ Len(records) + 1 \in 1..Len(records')
        BY <1>1, <1>4, <3>4
      <3> QED BY <3>4, <3>5 DEF TokenFollowsOrder, Allows, normalize_amount_for_policy, whole
    <2>2. CASE \E i \in 1..Len(approvals) : approve_request(i)
      <3>1. PICK t \in ActionToken : tokens' = Append(tokens, t) /\ t.source = "HUMAN"
        BY <2>2, Approves
      <3>2. tokens'[j] = t
        BY <1>1, <1>4, <3>1
      <3> QED BY <3>1, <3>2 DEF TokenFollowsOrder
    <2>3. CASE UNCHANGED tokens
      BY <1>4, <2>3
    <2> QED BY <2>1, <2>2, <2>3 DEF Next, vars, create_approval_request, reject_request,
           expire_approval_requests, reload, execute_payment, Tick, EditPolicy
  <1>5. ASSUME NEW k \in 1..Len(charges')
        PROVE  ChargeIsOfToken(charges[k])'
    <2>1. CASE charges' = charges
      BY <1>2, <1>5, <2>1 DEF OrderInv, ChargeIsOfToken
    <2>2. CASE \E j \in 1..Len(tokens) : execute_payment(j)
      <3>1. PICK j \in 1..Len(tokens) : execute_payment(j)
        BY <2>2
      <3> DEFINE c == [token |-> j, request |-> tokens[j].action]
      <3>2. charges' = Append(charges, c) /\ tokens' = tokens
        BY <3>1 DEF execute_payment
      <3>3. c.token = j /\ c.request = tokens[j].action
        OBVIOUS
      <3> HIDE DEF c
      <3>4. CASE k = Len(charges) + 1
        BY <1>1, <3>2, <3>3, <3>4 DEF ChargeIsOfToken
      <3>5. CASE k \in 1..Len(charges)
        BY <1>1, <3>2, <3>5 DEF OrderInv, ChargeIsOfToken
      <3> QED BY <1>1, <1>5, <3>2, <3>4, <3>5
    <2> QED BY <2>1, <2>2 DEF Next, vars, request_execution, create_approval_request,
           approve_request, reject_request, expire_approval_requests, reload, Tick, EditPolicy
  <1> QED BY <1>3, <1>4, <1>5 DEF OrderInv

\* A charge that no human answered for is of an order that the policy in the line of its token
\* allows, as it was written, and of the amount of that order, normalized once: for any orders
\* and policies, edited at any time (gateway.py:511-533, policy_engine.py:33-65,
\* proxy.py:47-58).
THEOREM ChargesAreOfJudgedOrders == Spec => []ChargesFollowTheirOrder
<1>1. Init => OrderInv
  BY DEF Init, OrderInv
<1>2. OrderInv => ChargesFollowTheirOrder
  <2> SUFFICES ASSUME OrderInv, NEW k \in 1..Len(charges),
                      tokens[charges[k].token].source # "HUMAN"
               PROVE  LET t == tokens[charges[k].token]
                          o == charges[k].request.order
                      IN /\ Allows(records[t.line].policy, o)
                         /\ charges[k].request.amount = normalize_amount_for_policy(o)
    BY DEF ChargesFollowTheirOrder
  <2>1. /\ charges[k].token \in 1..Len(tokens)
        /\ charges[k].request = tokens[charges[k].token].action
    BY DEF OrderInv, ChargeIsOfToken
  <2> QED BY <2>1 DEF OrderInv, TokenFollowsOrder
<1> QED
  BY <1>1, <1>2, OrderStep, TypeCorrect, PTL DEF Spec
-----------------------------------------------------------------------------
(***************************************************************************)
(* Sums over finite sets.  The induction over sets that these facts take   *)
(* is one over minimal counterexamples: proper inclusion is well founded   *)
(* on the parts of a finite set, so a set of parts that violate something  *)
(* has a minimal one.                                                      *)
(***************************************************************************)
\* A set that has 0, and with a number the next one, has them all.
LEMMA NatSetInduction ==
    ASSUME NEW G, 0 \in G, \A n \in Nat : n \in G => n + 1 \in G
    PROVE  Nat \subseteq G
  <1> DEFINE Bad == Nat \ G
  <1>1. SUFFICES ASSUME Bad # {} PROVE FALSE
    OBVIOUS
  <1>2. PICK n \in Bad : \A m \in Bad : ~(<<m, n>> \in OpToRel(<, Nat))
    <2>1. Bad \subseteq Nat
      OBVIOUS
    <2> HIDE DEF Bad
    <2> QED BY <1>1, <2>1, NatLessThanWellFounded, WFMin
  <1>3. \A m \in Nat : m < n => <<m, n>> \in OpToRel(<, Nat)
    BY DEF OpToRel
  <1>4. n \in Nat /\ n \notin G /\ n # 0
    OBVIOUS
  <1>5. n - 1 \in Nat /\ n - 1 < n /\ n - 1 + 1 = n
    BY <1>4
  <1>6. n - 1 \notin Bad
    BY <1>2, <1>3, <1>5
  <1> QED BY <1>4, <1>5, <1>6

\* The definition by which SumFunctionOnSet goes: a number is taken out, then the next.
Chosen(s) == CHOOSE x \in s : TRUE
Sums(f, S, g) ==
    g = [s \in SUBSET S |-> IF s = {} THEN 0 ELSE f[Chosen(s)] + g[s \ {Chosen(s)}]]

\* The function that Sums describes is there, for any finite set.
LEMMA SumsExist ==
    ASSUME NEW f, NEW S, IsFiniteSet(S)
    PROVE  \E g : Sums(f, S, g)
  <1> DEFINE Small(n) == {s \in SUBSET S : Cardinality(s) <= n}
             Good == {n \in Nat : \E g : g = [s \in Small(n) |->
                        IF s = {} THEN 0 ELSE f[Chosen(s)] + g[s \ {Chosen(s)}]]}
  <1>1. \A s \in SUBSET S : Cardinality(s) \in Nat /\ (Cardinality(s) = 0 <=> s = {})
    BY FS_Subset, FS_CardinalityType, FS_EmptySet
  <1>2. \A s \in SUBSET S : s # {} =>
           /\ Chosen(s) \in s /\ s \ {Chosen(s)} \in SUBSET S
           /\ Cardinality(s \ {Chosen(s)}) = Cardinality(s) - 1
    BY FS_Subset, FS_RemoveElement DEF Chosen
  <1>3. 0 \in Good
    <2> DEFINE g == [s \in Small(0) |-> 0]
    <2>1. \A s \in Small(0) : s = {}
      BY <1>1
    <2>2. g = [s \in Small(0) |-> IF s = {} THEN 0 ELSE f[Chosen(s)] + g[s \ {Chosen(s)}]]
      BY <2>1
    <2> QED BY <2>2
  <1>4. ASSUME NEW n \in Nat, n \in Good
        PROVE  n + 1 \in Good
    <2>1. PICK g : g = [s \in Small(n) |->
                        IF s = {} THEN 0 ELSE f[Chosen(s)] + g[s \ {Chosen(s)}]]
      BY <1>4
    <2> DEFINE h == [s \in Small(n + 1) |->
                        IF s = {} THEN 0 ELSE f[Chosen(s)] + g[s \ {Chosen(s)}]]
    <2>2. ASSUME NEW s \in Small(n + 1), s # {}
          PROVE  s \ {Chosen(s)} \in Small(n) /\ s \ {Chosen(s)} \in Small(n + 1)
      BY <1>1, <1>2, <2>2
    <2>3. \A s \in Small(n) : s \in Small(n + 1)
      BY <1>1
    <2> HIDE DEF Small
    <2>4. \A s \in Small(n) : g[s] = IF s = {} THEN 0 ELSE f[Chosen(s)] + g[s \ {Chosen(s)}]
      BY <2>1
    <2>5. \A s \in Small(n) : h[s] = g[s]
      BY <2>3, <2>4
    <2>6. \A s \in Small(n + 1) : s # {} => h[s \ {Chosen(s)}] = g[s \ {Chosen(s)}]
      BY <2>2, <2>5
    <2>7. h = [s \in Small(n + 1) |->
                        IF s = {} THEN 0 ELSE f[Chosen(s)] + h[s \ {Chosen(s)}]]
      BY <2>6
    <2> HIDE DEF h
    <2> QED BY <2>7
  <1>5. Cardinality(S) \in Good
    <2>1. 0 \in Good /\ \A n \in Nat : n \in Good => n + 1 \in Good
      BY <1>3, <1>4
    <2> HIDE DEF Good
    <2> QED BY <1>1, <2>1, NatSetInduction
  <1>6. Small(Cardinality(S)) = SUBSET S
    BY <1>1, FS_Subset
  <1> HIDE DEF Small
  <1> QED BY <1>5, <1>6 DEF Sums

\* SumFunctionOnSet is such a function's value at the whole set.
LEMMA SumIsIter ==
    ASSUME NEW f, NEW S, IsFiniteSet(S)
    PROVE  \E g : Sums(f, S, g) /\ SumFunctionOnSet(f, S) = g[S]
  <1> DEFINE iter == CHOOSE g : Sums(f, S, g)
  <1>1. Sums(f, S, iter)
    BY SumsExist, Zenon
  <1>2. SumFunctionOnSet(f, S) = iter[S]
    BY Zenon DEF SumFunctionOnSet, FoldFunctionOnSet, MapThenFoldSet, Sums, Chosen
  <1> QED BY <1>1, <1>2

\* A set that has each part of S all of whose proper parts it has, has all parts of S.
LEMMA SetInduction ==
    ASSUME NEW S, IsFiniteSet(S), NEW G,
           \A T \in SUBSET S : (\A U \in SUBSET T : U # T => U \in G) => T \in G
    PROVE  \A T \in SUBSET S : T \in G
  <1> DEFINE Bad == (SUBSET S) \ G
  <1>1. SUFFICES ASSUME Bad # {} PROVE FALSE
    OBVIOUS
  <1>2. Bad \subseteq FiniteSubsetsOf(S)
    BY FS_Subset DEF FiniteSubsetsOf
  <1>3. PICK T \in Bad : \A U \in Bad : ~(<<U, T>> \in StrictSubsetOrdering(S))
    <2> HIDE DEF Bad
    <2> QED BY <1>1, <1>2, FS_StrictSubsetOrderingWellFounded, WFMin
  <1>4. \A U \in SUBSET T : U # T => <<U, T>> \in StrictSubsetOrdering(S)
    BY DEF StrictSubsetOrdering
  <1>5. \A U \in SUBSET T : U # T => U \in G
    <2> SUFFICES ASSUME NEW U \in SUBSET T, U # T
                 PROVE  U \in G
      OBVIOUS
    <2>1. U \notin Bad
      BY <1>3, <1>4
    <2> QED BY <2>1
  <1> QED BY <1>5

\* Two such functions agree where the numbers they sum up do.
LEMMA EqualSums ==
    ASSUME NEW S, IsFiniteSet(S), NEW f, NEW h, \A x \in S : f[x] = h[x],
           NEW T \in SUBSET S, NEW g, Sums(f, S, g), NEW k, Sums(h, T, k)
    PROVE  \A U \in SUBSET T : g[U] = k[U]
  <1> DEFINE Good == {U \in SUBSET T : g[U] = k[U]}
  <1>1. IsFiniteSet(T)
    BY FS_Subset
  <1>2. ASSUME NEW U \in SUBSET T, \A V \in SUBSET U : V # U => V \in Good
        PROVE  U \in Good
    <2>1. /\ g[U] = IF U = {} THEN 0 ELSE f[Chosen(U)] + g[U \ {Chosen(U)}]
          /\ k[U] = IF U = {} THEN 0 ELSE h[Chosen(U)] + k[U \ {Chosen(U)}]
      BY DEF Sums
    <2>2. CASE U # {}
      <3>1. Chosen(U) \in U
        BY <2>2 DEF Chosen
      <3>2. U \ {Chosen(U)} \in Good
        BY <1>2, <3>1
      <3> QED BY <2>1, <3>1, <3>2
    <2> QED BY <2>1, <2>2
  <1> HIDE DEF Good
  <1>3. \A U \in SUBSET T : U \in Good
    BY <1>1, <1>2, SetInduction
  <1> QED BY <1>3 DEF Good

\* Equal numbers have equal sums.
LEMMA SumIsCongruent ==
    ASSUME NEW S, IsFiniteSet(S), NEW f, NEW h, \A x \in S : f[x] = h[x]
    PROVE  SumFunctionOnSet(f, S) = SumFunctionOnSet(h, S)
  <1>1. PICK g : Sums(f, S, g) /\ SumFunctionOnSet(f, S) = g[S]
    BY SumIsIter
  <1>2. PICK k : Sums(h, S, k) /\ SumFunctionOnSet(h, S) = k[S]
    BY SumIsIter
  <1>3. \A U \in SUBSET S : g[U] = k[U]
    BY <1>1, <1>2, EqualSums
  <1> QED BY <1>1, <1>2, <1>3

\* A sum is the chosen number and the sum of the others.
LEMMA SumOfChosen ==
    ASSUME NEW S, IsFiniteSet(S), NEW f
    PROVE  SumFunctionOnSet(f, S) =
             IF S = {} THEN 0 ELSE f[Chosen(S)] + SumFunctionOnSet(f, S \ {Chosen(S)})
  <1>1. PICK g : Sums(f, S, g) /\ SumFunctionOnSet(f, S) = g[S]
    BY SumIsIter
  <1>2. g[S] = IF S = {} THEN 0 ELSE f[Chosen(S)] + g[S \ {Chosen(S)}]
    BY <1>1 DEF Sums
  <1>3. SumFunctionOnSet(f, S \ {Chosen(S)}) = g[S \ {Chosen(S)}]
    <2> DEFINE T == S \ {Chosen(S)}
    <2>1. IsFiniteSet(T) /\ T \in SUBSET S
      BY FS_Subset
    <2> HIDE DEF T
    <2>2. PICK k : Sums(f, T, k) /\ SumFunctionOnSet(f, T) = k[T]
      BY <2>1, SumIsIter
    <2>3. \A U \in SUBSET T : g[U] = k[U]
      BY <1>1, <2>1, <2>2, EqualSums
    <2>4. SumFunctionOnSet(f, T) = g[T]
      BY <2>2, <2>3
    <2> QED BY <2>4 DEF T
  <1> QED BY <1>1, <1>2, <1>3

\* Which number is taken out does not matter, and the sum is an integer.
LEMMA SumOfAny ==
    ASSUME NEW S, IsFiniteSet(S), NEW f, \A x \in S : f[x] \in Int
    PROVE  /\ SumFunctionOnSet(f, S) \in Int
           /\ \A x \in S :
                SumFunctionOnSet(f, S) = f[x] + SumFunctionOnSet(f, S \ {x})
  <1> DEFINE Sum(T) == SumFunctionOnSet(f, T)
             Good == {T \in SUBSET S :
                        Sum(T) \in Int /\ \A x \in T : Sum(T) = f[x] + Sum(T \ {x})}
  <1>1. \A T \in SUBSET S :
          Sum(T) = IF T = {} THEN 0 ELSE f[Chosen(T)] + Sum(T \ {Chosen(T)})
    BY SumOfChosen, FS_Subset
  <1> HIDE DEF Sum
  <1>2. ASSUME NEW T \in SUBSET S, \A U \in SUBSET T : U # T => U \in Good
        PROVE  T \in Good
    <2>1. CASE T = {}
      <3>1. Sum(T) = 0
        BY <1>1, <2>1
      <3> QED BY <2>1, <3>1
    <2>2. CASE T # {}
      <3> DEFINE c == Chosen(T)
      <3>1. c \in T /\ Sum(T) = f[c] + Sum(T \ {c})
        BY <1>1, <2>2 DEF Chosen
      <3> HIDE DEF c
      <3>2. \A x \in T : T \ {x} \in Good
        BY <1>2
      <3>3. Sum(T) \in Int
        BY <3>1, <3>2
      <3>4. ASSUME NEW x \in T, x # c
            PROVE  Sum(T) = f[x] + Sum(T \ {x})
        <4>1. Sum(T \ {c}) = f[x] + Sum((T \ {c}) \ {x})
          BY <3>1, <3>2, <3>4
        <4>2. Sum(T \ {x}) = f[c] + Sum((T \ {x}) \ {c})
          BY <3>1, <3>2, <3>4
        <4>3. (T \ {c}) \ {x} = (T \ {x}) \ {c} /\ (T \ {c}) \ {x} \in Good
          <5>1. (T \ {c}) \ {x} = (T \ {x}) \ {c}
            OBVIOUS
          <5>2. (T \ {c}) \ {x} \in Good
            BY <1>2, <3>4
          <5> QED BY <5>1, <5>2
        <4> DEFINE rest == Sum((T \ {c}) \ {x})
        <4>4. rest \in Int /\ f[x] \in Int /\ f[c] \in Int
          BY <3>1, <3>4, <4>3
        <4>5. Sum(T) = f[c] + (f[x] + rest) /\ Sum(T \ {x}) = f[c] + rest
          BY <3>1, <4>1, <4>2, <4>3
        <4> HIDE DEF rest
        <4> QED BY <4>4, <4>5
      <3> QED BY <3>1, <3>3, <3>4
    <2> QED BY <2>1, <2>2
  <1>3. \A T \in SUBSET S : T \in Good
    <2> HIDE DEF Good
    <2> QED BY <1>2, SetInduction
  <1>4. S \in Good
    BY <1>3
  <1> QED BY <1>4 DEF Sum

\* Of natural numbers, a part sums up to no more than the whole.
LEMMA SumOfPart ==
    ASSUME NEW S, IsFiniteSet(S), NEW f, \A x \in S : f[x] \in Nat,
           NEW P \in SUBSET S
    PROVE  SumFunctionOnSet(f, P) <= SumFunctionOnSet(f, S)
  <1> DEFINE Sum(T) == SumFunctionOnSet(f, T)
             Good == {T \in SUBSET S : \A U \in SUBSET T : Sum(U) <= Sum(T)}
  <1>1. \A T \in SUBSET S : /\ Sum(T) \in Int
                            /\ \A x \in T : Sum(T) = f[x] + Sum(T \ {x})
    <2>1. \A T \in SUBSET S : IsFiniteSet(T) /\ \A x \in T : f[x] \in Int
      BY FS_Subset
    <2> QED BY <2>1, SumOfAny
  <1> HIDE DEF Sum
  <1>2. ASSUME NEW T \in SUBSET S, \A U \in SUBSET T : U # T => U \in Good
        PROVE  T \in Good
    <2> SUFFICES ASSUME NEW U \in SUBSET T, U # T
                 PROVE  Sum(U) <= Sum(T)
      BY <1>1
    <2>1. PICK x \in T : x \notin U
      OBVIOUS
    <2>2. T \ {x} \in Good /\ U \in SUBSET (T \ {x})
      BY <1>2, <2>1
    <2>3. Sum(U) <= Sum(T \ {x})
      BY <2>2
    <2>4. Sum(T) = f[x] + Sum(T \ {x}) /\ f[x] \in Nat
      BY <1>1
    <2>5. Sum(U) \in Int /\ Sum(T) \in Int /\ Sum(T \ {x}) \in Int
      BY <1>1
    <2> QED BY <2>3, <2>4, <2>5
  <1>3. \A T \in SUBSET S : T \in Good
    <2> HIDE DEF Good
    <2> QED BY <1>2, SetInduction
  <1> QED BY <1>3 DEF Sum

(***************************************************************************)
(* The daily limit.  The inductive invariant says it of each approved      *)
(* line, and that an approved line adds to a sum.  A line's own sums are   *)
(* over the lines up to it, so they stay as they are while the log grows;  *)
(* for the line that a step adds, they are part of what used_today has     *)
(* summed up, and its own amount.                                          *)
(***************************************************************************)
Amounts == [k \in 1..Len(records) |-> whole(records[k].order.amount)]
Key == {"agent_id", "wallet_address"}
\* The approved lines of line k's day up to k that have its agent, or its wallet.
UpTo(k, key) ==
    {i \in 1..k : /\ records[i].status = "APPROVED"
                  /\ DayOf(records[i].at) = DayOf(records[k].at)
                  /\ records[i].order[key] = records[k].order[key]}
InDailyLimit(k) ==
    LET limit == records[k].policy.daily_limit
    IN records[k].status = "APPROVED" =>
         /\ Amounts[k] \in Nat
         /\ limit # NoLimit => \A key \in Key : SumOf(UpTo(k, key)) <= limit
DailyInv == \A k \in 1..Len(records) : InDailyLimit(k)

\* The log of requests only grows (gateway.py:586-658).
LEMMA LogOfRequestsGrows ==
    ASSUME TypeOK, [Next]_vars
    PROVE  /\ Len(records) \in Nat /\ Len(records') \in Nat
           /\ 1..Len(records) \subseteq 1..Len(records')
           /\ \A n \in 1..Len(records) : records'[n] = records[n]
  <1>1. records \in Seq(AuditRecord)
    BY DEF TypeOK
  <1>2. records' = records \/ \E r \in AuditRecord : records' = Append(records, r)
    BY StoresGrow
  <1> QED BY <1>1, <1>2, Appended

\* A sum over lines is one of the amounts in them.
LEMMA SumIsOfAmounts == \A lines : SumOf(lines) = SumFunctionOnSet(Amounts, lines)
    BY DEF SumOf, Amounts

\* A sum of lines that are in the log already is the same after a step.
LEMMA SumsStay ==
    ASSUME TypeOK, [Next]_vars, NEW lines, lines \subseteq 1..Len(records)
    PROVE  SumFunctionOnSet(Amounts', lines) = SumFunctionOnSet(Amounts, lines)
  <1>1. IsFiniteSet(lines)
    <2>1. IsFiniteSet(1..Len(records))
      BY FS_Interval DEF TypeOK
    <2> QED BY <2>1, FS_Subset
  <1>2. /\ 1..Len(records) \subseteq 1..Len(records')
        /\ \A n \in 1..Len(records) : records'[n] = records[n]
    BY LogOfRequestsGrows
  <1>3. \A n \in lines : Amounts'[n] = Amounts[n]
    BY <1>2 DEF Amounts
  <1> QED BY <1>1, <1>3, SumIsCongruent

\* A line that is added as approved keeps to the limit of its policy: used_today is asked for
\* before the line is there (policy_engine.py:69-74, gateway.py:517-530, 586-658).
LEMMA NewApproval ==
    ASSUME TypeOK, [Next]_vars, NEW k \in 1..Len(records'), k \notin 1..Len(records),
           records'[k].status = "APPROVED"
    PROVE  \E o \in Order :
             LET limit == records'[k].policy.daily_limit
             IN /\ k = Len(records) + 1 /\ records'[k].order = o /\ records'[k].at = now
                /\ limit \in Int \cup {NoLimit} /\ whole(o.amount) \in Nat
                /\ limit # NoLimit => ~(used_today(o) + whole(o.amount) > limit)
  <1>1. records \in Seq(AuditRecord) /\ Len(records) \in Nat
    BY DEF TypeOK
  <1>2. PICK o \in Order : request_execution(o)
    BY DEF Next, vars, create_approval_request, approve_request, reject_request,
           expire_approval_requests, reload, execute_payment, Tick, EditPolicy
  <1>3. PICK s \in Surroundings : Blocked(o, s) \/ Granted(o, s)
    BY <1>2 DEF request_execution
  <1> DEFINE decision == evaluate_policy(Reloaded, o, s, used_today(o))
             r == Line(o, decision, Len(tokens) + 1)
  <1>4. CASE Blocked(o, s)
    <2> DEFINE b == Line(o, "BLOCKED", 0)
    <2>1. b.status = "BLOCKED" /\ records' = Append(records, b)
      BY <1>4 DEF Blocked, Line
    <2> HIDE DEF b
    <2>2. records'[k] = b
      BY <1>1, <2>1
    <2> QED BY <2>1, <2>2
  <1>5. CASE Granted(o, s)
    <2>1. records' = Append(records, r)
      BY <1>5 DEF Granted
    <2>2. r.status = decision /\ r.order = o /\ r.at = now /\ r.policy = Reloaded
      BY DEF Line
    <2> HIDE DEF r
    <2>3. k = Len(records) + 1 /\ records'[k] = r
      BY <1>1, <2>1
    <2>4. Reloaded.daily_limit \in Int \cup {NoLimit}
      BY ReloadedIsPolicy, PoliciesAssumption DEF PolicyShape
    <2>5. ~Barred(Reloaded, o, s)
      BY <1>5 DEF Granted, evaluate_policy
    <2>6. whole(o.amount) \in Nat
      <3>1. o.amount \in Int
        BY <1>2 DEF request_execution
      <3>2. o.amount \div Parts \in Int
        BY <3>1, UnitsAssumption, Quotient
      <3> QED BY <2>5, <3>2 DEF Barred, whole
    <2>7. Reloaded.daily_limit # NoLimit =>
            ~(used_today(o) + whole(o.amount) > Reloaded.daily_limit)
      BY <1>5 DEF Granted, evaluate_policy
    <2> QED BY <2>2, <2>3, <2>4, <2>6, <2>7
  <1> QED BY <1>3, <1>4, <1>5

LEMMA DailyStep == TypeOK /\ DailyInv /\ [Next]_vars => DailyInv'
  <1> SUFFICES ASSUME TypeOK, DailyInv, [Next]_vars, NEW k \in 1..Len(records')
               PROVE  InDailyLimit(k)'
    BY DEF DailyInv
  <1>1. /\ Len(records) \in Nat /\ Len(records') \in Nat
        /\ 1..Len(records) \subseteq 1..Len(records')
        /\ \A n \in 1..Len(records) : records'[n] = records[n]
    BY LogOfRequestsGrows
  <1>2. \A n \in 1..Len(records) : Amounts'[n] = Amounts[n]
    BY <1>1 DEF Amounts
  <1>3. \A n \in 1..Len(records) : records[n].status = "APPROVED" => Amounts[n] \in Nat
    BY DEF DailyInv, InDailyLimit
  <1>4. CASE k \in 1..Len(records)
    <2>1. InDailyLimit(k)
      BY <1>4 DEF DailyInv
    <2>2. ASSUME NEW key \in Key
          PROVE  SumOf(UpTo(k, key))' = SumOf(UpTo(k, key))
      <3>1. UpTo(k, key)' = UpTo(k, key) /\ UpTo(k, key) \subseteq 1..Len(records)
        BY <1>1, <1>4 DEF UpTo, DayOf
      <3>2. SumOf(UpTo(k, key))' = SumFunctionOnSet(Amounts', UpTo(k, key)')
        BY DEF SumOf, Amounts
      <3> QED BY <3>1, <3>2, SumsStay, SumIsOfAmounts
    <2>3. records'[k] = records[k] /\ Amounts'[k] = Amounts[k]
      BY <1>1, <1>2, <1>4
    <2> QED BY <2>1, <2>2, <2>3 DEF InDailyLimit
  <1>5. ASSUME k \notin 1..Len(records), records'[k].status = "APPROVED"
        PROVE  InDailyLimit(k)'
    <2> DEFINE limit == records'[k].policy.daily_limit
    <2>1. PICK o \in Order :
             /\ k = Len(records) + 1 /\ records'[k].order = o /\ records'[k].at = now
             /\ limit \in Int \cup {NoLimit} /\ whole(o.amount) \in Nat
             /\ limit # NoLimit => ~(used_today(o) + whole(o.amount) > limit)
      BY <1>5, NewApproval
    <2> HIDE DEF limit
    <2>2. Amounts'[k] = whole(o.amount)
      BY <2>1 DEF Amounts, whole
    <2> DEFINE D == {n \in ApprovedOn(DayOf(now)) :
                       \/ records[n].order.agent_id = o.agent_id
                       \/ records[n].order.wallet_address = o.wallet_address}
    <2>3. used_today(o) = SumFunctionOnSet(Amounts, D)
      BY SumIsOfAmounts DEF used_today
    <2>4. /\ D \subseteq 1..Len(records) /\ IsFiniteSet(D)
          /\ \A n \in D : Amounts[n] \in Nat
      <3>1. D \subseteq 1..Len(records) /\ \A n \in D : records[n].status = "APPROVED"
        BY DEF ApprovedOn
      <3>2. IsFiniteSet(1..Len(records))
        BY <1>1, FS_Interval
      <3> QED BY <1>3, <3>1, <3>2, FS_Subset
    <2>5. /\ used_today(o) \in Int
          /\ \A n \in D : n \in 1..Len(records) /\ Amounts[n] \in Int
      <3>1. \A n \in D : n \in 1..Len(records) /\ Amounts[n] \in Int
        BY <2>4
      <3> QED BY <2>3, <2>4, <3>1, SumOfAny
    <2>6. ASSUME NEW key \in Key
          PROVE  /\ SumOf(UpTo(k, key))' \in Int
                 /\ SumOf(UpTo(k, key))' <= used_today(o) + whole(o.amount)
      <3> DEFINE U == UpTo(k, key)'
                 rest == U \ {k}
      <3>1. k \in U
        BY <1>5 DEF UpTo
      <3>2. rest \subseteq D
        <4> SUFFICES ASSUME NEW n \in rest
                     PROVE  n \in D
          OBVIOUS
        <4>1. n \in 1..Len(records)
          BY <1>1, <2>1 DEF UpTo
        <4>2. records[n].status = "APPROVED" /\ DayOf(records[n].at) = DayOf(now)
          BY <1>1, <2>1, <4>1 DEF UpTo, DayOf
        <4>3. records[n].order[key] = o[key]
          BY <1>1, <2>1, <4>1 DEF UpTo
        <4>4. \/ records[n].order.agent_id = o.agent_id
              \/ records[n].order.wallet_address = o.wallet_address
          BY <4>3 DEF Key
        <4> QED BY <4>1, <4>2, <4>4 DEF ApprovedOn
      <3>3. SumOf(UpTo(k, key))' = SumFunctionOnSet(Amounts', U)
        BY DEF SumOf, Amounts
      <3> HIDE DEF D, U
      <3>4. IsFiniteSet(rest) /\ U = rest \cup {k}
        BY <2>4, <3>1, <3>2, FS_Subset
      <3>5. IsFiniteSet(U) /\ \A n \in U : Amounts'[n] \in Int
        <4>1. IsFiniteSet(U)
          BY <3>4, FS_AddElement
        <4>2. \A n \in rest : Amounts'[n] \in Int
          BY <1>2, <2>5, <3>2
        <4> QED BY <2>1, <2>2, <3>4, <4>1, <4>2
      <3>6. SumFunctionOnSet(Amounts', U) = Amounts'[k] + SumFunctionOnSet(Amounts', rest)
        BY <3>1, <3>5, SumOfAny
      <3>7. SumFunctionOnSet(Amounts', rest) = SumFunctionOnSet(Amounts, rest)
        BY <2>4, <3>2, SumsStay
      <3>8. SumFunctionOnSet(Amounts, rest) <= SumFunctionOnSet(Amounts, D)
        BY <2>4, <3>2, SumOfPart
      <3>9. SumFunctionOnSet(Amounts, rest) \in Int
        <4>1. \A n \in rest : Amounts[n] \in Int
          BY <2>5, <3>2
        <4> QED BY <3>4, <4>1, SumOfAny
      <3> DEFINE total == SumOf(UpTo(k, key))'
                 new == whole(o.amount)
                 part == SumFunctionOnSet(Amounts, rest)
      <3>10. total = new + part /\ part <= used_today(o)
        BY <2>2, <2>3, <3>3, <3>6, <3>7, <3>8
      <3>11. part \in Int /\ used_today(o) \in Int /\ new \in Int
        BY <2>1, <2>5, <3>9
      <3> HIDE DEF total, part, new
      <3>12. total \in Int /\ total <= used_today(o) + new
        BY <3>10, <3>11
      <3> QED BY <3>12 DEF total, new
    <2>7. ASSUME NEW key \in Key, limit # NoLimit
          PROVE  SumOf(UpTo(k, key))' <= limit
      <3> DEFINE total == SumOf(UpTo(k, key))'
      <3>1. total \in Int /\ total <= used_today(o) + whole(o.amount)
        BY <2>6
      <3> HIDE DEF total
      <3>2. total <= limit
        BY <2>1, <2>5, <2>7, <3>1
      <3> QED BY <3>2 DEF total
    <2> QED BY <2>1, <2>2, <2>7 DEF InDailyLimit, limit
  <1>6. CASE records'[k].status # "APPROVED"
    BY <1>6 DEF InDailyLimit
  <1> QED BY <1>4, <1>5, <1>6

\* What is approved for one agent, or for one wallet, in one day stays within the daily limit
\* of the policy it was last approved by, for any orders and policies, however they share
\* agents and wallets and whenever the file is edited (gateway.py:517-530,
\* policy_engine.py:69-74).
THEOREM DailyLimitStays == Spec => []DailyLimitHolds
<1>1. Init => DailyInv
  BY DEF Init, DailyInv
<1>2. TypeOK /\ DailyInv => DailyLimitHolds
  <2> SUFFICES ASSUME TypeOK, DailyInv, NEW k \in 1..Len(records),
                      records[k].status = "APPROVED",
                      records[k].policy.daily_limit # NoLimit
               PROVE  LET before == {i \in ApprovedOn(DayOf(records[k].at)) : i <= k}
                      IN /\ SumOf({i \in before :
                              records[i].order.agent_id = records[k].order.agent_id})
                              <= records[k].policy.daily_limit
                         /\ SumOf({i \in before :
                              records[i].order.wallet_address
                                = records[k].order.wallet_address})
                              <= records[k].policy.daily_limit
    BY DEF DailyLimitHolds
  <2> DEFINE before == {i \in ApprovedOn(DayOf(records[k].at)) : i <= k}
  <2>1. before = {i \in 1..k : /\ records[i].status = "APPROVED"
                               /\ DayOf(records[i].at) = DayOf(records[k].at)}
    BY DEF ApprovedOn, TypeOK
  <2> HIDE DEF before
  <2>2. /\ {i \in before : records[i].order.agent_id = records[k].order.agent_id}
             = UpTo(k, "agent_id")
        /\ {i \in before : records[i].order.wallet_address = records[k].order.wallet_address}
             = UpTo(k, "wallet_address")
    BY <2>1 DEF UpTo
  <2>3. /\ SumOf(UpTo(k, "agent_id")) <= records[k].policy.daily_limit
        /\ SumOf(UpTo(k, "wallet_address")) <= records[k].policy.daily_limit
    BY DEF DailyInv, InDailyLimit, Key
  <2> QED BY <2>2, <2>3 DEF before
<1> QED
  BY <1>1, <1>2, DailyStep, TypeCorrect, PTL DEF Spec
=============================================================================
