--------------------------- MODULE ActionProxyProofs ---------------------------
(***************************************************************************)
(* What TLAPS proves of ActionProxy for every set of bodies, every policy, *)
(* every number of tokens and sessions and every TTL.                      *)
(***************************************************************************)
EXTENDS ActionProxy, TLAPS

\* Map.set keeps a map's type when the key and the value have it.
LEMMA SetKeepsType ==
    ASSUME NEW map, NEW S, NEW R, IsMap(map, S, R), NEW key \in S, NEW value \in R
    PROVE  IsMap(Set(map, key, value), S, R)
BY DEF Set, IsMap

LEMMA EmptyMapType ==
    ASSUME NEW S, NEW R
    PROVE  DOMAIN EmptyMap = {} /\ IsMap(EmptyMap, S, R)
BY DEF EmptyMap, IsMap

\* token-service.ts 57-84: a valid token is known, unexpired, unused and was issued for this
\* fingerprint.
LEMMA ValidToken ==
    ASSUME NEW t, NEW a, validateForExecution(t, a) = "token_valid"
    PROVE  /\ t \in DOMAIN tokens
           /\ ~expired(t)
           /\ ~tokens[t].used
           /\ tokens[t].request_fingerprint = actionFingerprint(a)
BY DEF validateForExecution

\* What a freshly built token record holds.
LEMMA TokenFields ==
    ASSUME NEW a, NEW at
    PROVE  /\ Token(a, at).expires_at = at + TTL
           /\ Token(a, at).request_fingerprint = actionFingerprint(a)
           /\ Token(a, at).action_id = a.action_id
           /\ Token(a, at).used = FALSE
BY DEF Token

\* A fresh token is well typed.
LEMMA TokenType ==
    ASSUME NEW a \in Action, NEW at \in Nat
    PROVE  Token(a, at) \in EphemeralExecutionToken
<1>1. at + TTL \in Nat
  BY BoundsAssumption
<1>2. a.action_id \in ActionId
  BY DEF ActionId
<1>3. /\ a.action_type \in {b.action_type : b \in Action}
      /\ a.target_resource \in {b.target_resource : b \in Action}
      /\ actionFingerprint(a) \in {actionFingerprint(b) : b \in Action}
      /\ numberValue(a.parameters.loanAmountRLUSD)
           \in {numberValue(b.parameters.loanAmountRLUSD) : b \in Action}
  OBVIOUS
<1>4. QED
  BY <1>1, <1>2, <1>3 DEF Token, EphemeralExecutionToken

-----------------------------------------------------------------------------
\* Every reachable state is well typed.
THEOREM TypeCorrect == Spec => []TypeOK
<1>1. Init => TypeOK
  <2> SUFFICES ASSUME Init PROVE TypeOK
    OBVIOUS
  <2>1. executions \in Seq(Execution)
    BY DEF Init
  <2>2. QED
    BY <2>1, EmptyMapType DEF Init, TypeOK
<1>2. TypeOK /\ [Next]_vars => TypeOK'
  <2> SUFFICES ASSUME TypeOK, [Next]_vars PROVE TypeOK'
    OBVIOUS
  <2> USE DEF TypeOK
  <2>1. ASSUME NEW a \in Action, Preview(a) PROVE TypeOK'
    <3>1. a.action_id \in ActionId /\ evaluatePolicy[a] \in Decision
      BY PolicyAssumption DEF ActionId
    <3>2. Attempts(a) + 1 \in Nat
      BY <2>1 DEF Attempts, IsMap
    <3>3. IsMap(previews', ActionId, Decision)
      BY <2>1, <3>1, SetKeepsType DEF Preview
    <3>4. IsMap(attemptCounter', {AttemptKey(b) : b \in Action}, Nat)
      <4>1. AttemptKey(a) \in {AttemptKey(b) : b \in Action}
        OBVIOUS
      <4>2. QED
        BY <2>1, <3>2, <4>1, SetKeepsType DEF Preview
    <3>5. audit' \subseteq EventType \X ActionId
      BY <2>1, <3>1 DEF Preview, Log, EventType
    <3>6. QED
      BY <2>1, <3>3, <3>4, <3>5 DEF Preview
  <2>2. ASSUME NEW id \in ActionId, Approve(id) PROVE TypeOK'
    <3>1. IsMap(approvals', ActionId, {"approved", "denied"})
      BY <2>2, SetKeepsType DEF Approve
    <3>2. audit' \subseteq EventType \X ActionId
      BY <2>2 DEF Approve, Log, EventType
    <3>3. QED
      BY <2>2, <3>1, <3>2 DEF Approve
  <2>3. ASSUME NEW id \in ActionId, Deny(id) PROVE TypeOK'
    <3>1. IsMap(approvals', ActionId, {"approved", "denied"})
      BY <2>3, SetKeepsType DEF Deny
    <3>2. audit' \subseteq EventType \X ActionId
      BY <2>3 DEF Deny, Log, EventType
    <3>3. QED
      BY <2>3, <3>1, <3>2 DEF Deny
  <2>4. ASSUME NEW t \in TokenId, NEW a \in Action, IssueToken(t, a) PROVE TypeOK'
    <3>1. a.action_id \in ActionId
      BY DEF ActionId
    <3>2. IsMap(tokens', TokenId, EphemeralExecutionToken)
      BY <2>4, TokenType, SetKeepsType DEF IssueToken
    <3>3. IsMap(issued', TokenId, [action : Action, at : Nat, session : Nat])
      BY <2>4, SetKeepsType DEF IssueToken
    <3>4. audit' \subseteq EventType \X ActionId
      BY <2>4, <3>1 DEF IssueToken, Log, EventType
    <3>5. QED
      BY <2>4, <3>2, <3>3, <3>4 DEF IssueToken
  <2>5. ASSUME NEW a \in Action, ExecuteWithoutPreview(a) PROVE TypeOK'
    BY <2>5 DEF ExecuteWithoutPreview, vars
  <2>6. ASSUME NEW t \in TokenId, NEW a \in Action, ExecuteRefused(t, a) PROVE TypeOK'
    <3>1. audit' \subseteq EventType \X ActionId
      BY <2>6 DEF ExecuteRefused, Log, EventType, ActionId
    <3>2. QED
      BY <2>6, <3>1 DEF ExecuteRefused
  <2>7. ASSUME NEW t \in TokenId, NEW a \in Action, ExecuteAdmitted(t, a) PROVE TypeOK'
    <3>1. audit' \subseteq EventType \X ActionId
      BY <2>7 DEF ExecuteAdmitted, Log, EventType, ActionId
    <3>2. previews[a.action_id] \in Decision
      BY <2>7 DEF ExecuteAdmitted, IsMap
    <3>3. executions' \in Seq(Execution)
      BY <2>7, <3>2 DEF ExecuteAdmitted, Execution
    <3>4. IsMap(tokens', TokenId, EphemeralExecutionToken)
      <4>1. \A r \in EphemeralExecutionToken :
               [r EXCEPT !.used = TRUE] \in EphemeralExecutionToken
        BY DEF EphemeralExecutionToken
      <4>2. tokens' = [tokens EXCEPT ![t] = [tokens[t] EXCEPT !.used = TRUE]]
        BY <2>7 DEF ExecuteAdmitted
      <4>3. QED
        BY <4>1, <4>2 DEF IsMap
    <3>5. QED
      BY <2>7, <3>1, <3>3, <3>4 DEF ExecuteAdmitted
  <2>8. ASSUME NEW i \in 1..Len(executions), ExecuteCompleted(i) PROVE TypeOK'
    <3>1. executions[i] \in Execution
      OBVIOUS
    <3>2. audit' \subseteq EventType \X ActionId
      BY <2>8, <3>1 DEF ExecuteCompleted, Log, EventType, ActionId, Execution
    <3>3. executions' \in Seq(Execution)
      <4>1. PICK outcome \in Outcome(executions[i].action) :
                executions' = [executions EXCEPT ![i].status = outcome]
        BY <2>8 DEF ExecuteCompleted
      <4>2. [executions[i] EXCEPT !.status = outcome] \in Execution
        BY <3>1 DEF Outcome, Execution
      <4>3. QED
        BY <4>1, <4>2
    <3>4. QED
      BY <2>8, <3>2, <3>3 DEF ExecuteCompleted
  <2>9. CASE Reset
    BY <2>9, EmptyMapType DEF Reset
  <2>10. CASE Tick
    BY <2>10 DEF Tick
  <2>11. CASE UNCHANGED vars
    BY <2>11 DEF vars
  <2>12. ASSUME NEW type \in ForgedType, NEW id \in ActionId, DemoAuditEvent(type, id)
         PROVE  TypeOK'
    <3>1. audit' \subseteq EventType \X ActionId
      BY <2>12, ForgedAssumption DEF DemoAuditEvent, Log
    <3>2. QED
      BY <2>12, <3>1 DEF DemoAuditEvent
  <2>13. ASSUME NEW i \in 1..Len(executions), ExecutionRaises(i) PROVE TypeOK'
    <3>1. executions' = [executions EXCEPT ![i].status = "raised"]
      BY <2>13 DEF ExecutionRaises
    <3>2. [executions[i] EXCEPT !.status = "raised"] \in Execution
      <4>1. executions[i] \in Execution
        OBVIOUS
      <4>2. QED
        BY <4>1 DEF Execution
    <3>3. executions' \in Seq(Execution)
      BY <3>1, <3>2
    <3>4. QED
      BY <2>13, <3>3 DEF ExecutionRaises
  <2>14. QED
    BY <2>1, <2>2, <2>3, <2>4, <2>5, <2>6, <2>7, <2>8, <2>9, <2>10, <2>11, <2>12, <2>13
       DEF Next, PreviewRaises, RefusalRaises
<1>3. QED
  BY <1>1, <1>2, PTL DEF Spec
-----------------------------------------------------------------------------
\* Appending to a sequence of executions.
LEMMA AppendExecution ==
    ASSUME NEW s \in Seq(Execution), NEW e \in Execution
    PROVE  /\ Len(Append(s, e)) = Len(s) + 1
           /\ Append(s, e)[Len(s) + 1] = e
           /\ \A i \in 1..Len(s) : Append(s, e)[i] = s[i]
OBVIOUS

\* An execution that ends, completed or raised, changes nothing in `executions` but its status.
LEMMA EndOfExecution ==
    ASSUME TypeOK, NEW i \in 1..Len(executions), ExecuteCompleted(i) \/ ExecutionRaises(i)
    PROVE  /\ Len(executions') = Len(executions)
           /\ \A j \in 1..Len(executions) :
                 /\ executions'[j].token = executions[j].token
                 /\ executions'[j].action = executions[j].action
                 /\ executions'[j].at = executions[j].at
                 /\ executions'[j].session = executions[j].session
                 /\ executions'[j].previewed = executions[j].previewed
           /\ UNCHANGED <<previews, approvals, tokens, attemptCounter, now, issued, session>>
<1>1. PICK status : executions' = [executions EXCEPT ![i].status = status]
  BY DEF ExecuteCompleted, ExecutionRaises
<1> DEFINE e == [executions[i] EXCEPT !.status = status]
<1>2. executions \in Seq(Execution) /\ executions[i] \in Execution
  BY DEF TypeOK
<1>3. /\ e.token = executions[i].token /\ e.action = executions[i].action
      /\ e.at = executions[i].at /\ e.session = executions[i].session
      /\ e.previewed = executions[i].previewed
  BY <1>2 DEF Execution
<1>4. executions' = [executions EXCEPT ![i] = e]
  BY <1>1
<1> HIDE DEF e
<1>5. /\ Len(executions') = Len(executions) /\ executions'[i] = e
      /\ \A j \in 1..Len(executions) : j # i => executions'[j] = executions[j]
  BY <1>2, <1>4
<1>6. UNCHANGED <<previews, approvals, tokens, attemptCounter, now, issued, session>>
  BY DEF ExecuteCompleted, ExecutionRaises
<1>7. ASSUME NEW j \in 1..Len(executions)
      PROVE  /\ executions'[j].token = executions[j].token
             /\ executions'[j].action = executions[j].action
             /\ executions'[j].at = executions[j].at
             /\ executions'[j].session = executions[j].session
             /\ executions'[j].previewed = executions[j].previewed
  <2>1. CASE j = i
    BY <1>3, <1>5, <2>1
  <2>2. CASE j # i
    BY <1>5, <2>2
  <2>3. QED
    BY <2>1, <2>2
<1>8. QED
  BY <1>5, <1>6, <1>7

\* server.ts 240-276: what an admitted call relies on.
LEMMA AdmittedToken ==
    ASSUME NEW t, NEW a, ExecuteAdmitted(t, a)
    PROVE  /\ t \in DOMAIN tokens /\ ~expired(t) /\ ~tokens[t].used
           /\ tokens[t].request_fingerprint = actionFingerprint(a)
           /\ previews[a.action_id] # "DENY"
           /\ previews[a.action_id] = "REVIEW_REQUIRED" => Approved(a.action_id)
BY ValidToken DEF ExecuteAdmitted, Refusal, validateForExecution

LEMMA TokenInvStep == TypeOK /\ TypeOK' /\ TokenInv /\ [Next]_vars => TokenInv'
<1> SUFFICES ASSUME TypeOK, TypeOK', TokenInv, [Next]_vars PROVE TokenInv'
  OBVIOUS
<1>0. /\ executions \in Seq(Execution) /\ now \in Nat /\ session \in Nat /\ TTL \in Nat
      /\ IsMap(tokens, TokenId, EphemeralExecutionToken)
      /\ IsMap(issued, TokenId, [action : Action, at : Nat, session : Nat])
  BY BoundsAssumption DEF TypeOK
<1>1. ASSUME UNCHANGED <<tokens, executions, issued, session>>,
             now' \in Nat, now <= now'
      PROVE  TokenInv'
  BY <1>0, <1>1 DEF TokenInv, SingleUse, Faithful, Lawful, Executed, IsMap
<1>2. ASSUME NEW a \in Action, Preview(a) PROVE TokenInv'
  BY <1>0, <1>1, <1>2 DEF Preview
<1>3. ASSUME NEW id \in ActionId, Approve(id) PROVE TokenInv'
  BY <1>0, <1>1, <1>3 DEF Approve
<1>4. ASSUME NEW id \in ActionId, Deny(id) PROVE TokenInv'
  BY <1>0, <1>1, <1>4 DEF Deny
<1>5. ASSUME NEW t \in TokenId, NEW a \in Action, IssueToken(t, a) PROVE TokenInv'
  <2>1. /\ t \notin DOMAIN issued
        /\ tokens' = Set(tokens, t, Token(a, now))
        /\ issued' = Set(issued, t, [action |-> a, at |-> now, session |-> session])
        /\ UNCHANGED <<now, executions, session>>
    BY <1>5 DEF IssueToken
  <2>2. /\ DOMAIN issued' = DOMAIN issued \cup {t}
        /\ issued'[t] = [action |-> a, at |-> now, session |-> session]
        /\ \A u \in DOMAIN issued : issued'[u] = issued[u]
    BY <2>1 DEF Set
  <2>3. ~Executed(t)
    BY <2>1 DEF TokenInv, Lawful, Executed
  <2>4. SingleUse'
    BY <2>1 DEF TokenInv, SingleUse
  <2>5. ASSUME NEW u \in DOMAIN tokens' PROVE Faithful(u)'
    <3>1. CASE u = t
      <4>1. tokens'[t] = Token(a, now)
        BY <2>1 DEF Set
      <4>2. /\ tokens'[t].expires_at = now + TTL
            /\ tokens'[t].request_fingerprint = actionFingerprint(a)
        BY <4>1, TokenFields
      <4>3. ~Executed(t)'
        BY <2>1, <2>3 DEF Executed
      <4>4. QED
        BY <2>1, <2>2, <3>1, <4>2, <4>3 DEF Faithful
    <3>2. CASE u # t
      <4>1. u \in DOMAIN tokens /\ tokens'[u] = tokens[u]
        BY <2>1, <3>2 DEF Set
      <4>2. Faithful(u)
        BY <4>1 DEF TokenInv
      <4>3. QED
        BY <4>1, <4>2, <2>1, <2>2 DEF Faithful, Executed
    <3>3. QED
      BY <3>1, <3>2
  <2>6. ASSUME NEW i \in 1..Len(executions') PROVE Lawful(executions[i])'
    <3>1. Lawful(executions[i])
      BY <2>1 DEF TokenInv
    <3>2. QED
      BY <2>1, <2>2, <3>1 DEF Lawful
  <2>7. ASSUME NEW u \in DOMAIN issued' PROVE issued'[u].at <= now'
    BY <1>0, <2>1, <2>2 DEF TokenInv
  <2>8. QED
    BY <2>4, <2>5, <2>6, <2>7 DEF TokenInv
<1>6. ASSUME NEW a \in Action, ExecuteWithoutPreview(a) PROVE TokenInv'
  BY <1>0, <1>1, <1>6 DEF ExecuteWithoutPreview, vars
<1>7. ASSUME NEW t \in TokenId, NEW a \in Action, ExecuteRefused(t, a) PROVE TokenInv'
  BY <1>0, <1>1, <1>7 DEF ExecuteRefused
<1>8. ASSUME NEW t \in TokenId, NEW a \in Action, ExecuteAdmitted(t, a) PROVE TokenInv'
  <2> DEFINE e == [token |-> t, action |-> a, at |-> now, session |-> session,
                   previewed |-> previews[a.action_id], status |-> "awaiting"]
  <2>1. /\ executions' = Append(executions, e)
        /\ tokens' = [tokens EXCEPT ![t].used = TRUE]
        /\ UNCHANGED <<now, issued, session>>
    BY <1>8 DEF ExecuteAdmitted
  <2>2. e \in Execution
    BY <1>8 DEF ExecuteAdmitted, Execution, TypeOK, IsMap
  <2>3. /\ Len(executions') = Len(executions) + 1
        /\ executions'[Len(executions) + 1] = e
        /\ \A i \in 1..Len(executions) : executions'[i] = executions[i]
    BY <1>0, <2>1, <2>2, AppendExecution
  <2>4. /\ t \in DOMAIN tokens /\ ~expired(t) /\ ~tokens[t].used
        /\ tokens[t].request_fingerprint = actionFingerprint(a)
    BY <1>8, AdmittedToken
  <2>5. Faithful(t) /\ issued[t].at <= now /\ issued[t].at \in Nat
    BY <1>0, <2>4 DEF TokenInv, Faithful, IsMap
  <2>6. \A i \in 1..Len(executions) : executions[i].token # t
    BY <2>4, <2>5 DEF Faithful, Executed
  <2>7. 1..Len(executions') = (1..Len(executions)) \cup {Len(executions) + 1}
    BY <1>0, <2>3
  <2>8. SingleUse'
    BY <2>3, <2>6, <2>7 DEF TokenInv, SingleUse
  <2>9. ASSUME NEW u \in DOMAIN tokens' PROVE Faithful(u)'
    <3>1. u \in DOMAIN tokens /\ tokens[u] \in EphemeralExecutionToken /\ Faithful(u)
      BY <1>0, <2>1 DEF IsMap, TokenInv
    <3>2. CASE u = t
      BY <2>1, <3>1, <3>2 DEF Faithful, EphemeralExecutionToken
    <3>3. CASE u # t
      BY <2>1, <2>3, <2>7, <3>1, <3>3 DEF Faithful, Executed
    <3>4. QED
      BY <3>2, <3>3
  <2>10. ASSUME NEW i \in 1..Len(executions') PROVE Lawful(executions[i])'
    <3>1. CASE i \in 1..Len(executions)
      BY <2>1, <2>3, <3>1 DEF TokenInv, Lawful
    <3>2. CASE i = Len(executions) + 1
      <4>1. e.at \in issued[t].at..(issued[t].at + TTL)
        BY <1>0, <2>4, <2>5, SMT DEF Faithful, expired
      <4>2. /\ t \in DOMAIN issued
            /\ actionFingerprint(a) = actionFingerprint(issued[t].action)
            /\ issued[t].session = session
        BY <2>4, <2>5 DEF Faithful
      <4>3. e.token = t /\ e.action = a /\ e.session = session
        OBVIOUS
      <4>4. Lawful(e)
        BY <4>1, <4>2, <4>3 DEF Lawful
      <4>5. QED
        BY <2>1, <2>3, <3>2, <4>4 DEF Lawful
    <3>3. QED
      BY <2>7, <3>1, <3>2
  <2>11. \A u \in DOMAIN issued' : issued'[u].at <= now'
    BY <2>1 DEF TokenInv
  <2>12. QED
    BY <2>8, <2>9, <2>10, <2>11 DEF TokenInv
<1>9. ASSUME NEW i \in 1..Len(executions), ExecuteCompleted(i) \/ ExecutionRaises(i)
      PROVE  TokenInv'
  <2>1. /\ Len(executions') = Len(executions)
        /\ \A j \in 1..Len(executions) :
              /\ executions'[j].token = executions[j].token
              /\ executions'[j].action = executions[j].action
              /\ executions'[j].at = executions[j].at
              /\ executions'[j].session = executions[j].session
        /\ UNCHANGED <<tokens, now, issued, session>>
    BY <1>9, EndOfExecution
  <2>2. SingleUse'
    BY <1>0, <2>1 DEF TokenInv, SingleUse
  <2>3. \A t \in DOMAIN tokens' : Faithful(t)'
    <3>1. \A t : Executed(t)' <=> Executed(t)
      BY <1>0, <2>1 DEF Executed
    <3>2. QED
      BY <2>1, <3>1 DEF TokenInv, Faithful
  <2>4. \A j \in 1..Len(executions') : Lawful(executions[j])'
    BY <1>0, <2>1 DEF TokenInv, Lawful
  <2>5. QED
    BY <2>1, <2>2, <2>3, <2>4 DEF TokenInv
<1>10. CASE Reset
  <2>1. /\ DOMAIN tokens' = {}
        /\ UNCHANGED <<now, executions, issued>>
    BY <1>10 DEF Reset, EmptyMap
  <2>2. QED
    BY <2>1 DEF TokenInv, SingleUse, Lawful
<1>11. CASE Tick
  BY <1>0, <1>1, <1>11 DEF Tick
<1>12. CASE UNCHANGED vars
  BY <1>0, <1>1, <1>12 DEF vars
<1>13. ASSUME NEW type \in ForgedType, NEW id \in ActionId, DemoAuditEvent(type, id)
       PROVE  TokenInv'
  BY <1>0, <1>1, <1>13 DEF DemoAuditEvent
<1>14. QED
  BY <1>2, <1>3, <1>4, <1>5, <1>6, <1>7, <1>8, <1>9, <1>10, <1>11, <1>12, <1>13
     DEF Next, PreviewRaises, RefusalRaises

\* The inductive invariant of the token service holds in every reachable state.
THEOREM TokenInvariant == Spec => []TokenInv
<1>1. Init => TokenInv
  BY EmptyMapType DEF Init, TokenInv, SingleUse, EmptyMap
<1>2. QED
  BY <1>1, TokenInvStep, TypeCorrect, PTL DEF Spec

\* No token starts two executions.
THEOREM TokensAreSingleUse == Spec => []SingleUse
<1>1. TokenInv => SingleUse
  BY DEF TokenInv
<1>2. QED
  BY <1>1, TokenInvariant, PTL

\* What is executed agrees with what the token was issued for, in every bound field.
THEOREM ExecutionsAreAsIssued == Spec => []ExecutedAsIssued
<1>1. TokenInv => ExecutedAsIssued
  <2> SUFFICES ASSUME TokenInv, NEW i \in 1..Len(executions)
               PROVE  /\ executions[i].token \in DOMAIN issued
                      /\ \A f \in BoundField :
                            executions[i].action[f] = issued[executions[i].token].action[f]
    BY DEF ExecutedAsIssued
  <2>1. Lawful(executions[i])
    BY DEF TokenInv
  <2>2. QED
    BY <2>1 DEF Lawful, actionFingerprint, BoundField
<1>2. QED
  BY <1>1, TokenInvariant, PTL

\* An execution starts within TTL of the issue of its token, and no token is honoured after the
\* reset that ended its session.
THEOREM ExecutionsAreInLifetime == Spec => []ExecutedInLifetime
<1>1. TokenInv => ExecutedInLifetime
  BY DEF TokenInv, ExecutedInLifetime, Lawful
<1>2. QED
  BY <1>1, TokenInvariant, PTL

-----------------------------------------------------------------------------
\* token-service.ts 83 as an action property: only starting its execution spends a token, and
\* only a reset forgets that it was spent.
THEOREM TokenSpending == Spec => TokenSpentByItsExecution
<1> DEFINE Spending(t) ==
      /\ ~Spent(t) /\ Spent(t)' =>
             /\ Len(executions') = Len(executions) + 1
             /\ executions'[Len(executions')].token = t
      /\ Spent(t) /\ ~Spent(t)' => session' = session + 1
<1>1. ASSUME TypeOK, TypeOK', TokenInv, Next, NEW t \in TokenId
      PROVE  Spending(t)
  <2>1. ASSUME UNCHANGED tokens PROVE Spending(t)
    BY <2>1 DEF Spent
  <2>2. ASSUME NEW u \in TokenId, NEW a \in Action, IssueToken(u, a)
        PROVE  Spending(t)
    <3>1. tokens' = Set(tokens, u, Token(a, now)) /\ u \notin DOMAIN tokens
      BY <1>1, <2>2 DEF IssueToken, TokenInv, Faithful
    <3>2. CASE u = t
      <4>1. t \notin DOMAIN tokens /\ tokens'[t] = Token(a, now)
        BY <3>1, <3>2 DEF Set
      <4>2. QED
        BY <4>1, TokenFields DEF Spent
    <3>3. CASE u # t
      BY <3>1, <3>3 DEF Spent, Set
    <3>4. QED
      BY <3>2, <3>3
  <2>3. ASSUME NEW u \in TokenId, NEW a \in Action, ExecuteAdmitted(u, a)
        PROVE  Spending(t)
    <3> DEFINE e == [token |-> u, action |-> a, at |-> now, session |-> session,
                     previewed |-> previews[a.action_id], status |-> "awaiting"]
    <3>1. executions' = Append(executions, e) /\ tokens' = [tokens EXCEPT ![u].used = TRUE]
      BY <2>3 DEF ExecuteAdmitted
    <3>2. e \in Execution /\ executions \in Seq(Execution)
      BY <1>1, <2>3 DEF ExecuteAdmitted, Execution, TypeOK, IsMap
    <3>3. CASE u = t
      <4>1. /\ Len(executions') = Len(executions) + 1
            /\ executions'[Len(executions')] = e
        BY <3>1, <3>2, AppendExecution
      <4>2. Spent(t) => Spent(t)'
        <5>1. Spent(t) => tokens[t] \in EphemeralExecutionToken
          BY <1>1 DEF Spent, TypeOK, IsMap
        <5>2. QED
          BY <3>1, <5>1, <3>3 DEF Spent, EphemeralExecutionToken
      <4>3. e.token = t
        BY <3>3
      <4>4. QED
        BY <4>1, <4>2, <4>3
    <3>4. CASE u # t
      BY <3>1, <3>4 DEF Spent
    <3>5. QED
      BY <3>3, <3>4
  <2>4. CASE Reset
    BY <2>4 DEF Reset, EmptyMap, Spent
  <2>5. QED
    BY <1>1, <2>1, <2>2, <2>3, <2>4
       DEF Next, Preview, PreviewRaises, Approve, Deny, ExecuteWithoutPreview, ExecuteRefused,
           RefusalRaises, ExecuteCompleted, ExecutionRaises, DemoAuditEvent, Tick, vars
<1>2. TypeOK /\ TypeOK' /\ TokenInv /\ [Next]_vars => [\A t \in TokenId : Spending(t)]_vars
  BY <1>1
<1>3. QED
  BY <1>2, TypeCorrect, TokenInvariant, PTL DEF Spec, TokenSpentByItsExecution

-----------------------------------------------------------------------------
\* Every recorded decision is the policy's decision for some body with that id, and no
\* execution started on a denied preview.
Judged(id, decision) == \E b \in Action : b.action_id = id /\ evaluatePolicy[b] = decision
PolicyInv ==
    /\ \A id \in DOMAIN previews : Judged(id, previews[id])
    /\ \A i \in 1..Len(executions) :
          /\ Judged(executions[i].action.action_id, executions[i].previewed)
          /\ executions[i].previewed # "DENY"

LEMMA PolicyInvStep == TypeOK /\ PolicyInv /\ [Next]_vars => PolicyInv'
<1> SUFFICES ASSUME TypeOK, PolicyInv, [Next]_vars PROVE PolicyInv'
  OBVIOUS
<1>0. executions \in Seq(Execution)
  BY DEF TypeOK
<1>1. ASSUME UNCHANGED <<previews, executions>> PROVE PolicyInv'
  BY <1>1 DEF PolicyInv, Judged
<1>2. ASSUME NEW a \in Action, Preview(a) PROVE PolicyInv'
  <2>1. UNCHANGED executions
    BY <1>2 DEF Preview
  <2>2. ASSUME NEW id \in DOMAIN previews' PROVE Judged(id, previews'[id])
    BY <1>2 DEF Preview, Set, PolicyInv, Judged
  <2>3. QED
    BY <2>1, <2>2 DEF PolicyInv, Judged
<1>3. ASSUME NEW t \in TokenId, NEW a \in Action, ExecuteAdmitted(t, a) PROVE PolicyInv'
  <2> DEFINE e == [token |-> t, action |-> a, at |-> now, session |-> session,
                   previewed |-> previews[a.action_id], status |-> "awaiting"]
  <2>1. executions' = Append(executions, e) /\ UNCHANGED previews
    BY <1>3 DEF ExecuteAdmitted
  <2>2. a.action_id \in DOMAIN previews /\ previews[a.action_id] # "DENY"
    BY <1>3, AdmittedToken DEF ExecuteAdmitted
  <2>3. e \in Execution
    BY <1>3, <2>2 DEF Execution, TypeOK, IsMap
  <2>4. Judged(e.action.action_id, e.previewed) /\ e.previewed # "DENY"
    BY <2>2 DEF PolicyInv
  <2>5. \A i \in 1..Len(executions') :
           (i \in 1..Len(executions) /\ executions'[i] = executions[i]) \/ executions'[i] = e
    BY <1>0, <2>1, <2>3, AppendExecution
  <2>6. QED
    BY <2>1, <2>4, <2>5 DEF PolicyInv, Judged
<1>4. ASSUME NEW i \in 1..Len(executions), ExecuteCompleted(i) \/ ExecutionRaises(i)
      PROVE  PolicyInv'
  <2>1. /\ Len(executions') = Len(executions)
        /\ \A j \in 1..Len(executions) :
              /\ executions'[j].action = executions[j].action
              /\ executions'[j].previewed = executions[j].previewed
        /\ UNCHANGED previews
    BY <1>4, EndOfExecution
  <2>2. \A id \in DOMAIN previews' : Judged(id, previews'[id])
    BY <2>1 DEF PolicyInv
  <2>3. ASSUME NEW j \in 1..Len(executions')
        PROVE  /\ Judged(executions'[j].action.action_id, executions'[j].previewed)
               /\ executions'[j].previewed # "DENY"
    BY <2>1 DEF PolicyInv
  <2>4. QED
    BY <2>2, <2>3 DEF PolicyInv, Judged
<1>5. CASE Reset
  BY <1>5 DEF Reset, EmptyMap, PolicyInv, Judged
<1>6. QED
  BY <1>1, <1>2, <1>3, <1>4, <1>5
     DEF Next, PreviewRaises, Approve, Deny, IssueToken, ExecuteWithoutPreview, ExecuteRefused,
         RefusalRaises, DemoAuditEvent, Tick, vars

\* Where every body of an id is judged alike, nothing the policy denies is ever executed.
THEOREM NothingDeniedIsExecuted == Spec => []ExecutedWithinPolicy
<1>1. Init => PolicyInv
  BY DEF Init, EmptyMap, PolicyInv
<1>2. PolicyInv => ExecutedWithinPolicy
  BY DEF PolicyInv, Judged, ExecutedWithinPolicy
<1>3. QED
  BY <1>1, <1>2, PolicyInvStep, TypeCorrect, PTL DEF Spec

-----------------------------------------------------------------------------
\* The stores and the log are of the same session, and the log explains its executions.
AuditInv ==
    /\ SessionStoresAgree
    /\ AuditExplainsExecution
    /\ \A i \in 1..Len(executions) : executions[i].session <= session

\* The token of a body that can be read for the log has its event there.
Evidenced(t) ==
    Printable(issued[t].action) => <<"token_issued", tokens[t].action_id>> \in audit

\* A step that only adds to the log.
LEMMA LogGrows ==
    ASSUME AuditInv, audit \subseteq audit',
           UNCHANGED <<previews, attemptCounter, executions, session>>,
           \A id \in DOMAIN approvals' : <<approvals'[id], id>> \in audit',
           \A t \in DOMAIN tokens' : Evidenced(t)'
    PROVE  AuditInv'
<1>1. SessionStoresAgree'
  BY DEF AuditInv, SessionStoresAgree, Evidenced
<1>2. AuditExplainsExecution'
  BY DEF AuditInv, AuditExplainsExecution
<1>3. QED
  BY <1>1, <1>2 DEF AuditInv

LEMMA AuditInvStep == TypeOK /\ TokenInv /\ AuditInv /\ [Next]_vars => AuditInv'
<1> SUFFICES ASSUME TypeOK, TokenInv, AuditInv, [Next]_vars PROVE AuditInv'
  OBVIOUS
<1>0. executions \in Seq(Execution) /\ session \in Nat
  BY DEF TypeOK
<1>1. ASSUME NEW a \in Action, Preview(a) PROVE AuditInv'
  <2>1. /\ audit' = audit \cup ((IF evaluatePolicy[a] = "REVIEW_REQUIRED"
                                  THEN {"approval_requested", "preview_generated"}
                                  ELSE {"preview_generated"}) \X {a.action_id})
        /\ UNCHANGED <<approvals, tokens, issued, executions, session>>
    BY <1>1 DEF Preview, Log
  <2>2. /\ DOMAIN previews' = DOMAIN previews \cup {a.action_id}
        /\ DOMAIN attemptCounter' = DOMAIN attemptCounter \cup {AttemptKey(a)}
    BY <1>1 DEF Preview, Set
  <2>3. /\ audit \subseteq audit'
        /\ <<"preview_generated", a.action_id>> \in audit'
    BY <2>1
  <2>4. SessionStoresAgree'
    <3>1. \A id \in DOMAIN previews' : <<"preview_generated", id>> \in audit'
      BY <2>2, <2>3 DEF AuditInv, SessionStoresAgree
    <3>2. /\ \A id \in DOMAIN approvals' : <<approvals'[id], id>> \in audit'
          /\ \A t \in DOMAIN tokens' : Evidenced(t)'
      BY <2>1, <2>3 DEF AuditInv, SessionStoresAgree, Evidenced
    <3>3. ASSUME NEW c \in Action, AttemptKey(c) \in DOMAIN attemptCounter'
          PROVE  \E b \in Action : /\ AttemptKey(b) = AttemptKey(c)
                                   /\ <<"preview_generated", b.action_id>> \in audit'
      BY <2>2, <2>3, <3>3 DEF AuditInv, SessionStoresAgree
    <3>4. QED
      BY <3>1, <3>2, <3>3 DEF SessionStoresAgree, Evidenced
  <2>5. AuditExplainsExecution'
    BY <2>1, <2>3 DEF AuditInv, AuditExplainsExecution
  <2>6. QED
    BY <2>1, <2>4, <2>5 DEF AuditInv
<1>2. ASSUME NEW id \in ActionId, Approve(id) PROVE AuditInv'
  <2>1. audit' = audit \cup ({"approved"} \X {id})
    BY <1>2 DEF Approve, Log
  <2>2. \A k \in DOMAIN approvals' : <<approvals'[k], k>> \in audit'
    BY <1>2, <2>1 DEF Approve, Set, AuditInv, SessionStoresAgree
  <2>3. \A t \in DOMAIN tokens' : Evidenced(t)'
    BY <1>2, <2>1 DEF Approve, AuditInv, SessionStoresAgree, Evidenced
  <2>4. UNCHANGED <<previews, attemptCounter, executions, session>> /\ audit \subseteq audit'
    BY <1>2, <2>1 DEF Approve
  <2>5. QED
    BY <2>2, <2>3, <2>4, LogGrows
<1>3. ASSUME NEW id \in ActionId, Deny(id) PROVE AuditInv'
  <2>1. audit' = audit \cup ({"denied"} \X {id})
    BY <1>3 DEF Deny, Log
  <2>2. \A k \in DOMAIN approvals' : <<approvals'[k], k>> \in audit'
    BY <1>3, <2>1 DEF Deny, Set, AuditInv, SessionStoresAgree
  <2>3. \A t \in DOMAIN tokens' : Evidenced(t)'
    BY <1>3, <2>1 DEF Deny, AuditInv, SessionStoresAgree, Evidenced
  <2>4. UNCHANGED <<previews, attemptCounter, executions, session>> /\ audit \subseteq audit'
    BY <1>3, <2>1 DEF Deny
  <2>5. QED
    BY <2>2, <2>3, <2>4, LogGrows
<1>4. ASSUME NEW t \in TokenId, NEW a \in Action, IssueToken(t, a) PROVE AuditInv'
  <2>1. /\ audit \subseteq audit'
        /\ Printable(a) => <<"token_issued", a.action_id>> \in audit'
    BY <1>4 DEF IssueToken, Log
  <2>2. \A k \in DOMAIN approvals' : <<approvals'[k], k>> \in audit'
    BY <1>4, <2>1 DEF IssueToken, AuditInv, SessionStoresAgree
  <2>3. /\ tokens' = Set(tokens, t, Token(a, now))
        /\ issued' = Set(issued, t, [action |-> a, at |-> now, session |-> session])
    BY <1>4 DEF IssueToken
  <2>4. ASSUME NEW u \in DOMAIN tokens' PROVE Evidenced(u)'
    <3>1. CASE u = t
      <4>1. tokens'[u] = Token(a, now) /\ issued'[u].action = a
        BY <2>3, <3>1 DEF Set
      <4>2. Token(a, now).action_id = a.action_id
        BY DEF Token
      <4>3. QED
        BY <2>1, <4>1, <4>2 DEF Evidenced
    <3>2. CASE u # t
      <4>1. /\ u \in DOMAIN tokens /\ tokens'[u] = tokens[u]
            /\ u \in DOMAIN issued /\ issued'[u] = issued[u]
        BY <2>3, <3>2 DEF Set, TokenInv, Faithful
      <4>2. Evidenced(u)
        BY <4>1 DEF AuditInv, SessionStoresAgree, Evidenced
      <4>3. QED
        BY <2>1, <4>1, <4>2 DEF Evidenced
    <3>3. QED
      BY <3>1, <3>2
  <2>5. UNCHANGED <<previews, attemptCounter, executions, session>>
    BY <1>4 DEF IssueToken
  <2>6. QED
    BY <2>1, <2>2, <2>4, <2>5, LogGrows
<1>5. ASSUME NEW t \in TokenId, NEW a \in Action, ExecuteRefused(t, a) PROVE AuditInv'
  <2>1. audit' = audit \cup ({"execution_blocked"} \X {a.action_id})
    BY <1>5 DEF ExecuteRefused, Log
  <2>2. UNCHANGED <<previews, approvals, tokens, attemptCounter, issued, executions, session>>
    BY <1>5 DEF ExecuteRefused
  <2>3. /\ \A k \in DOMAIN approvals' : <<approvals'[k], k>> \in audit'
        /\ \A u \in DOMAIN tokens' : Evidenced(u)'
    BY <2>1, <2>2 DEF AuditInv, SessionStoresAgree, Evidenced
  <2>4. QED
    BY <2>1, <2>2, <2>3, LogGrows
<1>6. ASSUME NEW t \in TokenId, NEW a \in Action, ExecuteAdmitted(t, a) PROVE AuditInv'
  <2> DEFINE e == [token |-> t, action |-> a, at |-> now, session |-> session,
                   previewed |-> previews[a.action_id], status |-> "awaiting"]
  <2>1. /\ audit' = audit \cup ({"execution_attempted"} \X {a.action_id})
        /\ executions' = Append(executions, e)
        /\ tokens' = [tokens EXCEPT ![t].used = TRUE]
        /\ UNCHANGED <<previews, approvals, attemptCounter, issued, session>>
        /\ a.action_id \in DOMAIN previews
    BY <1>6 DEF ExecuteAdmitted, Log
  <2>2. a.action_id \in ActionId /\ IsMap(tokens, TokenId, EphemeralExecutionToken)
    BY DEF ActionId, TypeOK
  <2>3. e \in Execution
    BY <2>1 DEF Execution, TypeOK, IsMap
  <2>4. /\ t \in DOMAIN tokens /\ tokens[t].action_id = a.action_id
        /\ previews[a.action_id] = "REVIEW_REQUIRED" => Approved(a.action_id)
    BY <1>6, AdmittedToken DEF ExecuteAdmitted, Refusal, validateForExecution
  <2>5. /\ DOMAIN tokens' = DOMAIN tokens
        /\ \A u \in DOMAIN tokens : tokens'[u].action_id = tokens[u].action_id
    BY <2>1, <2>2 DEF IsMap, EphemeralExecutionToken
  <2>6. SessionStoresAgree'
    BY <2>1, <2>5 DEF AuditInv, SessionStoresAgree
  <2>7. Printable(issued[t].action)
    <3>1. /\ tokens[t].request_fingerprint = actionFingerprint(a) /\ Printable(a)
          /\ Faithful(t)
      BY <1>6, <2>4, AdmittedToken DEF TokenInv, ExecuteAdmitted
    <3>2. actionFingerprint(a) = actionFingerprint(issued[t].action)
      BY <3>1 DEF Faithful
    <3>3. QED
      BY <3>1, <3>2 DEF actionFingerprint, Printable
  <2>8. /\ <<"preview_generated", a.action_id>> \in audit
        /\ <<"token_issued", a.action_id>> \in audit
        /\ previews[a.action_id] = "REVIEW_REQUIRED" => <<"approved", a.action_id>> \in audit
    BY <2>1, <2>2, <2>4, <2>7 DEF AuditInv, SessionStoresAgree, Approved
  <2>9. /\ audit \subseteq audit' /\ <<"execution_attempted", a.action_id>> \in audit'
    BY <2>1
  <2>10. \A i \in 1..Len(executions') :
           \/ i \in 1..Len(executions) /\ executions'[i] = executions[i]
           \/ executions'[i] = e
    BY <1>0, <2>1, <2>3, AppendExecution
  <2>11. AuditExplainsExecution'
    <3> DEFINE Explained(x) ==
          x.session = session =>
            /\ <<"preview_generated", x.action.action_id>> \in audit'
            /\ <<"token_issued", x.action.action_id>> \in audit'
            /\ <<"execution_attempted", x.action.action_id>> \in audit'
            /\ x.previewed = "REVIEW_REQUIRED" => <<"approved", x.action.action_id>> \in audit'
    <3>1. \A i \in 1..Len(executions) : Explained(executions[i])
      BY <2>9 DEF AuditInv, AuditExplainsExecution
    <3>2. Explained(e)
      BY <2>8, <2>9
    <3>3. \A i \in 1..Len(executions') : Explained(executions'[i])
      <4> HIDE DEF Explained, e
      <4> QED
        BY <2>10, <3>1, <3>2
    <3>4. QED
      BY <2>1, <3>3 DEF AuditExplainsExecution
  <2>12. \A i \in 1..Len(executions') : executions'[i].session <= session'
    BY <1>0, <2>1, <2>10 DEF AuditInv
  <2>13. QED
    BY <2>6, <2>11, <2>12 DEF AuditInv
<1>7. ASSUME NEW i \in 1..Len(executions), ExecuteCompleted(i) \/ ExecutionRaises(i)
      PROVE  AuditInv'
  <2>1. /\ Len(executions') = Len(executions)
        /\ \A j \in 1..Len(executions) :
              /\ executions'[j].action = executions[j].action
              /\ executions'[j].previewed = executions[j].previewed
              /\ executions'[j].session = executions[j].session
        /\ UNCHANGED <<previews, approvals, tokens, attemptCounter, issued, session>>
    BY <1>7, EndOfExecution
  <2>2. audit \subseteq audit'
    BY <1>7 DEF ExecuteCompleted, ExecutionRaises, Log
  <2>3. SessionStoresAgree'
    BY <2>1, <2>2 DEF AuditInv, SessionStoresAgree
  <2>4. AuditExplainsExecution'
    BY <2>1, <2>2 DEF AuditInv, AuditExplainsExecution
  <2>5. QED
    BY <2>1, <2>3, <2>4 DEF AuditInv
<1>8. CASE Reset
  <2>1. /\ DOMAIN previews' = {} /\ DOMAIN approvals' = {} /\ DOMAIN tokens' = {}
        /\ DOMAIN attemptCounter' = {} /\ audit' = {}
        /\ session' = session + 1 /\ UNCHANGED executions
    BY <1>8 DEF Reset, EmptyMap
  <2>2. SessionStoresAgree'
    BY <2>1 DEF SessionStoresAgree
  <2>3. \A i \in 1..Len(executions') :
           executions'[i].session <= session' /\ executions'[i].session # session'
    <3>1. ASSUME NEW i \in 1..Len(executions) PROVE executions[i].session \in Nat
      <4>1. executions[i] \in Execution
        BY <1>0
      <4>2. QED
        BY <4>1 DEF Execution
    <3>2. QED
      BY <1>0, <2>1, <3>1 DEF AuditInv
  <2>4. QED
    BY <2>2, <2>3 DEF AuditInv, AuditExplainsExecution
<1>9. ASSUME UNCHANGED <<previews, approvals, tokens, attemptCounter, audit, issued, executions,
                         session>>
      PROVE  AuditInv'
  BY <1>9 DEF AuditInv, SessionStoresAgree, AuditExplainsExecution
<1>10. ASSUME NEW type \in ForgedType, NEW id \in ActionId, DemoAuditEvent(type, id)
       PROVE  AuditInv'
  <2>1. /\ audit \subseteq audit'
        /\ UNCHANGED <<previews, approvals, tokens, attemptCounter, issued, executions, session>>
    BY <1>10 DEF DemoAuditEvent, Log
  <2>2. /\ \A k \in DOMAIN approvals' : <<approvals'[k], k>> \in audit'
        /\ \A t \in DOMAIN tokens' : Evidenced(t)'
    BY <2>1 DEF AuditInv, SessionStoresAgree, Evidenced
  <2>3. QED
    BY <2>1, <2>2, LogGrows
<1>11. QED
  BY <1>1, <1>2, <1>3, <1>4, <1>5, <1>6, <1>7, <1>8, <1>9, <1>10
     DEF Next, PreviewRaises, ExecuteWithoutPreview, RefusalRaises, Tick, vars

LEMMA AuditInvariant == Spec => []AuditInv
<1>1. Init => AuditInv
  BY DEF Init, EmptyMap, AuditInv, SessionStoresAgree, AuditExplainsExecution
<1>2. QED
  BY <1>1, AuditInvStep, TypeCorrect, TokenInvariant, PTL DEF Spec

\* A reset leaves no store of the ended session behind.
THEOREM StoresAgree == Spec => []SessionStoresAgree
<1>1. AuditInv => SessionStoresAgree
  BY DEF AuditInv
<1>2. QED
  BY <1>1, AuditInvariant, PTL

\* Until the next reset the log explains every execution.
THEOREM LogExplainsExecutions == Spec => []AuditExplainsExecution
<1>1. AuditInv => AuditExplainsExecution
  BY DEF AuditInv
<1>2. QED
  BY <1>1, AuditInvariant, PTL

-----------------------------------------------------------------------------
\* The refinement mapping, under names of its own.
GrantOf == [t \in DOMAIN issued |-> actionFingerprint(issued[t].action)]
Standings == [t \in TokenId |-> StandingOf(t)]
Effects == [i \in 1..Len(executions) |->
               <<executions[i].token, actionFingerprint(executions[i].action)>>]

\* A step that changes neither what was issued nor what was started, and after which just the
\* tokens of S are no longer live, is a revocation of S.
LEMMA RevokingStep ==
    ASSUME NEW S \in SUBSET TokenId,
           UNCHANGED <<GrantOf, Effects>>,
           \A t \in S : StandingOf(t) = "live" /\ StandingOf(t)' = "void",
           \A t \in TokenId \ S : StandingOf(t)' = StandingOf(t)
    PROVE  Authority!Next
<1>1. \A t \in S : Standings[t] = "live"
  BY DEF Standings
<1>2. Standings' = [t \in TokenId |-> IF t \in S THEN "void" ELSE Standings[t]]
  BY DEF Standings
<1>3. Authority!Revoke(S)
  BY <1>1, <1>2 DEF Authority!Revoke, GrantOf, Standings, Effects
<1>4. QED
  BY <1>3 DEF Authority!Next

LEMMA AuthorityStep ==
    TypeOK /\ TypeOK' /\ TokenInv /\ [Next]_vars => [Authority!Next]_(Authority!vars)
<1> SUFFICES ASSUME TypeOK, TypeOK', TokenInv, [Next]_vars
             PROVE  Authority!Next \/ UNCHANGED Authority!vars
  OBVIOUS
<1>0. /\ executions \in Seq(Execution) /\ now \in Nat /\ TTL \in Nat
      /\ IsMap(tokens, TokenId, EphemeralExecutionToken)
      /\ IsMap(issued, TokenId, [action : Action, at : Nat, session : Nat])
  BY BoundsAssumption DEF TypeOK
<1>1. ASSUME UNCHANGED <<tokens, executions, issued, now>> PROVE UNCHANGED Authority!vars
  BY <1>1 DEF Authority!vars, StandingOf, Executed
<1>2. ASSUME NEW t \in TokenId, NEW a \in Action, IssueToken(t, a) PROVE Authority!Next
  <2>1. /\ t \notin DOMAIN issued
        /\ tokens' = Set(tokens, t, Token(a, now))
        /\ issued' = Set(issued, t, [action |-> a, at |-> now, session |-> session])
        /\ UNCHANGED <<now, executions>>
    BY <1>2 DEF IssueToken
  <2>2. /\ DOMAIN issued' = DOMAIN issued \cup {t}
        /\ issued'[t].action = a
        /\ \A u \in DOMAIN issued : issued'[u] = issued[u]
        /\ DOMAIN tokens' = DOMAIN tokens \cup {t}
        /\ tokens'[t] = Token(a, now)
        /\ \A u \in DOMAIN tokens : u # t => tokens'[u] = tokens[u]
    BY <2>1 DEF Set
  <2>3. \A u : Executed(u)' <=> Executed(u)
    BY <2>1 DEF Executed
  <2>4. ~Executed(t)
    BY <2>1 DEF TokenInv, Lawful, Executed
  <2>5. StandingOf(t) = "unissued"
    BY <2>1 DEF StandingOf
  <2>6. StandingOf(t)' = "live"
    <3>1. tokens'[t].expires_at = now + TTL
      BY <2>2 DEF Token
    <3>2. ~(tokens'[t].expires_at < now')
      BY <1>0, <2>1, <3>1
    <3>3. QED
      BY <2>2, <2>3, <2>4, <3>2 DEF StandingOf
  <2>7. \A u \in TokenId : u # t => StandingOf(u)' = StandingOf(u)
    BY <2>1, <2>2, <2>3 DEF StandingOf
  <2>8. Standings[t] = "unissued" /\ Standings' = [Standings EXCEPT ![t] = "live"]
    BY <2>5, <2>6, <2>7 DEF Standings
  <2>9. GrantOf' = [u \in DOMAIN GrantOf \cup {t} |->
                      IF u = t THEN actionFingerprint(a) ELSE GrantOf[u]]
    BY <2>1, <2>2 DEF GrantOf
  <2>10. UNCHANGED Effects
    BY <2>1 DEF Effects
  <2>11. Authority!Grant(t, actionFingerprint(a))
    BY <2>8, <2>9, <2>10 DEF Authority!Grant, GrantOf, Standings, Effects
  <2>12. QED
    BY <2>11 DEF Authority!Next
<1>3. ASSUME NEW t \in TokenId, NEW a \in Action, ExecuteAdmitted(t, a) PROVE Authority!Next
  <2> DEFINE e == [token |-> t, action |-> a, at |-> now, session |-> session,
                   previewed |-> previews[a.action_id], status |-> "awaiting"]
  <2>1. /\ executions' = Append(executions, e)
        /\ tokens' = [tokens EXCEPT ![t].used = TRUE]
        /\ UNCHANGED <<now, issued>>
        /\ e \in Execution
    BY <1>3 DEF ExecuteAdmitted, Execution, TypeOK, IsMap
  <2>2. /\ Len(executions') = Len(executions) + 1
        /\ executions'[Len(executions) + 1] = e
        /\ \A i \in 1..Len(executions) : executions'[i] = executions[i]
    BY <1>0, <2>1, AppendExecution
  <2>3. /\ t \in DOMAIN tokens /\ ~expired(t) /\ ~tokens[t].used
        /\ tokens[t].request_fingerprint = actionFingerprint(a)
    BY <1>3, AdmittedToken
  <2>4. Faithful(t)
    BY <2>3 DEF TokenInv
  <2>5. /\ t \in DOMAIN issued /\ ~Executed(t)
        /\ actionFingerprint(a) = actionFingerprint(issued[t].action)
    BY <2>3, <2>4 DEF Faithful
  <2>6. StandingOf(t) = "live"
    BY <2>3, <2>5 DEF StandingOf, expired
  <2>7. 1..Len(executions') = (1..Len(executions)) \cup {Len(executions) + 1}
    BY <1>0, <2>2
  <2>8. e.token = t /\ e.action = a
    OBVIOUS
  <2>9. Executed(t)' /\ \A u : u # t => (Executed(u)' <=> Executed(u))
    <3> HIDE DEF e
    <3> QED
      BY <2>2, <2>7, <2>8 DEF Executed
  <2>10. StandingOf(t)' = "spent"
    BY <2>1, <2>5, <2>9 DEF StandingOf
  <2>11. \A u \in TokenId : u # t => StandingOf(u)' = StandingOf(u)
    BY <2>1, <2>9 DEF StandingOf
  <2>12. Standings[t] = "live" /\ Standings' = [Standings EXCEPT ![t] = "spent"]
    BY <2>6, <2>10, <2>11 DEF Standings
  <2>13. GrantOf[t] = actionFingerprint(a) /\ UNCHANGED GrantOf
    BY <2>1, <2>5 DEF GrantOf
  <2>14. Effects' = Append(Effects, <<t, GrantOf[t]>>)
    <3> DEFINE x(i) == <<executions[i].token, actionFingerprint(executions[i].action)>>
    <3>1. Effects \in Seq({x(i) : i \in 1..Len(executions)}) /\ Len(Effects) = Len(executions)
      BY <1>0 DEF Effects
    <3>2. Effects' = [i \in 1..(Len(executions) + 1) |->
                         IF i = Len(executions) + 1 THEN <<t, GrantOf[t]>> ELSE Effects[i]]
      <4> HIDE DEF e
      <4> QED
        BY <1>0, <2>2, <2>8, <2>13 DEF Effects, actionFingerprint
    <3>3. QED
      BY <3>1, <3>2, SMTT(30)
  <2>15. Authority!Perform(t)
    BY <2>12, <2>13, <2>14 DEF Authority!Perform, GrantOf, Standings, Effects
  <2>16. QED
    BY <2>15 DEF Authority!Next
<1>4. ASSUME NEW i \in 1..Len(executions), ExecuteCompleted(i) \/ ExecutionRaises(i)
      PROVE  UNCHANGED Authority!vars
  <2>1. /\ Len(executions') = Len(executions)
        /\ \A j \in 1..Len(executions) :
              /\ executions'[j].action = executions[j].action
              /\ executions'[j].token = executions[j].token
        /\ UNCHANGED <<tokens, now, issued>>
    BY <1>4, EndOfExecution
  <2>2. \A t : StandingOf(t)' = StandingOf(t)
    BY <2>1 DEF StandingOf, Executed
  <2>3. UNCHANGED Effects
    BY <2>1 DEF Effects
  <2>4. QED
    BY <2>1, <2>2, <2>3 DEF Authority!vars, Effects
<1>5. CASE Reset
  <2> DEFINE S == {t \in TokenId : StandingOf(t) = "live"}
  <2>1. DOMAIN tokens' = {} /\ UNCHANGED <<now, issued, executions>>
    BY <1>5 DEF Reset, EmptyMap
  <2>2. UNCHANGED <<GrantOf, Effects>>
    BY <2>1 DEF GrantOf, Effects
  <2>3. \A t \in TokenId :
           /\ StandingOf(t) = "live" => StandingOf(t)' = "void"
           /\ StandingOf(t) # "live" => StandingOf(t)' = StandingOf(t)
    BY <2>1 DEF StandingOf, Executed
  <2>4. /\ S \in SUBSET TokenId
        /\ \A t \in S : StandingOf(t) = "live" /\ StandingOf(t)' = "void"
        /\ \A t \in TokenId \ S : StandingOf(t)' = StandingOf(t)
    BY <2>3
  <2> HIDE DEF S
  <2>5. QED
    BY <2>2, <2>4, RevokingStep
<1>6. CASE Tick
  <2> DEFINE S == {t \in TokenId : StandingOf(t) = "live" /\ StandingOf(t)' = "void"}
  <2>1. now' = now + 1 /\ UNCHANGED <<tokens, issued, executions>>
    BY <1>6 DEF Tick
  <2>2. UNCHANGED <<GrantOf, Effects>>
    BY <2>1 DEF GrantOf, Effects
  <2>3. ASSUME NEW t \in TokenId, t \notin S PROVE StandingOf(t)' = StandingOf(t)
    <3>1. t \in DOMAIN tokens => tokens[t].expires_at \in Nat
      BY <1>0 DEF IsMap, EphemeralExecutionToken
    <3>2. QED
      BY <1>0, <2>1, <2>3, <3>1 DEF StandingOf, Executed
  <2>4. /\ S \in SUBSET TokenId
        /\ \A t \in S : StandingOf(t) = "live" /\ StandingOf(t)' = "void"
        /\ \A t \in TokenId \ S : StandingOf(t)' = StandingOf(t)
    BY <2>3
  <2> HIDE DEF S
  <2>5. QED
    BY <2>2, <2>4, RevokingStep
<1>7. QED
  BY <1>1, <1>2, <1>3, <1>4, <1>5, <1>6
     DEF Next, Preview, PreviewRaises, Approve, Deny, ExecuteWithoutPreview, ExecuteRefused,
         RefusalRaises, DemoAuditEvent, vars

\* The proxy's tokens implement one-shot authorities.
THEOREM ProxyImplementsAuthority == Spec => ImplementsAuthority
<1>1. Init => Authority!Init
  BY DEF Init, Authority!Init, EmptyMap, StandingOf
<1>2. QED
  BY <1>1, AuthorityStep, TypeCorrect, TokenInvariant, PTL
     DEF Spec, ImplementsAuthority, Authority!Spec
=============================================================================
