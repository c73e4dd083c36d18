----------------------------- MODULE RuntimeProofs -----------------------------
(***************************************************************************)
(* Proofs about RuntimeServices: the runtime gateway's answers and the     *)
(* GitHub executor's calls, for any gateways, nonces, executors, actions   *)
(* and bounds.                                                             *)
(***************************************************************************)
EXTENDS RuntimeServices, TLAPS

\* What Append does to a history: one more entry, the others as they were.
LEMMA Appended ==
    ASSUME NEW S, NEW s \in Seq(S), NEW e \in S
    PROVE  /\ Append(s, e) \in Seq(S)
           /\ Len(Append(s, e)) = Len(s) + 1
           /\ Append(s, e)[Len(s) + 1] = e
           /\ \A k \in 1..Len(s) : Append(s, e)[k] = s[k]
    OBVIOUS

(***************************************************************************)
(* Type correctness of the runtime gateway                                 *)
(***************************************************************************)
\* Issuing a token adds it and leaves the rest (transient_token_engine.py:14-33).
LEMMA IssuingIsTyped ==
    ASSUME TypeOK, NEW nonce \in TokenNonce, issue_token(nonce)
    PROVE  /\ RuntimeTypeOK'
           /\ Len(tokens') = Len(tokens) + 1
           /\ ~tokens'[Len(tokens) + 1].invalidated
           /\ \A k \in 1..Len(tokens) : tokens'[k] = tokens[k]
  <1> DEFINE t == [nonce |-> nonce, expires_at |-> now + TokenTTL, invalidated |-> FALSE]
  <1>1. t \in Token /\ t.invalidated = FALSE
    BY RuntimeBoundsAssumption DEF Token, TypeOK
  <1>2. tokens \in Seq(Token) /\ tokens' = Append(tokens, t)
    BY DEF TypeOK, RuntimeTypeOK, issue_token
  <1> HIDE DEF t
  <1>3. /\ tokens' \in Seq(Token) /\ Len(tokens') = Len(tokens) + 1
        /\ tokens'[Len(tokens) + 1] = t
        /\ \A k \in 1..Len(tokens) : tokens'[k] = tokens[k]
    BY <1>1, <1>2, Appended
  <1>4. 1..Len(tokens) \subseteq 1..Len(tokens')
    BY <1>2, <1>3
  <1>5. RuntimeTypeOK'
    BY <1>3, <1>4 DEF TypeOK, RuntimeTypeOK, issue_token
  <1> QED BY <1>1, <1>3, <1>5

\* The token of an admitted call was there (transient_token_engine.py:36-38).
LEMMA AdmittedIsIssued ==
    ASSUME NEW g, NEW t, Refusal(g, t) = "none"
    PROVE  /\ t \in 1..Len(tokens) /\ ~tokens[t].invalidated
           /\ ~(tokens[t].expires_at <= now)
           /\ tokens[t].nonce \notin nonces[g] /\ t \notin tokensUsed[g]
    BY DEF Refusal, validate_token

\* An admitted call marks its token, in the engine and in the caches, and adds an execution
\* (execution_gateway.py:42-55).
LEMMA AdmittingIsTyped ==
    ASSUME TypeOK, NEW g \in Gateway, NEW t, Admitted(g, t)
    PROVE  /\ RuntimeTypeOK'
           /\ Len(tokens') = Len(tokens)
           /\ \A k \in 1..Len(tokens) :
                /\ tokens'[k].nonce = tokens[k].nonce
                /\ tokens'[k].expires_at = tokens[k].expires_at
                /\ tokens'[k].invalidated = (tokens[k].invalidated \/ k = t)
           /\ Len(executions') = Len(executions) + 1
           /\ \A k \in 1..Len(executions) : executions'[k] = executions[k]
           /\ executions'[Len(executions) + 1].gateway = g
           /\ executions'[Len(executions) + 1].token = t
           /\ executions'[Len(executions) + 1].at = now
  <1>1. t \in 1..Len(tokens) /\ ~tokens[t].invalidated
    BY AdmittedIsIssued DEF Admitted
  <1>2. PICK status \in SubmitStatus :
          executions' = Append(executions,
            [gateway |-> g, token |-> t, at |-> now, submit_status |-> status])
    BY DEF Admitted, Submitted, SubmitStatus
  <1> DEFINE e == [gateway |-> g, token |-> t, at |-> now, submit_status |-> status]
  <1>3. e \in Execution /\ e.gateway = g /\ e.token = t /\ e.at = now
    BY <1>1, <1>2 DEF Execution, TypeOK
  <1>4. executions \in Seq(Execution) /\ executions' = Append(executions, e)
    BY <1>2 DEF TypeOK, RuntimeTypeOK
  <1> HIDE DEF e
  <1>5. /\ executions' \in Seq(Execution) /\ Len(executions') = Len(executions) + 1
        /\ executions'[Len(executions) + 1] = e
        /\ \A k \in 1..Len(executions) : executions'[k] = executions[k]
    BY <1>3, <1>4, Appended
  <1>6. /\ tokens \in Seq(Token) /\ tokens' = [tokens EXCEPT ![t].invalidated = TRUE]
        /\ tokens' = [tokens EXCEPT ![t] = [tokens[t] EXCEPT !.invalidated = TRUE]]
    BY DEF TypeOK, RuntimeTypeOK, Admitted
  <1>7. \A k \in 1..Len(tokens) : tokens[k] \in Token
    BY <1>6
  <1>8. [tokens[t] EXCEPT !.invalidated = TRUE] \in Token
    BY <1>1, <1>7 DEF Token
  <1>9. tokens' \in Seq(Token) /\ Len(tokens') = Len(tokens)
    BY <1>1, <1>6, <1>8
  <1>10. \A k \in 1..Len(tokens) :
           tokens'[k] = IF k = t THEN [tokens[t] EXCEPT !.invalidated = TRUE] ELSE tokens[k]
    BY <1>6
  <1>11. \A k \in 1..Len(tokens) :
           /\ tokens'[k].nonce = tokens[k].nonce
           /\ tokens'[k].expires_at = tokens[k].expires_at
           /\ tokens'[k].invalidated = (tokens[k].invalidated \/ k = t)
    BY <1>7, <1>10 DEF Token
  <1>12. tokens[t].nonce \in TokenNonce
    BY <1>1, <1>7 DEF Token
  <1>13. /\ nonces' \in [Gateway -> SUBSET TokenNonce]
         /\ tokensUsed' \in [Gateway -> SUBSET (1..Len(tokens'))]
    BY <1>1, <1>9, <1>12 DEF Admitted, TypeOK, RuntimeTypeOK
  <1>14. answer' \in Answer \cup {NoCall}
    BY <1>1 DEF Admitted, Answered, Answer, Reason
  <1>15. RuntimeTypeOK'
    BY <1>5, <1>9, <1>13, <1>14 DEF Admitted, TypeOK, RuntimeTypeOK
  <1> QED BY <1>3, <1>5, <1>9, <1>11, <1>15

\* A refused call changes the answer alone (execution_gateway.py:30-39).
LEMMA RefusingIsTyped ==
    ASSUME TypeOK, NEW g \in Gateway, NEW t \in 1..MaxTokens, Refused(g, t)
    PROVE  RuntimeTypeOK'
  <1>1. Refusal(g, t) \in Reason
    BY DEF Refusal, validate_token, Reason
  <1>2. answer' \in Answer
    BY <1>1, RuntimeBoundsAssumption DEF Refused, Answered, Answer
  <1> QED BY <1>2 DEF TypeOK, RuntimeTypeOK, Refused

(***************************************************************************)
(* The stores tell the executions                                          *)
(***************************************************************************)
\* What has been executed, by the length of the history.
LEMMA ExecutedMeans ==
    ASSUME TypeOK, NEW t
    PROVE  Executed(t) <=> \E k \in 1..Len(executions) : executions[k].token = t
  <1>1. Len(executions) \in Nat
    BY DEF TypeOK, RuntimeTypeOK
  <1>2. (Len(executions) + 1) - 1 = Len(executions)
    BY <1>1
  <1> QED BY <1>2 DEF Executed, ExecutedBefore

\* A new token is marked nowhere (transient_token_engine.py:14-33).
LEMMA IssuingKeepsStores ==
    ASSUME TypeOK, StoresTellExecutions, NEW nonce \in TokenNonce, issue_token(nonce)
    PROVE  StoresTellExecutions'
  <1>1. /\ Len(tokens') = Len(tokens) + 1
        /\ ~tokens'[Len(tokens) + 1].invalidated
        /\ \A k \in 1..Len(tokens) : tokens'[k] = tokens[k]
    BY IssuingIsTyped
  <1>2. UNCHANGED <<nonces, tokensUsed, executions, answer>>
    BY DEF issue_token
  <1>3. /\ Len(tokens) \in Nat /\ tokensUsed \in [Gateway -> SUBSET (1..Len(tokens))]
        /\ Len(executions) \in Nat
    BY DEF TypeOK, RuntimeTypeOK
  <1>4. 1..Len(tokens) \subseteq 1..Len(tokens')
    BY <1>1, <1>3
  <1>5. \A k \in 1..Len(executions) : executions[k].token \in 1..Len(tokens)
    BY DEF StoresTellExecutions
  <1>6. \A k \in 1..Len(executions) :
          tokens'[executions[k].token] = tokens[executions[k].token]
    BY <1>1, <1>5
  <1>7. \A k \in 1..Len(executions') :
          LET e == executions'[k]
          IN /\ e.token \in 1..Len(tokens') /\ tokens'[e.token].invalidated
             /\ tokens'[e.token].nonce \in nonces'[e.gateway]
    BY <1>2, <1>4, <1>5, <1>6 DEF StoresTellExecutions
  <1>8. ASSUME NEW t \in 1..Len(tokens'), tokens'[t].invalidated
        PROVE  Executed(t)'
    <2>1. t \in 1..Len(tokens)
      BY <1>1, <1>3, <1>8
    <2>2. tokens[t].invalidated
      BY <1>1, <1>8, <2>1
    <2> QED BY <1>2, <2>1, <2>2 DEF StoresTellExecutions, Executed, ExecutedBefore
  <1>9. \A g \in Gateway : \A n \in nonces'[g] : \E k \in 1..Len(executions') :
          executions'[k].gateway = g /\ tokens'[executions'[k].token].nonce = n
    <2>1. \A g \in Gateway : \A n \in nonces[g] : \E k \in 1..Len(executions) :
            executions[k].gateway = g /\ tokens[executions[k].token].nonce = n
      BY DEF StoresTellExecutions
    <2>2. nonces' = nonces /\ executions' = executions
      BY <1>2
    <2> QED BY <1>6, <2>1, <2>2
  <1>10. \A g \in Gateway : \A t \in tokensUsed'[g] : tokens'[t].invalidated
    <2>1. \A g \in Gateway : \A t \in tokensUsed[g] : t \in 1..Len(tokens)
      BY <1>3
    <2> QED BY <1>1, <1>2, <2>1 DEF StoresTellExecutions
  <1>11. answer' # NoCall =>
           \/ answer'.token \in 1..Len(tokens')
           \/ answer'.decision = "BLOCKED" /\ answer'.reason = "token_not_found"
    BY <1>2, <1>4 DEF StoresTellExecutions
  <1> QED BY <1>7, <1>8, <1>9, <1>10, <1>11 DEF StoresTellExecutions

\* An admitted call marks its token and adds the execution, both (execution_gateway.py:42-55).
LEMMA AdmittingKeepsStores ==
    ASSUME TypeOK, StoresTellExecutions, NEW g \in Gateway, NEW t, Admitted(g, t)
    PROVE  StoresTellExecutions'
  <1> DEFINE n == Len(executions)
  <1>1. /\ RuntimeTypeOK'
        /\ Len(tokens') = Len(tokens)
        /\ \A k \in 1..Len(tokens) :
             /\ tokens'[k].nonce = tokens[k].nonce
             /\ tokens'[k].invalidated = (tokens[k].invalidated \/ k = t)
        /\ Len(executions') = n + 1
        /\ \A k \in 1..n : executions'[k] = executions[k]
        /\ executions'[n + 1].gateway = g /\ executions'[n + 1].token = t
    BY AdmittingIsTyped
  <1>2. t \in 1..Len(tokens)
    BY AdmittedIsIssued DEF Admitted
  <1>3. /\ nonces' = [nonces EXCEPT ![g] = @ \cup {tokens[t].nonce}]
        /\ tokensUsed' = [tokensUsed EXCEPT ![g] = @ \cup {t}]
        /\ answer'.token = t
    BY DEF Admitted, Answered
  <1>4. /\ n \in Nat /\ nonces \in [Gateway -> SUBSET TokenNonce]
        /\ tokensUsed \in [Gateway -> SUBSET (1..Len(tokens))]
        /\ \A k \in 1..n : executions[k].gateway \in Gateway
    <2>1. executions \in Seq(Execution)
      BY DEF TypeOK, RuntimeTypeOK
    <2>2. \A k \in 1..n : executions[k] \in Execution
      BY <2>1
    <2>3. n \in Nat
      BY <2>1
    <2> HIDE DEF n
    <2> QED BY <2>2, <2>3 DEF TypeOK, RuntimeTypeOK, Execution
  <1>5. \A h \in Gateway :
          nonces'[h] = IF h = g THEN nonces[g] \cup {tokens[t].nonce} ELSE nonces[h]
    BY <1>3, <1>4
  <1>6. \A h \in Gateway : tokensUsed'[h] = IF h = g THEN tokensUsed[g] \cup {t} ELSE tokensUsed[h]
    BY <1>3, <1>4
  <1>7. \A k \in 1..n :
          /\ executions[k].token \in 1..Len(tokens)
          /\ tokens[executions[k].token].invalidated
          /\ tokens[executions[k].token].nonce \in nonces[executions[k].gateway]
    BY DEF StoresTellExecutions
  <1> HIDE DEF n
  <1>m. /\ \A k \in 1..Len(tokens) : tokens[k].invalidated => tokens'[k].invalidated
        /\ tokens'[t].invalidated
    BY <1>1, <1>2
  <1>8. ASSUME NEW k \in 1..n + 1
        PROVE  LET e == executions'[k]
               IN /\ e.token \in 1..Len(tokens') /\ tokens'[e.token].invalidated
                  /\ tokens'[e.token].nonce \in nonces'[e.gateway]
    <2>1. CASE k = n + 1
      BY <1>1, <1>2, <1>5, <2>1
    <2>2. CASE k \in 1..n
      <3>1. executions'[k] = executions[k] /\ executions[k].gateway \in Gateway
        BY <1>1, <1>4, <2>2
      <3>2. /\ executions[k].token \in 1..Len(tokens)
            /\ tokens[executions[k].token].invalidated
            /\ tokens[executions[k].token].nonce \in nonces[executions[k].gateway]
        BY <1>7, <2>2
      <3>3. tokens[executions[k].token].nonce \in nonces'[executions[k].gateway]
        BY <1>5, <3>1, <3>2
      <3> QED BY <1>1, <1>m, <3>1, <3>2, <3>3
    <2> QED BY <1>4, <1>8, <2>1, <2>2
  <1>9. \A u : Executed(u)' <=> \E k \in 1..n + 1 : executions'[k].token = u
    <2>1. (Len(executions') + 1) - 1 = n + 1
      BY <1>1, <1>4
    <2> QED BY <2>1 DEF Executed, ExecutedBefore
  <1>10. \A u : Executed(u) <=> \E k \in 1..n : executions[k].token = u
    BY ExecutedMeans DEF n
  <1>11. ASSUME NEW u \in 1..Len(tokens'), tokens'[u].invalidated
         PROVE  Executed(u)'
    <2>1. CASE u = t
      BY <1>1, <1>4, <1>9, <2>1
    <2>2. CASE u # t
      <3>1. tokens[u].invalidated
        BY <1>1, <1>11, <2>2
      <3>2. Executed(u)
        BY <1>1, <3>1 DEF StoresTellExecutions
      <3> QED BY <1>1, <1>4, <1>9, <1>10, <3>2
    <2> QED BY <2>1, <2>2
  <1>12. ASSUME NEW h \in Gateway, NEW x \in nonces'[h]
         PROVE  \E k \in 1..n + 1 :
                  executions'[k].gateway = h /\ tokens'[executions'[k].token].nonce = x
    <2>1. CASE h = g /\ x = tokens[t].nonce
      <3>1. n + 1 \in 1..n + 1
        BY <1>4
      <3>2. executions'[n + 1].gateway = h /\ tokens'[executions'[n + 1].token].nonce = x
        BY <1>1, <1>2, <2>1
      <3> QED BY <3>1, <3>2
    <2>2. CASE x \in nonces[h]
      <3>1. PICK k \in 1..n : executions[k].gateway = h /\ tokens[executions[k].token].nonce = x
        BY <2>2 DEF StoresTellExecutions, n
      <3>2. k \in 1..n + 1
        BY <1>4
      <3>3. executions'[k] = executions[k] /\ executions[k].token \in 1..Len(tokens)
        BY <1>1, <1>7
      <3> QED BY <1>1, <3>1, <3>2, <3>3
    <2> QED BY <1>5, <1>12, <2>1, <2>2
  <1>13. \A h \in Gateway : \A u \in tokensUsed'[h] : tokens'[u].invalidated
    <2>1. \A h \in Gateway : \A u \in tokensUsed[h] :
            u \in 1..Len(tokens) /\ tokens[u].invalidated
      BY <1>4 DEF StoresTellExecutions
    <2> QED BY <1>2, <1>m, <1>6, <2>1
  <1>14. answer'.token \in 1..Len(tokens')
    BY <1>1, <1>2, <1>3
  <1> QED BY <1>1, <1>8, <1>11, <1>12, <1>13, <1>14 DEF StoresTellExecutions

\* A refused call marks nothing (execution_gateway.py:30-39).
LEMMA RefusingKeepsStores ==
    ASSUME TypeOK, StoresTellExecutions, NEW g \in Gateway, NEW t, Refused(g, t)
    PROVE  StoresTellExecutions'
  <1>1. UNCHANGED <<tokens, nonces, tokensUsed, executions>>
    BY DEF Refused
  <1>2. \/ answer'.token \in 1..Len(tokens')
        \/ answer'.decision = "BLOCKED" /\ answer'.reason = "token_not_found"
    BY <1>1 DEF Refused, Answered, Refusal, validate_token
  <1>3. \A u : Executed(u)' <=> Executed(u)
    BY <1>1 DEF Executed, ExecutedBefore
  <1> QED BY <1>1, <1>2, <1>3 DEF StoresTellExecutions

(***************************************************************************)
(* The answers are true                                                    *)
(***************************************************************************)
\* A new token changes nothing that an earlier answer was about
\* (transient_token_engine.py:14-33).
LEMMA IssuingKeepsAnswers ==
    ASSUME TypeOK, StoresTellExecutions, AnswersAreTrue,
           NEW nonce \in TokenNonce, issue_token(nonce), UNCHANGED now
    PROVE  AnswersAreTrue'
  <1> SUFFICES ASSUME answer' # NoCall
               PROVE  AnswersAreTrue'
    BY DEF AnswersAreTrue
  <1>1. UNCHANGED <<executions, answer, now>>
    BY DEF issue_token
  <1>2. \A k \in 1..Len(tokens) : tokens'[k] = tokens[k]
    BY IssuingIsTyped
  <1>3. \A u : Executed(u)' <=> Executed(u)
    BY <1>1 DEF Executed, ExecutedBefore
  <1>4. Len(executions) \in Nat
    BY DEF TypeOK, RuntimeTypeOK
  <1>5. ASSUME NEW n \in 1..Len(executions) + 1, NEW u \in 1..Len(tokens), NEW g
        PROVE  NonceSpentBefore(n, g, u)' <=> NonceSpentBefore(n, g, u)
    <2>1. \A k \in 1..n - 1 : k \in 1..Len(executions)
      BY <1>4
    <2>2. \A k \in 1..n - 1 : tokens'[executions[k].token] = tokens[executions[k].token]
      BY <1>2, <2>1 DEF StoresTellExecutions
    <2>3. tokens'[u] = tokens[u]
      BY <1>2
    <2> QED BY <1>1, <2>2, <2>3 DEF NonceSpentBefore
  <1>6. CASE answer.token \in 1..Len(tokens)
    <2>1. tokens'[answer.token] = tokens[answer.token]
      BY <1>2, <1>6
    <2>2. Len(executions) > 0 => Len(executions) \in 1..Len(executions) + 1
      BY <1>4
    <2>3. Len(executions) + 1 \in 1..Len(executions) + 1
      BY <1>4
    <2>4. Len(executions) > 0 =>
            (NonceSpentBefore(Len(executions), answer.gateway, answer.token)'
               <=> NonceSpentBefore(Len(executions), answer.gateway, answer.token))
      BY <1>1, <1>5, <1>6, <2>2
    <2>5. NonceSpentBefore(Len(executions) + 1, answer.gateway, answer.token)'
            <=> NonceSpentBefore(Len(executions) + 1, answer.gateway, answer.token)
      BY <1>1, <1>5, <1>6, <2>3
    <2>6. ExecutedBefore(Len(executions), answer.token)'
            <=> ExecutedBefore(Len(executions), answer.token)
      BY <1>1 DEF ExecutedBefore
    <2> QED BY <1>1, <1>3, <2>1, <2>4, <2>5, <2>6 DEF AnswersAreTrue
  <1>7. CASE answer.decision = "BLOCKED" /\ answer.reason = "token_not_found"
    BY <1>1, <1>3, <1>7 DEF AnswersAreTrue
  <1> QED BY <1>1, <1>6, <1>7 DEF StoresTellExecutions

\* An admitted call is the first of its token, and of its nonce at the gateway: an earlier one
\* would have left its marks (execution_gateway.py:28-50).
LEMMA AdmittingAnswersTruly ==
    ASSUME TypeOK, StoresTellExecutions, NEW g \in Gateway, NEW t, Admitted(g, t), UNCHANGED now
    PROVE  AnswersAreTrue'
  <1> DEFINE n == Len(executions)
  <1>1. /\ Len(tokens') = Len(tokens)
        /\ \A k \in 1..Len(tokens) : /\ tokens'[k].nonce = tokens[k].nonce
                                     /\ tokens'[k].expires_at = tokens[k].expires_at
        /\ Len(executions') = n + 1
        /\ \A k \in 1..n : executions'[k] = executions[k]
        /\ executions'[n + 1].gateway = g /\ executions'[n + 1].token = t
        /\ executions'[n + 1].at = now
    BY AdmittingIsTyped
  <1>2. /\ t \in 1..Len(tokens) /\ ~tokens[t].invalidated
        /\ ~(tokens[t].expires_at <= now)
        /\ tokens[t].nonce \notin nonces[g]
    BY AdmittedIsIssued DEF Admitted
  <1>3. /\ answer'.gateway = g /\ answer'.token = t
        /\ answer'.decision = "APPROVED" /\ answer'.reason = "none"
    BY DEF Admitted, Answered
  <1>4. n \in Nat /\ (n + 1) - 1 = n
    BY DEF TypeOK, RuntimeTypeOK
  <1>5. now \in Int /\ tokens[t].expires_at \in Int
    <2>1. tokens \in Seq(Token)
      BY DEF TypeOK, RuntimeTypeOK
    <2>2. tokens[t] \in Token
      BY <1>2, <2>1
    <2> QED BY <2>2 DEF Token, TypeOK
  <1>6. \A k \in 1..n : /\ executions[k].token \in 1..Len(tokens)
                        /\ tokens[executions[k].token].invalidated
                        /\ tokens[executions[k].token].nonce \in nonces[executions[k].gateway]
    BY DEF StoresTellExecutions
  <1> HIDE DEF n
  <1>7. executions'[n + 1].at < tokens'[t].expires_at
    BY <1>1, <1>2, <1>5
  <1>8. \A k \in 1..n : executions'[k].token # t
    BY <1>1, <1>2, <1>6
  <1>9. \A k \in 1..n :
          ~(executions'[k].gateway = g /\ tokens'[executions'[k].token].nonce = tokens'[t].nonce)
    BY <1>1, <1>2, <1>6
  <1>10. Len(executions') - 1 = n
    BY <1>1, <1>4
  <1>12. n + 1 > 0
    BY <1>4
  <1>13. /\ Len(executions') > 0
         /\ executions'[Len(executions')].gateway = answer'.gateway
         /\ executions'[Len(executions')].token = answer'.token
         /\ executions'[Len(executions')].at < tokens'[answer'.token].expires_at
    BY <1>1, <1>3, <1>7, <1>12
  <1>14. /\ ~ExecutedBefore(Len(executions), answer.token)'
         /\ ~NonceSpentBefore(Len(executions), answer.gateway, answer.token)'
    <2>1. ~ExecutedBefore(Len(executions), answer.token)'
      BY <1>3, <1>8, <1>10 DEF ExecutedBefore
    <2>2. ~NonceSpentBefore(Len(executions), answer.gateway, answer.token)'
      BY <1>3, <1>9, <1>10 DEF NonceSpentBefore
    <2> QED BY <2>1, <2>2
  <1> QED BY <1>3, <1>13, <1>14 DEF AnswersAreTrue

\* A refused call reads the marks, and they tell the executions (execution_gateway.py:30-39).
LEMMA RefusingAnswersTruly ==
    ASSUME TypeOK, StoresTellExecutions, NEW g \in Gateway, NEW t, Refused(g, t), UNCHANGED now
    PROVE  AnswersAreTrue'
  <1>1. UNCHANGED <<tokens, executions, now>>
    BY DEF Refused
  <1>2. /\ answer'.gateway = g /\ answer'.token = t
        /\ answer'.decision = "BLOCKED" /\ answer'.reason = Refusal(g, t)
        /\ Refusal(g, t) # "none"
    BY DEF Refused, Answered
  <1>3. Executed(t) <=> \E k \in 1..Len(executions) : executions[k].token = t
    BY ExecutedMeans
  <1>4. Executed(t) => t \in 1..Len(tokens) /\ tokens[t].invalidated
    BY <1>3 DEF StoresTellExecutions
  <1>5. t \in tokensUsed[g] => t \in 1..Len(tokens) /\ tokens[t].invalidated
    BY DEF StoresTellExecutions, TypeOK, RuntimeTypeOK
  <1>6. t \in 1..Len(tokens) /\ tokens[t].invalidated => Executed(t)
    BY DEF StoresTellExecutions
  <1>7. Executed(t) <=> Refusal(g, t) = "replay_attack_detected"
    BY <1>4, <1>5, <1>6 DEF Refusal, validate_token
  <1>8. Refusal(g, t) = "expired_token" => tokens[t].expires_at <= now
    BY DEF Refusal, validate_token
  <1>9. ASSUME Refusal(g, t) = "duplicate_nonce"
        PROVE  NonceSpentBefore(Len(executions) + 1, g, t)
    <2>1. tokens[t].nonce \in nonces[g]
      BY <1>9 DEF Refusal, validate_token
    <2>2. PICK k \in 1..Len(executions) :
            executions[k].gateway = g /\ tokens[executions[k].token].nonce = tokens[t].nonce
      BY <2>1 DEF StoresTellExecutions
    <2>3. executions[k].token # t
      BY <1>3, <1>7, <1>9
    <2>4. Len(executions) \in Nat
      BY DEF TypeOK, RuntimeTypeOK
    <2>5. k \in 1..(Len(executions) + 1) - 1
      BY <2>4
    <2> QED BY <2>2, <2>3, <2>5 DEF NonceSpentBefore
  <1>10. /\ Executed(t)' <=> Executed(t)
         /\ NonceSpentBefore(Len(executions) + 1, g, t)'
              <=> NonceSpentBefore(Len(executions) + 1, g, t)
    BY <1>1 DEF Executed, ExecutedBefore, NonceSpentBefore
  <1>11. answer'.decision = "BLOCKED" =>
           (Executed(answer.token)' <=> answer'.reason = "replay_attack_detected")
    BY <1>2, <1>7, <1>10 DEF Executed, ExecutedBefore
  <1>12. answer'.reason = "duplicate_nonce" =>
           NonceSpentBefore(Len(executions) + 1, answer.gateway, answer.token)'
    BY <1>2, <1>9, <1>10 DEF NonceSpentBefore
  <1>13. answer'.reason = "expired_token" => tokens'[answer'.token].expires_at <= now'
    BY <1>1, <1>2, <1>8
  <1>14. answer'.decision # "APPROVED"
    BY <1>2
  <1> QED BY <1>11, <1>12, <1>13, <1>14 DEF AnswersAreTrue

(***************************************************************************)
(* The GitHub executor                                                     *)
(***************************************************************************)
\* What keeps the invariant of the executor when nothing is sent: the tokens only get more,
\* and no log gets an entry that calls something executed (executor.py:33-66, 70-87, 95-119).
LEMMA NothingSent ==
    ASSUME CallsAreAuthorised, calls' = calls,
           1..Len(minted) \subseteq 1..Len(minted'),
           \A j \in 1..Len(minted) : minted'[j] = minted[j],
           \A r \in Repo :
              \/ audit_log'[r] = audit_log[r]
              \/ audit_log'[r].final_result # "EXECUTED IN SANDBOX"
    PROVE  CallsAreAuthorised'
  <1>1. ASSUME NEW k \in 1..Len(calls)
        PROVE  CallIsAuthorised(calls[k])'
    <2>1. CallIsAuthorised(calls[k])
      BY DEF CallsAreAuthorised
    <2>2. PICK j \in 1..Len(minted) :
            /\ minted[j].allowed_action = calls[k].action /\ minted[j].repo = calls[k].repo
            /\ calls[k].at \in minted[j].expires_at - GitHubTTL .. minted[j].expires_at
      BY <2>1 DEF CallIsAuthorised
    <2>3. j \in 1..Len(minted') /\ minted'[j] = minted[j]
      BY <2>2
    <2>4. evaluate_github_action(calls[k].action)' = evaluate_github_action(calls[k].action)
      BY DEF evaluate_github_action
    <2> QED BY <2>1, <2>2, <2>3, <2>4 DEF CallIsAuthorised
  <1>2. ASSUME NEW r \in Repo
        PROVE  EntryIsTrue(r)'
    <2>1. EntryIsTrue(r)
      BY DEF CallsAreAuthorised
    <2> QED BY <2>1 DEF EntryIsTrue
  <1> QED BY <1>1, <1>2 DEF CallsAreAuthorised

\* An entry of the log is its executor's alone.
LEMMA Logging ==
    ASSUME TypeOK, NEW r \in Repo, NEW a \in Intent, NEW result \in FinalResult,
           Logged(r, a, result)
    PROVE  /\ audit_log' \in [Repo -> [action : Intent, final_result : FinalResult] \cup {NoEntry}]
           /\ audit_log'[r].action = a /\ audit_log'[r].final_result = result
           /\ \A q \in Repo : q # r => audit_log'[q] = audit_log[q]
  <1> DEFINE e == [action |-> a, final_result |-> result]
  <1>1. /\ e \in [action : Intent, final_result : FinalResult]
        /\ e.action = a /\ e.final_result = result
    OBVIOUS
  <1>2. /\ audit_log \in [Repo -> [action : Intent, final_result : FinalResult] \cup {NoEntry}]
        /\ audit_log' = [audit_log EXCEPT ![r] = e]
    BY DEF TypeOK, GitHubTypeOK, Logged
  <1> HIDE DEF e
  <1>3. /\ audit_log' \in [Repo -> [action : Intent, final_result : FinalResult] \cup {NoEntry}]
        /\ audit_log'[r] = e
        /\ \A q \in Repo : q # r => audit_log'[q] = audit_log[q]
    BY <1>1, <1>2
  <1> QED BY <1>1, <1>3

\* A token is minted for what the policy allows, or the refusal is logged (executor.py:33-66).
LEMMA MintingKeeps ==
    ASSUME TypeOK, MintedInTime, CallsAreAuthorised, UNCHANGED now,
           NEW r \in Repo, NEW a \in Intent, evaluate_and_mint_token(r, a)
    PROVE  GitHubTypeOK' /\ MintedInTime' /\ CallsAreAuthorised'
  <1>1. CASE UNCHANGED minted /\ UNCHANGED calls /\ Logged(r, a, "BLOCKED BEFORE EXECUTION")
    <2>1. /\ audit_log' \in [Repo -> [action : Intent, final_result : FinalResult] \cup {NoEntry}]
          /\ audit_log'[r].final_result = "BLOCKED BEFORE EXECUTION"
          /\ \A q \in Repo : q # r => audit_log'[q] = audit_log[q]
      BY <1>1, Logging DEF FinalResult
    <2>2. \A q \in Repo : \/ audit_log'[q] = audit_log[q]
                          \/ audit_log'[q].final_result # "EXECUTED IN SANDBOX"
      BY <2>1
    <2>3. minted' = minted /\ calls' = calls
      BY <1>1
    <2>4. CallsAreAuthorised'
      BY <2>2, <2>3, NothingSent
    <2>5. MintedInTime'
      BY <1>1 DEF MintedInTime
    <2> QED BY <1>1, <2>1, <2>4, <2>5 DEF TypeOK, GitHubTypeOK
  <1>2. CASE /\ UNCHANGED calls /\ UNCHANGED audit_log
             /\ minted' = Append(minted,
                  [allowed_action |-> a, repo |-> r, expires_at |-> now + GitHubTTL])
    <2> DEFINE t == [allowed_action |-> a, repo |-> r, expires_at |-> now + GitHubTTL]
    <2>1. t \in Payload /\ t.expires_at = now + GitHubTTL
      BY GitHubBoundsAssumption DEF Payload, TypeOK
    <2>2. minted \in Seq(Payload) /\ minted' = Append(minted, t) /\ now \in Nat /\ GitHubTTL \in Nat
      BY <1>2, GitHubBoundsAssumption DEF TypeOK, GitHubTypeOK
    <2> HIDE DEF t
    <2>3. /\ minted' \in Seq(Payload) /\ Len(minted') = Len(minted) + 1
          /\ minted'[Len(minted) + 1] = t
          /\ \A k \in 1..Len(minted) : minted'[k] = minted[k]
      BY <2>1, <2>2, Appended
    <2>4. Len(minted) \in Nat
      BY <2>2
    <2>m. 1..Len(minted) \subseteq 1..Len(minted')
      BY <2>3, <2>4
    <2>l. calls' = calls /\ \A q \in Repo : audit_log'[q] = audit_log[q]
      BY <1>2
    <2>k. \A k \in 1..Len(minted) : minted'[k] = minted[k]
      BY <2>3
    <2>5. CallsAreAuthorised'
      BY <2>k, <2>l, <2>m, NothingSent
    <2>6. ASSUME NEW j \in 1..Len(minted')
          PROVE  minted'[j].expires_at <= now' + GitHubTTL
      <3>1. CASE j = Len(minted) + 1
        BY <2>1, <2>2, <2>3, <3>1
      <3>2. CASE j \in 1..Len(minted)
        BY <2>3, <3>2 DEF MintedInTime
      <3> QED BY <2>3, <2>4, <2>6, <3>1, <3>2
    <2>7. MintedInTime'
      BY <2>6 DEF MintedInTime
    <2> QED BY <1>2, <2>3, <2>5, <2>7 DEF TypeOK, GitHubTypeOK
  <1> QED BY <1>1, <1>2 DEF evaluate_and_mint_token

\* What is not sent leaves a log entry that says so, or none (executor.py:70-87, 95-119).
LEMMA BlockingKeeps ==
    ASSUME TypeOK, MintedInTime, CallsAreAuthorised, UNCHANGED now,
           NEW r \in Repo, NEW a \in Intent, Rejected(r, a) \/ Unsupported(r, a) \/ NotSent(r, a)
    PROVE  GitHubTypeOK' /\ MintedInTime' /\ CallsAreAuthorised'
  <1>1. UNCHANGED minted /\ UNCHANGED calls
    BY DEF Rejected, Unsupported, NotSent, githubVars
  <1>2. \/ UNCHANGED audit_log
        \/ \E result \in FinalResult \ {"EXECUTED IN SANDBOX"} : Logged(r, a, result)
    BY DEF Rejected, Unsupported, NotSent, githubVars, FinalResult
  <1>3. /\ audit_log' \in [Repo -> [action : Intent, final_result : FinalResult] \cup {NoEntry}]
        /\ \A q \in Repo : \/ audit_log'[q] = audit_log[q]
                           \/ audit_log'[q].final_result # "EXECUTED IN SANDBOX"
    <2>1. CASE UNCHANGED audit_log
      BY <2>1 DEF TypeOK, GitHubTypeOK
    <2>2. ASSUME NEW result \in FinalResult \ {"EXECUTED IN SANDBOX"}, Logged(r, a, result)
          PROVE  /\ audit_log' \in [Repo -> [action : Intent, final_result : FinalResult] \cup {NoEntry}]
                 /\ \A q \in Repo : \/ audit_log'[q] = audit_log[q]
                                    \/ audit_log'[q].final_result # "EXECUTED IN SANDBOX"
      <3>0. result \in FinalResult /\ Logged(r, a, result)
        BY <2>2
      <3>1. /\ audit_log' \in [Repo -> [action : Intent, final_result : FinalResult] \cup {NoEntry}]
            /\ audit_log'[r].final_result = result
            /\ \A q \in Repo : q # r => audit_log'[q] = audit_log[q]
        BY <3>0, Logging
      <3>2. audit_log'[r].final_result # "EXECUTED IN SANDBOX"
        BY <2>2, <3>1
      <3> QED BY <3>1, <3>2
    <2> QED BY <1>2, <2>1, <2>2
  <1>4. minted' = minted /\ calls' = calls
    BY <1>1
  <1>5. CallsAreAuthorised'
    BY <1>3, <1>4, NothingSent
  <1>6. MintedInTime'
    BY <1>1 DEF MintedInTime
  <1> QED BY <1>1, <1>3, <1>5, <1>6 DEF TypeOK, GitHubTypeOK

\* A request that GitHub receives, and the entry of the log, if there is one (Sent).
Received(r, a) ==
    /\ calls' = Append(calls, [action |-> a, repo |-> r, at |-> now])
    /\ \/ Logged(r, a, "EXECUTED IN SANDBOX") \/ Logged(r, a, "SAFE MOCK EXECUTED")
       \/ UNCHANGED audit_log

\* What GitHub receives is under the token that has just been checked (executor.py:89-94 and
\* 129-146, client.py:38-52).
LEMMA ReceivingKeeps ==
    ASSUME TypeOK, MintedInTime, CallsAreAuthorised, NEW r \in Repo, NEW a \in Intent,
           NEW payload, NEW j \in 1..Len(minted), _validate_token(r, a, payload, j),
           Sent(r, a), Received(r, a)
    PROVE  GitHubTypeOK' /\ CallsAreAuthorised'
  <1> DEFINE c == [action |-> a, repo |-> r, at |-> now]
             n == Len(calls)
  <1>1. c \in Call /\ c.action = a /\ c.repo = r /\ c.at = now
    BY DEF Call, TypeOK
  <1>2. calls \in Seq(Call) /\ calls' = Append(calls, c)
    BY DEF TypeOK, GitHubTypeOK, Received
  <1> HIDE DEF c
  <1>3. /\ calls' \in Seq(Call) /\ Len(calls') = n + 1 /\ calls'[n + 1] = c
        /\ \A k \in 1..n : calls'[k] = calls[k]
    BY <1>1, <1>2, Appended
  <1>4. n \in Nat
    BY <1>2
  <1> HIDE DEF n
  <1>5. /\ now \in Int /\ minted[j].expires_at \in Int /\ GitHubTTL \in Int
        /\ minted[j].expires_at <= now + GitHubTTL
    <2>1. minted \in Seq(Payload) /\ now \in Nat
      BY DEF TypeOK, GitHubTypeOK
    <2>2. minted[j] \in Payload
      BY <2>1
    <2> QED BY <2>1, <2>2, GitHubBoundsAssumption DEF Payload, MintedInTime
  <1>6. CallIsAuthorised(c)
    <2>1. evaluate_github_action(a) = "ALLOW" /\ r \in Sandbox
      BY DEF evaluate_github_action, HasCall, Allowed, Sent
    <2>3. /\ minted[j].allowed_action = a /\ minted[j].repo = r
          /\ minted[j].expires_at >= now
      BY DEF _validate_token, Signed
    <2>2. now \in minted[j].expires_at - GitHubTTL .. minted[j].expires_at
      BY <1>5, <2>3
    <2> QED BY <1>1, <2>1, <2>2, <2>3 DEF CallIsAuthorised
  <1>8. ASSUME NEW k \in 1..n + 1
        PROVE  CallIsAuthorised(calls[k])'
    <2>1. CallIsAuthorised(calls'[k])
      <3>1. CASE k = n + 1
        BY <1>3, <1>6, <3>1
      <3>2. CASE k \in 1..n
        BY <1>3, <3>2 DEF CallsAreAuthorised, n
      <3> QED BY <1>4, <1>8, <3>1, <3>2
    <2>2. minted' = minted
      BY DEF Sent
    <2> QED BY <2>1, <2>2 DEF CallIsAuthorised, evaluate_github_action
  <1>10. /\ audit_log' \in [Repo -> [action : Intent, final_result : FinalResult] \cup {NoEntry}]
         /\ \A q \in Repo : q # r => audit_log'[q] = audit_log[q]
         /\ audit_log'[r] = audit_log[r] \/ audit_log'[r].action = a
    <2>1. CASE Logged(r, a, "EXECUTED IN SANDBOX")
      <3>1. "EXECUTED IN SANDBOX" \in FinalResult
        BY DEF FinalResult
      <3> QED BY <2>1, <3>1, Logging
    <2>2. CASE Logged(r, a, "SAFE MOCK EXECUTED")
      <3>1. "SAFE MOCK EXECUTED" \in FinalResult
        BY DEF FinalResult
      <3> QED BY <2>2, <3>1, Logging
    <2>3. CASE UNCHANGED audit_log
      BY <2>3 DEF TypeOK, GitHubTypeOK
    <2> QED BY <2>1, <2>2, <2>3 DEF Received
  <1>11. 1..n \subseteq 1..n + 1 /\ n + 1 \in 1..n + 1
    BY <1>4
  <1>12. ASSUME NEW q \in Repo
         PROVE  EntryIsTrue(q)'
    <2>1. CASE audit_log'[q] = audit_log[q]
      <3>1. EntryIsTrue(q)
        BY DEF CallsAreAuthorised
      <3> QED BY <1>3, <1>11, <2>1, <3>1 DEF EntryIsTrue, n
    <2>2. CASE q = r /\ audit_log'[r].action = a
      BY <1>1, <1>3, <1>11, <2>2 DEF EntryIsTrue
    <2> QED BY <1>10, <2>1, <2>2
  <1>13. CallsAreAuthorised'
    BY <1>3, <1>8, <1>12 DEF CallsAreAuthorised
  <1>14. GitHubTypeOK'
    BY <1>3, <1>10 DEF TypeOK, GitHubTypeOK, Sent
  <1> QED BY <1>13, <1>14

\* A call of the executor, whatever token is presented (executor.py:68-127).
LEMMA ExecutingKeeps ==
    ASSUME TypeOK, MintedInTime, CallsAreAuthorised, UNCHANGED now,
           NEW r \in Repo, NEW a \in Intent, NEW payload, NEW j \in 1..Len(minted),
           githubExecute(r, a, payload, j)
    PROVE  GitHubTypeOK' /\ MintedInTime' /\ CallsAreAuthorised'
  <1>1. CASE Rejected(r, a) \/ Unsupported(r, a) \/ NotSent(r, a)
    BY <1>1, BlockingKeeps
  <1>2. CASE _validate_token(r, a, payload, j) /\ Sent(r, a)
    <2>2. minted' = minted
      BY <1>2 DEF Sent
    <2>3. MintedInTime'
      BY <2>2 DEF MintedInTime
    <2>4. CASE calls' = calls /\ Logged(r, a, "SAFE MOCK EXECUTED")
      <3>1. "SAFE MOCK EXECUTED" \in FinalResult
        BY DEF FinalResult
      <3>2. /\ audit_log' \in [Repo -> [action : Intent, final_result : FinalResult] \cup {NoEntry}]
            /\ audit_log'[r].final_result = "SAFE MOCK EXECUTED"
            /\ \A q \in Repo : q # r => audit_log'[q] = audit_log[q]
        BY <2>4, <3>1, Logging
      <3>3. \A q \in Repo : \/ audit_log'[q] = audit_log[q]
                           \/ audit_log'[q].final_result # "EXECUTED IN SANDBOX"
        BY <3>2
      <3>4. CallsAreAuthorised'
        BY <2>2, <2>4, <3>3, NothingSent
      <3> QED BY <2>2, <2>3, <2>4, <3>2, <3>4 DEF TypeOK, GitHubTypeOK
    <2>5. CASE Received(r, a)
      BY <1>2, <2>3, <2>5, ReceivingKeeps
    <2> QED BY <1>2, <2>4, <2>5 DEF Sent, Received
  <1> QED BY <1>1, <1>2 DEF githubExecute

(***************************************************************************)
(* The services                                                            *)
(***************************************************************************)
Invariants ==
    /\ TypeOK /\ StoresTellExecutions /\ AnswersAreTrue
    /\ MintedInTime /\ CallsAreAuthorised

\* Nothing has been issued, executed or sent.
LEMMA InitialServices == Init => Invariants
  <1> SUFFICES ASSUME Init
               PROVE  Invariants
    OBVIOUS
  <1>1. /\ now = 0 /\ service \in {"runtime", "github"} /\ live \in BOOLEAN
        /\ tokens = <<>> /\ executions = <<>> /\ answer = NoCall
        /\ nonces = [g \in Gateway |-> {}] /\ tokensUsed = [g \in Gateway |-> {}]
    BY DEF Init, ClockInit, RuntimeInit
  <1>2. minted = <<>> /\ calls = <<>> /\ audit_log = [r \in Repo |-> NoEntry]
    BY DEF Init, GitHubInit
  <1>3. TypeOK
    BY <1>1, <1>2 DEF TypeOK, RuntimeTypeOK, GitHubTypeOK
  <1>4. StoresTellExecutions /\ AnswersAreTrue
    BY <1>1 DEF StoresTellExecutions, AnswersAreTrue
  <1>5. MintedInTime /\ CallsAreAuthorised
    BY <1>2 DEF MintedInTime, CallsAreAuthorised, EntryIsTrue
  <1> QED BY <1>3, <1>4, <1>5 DEF Invariants

\* A call of the gateway leaves the executor alone.
LEMMA RuntimeKeeps == Invariants /\ RuntimeStep => Invariants'
  <1> SUFFICES ASSUME Invariants, RuntimeStep
               PROVE  Invariants'
    OBVIOUS
  <1>1. TypeOK /\ StoresTellExecutions /\ AnswersAreTrue /\ MintedInTime /\ CallsAreAuthorised
    BY DEF Invariants
  <1>2. UNCHANGED now /\ UNCHANGED service /\ UNCHANGED <<minted, calls, audit_log>>
    BY DEF RuntimeStep, githubVars
  <1>3. RuntimeTypeOK' /\ StoresTellExecutions' /\ AnswersAreTrue'
    <2>1. ASSUME NEW nonce \in Nonce \cup {Len(tokens) + 1}, issue_token(nonce)
          PROVE  RuntimeTypeOK' /\ StoresTellExecutions' /\ AnswersAreTrue'
      <3>1. nonce \in TokenNonce
        BY <1>1 DEF TokenNonce, TypeOK, RuntimeTypeOK
      <3> QED BY <1>1, <1>2, <2>1, <3>1, IssuingIsTyped, IssuingKeepsStores, IssuingKeepsAnswers
    <2>2. ASSUME NEW g \in Gateway, NEW t \in 1..MaxTokens, Refused(g, t)
          PROVE  RuntimeTypeOK' /\ StoresTellExecutions' /\ AnswersAreTrue'
      BY <1>1, <1>2, <2>2, RefusingIsTyped, RefusingKeepsStores, RefusingAnswersTruly
    <2>3. ASSUME NEW g \in Gateway, NEW t \in 1..MaxTokens, Admitted(g, t)
          PROVE  RuntimeTypeOK' /\ StoresTellExecutions' /\ AnswersAreTrue'
      BY <1>1, <1>2, <2>3, AdmittingIsTyped, AdmittingKeepsStores, AdmittingAnswersTruly
    <2> QED BY <2>1, <2>2, <2>3 DEF RuntimeStep, RuntimeNext, execute
  <1>4. GitHubTypeOK'
    BY <1>1, <1>2 DEF TypeOK, GitHubTypeOK
  <1>5. MintedInTime'
    BY <1>1, <1>2 DEF MintedInTime
  <1>6. CallsAreAuthorised'
    BY <1>1, <1>2, NothingSent
  <1>7. TypeOK'
    BY <1>1, <1>2, <1>3, <1>4 DEF TypeOK
  <1> QED BY <1>3, <1>5, <1>6, <1>7 DEF Invariants

\* A call of the executor leaves the gateway alone.
LEMMA GitHubKeeps == Invariants /\ GitHubStep => Invariants'
  <1> SUFFICES ASSUME Invariants, GitHubStep
               PROVE  Invariants'
    OBVIOUS
  <1>1. TypeOK /\ StoresTellExecutions /\ AnswersAreTrue /\ MintedInTime /\ CallsAreAuthorised
    BY DEF Invariants
  <1>2. UNCHANGED now /\ UNCHANGED service
        /\ UNCHANGED <<live, tokens, nonces, tokensUsed, executions, answer>>
    BY DEF GitHubStep, runtimeVars
  <1>3. GitHubTypeOK' /\ MintedInTime' /\ CallsAreAuthorised'
    <2>1. ASSUME NEW r \in Repo, NEW a \in Intent, evaluate_and_mint_token(r, a)
          PROVE  GitHubTypeOK' /\ MintedInTime' /\ CallsAreAuthorised'
      BY <1>1, <1>2, <2>1, MintingKeeps
    <2>2. ASSUME NEW r \in Repo, NEW a \in Intent, NEW payload, NEW j \in 1..Len(minted),
                 githubExecute(r, a, payload, j)
          PROVE  GitHubTypeOK' /\ MintedInTime' /\ CallsAreAuthorised'
      BY <1>1, <1>2, <2>2, ExecutingKeeps
    <2> QED BY <2>1, <2>2 DEF GitHubStep, GitHubNext
  <1>4. RuntimeTypeOK'
    BY <1>1, <1>2 DEF TypeOK, RuntimeTypeOK
  <1>5. StoresTellExecutions'
    BY <1>1, <1>2 DEF StoresTellExecutions, Executed, ExecutedBefore
  <1>6. AnswersAreTrue'
    BY <1>1, <1>2 DEF AnswersAreTrue, Executed, ExecutedBefore, NonceSpentBefore
  <1>7. TypeOK'
    BY <1>1, <1>2, <1>3, <1>4 DEF TypeOK
  <1> QED BY <1>3, <1>5, <1>6, <1>7 DEF Invariants

\* Time makes what has expired stay so, and forgets nothing.
LEMMA TimeKeeps == Invariants /\ TimePasses => Invariants'
  <1> SUFFICES ASSUME Invariants, TimePasses
               PROVE  Invariants'
    OBVIOUS
  <1>1. TypeOK /\ StoresTellExecutions /\ AnswersAreTrue /\ MintedInTime /\ CallsAreAuthorised
    BY DEF Invariants
  <1>2. /\ now' = now + 1 /\ UNCHANGED service
        /\ UNCHANGED <<live, tokens, nonces, tokensUsed, executions, answer>>
        /\ UNCHANGED <<minted, calls, audit_log>>
    BY DEF TimePasses, Tick, runtimeVars, githubVars
  <1>3. TypeOK'
    BY <1>1, <1>2 DEF TypeOK, RuntimeTypeOK, GitHubTypeOK
  <1>4. StoresTellExecutions'
    BY <1>1, <1>2 DEF StoresTellExecutions, Executed, ExecutedBefore
  <1>5. AnswersAreTrue'
    <2> SUFFICES ASSUME answer' # NoCall
                 PROVE  AnswersAreTrue'
      BY DEF AnswersAreTrue
    <2>1. answer.reason = "expired_token" => answer.token \in 1..Len(tokens)
      BY <1>1, <1>2 DEF StoresTellExecutions
    <2>2. answer.token \in 1..Len(tokens) => tokens[answer.token].expires_at \in Nat
      <3>1. tokens \in Seq(Token)
        BY <1>1 DEF TypeOK, RuntimeTypeOK
      <3>2. answer.token \in 1..Len(tokens) => tokens[answer.token] \in Token
        BY <3>1
      <3> QED BY <3>2 DEF Token
    <2>3. now \in Nat
      BY <1>1 DEF TypeOK
    <2>4. answer.reason = "expired_token" => tokens[answer.token].expires_at <= now
      BY <1>1, <1>2 DEF AnswersAreTrue
    <2>5. answer.reason = "expired_token" => tokens[answer.token].expires_at <= now'
      BY <1>2, <2>1, <2>2, <2>3, <2>4
    <2> QED BY <1>1, <1>2, <2>5 DEF AnswersAreTrue, Executed, ExecutedBefore, NonceSpentBefore
  <1>6. MintedInTime'
    <2>1. minted \in Seq(Payload) /\ now \in Nat /\ GitHubTTL \in Nat
      BY <1>1, GitHubBoundsAssumption DEF TypeOK, GitHubTypeOK
    <2>2. \A j \in 1..Len(minted) : minted[j] \in Payload
      BY <2>1
    <2>3. \A j \in 1..Len(minted) : minted[j].expires_at \in Nat
      BY <2>2 DEF Payload
    <2>4. \A j \in 1..Len(minted) : minted[j].expires_at <= now' + GitHubTTL
      BY <1>1, <1>2, <2>1, <2>3 DEF MintedInTime
    <2> QED BY <1>2, <2>4 DEF MintedInTime
  <1>7. CallsAreAuthorised'
    BY <1>1, <1>2, NothingSent
  <1> QED BY <1>3, <1>4, <1>5, <1>6, <1>7 DEF Invariants

\* All of it is kept by every step of either service and of the clock.
THEOREM ServicesKeepInvariants == Spec => []Invariants
  <1>1. Init => Invariants
    BY InitialServices
  <1>2. Invariants /\ [Next]_vars => Invariants'
    <2> SUFFICES ASSUME Invariants, [Next]_vars
                 PROVE  Invariants'
      OBVIOUS
    <2>1. CASE RuntimeStep
      BY <2>1, RuntimeKeeps
    <2>2. CASE GitHubStep
      BY <2>2, GitHubKeeps
    <2>3. CASE TimePasses
      BY <2>3, TimeKeeps
    <2>4. CASE UNCHANGED vars
      <3>1. /\ UNCHANGED <<now, service, live, tokens, nonces, tokensUsed, executions, answer>>
            /\ UNCHANGED <<minted, calls, audit_log>>
        BY <2>4 DEF vars, runtimeVars, githubVars
      <3>2. TypeOK' /\ StoresTellExecutions' /\ AnswersAreTrue'
        BY <3>1 DEF Invariants, TypeOK, RuntimeTypeOK, GitHubTypeOK, StoresTellExecutions,
           AnswersAreTrue, Executed, ExecutedBefore, NonceSpentBefore
      <3>3. MintedInTime'
        BY <3>1 DEF Invariants, MintedInTime
      <3>4. CallsAreAuthorised'
        BY <3>1, NothingSent DEF Invariants
      <3> QED BY <3>2, <3>3, <3>4 DEF Invariants
    <2> QED BY <2>1, <2>2, <2>3, <2>4 DEF Next
  <1> QED BY <1>1, <1>2, PTL DEF Spec

\* The stores of both services stay well typed.
THEOREM TypeCorrect == Spec => []TypeOK
  <1>1. Invariants => TypeOK
    BY DEF Invariants
  <1> QED BY <1>1, ServicesKeepInvariants, PTL

\* What the runtime gateway answers is true of what has been executed: a token is executed
\* once, at one gateway and in time, a nonce once at each (execution_gateway.py:28-71).
THEOREM AnswersTellTheTruth == Spec => []AnswersAreTrue
  <1>1. Invariants => AnswersAreTrue
    BY DEF Invariants
  <1> QED BY <1>1, ServicesKeepInvariants, PTL

\* GitHub receives only what the policy allowed and a token was minted for, in its time, for
\* any executors that share a key and any tokens that are presented (executor.py:33-146).
THEOREM GitHubCallsAreAuthorised == Spec => []CallsAreAuthorised
  <1>1. Invariants => CallsAreAuthorised
    BY DEF Invariants
  <1> QED BY <1>1, ServicesKeepInvariants, PTL

(***************************************************************************)
(* The gateways implement OneShotAuthority.                                *)
(***************************************************************************)
\* A token that has no more time left gets none as the clock moves on, nor by other tokens.
LEMMA OverStays ==
    ASSUME TypeOK, NEW t \in 1..Len(tokens), tokens'[t].expires_at = tokens[t].expires_at,
           now' \in Nat, now <= now', IsOver(t)
    PROVE  IsOver(t)'
  <1>1. tokens \in Seq(Token) /\ now \in Nat /\ TokenTTL \in Nat
    BY RuntimeBoundsAssumption DEF TypeOK, RuntimeTypeOK
  <1>2. tokens[t] \in Token
    BY <1>1
  <1>3. tokens[t].expires_at \in Nat
    BY <1>2 DEF Token
  <1> QED BY <1>1, <1>3 DEF IsOver

\* Issuing a token grants one (transient_token_engine.py:14-33).
LEMMA IssueIsGrant ==
    ASSUME TypeOK, StoresTellExecutions, UNCHANGED now,
           NEW nonce \in Nonce \cup {Len(tokens) + 1}, issue_token(nonce)
    PROVE  Authority!Next
  <1>0. PICK n \in 1..MaxTokens : n = Len(tokens) + 1
    BY RuntimeBoundsAssumption DEF TypeOK, RuntimeTypeOK, issue_token
  <1> DEFINE x == [nonce |-> nonce, expires_at |-> now + TokenTTL, invalidated |-> FALSE]
  <1>1. /\ Len(tokens) \in Nat /\ now \in Nat /\ MaxTokens \in Nat /\ TokenTTL \in Nat
        /\ Len(tokens) < MaxTokens /\ n = Len(tokens) + 1
    BY <1>0, RuntimeBoundsAssumption DEF TypeOK, RuntimeTypeOK, issue_token
  <1>2. nonce \in TokenNonce /\ nonce \in Nonce \cup 1..MaxTokens
    BY <1>1 DEF TokenNonce
  <1>3. /\ Len(tokens') = n /\ tokens'[n] = x
        /\ \A k \in 1..Len(tokens) : tokens'[k] = tokens[k]
    <2>1. x \in Token
      BY <1>1, <1>2 DEF Token
    <2>2. tokens \in Seq(Token) /\ tokens' = Append(tokens, x)
      BY DEF TypeOK, RuntimeTypeOK, issue_token
    <2> HIDE DEF x
    <2> QED BY <1>0, <2>1, <2>2, Appended
  <1>4. tokens'[n].nonce = nonce /\ ~tokens'[n].invalidated /\ ~IsOver(n)'
    <2>1. tokens'[n].expires_at = now' + TokenTTL
      BY <1>3
    <2>2. tokens'[n].nonce = nonce /\ ~tokens'[n].invalidated
      BY <1>3
    <2>3. now' \in Nat /\ TokenTTL' = TokenTTL
      BY <1>1
    <2> QED BY <1>1, <2>1, <2>2, <2>3 DEF IsOver
  <1> HIDE DEF x
  <1>5. \A j \in 1..Len(tokens) : IsOver(j)' = IsOver(j)
    BY <1>3 DEF IsOver
  <1>6. Standings[n] = "unissued"
    BY <1>1 DEF Standings, StandingOf
  <1>7. Standings' = [Standings EXCEPT ![n] = "live"]
    <2>1. ASSUME NEW j \in 1..MaxTokens
          PROVE  StandingOf(j)' = IF j = n THEN "live" ELSE StandingOf(j)
      <3>1. CASE j = n
        <4>1. ~(j > n)
          BY <1>1, <3>1
        <4> QED BY <1>3, <1>4, <3>1, <4>1 DEF StandingOf
      <3>2. CASE j > n
        BY <1>1, <1>3, <3>2 DEF StandingOf
      <3>3. CASE j < n
        <4>1. j \in 1..Len(tokens) /\ ~(j > n) /\ ~(j > Len(tokens)) /\ j # n
          BY <1>1, <3>3
        <4>2. tokens'[j] = tokens[j] /\ IsOver(j)' = IsOver(j)
          BY <1>3, <1>5, <4>1
        <4> QED BY <1>3, <4>1, <4>2 DEF StandingOf
      <3> QED BY <1>1, <3>1, <3>2, <3>3
    <2> QED BY <1>1, <2>1 DEF Standings
  <1>8. GrantOf' = [u \in DOMAIN GrantOf \cup {n} |-> IF u = n THEN nonce ELSE GrantOf[u]]
    <2>1. 1..n = 1..Len(tokens) \cup {n} /\ n \notin 1..Len(tokens)
      BY <1>1
    <2>2. DOMAIN GrantOf = 1..Len(tokens)
      BY DEF GrantOf
    <2>3. GrantOf' = [u \in 1..n |-> tokens'[u].nonce]
      BY <1>3 DEF GrantOf
    <2>4. \A u \in 1..Len(tokens) : tokens'[u].nonce = GrantOf[u]
      BY <1>3 DEF GrantOf
    <2> QED BY <1>4, <2>1, <2>2, <2>3, <2>4
  <1>9. Effects' = Effects
    <2>1. executions' = executions
      BY DEF issue_token
    <2>2. \A k \in 1..Len(executions) : executions[k].token \in 1..Len(tokens)
      BY DEF StoresTellExecutions
    <2> QED BY <1>3, <2>1, <2>2 DEF Effects
  <1>10. Authority!Grant(n, nonce)
    BY <1>6, <1>7, <1>8, <1>9 DEF Authority!Grant
  <1> QED BY <1>1, <1>2, <1>10 DEF Authority!Next

\* An admitted call performs its token, at whichever gateway (execution_gateway.py:40-65).
LEMMA AdmittedIsPerform ==
    ASSUME TypeOK, StoresTellExecutions, UNCHANGED now,
           NEW g \in Gateway, NEW t \in 1..MaxTokens, Admitted(g, t)
    PROVE  Authority!Next
  <1> DEFINE n == Len(executions)
  <1>1. /\ t \in 1..Len(tokens) /\ ~tokens[t].invalidated /\ ~(tokens[t].expires_at <= now)
    BY AdmittedIsIssued DEF Admitted
  <1>2. /\ Len(tokens') = Len(tokens)
        /\ \A k \in 1..Len(tokens) :
             /\ tokens'[k].nonce = tokens[k].nonce
             /\ tokens'[k].expires_at = tokens[k].expires_at
             /\ tokens'[k].invalidated = (tokens[k].invalidated \/ k = t)
        /\ Len(executions') = n + 1
        /\ \A k \in 1..n : executions'[k] = executions[k]
        /\ executions'[n + 1].token = t
    BY AdmittingIsTyped
  <1>3. Len(tokens) \in Nat /\ n \in Nat
    BY DEF TypeOK, RuntimeTypeOK
  <1>4. Standings[t] = "live"
    <2>1. ~(t > Len(tokens)) /\ ~IsOver(t)
      BY <1>1, <1>3 DEF IsOver
    <2> QED BY <1>1, <2>1 DEF Standings, StandingOf
  <1>5. Standings' = [Standings EXCEPT ![t] = "spent"]
    <2>1. ASSUME NEW k \in 1..MaxTokens
          PROVE  StandingOf(k)' = IF k = t THEN "spent" ELSE StandingOf(k)
      <3>1. CASE k > Len(tokens)
        <4>1. k # t
          BY <1>1, <1>3, <3>1
        <4> QED BY <1>2, <3>1, <4>1 DEF StandingOf
      <3>2. CASE ~(k > Len(tokens))
        <4>1. k \in 1..Len(tokens)
          BY <1>3, <3>2
        <4>2. tokens'[k].invalidated = (tokens[k].invalidated \/ k = t)
          BY <1>2, <4>1
        <4>3. IsOver(k)' = IsOver(k)
          BY <1>2, <4>1 DEF IsOver
        <4> QED BY <1>2, <3>2, <4>2, <4>3 DEF StandingOf
      <3> QED BY <3>1, <3>2
    <2> QED BY <2>1 DEF Standings
  <1>6. GrantOf' = GrantOf /\ GrantOf[t] = tokens[t].nonce
    BY <1>1, <1>2 DEF GrantOf
  <1>7. Effects' = Append(Effects, <<t, GrantOf[t]>>)
    <2>1. /\ \A k \in 1..n : executions[k].token \in 1..Len(tokens)
      BY DEF StoresTellExecutions
    <2>2. \A k \in 1..n : tokens'[executions'[k].token].nonce = tokens[executions[k].token].nonce
      BY <1>2, <2>1
    <2>3. tokens'[executions'[n + 1].token].nonce = GrantOf[t]
      BY <1>1, <1>2, <1>6
    <2>4. /\ Effects = [k \in 1..n |->
               <<executions[k].token, tokens[executions[k].token].nonce>>]
          /\ Effects' = [k \in 1..n + 1 |->
               <<executions'[k].token, tokens'[executions'[k].token].nonce>>]
      BY <1>2 DEF Effects
    <2> HIDE DEF n
    <2> QED BY <1>2, <1>3, <2>2, <2>3, <2>4
  <1>8. Authority!Perform(t)
    BY <1>4, <1>5, <1>6, <1>7 DEF Authority!Perform
  <1> QED BY <1>8 DEF Authority!Next

\* When the time passes, tokens expire.
LEMMA TickIsRevoke ==
    ASSUME TypeOK, TimePasses
    PROVE  Authority!Next
  <1> DEFINE S == {t \in 1..MaxTokens : StandingOf(t) = "live" /\ IsOver(t)'}
  <1>1. /\ now \in Nat /\ now' = now + 1 /\ UNCHANGED <<tokens, executions>>
        /\ Len(tokens) \in Nat
    BY DEF TypeOK, RuntimeTypeOK, TimePasses, Tick, runtimeVars
  <1>2. \A t \in S : Standings[t] = "live"
    BY DEF Standings
  <1>3. Standings' = [t \in 1..MaxTokens |-> IF t \in S THEN "void" ELSE Standings[t]]
    <2>1. ASSUME NEW t \in 1..MaxTokens
          PROVE  StandingOf(t)' = IF t \in S THEN "void" ELSE StandingOf(t)
      <3>1. CASE t > Len(tokens)
        BY <1>1, <3>1 DEF StandingOf
      <3>2. CASE ~(t > Len(tokens)) /\ tokens[t].invalidated
        BY <1>1, <3>2 DEF StandingOf
      <3>3. CASE ~(t > Len(tokens)) /\ ~tokens[t].invalidated
        <4>1. t \in 1..Len(tokens) /\ now' \in Nat /\ now <= now'
          BY <1>1, <3>3
        <4>2. IsOver(t) => IsOver(t)'
          <5>1. tokens'[t].expires_at = tokens[t].expires_at
            BY <1>1
          <5> QED BY <4>1, <5>1, OverStays
        <4>3. StandingOf(t) = IF IsOver(t) THEN "void" ELSE "live"
          BY <3>3 DEF StandingOf
        <4>4. StandingOf(t)' = IF IsOver(t)' THEN "void" ELSE "live"
          BY <1>1, <3>3 DEF StandingOf
        <4> QED BY <4>2, <4>3, <4>4
      <3> QED BY <3>1, <3>2, <3>3
    <2> HIDE DEF S
    <2> QED BY <2>1 DEF Standings
  <1>4. UNCHANGED <<GrantOf, Effects>>
    BY <1>1 DEF GrantOf, Effects
  <1>5. S \in SUBSET (1..MaxTokens)
    OBVIOUS
  <1> HIDE DEF S
  <1>6. Authority!Revoke(S)
    BY <1>2, <1>3, <1>4 DEF Authority!Revoke
  <1> QED BY <1>5, <1>6 DEF Authority!Next

\* A step of the services is a step of the authority, or none.
LEMMA AuthorityStep == Invariants /\ [Next]_vars => [Authority!Next]_(Authority!vars)
  <1> SUFFICES ASSUME Invariants, [Next]_vars
               PROVE  Authority!Next \/ UNCHANGED Authority!vars
    OBVIOUS
  <1>1. TypeOK /\ StoresTellExecutions
    BY DEF Invariants
  <1>2. ASSUME UNCHANGED <<now, tokens, executions>>
        PROVE  UNCHANGED Authority!vars
    BY <1>2 DEF Authority!vars, GrantOf, Standings, StandingOf, IsOver, Effects
  <1>3. CASE RuntimeStep
    <2>1. UNCHANGED now
      BY <1>3 DEF RuntimeStep
    <2>2. ASSUME NEW nonce \in Nonce \cup {Len(tokens) + 1}, issue_token(nonce)
          PROVE  Authority!Next
      BY <1>1, <2>1, <2>2, IssueIsGrant
    <2>3. ASSUME NEW g \in Gateway, NEW t \in 1..MaxTokens, Admitted(g, t)
          PROVE  Authority!Next
      BY <1>1, <2>1, <2>3, AdmittedIsPerform
    <2>4. ASSUME NEW g \in Gateway, NEW t \in 1..MaxTokens, Refused(g, t)
          PROVE  UNCHANGED Authority!vars
      <3>1. UNCHANGED <<tokens, executions>>
        BY <2>4 DEF Refused
      <3> QED BY <1>2, <2>1, <3>1
    <2> QED BY <1>3, <2>2, <2>3, <2>4 DEF RuntimeStep, RuntimeNext, execute
  <1>4. CASE GitHubStep
    <2>1. UNCHANGED <<now, tokens, executions>>
      BY <1>4 DEF GitHubStep, runtimeVars
    <2> QED BY <1>2, <2>1
  <1>5. CASE TimePasses
    BY <1>1, <1>5, TickIsRevoke
  <1>6. CASE UNCHANGED vars
    <2>1. UNCHANGED <<now, tokens, executions>>
      BY <1>6 DEF vars, runtimeVars
    <2> QED BY <1>2, <2>1
  <1> QED BY <1>3, <1>4, <1>5, <1>6 DEF Next

\* The tokens of the engine are one-shot authorities, however many gateways share it, each
\* with caches of its own.
THEOREM RuntimeImplementsAuthority == Spec => ImplementsAuthority
  <1>1. Init => Authority!Init
    <2> SUFFICES ASSUME Init
                 PROVE  Authority!Init
      OBVIOUS
    <2>1. Len(tokens) = 0 /\ Len(executions) = 0
      BY DEF Init, RuntimeInit
    <2>2. GrantOf = [t \in {} |-> t]
      BY <2>1 DEF GrantOf
    <2>3. Standings = [t \in 1..MaxTokens |-> "unissued"]
      BY <2>1, RuntimeBoundsAssumption DEF Standings, StandingOf
    <2>4. Effects = <<>>
      BY <2>1 DEF Effects
    <2> QED BY <2>2, <2>3, <2>4 DEF Authority!Init
  <1> QED BY <1>1, AuthorityStep, ServicesKeepInvariants, PTL
          DEF Spec, ImplementsAuthority, Authority!Spec
=============================================================================
