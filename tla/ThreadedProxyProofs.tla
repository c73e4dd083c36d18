-------------------------- MODULE ThreadedProxyProofs --------------------------
(***************************************************************************)
(* What holds of the threaded proxy for any number of threads, bodies and  *)
(* tokens: its type invariant, that a token dead on arrival is never used  *)
(* and one alive at most once by each thread, that an execution is what    *)
(* its token was issued for, and that the stores are logged whenever no    *)
(* handler is in progress.                                                 *)
(***************************************************************************)
EXTENDS ThreadedProxy, FiniteSetTheorems, TLAPS

\* Storing a well-typed value under a known key keeps a dictionary well typed.
LEMMA SetKeepsType ==
    ASSUME NEW f, NEW S, NEW R, NEW k \in S, NEW v \in R, IsDict(f, S, R)
    PROVE  IsDict(Set(f, k, v), S, R) /\ DOMAIN Set(f, k, v) = DOMAIN f \cup {k}
BY DEF IsDict, Set

\* The empty dictionary is well typed.
LEMMA EmptyDictType == ASSUME NEW S, NEW R PROVE IsDict(EmptyDict, S, R)
BY DEF IsDict, EmptyDict

\* The local variables of an idle thread are well typed.
LEMMA BlankType == Blank \in Local
BY AttemptsAssumption DEF Blank, Local

\* What a step of one thread leaves as it was: the other threads' labels and variables.
Moves(w, label, values) ==
    /\ pc' = [pc EXCEPT ![w] = label]
    /\ local' = [local EXCEPT ![w] = values]

\* A thread that moves to a label with fitting variables, without disturbing the objects of
\* the others, keeps every thread's variables in order.
LEMMA ThreadMoves ==
    ASSUME TypeOK, NEW w \in Worker, NEW label \in Label, NEW values \in Local,
           Moves(w, label, values), LocalOK(w)', DOMAIN object \subseteq DOMAIN object'
    PROVE  /\ pc' \in [Worker -> Label] /\ local' \in [Worker -> Local]
           /\ \A u \in Worker : LocalOK(u)'
<1>1. pc' \in [Worker -> Label] /\ local' \in [Worker -> Local]
  BY DEF TypeOK, Moves
<1>2. ASSUME NEW u \in Worker PROVE LocalOK(u)'
  <2>1. CASE u # w
    BY <2>1 DEF TypeOK, Moves, LocalOK
  <2>2. QED
    BY <2>1
<1>3. QED
  BY <1>1, <1>2
-----------------------------------------------------------------------------
\* Every step keeps the dictionaries, the objects and the local variables well typed.
LEMMA TypeStep == TypeOK /\ [Next]_vars => TypeOK'
<1> SUFFICES ASSUME TypeOK, [Next]_vars PROVE TypeOK'
  OBVIOUS
<1> USE DEF Goto, Assign
<1>0. /\ pc \in [Worker -> Label] /\ local \in [Worker -> Local]
      /\ \A w \in Worker : LocalOK(w)
      /\ IsDict(object, TokenId, [action : Action, used : BOOLEAN, expired : BOOLEAN])
      /\ audit \subseteq EventType \X ActionId
      /\ executions \in Seq(Execution)
      /\ \A a \in Action : a.action_id \in ActionId
      /\ \A w \in Worker : pc[w] = "idle" => local[w] = Blank
  BY DEF TypeOK, ActionId, LocalOK
<1>1. ASSUME NEW w \in Worker, LogAndReturn(w) PROVE TypeOK'
  <2>1. Moves(w, "idle", Blank) /\ UNCHANGED object
    BY <1>1 DEF LogAndReturn, Return, Moves
  <2>2. LocalOK(w)'
    BY <1>0, <2>1 DEF Moves, LocalOK, PreviewLabel, ExecuteLabel, ResetLabel
  <2>3. audit' \subseteq EventType \X ActionId
    BY <1>0, <1>1 DEF LogAndReturn, LocalOK
  <2>4. "idle" \in Label
    BY DEF Label
  <2>5. QED
    BY <1>1, <2>1, <2>2, <2>3, <2>4, ThreadMoves, BlankType DEF LogAndReturn, TypeOK
<1>2. ASSUME NEW w \in Worker, NEW a \in Action, PreviewBegins(w, a) PROVE TypeOK'
  <2> DEFINE v == [Blank EXCEPT !.id = a.action_id, !.action = a, !.attempts = Attempts(a),
                                !.event = "preview_generated"]
  <2>1. Moves(w, "preview_store", v) /\ UNCHANGED object
    BY <1>2 DEF PreviewBegins, Moves
  <2>2. Attempts(a) \in 0..MaxAttempts /\ Attempts(a) < MaxAttempts
    BY <1>2, AttemptsAssumption DEF PreviewBegins, Attempts, TypeOK, IsDict
  <2>3. v \in Local /\ v.action = a /\ v.id = a.action_id /\ v.attempts = Attempts(a)
        /\ v.event = "preview_generated"
    BY <1>0, <2>2 DEF Blank, Local, EventType
  <2> HIDE DEF v
  <2>4. LocalOK(w)'
    BY <1>0, <2>1, <2>2, <2>3 DEF Moves, LocalOK, PreviewLabel, ExecuteLabel, ResetLabel
  <2>5. "preview_store" \in Label
    BY DEF Label, PreviewLabel
  <2>6. QED
    BY <1>2, <2>1, <2>3, <2>4, <2>5, ThreadMoves DEF PreviewBegins, TypeOK
<1>3. ASSUME NEW w \in Worker, PreviewStores(w) PROVE TypeOK'
  <2>1. Moves(w, "preview_count", local[w]) /\ UNCHANGED object
    BY <1>0, <1>3 DEF PreviewStores, Moves
  <2>2. LocalOK(w)'
    BY <1>0, <1>3, <2>1
       DEF PreviewStores, Moves, LocalOK, PreviewLabel, ExecuteLabel, ResetLabel
  <2>3. local[w].id \in ActionId /\ evaluate_policy[local[w].action] \in Decision
    BY <1>0, <1>3, PolicyAssumption DEF PreviewStores, LocalOK, PreviewLabel
  <2>4. IsDict(previews', ActionId, Decision)
    BY <1>3, <2>3, SetKeepsType DEF PreviewStores, TypeOK
  <2>5. "preview_count" \in Label /\ local[w] \in Local
    BY <1>0 DEF Label, PreviewLabel
  <2>6. QED
    BY <1>3, <2>1, <2>2, <2>4, <2>5, ThreadMoves DEF PreviewStores, TypeOK
<1>4. ASSUME NEW w \in Worker, PreviewCounts(w) PROVE TypeOK'
  <2>1. Moves(w, "log", local[w]) /\ UNCHANGED object
    BY <1>0, <1>4 DEF PreviewCounts, Moves
  <2>2. LocalOK(w)'
    BY <1>0, <1>4, <2>1
       DEF PreviewCounts, Moves, LocalOK, PreviewLabel, ExecuteLabel, ResetLabel, EventType
  <2>3. /\ AttemptKey(local[w].action) \in {AttemptKey(a) : a \in Action}
        /\ local[w].attempts + 1 \in 0..MaxAttempts
    BY <1>0, <1>4, AttemptsAssumption DEF PreviewCounts, LocalOK, PreviewLabel, Local
  <2>4. IsDict(attempt_counter', {AttemptKey(a) : a \in Action}, 0..MaxAttempts)
    BY <1>4, <2>3, SetKeepsType DEF PreviewCounts, TypeOK
  <2>5. "log" \in Label /\ local[w] \in Local
    BY <1>0 DEF Label
  <2>6. QED
    BY <1>4, <2>1, <2>2, <2>4, <2>5, ThreadMoves DEF PreviewCounts, TypeOK
<1>5. ASSUME NEW w \in Worker, NEW id \in ActionId, NEW verdict \in {"approved", "denied"},
             Decide(w, id, verdict)
      PROVE  TypeOK'
  <2> DEFINE v == [Blank EXCEPT !.id = id, !.event = verdict]
  <2>1. Moves(w, "log", v) /\ UNCHANGED object
    BY <1>5 DEF Decide, Moves
  <2>2. v \in Local /\ v.id = id /\ v.event = verdict
    BY BlankType DEF Local, EventType
  <2> HIDE DEF v
  <2>3. LocalOK(w)'
    BY <1>0, <2>1, <2>2 DEF Moves, LocalOK, PreviewLabel, ExecuteLabel, ResetLabel, EventType
  <2>4. IsDict(approvals', ActionId, {"approved", "denied"})
    BY <1>5, SetKeepsType DEF Decide, TypeOK
  <2>5. "log" \in Label
    BY DEF Label
  <2>6. QED
    BY <1>5, <2>1, <2>2, <2>3, <2>4, <2>5, ThreadMoves DEF Decide, TypeOK
<1>6. ASSUME NEW w \in Worker, NEW t \in TokenId, NEW a \in Action, TokenIssued(w, t, a)
      PROVE  TypeOK'
  <2> DEFINE v == [Blank EXCEPT !.id = a.action_id, !.token = t, !.event = "token_issued"]
  <2>1. Moves(w, "log", v)
    BY <1>6 DEF TokenIssued, Moves
  <2>2. v \in Local /\ v.id = a.action_id /\ v.event = "token_issued"
    BY <1>0, BlankType DEF Local, EventType
  <2> HIDE DEF v
  <2>3. /\ IsDict(object', TokenId, [action : Action, used : BOOLEAN, expired : BOOLEAN])
        /\ DOMAIN object' = DOMAIN object \cup {t}
    <3>1. [action |-> a, used |-> FALSE, expired |-> FALSE]
             \in [action : Action, used : BOOLEAN, expired : BOOLEAN]
      OBVIOUS
    <3>2. object' = Set(object, t, [action |-> a, used |-> FALSE, expired |-> FALSE])
      BY <1>6 DEF TokenIssued
    <3>3. QED
      BY <1>0, <3>1, <3>2 DEF IsDict, Set
  <2>4. LocalOK(w)'
    BY <1>0, <2>1, <2>2 DEF Moves, LocalOK, PreviewLabel, ExecuteLabel, ResetLabel, EventType
  <2>5. "log" \in Label
    BY DEF Label
  <2>6. QED
    BY <1>6, <2>1, <2>2, <2>3, <2>4, <2>5, ThreadMoves DEF TokenIssued, TypeOK
<1>7. ASSUME NEW t \in TokenId, Expire(t) PROVE TypeOK'
  <2>1. DOMAIN object' = DOMAIN object
    BY <1>7 DEF Expire
  <2>2. IsDict(object', TokenId, [action : Action, used : BOOLEAN, expired : BOOLEAN])
    BY <1>0, <1>7 DEF Expire, IsDict
  <2>3. QED
    BY <1>7, <2>1, <2>2 DEF Expire, stores, TypeOK, LocalOK
<1>8. ASSUME NEW w \in Worker, NEW t \in TokenId, NEW a \in Action, ExecuteBegins(w, t, a)
      PROVE  TypeOK'
  <2> DEFINE v == [Blank EXCEPT !.id = a.action_id, !.action = a, !.token = t,
                               !.decision = previews[a.action_id], !.dead = Dead(t)]
  <2>1. Moves(w, "execute_approval", v) /\ UNCHANGED object /\ t \in DOMAIN object
    BY <1>8 DEF ExecuteBegins, Moves, Known
  <2>2. previews[a.action_id] \in Decision /\ Dead(t) \in BOOLEAN
    BY <1>0, <1>8, <2>1 DEF ExecuteBegins, TypeOK, IsDict, Dead
  <2>3. /\ v \in Local /\ v.action = a /\ v.id = a.action_id /\ v.token = t
        /\ v.decision = previews[a.action_id] /\ v.event = "none"
    <3>1. Blank.event = "none"
      BY DEF Blank
    <3>2. QED
      BY <1>0, <2>2, <3>1, BlankType DEF Local
  <2> HIDE DEF v
  <2>4. LocalOK(w)'
    BY <1>0, <2>1, <2>2, <2>3 DEF Moves, LocalOK, PreviewLabel, ExecuteLabel, ResetLabel
  <2>5. "execute_approval" \in Label
    BY DEF Label, ExecuteLabel
  <2>6. QED
    BY <1>8, <2>1, <2>3, <2>4, <2>5, ThreadMoves DEF ExecuteBegins, stores, TypeOK
<1>9. ASSUME NEW w \in Worker, pc[w] \in ExecuteLabel, Refuse(w),
             UNCHANGED <<stores, object, executions>>
      PROVE  TypeOK'
  <2> DEFINE v == Event(w, "execution_blocked")
  <2>1. Moves(w, "log", v)
    BY <1>9 DEF Refuse, Moves
  <2>2. v \in Local /\ v.id = local[w].id /\ v.event = "execution_blocked"
    BY <1>0 DEF Event, Local, EventType
  <2> HIDE DEF v
  <2>3. LocalOK(w)'
    BY <1>0, <1>9, <2>1, <2>2
       DEF Moves, LocalOK, PreviewLabel, ExecuteLabel, ResetLabel, EventType
  <2>4. "log" \in Label
    BY DEF Label
  <2>5. QED
    BY <1>9, <2>1, <2>2, <2>3, <2>4, ThreadMoves DEF stores, TypeOK
<1>10. ASSUME NEW w \in Worker, pc[w] \in ExecuteLabel, NEW label \in ExecuteLabel,
              Goto(w, label), UNCHANGED <<stores, local>>,
              DOMAIN object' = DOMAIN object,
              IsDict(object', TokenId, [action : Action, used : BOOLEAN, expired : BOOLEAN]),
              executions' \in Seq(Execution)
       PROVE  TypeOK'
  <2>1. Moves(w, label, local[w])
    BY <1>0, <1>10 DEF Moves
  <2>2. LocalOK(w)'
    BY <1>0, <1>10, <2>1 DEF Moves, LocalOK, PreviewLabel, ExecuteLabel, ResetLabel
  <2>3. label \in Label /\ local[w] \in Local
    BY <1>0 DEF Label
  <2>4. QED
    BY <1>10, <2>1, <2>2, <2>3, ThreadMoves DEF stores, TypeOK
<1>11. ASSUME NEW w \in Worker,
              ExecuteReadsApproval(w) \/ TokenLookedUp(w) \/ TokenExpiryChecked(w)
                \/ TokenUseChecked(w)
       PROVE  TypeOK'
  <2>1. pc[w] \in ExecuteLabel /\ UNCHANGED <<stores, object, executions>>
    BY <1>11 DEF ExecuteReadsApproval, TokenLookedUp, TokenExpiryChecked, TokenUseChecked,
                 ExecuteLabel
  <2>2. \/ Refuse(w)
        \/ \E label \in ExecuteLabel : Goto(w, label) /\ UNCHANGED local
    BY <1>11 DEF ExecuteReadsApproval, TokenLookedUp, TokenExpiryChecked, TokenUseChecked,
                 ExecuteLabel
  <2>3. QED
    BY <1>0, <1>9, <1>10, <2>1, <2>2
<1>12. ASSUME NEW w \in Worker, TokenSpent(w) PROVE TypeOK'
  <2>1. pc[w] \in ExecuteLabel /\ LocalOK(w) /\ local[w] \in Local
    BY <1>0, <1>12 DEF TokenSpent, ExecuteLabel
  <2>2. local[w].token \in TokenId
    BY <1>0, <2>1 DEF LocalOK, IsDict
  <2>3. [token |-> local[w].token, action |-> local[w].action,
         decision |-> local[w].decision, dead |-> local[w].dead] \in Execution
    BY <2>1, <2>2 DEF LocalOK, Local, Execution
  <2>4. executions' \in Seq(Execution)
    BY <1>0, <1>12, <2>3 DEF TokenSpent
  <2>5. /\ DOMAIN object' = DOMAIN object
        /\ IsDict(object', TokenId, [action : Action, used : BOOLEAN, expired : BOOLEAN])
    BY <1>0, <1>12 DEF TokenSpent, IsDict
  <2>6. "execute_attempt" \in ExecuteLabel
    BY DEF ExecuteLabel
  <2>7. QED
    BY <1>10, <1>12, <2>1, <2>4, <2>5, <2>6 DEF TokenSpent
<1>13. ASSUME NEW w \in Worker, ExecuteAttempts(w) PROVE TypeOK'
  <2> DEFINE v == Event(w, "execution_completed")
  <2>1. Moves(w, "log", v) /\ UNCHANGED object
    BY <1>13 DEF ExecuteAttempts, Moves
  <2>2. v \in Local /\ v.id = local[w].id /\ v.event = "execution_completed"
    BY <1>0 DEF Event, Local, EventType
  <2> HIDE DEF v
  <2>3. pc[w] \in ExecuteLabel /\ local[w].id \in ActionId
    BY <1>0, <1>13 DEF ExecuteAttempts, LocalOK, ExecuteLabel
  <2>4. LocalOK(w)'
    BY <1>0, <2>1, <2>2, <2>3
       DEF Moves, LocalOK, PreviewLabel, ExecuteLabel, ResetLabel, EventType
  <2>5. audit' \subseteq EventType \X ActionId
    BY <1>0, <1>13, <2>3 DEF ExecuteAttempts, EventType
  <2>6. "log" \in Label
    BY DEF Label
  <2>7. QED
    BY <1>13, <2>1, <2>2, <2>4, <2>5, <2>6, ThreadMoves DEF ExecuteAttempts, TypeOK
<1>14. ASSUME NEW w \in Worker, Reset(w) PROVE TypeOK'
  <2>1. /\ pc[w] \in {"idle"} \cup ResetLabel /\ UNCHANGED <<object, executions, local>>
        /\ \E label \in {"idle"} \cup ResetLabel : Goto(w, label)
    BY <1>14 DEF Reset, ResetSteps, ResetLabel
  <2>2. PICK label \in {"idle"} \cup ResetLabel : Moves(w, label, local[w])
    BY <1>0, <2>1 DEF Moves
  <2>3. local[w] = Blank
    BY <1>0, <2>1 DEF LocalOK
  <2>4. LocalOK(w)'
    BY <1>0, <2>1, <2>2, <2>3 DEF Moves, LocalOK, PreviewLabel, ExecuteLabel, ResetLabel
  <2>5. label \in Label
    BY <2>2 DEF Label
  <2>6. /\ IsDict(previews', ActionId, Decision)
        /\ IsDict(approvals', ActionId, {"approved", "denied"})
        /\ IsDict(attempt_counter', {AttemptKey(a) : a \in Action}, 0..MaxAttempts)
        /\ tokens' \subseteq tokens /\ audit' \subseteq audit
    BY <1>14, EmptyDictType DEF Reset, ResetSteps, TypeOK
  <2>7. QED
    BY <2>1, <2>2, <2>3, <2>4, <2>5, <2>6, ThreadMoves, BlankType DEF TypeOK
<1>15. CASE UNCHANGED vars
  BY <1>15 DEF vars, TypeOK, LocalOK
<1>16. QED
  BY <1>1, <1>2, <1>3, <1>4, <1>5, <1>6, <1>7, <1>8, <1>11, <1>12, <1>13, <1>14, <1>15
     DEF Next, Handler

\* Every reachable state is well typed.
THEOREM TypeCorrect == Spec => []TypeOK
<1>1. Init => TypeOK
  <2> SUFFICES ASSUME Init PROVE TypeOK
    OBVIOUS
  <2>1. executions \in Seq(Execution)
    BY DEF Init
  <2>2. \A w \in Worker : LocalOK(w)
    BY DEF Init, LocalOK, PreviewLabel, ExecuteLabel, ResetLabel
  <2>3. pc \in [Worker -> Label] /\ local \in [Worker -> Local]
    BY BlankType DEF Init, Label
  <2>4. QED
    BY <2>1, <2>2, <2>3, EmptyDictType DEF Init, TypeOK
<1>2. QED
  BY <1>1, TypeStep, PTL DEF Spec
-----------------------------------------------------------------------------
\* A token that was dead when its request arrived stays dead, and each check that the request
\* passes narrows down why, until no reason is left.
LateInv ==
    /\ DeadIsRefused
    /\ \A w \in Worker :
          /\ pc[w] \in {"execute_approval", "token_get"} /\ local[w].dead =>
                Dead(local[w].token)
          /\ pc[w] = "token_expiry" /\ local[w].dead =>
                object[local[w].token].used \/ object[local[w].token].expired
          /\ pc[w] = "token_used" /\ local[w].dead => object[local[w].token].used
          /\ pc[w] = "token_spend" => ~local[w].dead

\* Every step keeps a dead token from being admitted.
LEMMA LateStep == TypeOK /\ LateInv /\ [Next]_vars => LateInv'
<1> SUFFICES ASSUME TypeOK, LateInv, [Next]_vars PROVE LateInv'
  OBVIOUS
<1> USE DEF Goto, Assign
<1>0. /\ pc \in [Worker -> Label] /\ local \in [Worker -> Local]
      /\ \A w \in Worker : pc[w] \in ExecuteLabel => local[w].token \in DOMAIN object
      /\ tokens \subseteq DOMAIN object /\ executions \in Seq(Execution)
      /\ IsDict(object, TokenId, [action : Action, used : BOOLEAN, expired : BOOLEAN])
  BY DEF TypeOK, LocalOK
<1> DEFINE Checking == {"execute_approval", "token_get", "token_expiry", "token_used",
                        "token_spend"}
           Ages == /\ DOMAIN object \subseteq DOMAIN object'
                   /\ \A t \in DOMAIN object :
                         /\ object[t].used => object'[t].used
                         /\ object[t].expired => object'[t].expired
                         /\ t \notin tokens => t \notin tokens'
\* The requests being checked keep what is known of them while objects only age.
<1>1. ASSUME Ages, NEW u \in Worker, pc'[u] = pc[u], local'[u] = local[u]
      PROVE  /\ pc'[u] \in {"execute_approval", "token_get"} /\ local'[u].dead =>
                   Dead(local[u].token)'
             /\ pc'[u] = "token_expiry" /\ local'[u].dead =>
                   object'[local'[u].token].used \/ object'[local'[u].token].expired
             /\ pc'[u] = "token_used" /\ local'[u].dead => object'[local'[u].token].used
             /\ pc'[u] = "token_spend" => ~local'[u].dead
  BY <1>0, <1>1 DEF LateInv, Dead, ExecuteLabel
<1>2. ASSUME NEW w \in Worker, Ages, UNCHANGED executions, pc'[w] \notin Checking,
             \A u \in Worker \ {w} : pc'[u] = pc[u] /\ local'[u] = local[u]
      PROVE  LateInv'
  <2>1. DeadIsRefused'
    BY <1>2 DEF LateInv, DeadIsRefused
  <2>2. QED
    BY <1>1, <1>2, <2>1 DEF LateInv
<1>3. ASSUME UNCHANGED object, tokens' = tokens \/ tokens' = {} PROVE Ages
  BY <1>3
<1>4. ASSUME NEW w \in Worker, LogAndReturn(w) PROVE LateInv'
  BY <1>0, <1>2, <1>3, <1>4 DEF LogAndReturn, Return
<1>5. ASSUME NEW w \in Worker, PreviewStores(w) \/ PreviewCounts(w) PROVE LateInv'
  BY <1>0, <1>2, <1>3, <1>5 DEF PreviewStores, PreviewCounts
<1>6. ASSUME NEW w \in Worker, NEW a \in Action, PreviewBegins(w, a) PROVE LateInv'
  BY <1>0, <1>2, <1>3, <1>6 DEF PreviewBegins
<1>7. ASSUME NEW w \in Worker, NEW id, NEW verdict, Decide(w, id, verdict) PROVE LateInv'
  BY <1>0, <1>2, <1>3, <1>7 DEF Decide
<1>8. ASSUME NEW w \in Worker, NEW t \in TokenId, NEW a \in Action, TokenIssued(w, t, a)
      PROVE  LateInv'
  <2>1. Ages
    BY <1>8 DEF TokenIssued, Set
  <2>2. QED
    BY <1>0, <1>2, <1>8, <2>1 DEF TokenIssued
<1>9. ASSUME NEW t \in TokenId, Expire(t) PROVE LateInv'
  <2>1. Ages /\ UNCHANGED <<pc, local, executions>>
    BY <1>0, <1>9 DEF Expire, IsDict, stores
  <2>2. QED
    BY <1>1, <2>1 DEF LateInv, DeadIsRefused
<1>10. ASSUME NEW w \in Worker, NEW t \in TokenId, NEW a \in Action, ExecuteBegins(w, t, a)
       PROVE  LateInv'
  <2>1. /\ pc'[w] = "execute_approval" /\ local'[w].token = t /\ local'[w].dead = Dead(t)
        /\ \A u \in Worker \ {w} : pc'[u] = pc[u] /\ local'[u] = local[u]
        /\ UNCHANGED <<tokens, object, executions>>
    BY <1>0, <1>10, BlankType DEF ExecuteBegins, stores, Local
  <2>2. QED
    BY <1>1, <2>1 DEF LateInv, DeadIsRefused, Dead
<1>11. ASSUME NEW w \in Worker, Refuse(w), UNCHANGED <<stores, object, executions>>
       PROVE  LateInv'
  BY <1>0, <1>2, <1>3, <1>11 DEF Refuse, stores
<1>12. ASSUME NEW w \in Worker, NEW label, Goto(w, label), UNCHANGED local,
              UNCHANGED <<stores, object, executions>>,
              /\ label \in {"execute_approval", "token_get"} /\ local[w].dead =>
                    Dead(local[w].token)
              /\ label = "token_expiry" /\ local[w].dead =>
                    object[local[w].token].used \/ object[local[w].token].expired
              /\ label = "token_used" /\ local[w].dead => object[local[w].token].used
              /\ label = "token_spend" => ~local[w].dead
       PROVE  LateInv'
  <2>1. /\ pc'[w] = label /\ \A u \in Worker \ {w} : pc'[u] = pc[u]
        /\ UNCHANGED <<tokens, object, executions, local>>
    BY <1>0, <1>12 DEF stores
  <2>2. QED
    BY <1>1, <1>12, <2>1 DEF LateInv, DeadIsRefused, Dead
<1>13. ASSUME NEW w \in Worker, ExecuteReadsApproval(w) PROVE LateInv'
  <2>1. pc[w] = "execute_approval" /\ UNCHANGED <<stores, object, executions>>
    BY <1>13 DEF ExecuteReadsApproval
  <2>2. Refuse(w) \/ (Goto(w, "token_get") /\ UNCHANGED local)
    BY <1>13 DEF ExecuteReadsApproval
  <2>3. local[w].dead => Dead(local[w].token)
    BY <2>1 DEF LateInv
  <2>4. QED
    BY <1>11, <1>12, <2>1, <2>2, <2>3
<1>14. ASSUME NEW w \in Worker, TokenLookedUp(w) PROVE LateInv'
  <2>1. pc[w] = "token_get" /\ UNCHANGED <<stores, object, executions>>
    BY <1>14 DEF TokenLookedUp
  <2>2. \/ Refuse(w)
        \/ local[w].token \in tokens /\ Goto(w, "token_expiry") /\ UNCHANGED local
    BY <1>14 DEF TokenLookedUp
  <2>3. local[w].dead => Dead(local[w].token)
    BY <2>1 DEF LateInv
  <2>4. QED
    BY <1>11, <1>12, <2>1, <2>2, <2>3 DEF Dead
<1>15. ASSUME NEW w \in Worker, TokenExpiryChecked(w) PROVE LateInv'
  <2>1. pc[w] = "token_expiry" /\ UNCHANGED <<stores, object, executions>>
    BY <1>15 DEF TokenExpiryChecked
  <2>2. \/ Refuse(w)
        \/ ~object[local[w].token].expired /\ Goto(w, "token_used") /\ UNCHANGED local
    BY <1>15 DEF TokenExpiryChecked
  <2>3. local[w].dead => object[local[w].token].used \/ object[local[w].token].expired
    BY <2>1 DEF LateInv
  <2>4. QED
    BY <1>11, <1>12, <2>1, <2>2, <2>3
<1>16. ASSUME NEW w \in Worker, TokenUseChecked(w) PROVE LateInv'
  <2>1. pc[w] = "token_used" /\ UNCHANGED <<stores, object, executions>>
    BY <1>16 DEF TokenUseChecked
  <2>2. \/ Refuse(w)
        \/ ~object[local[w].token].used /\ Goto(w, "token_spend") /\ UNCHANGED local
    BY <1>16 DEF TokenUseChecked
  <2>3. local[w].dead => object[local[w].token].used
    BY <2>1 DEF LateInv
  <2>4. QED
    BY <1>11, <1>12, <2>1, <2>2, <2>3
<1>17. ASSUME NEW w \in Worker, TokenSpent(w) PROVE LateInv'
  <2> DEFINE e == [token |-> local[w].token, action |-> local[w].action,
                   decision |-> local[w].decision, dead |-> local[w].dead]
  <2>1. /\ pc[w] = "token_spend" /\ executions' = Append(executions, e)
        /\ pc'[w] = "execute_attempt" /\ UNCHANGED local
        /\ \A u \in Worker \ {w} : pc'[u] = pc[u]
    BY <1>0, <1>17 DEF TokenSpent
  <2>2. Ages
    BY <1>0, <1>17 DEF TokenSpent, IsDict, stores
  <2>3. ~e.dead
    BY <2>1 DEF LateInv
  <2> HIDE DEF e
  <2>4. DeadIsRefused'
    BY <1>0, <2>1, <2>3 DEF LateInv, DeadIsRefused
  <2>5. QED
    BY <1>1, <2>1, <2>2, <2>4 DEF LateInv
<1>18. ASSUME NEW w \in Worker, ExecuteAttempts(w) PROVE LateInv'
  BY <1>0, <1>2, <1>3, <1>18 DEF ExecuteAttempts
<1>19. ASSUME NEW w \in Worker, Reset(w) PROVE LateInv'
  <2>1. /\ UNCHANGED <<object, executions, local>> /\ (tokens' = tokens \/ tokens' = {})
        /\ pc'[w] \notin Checking /\ \A u \in Worker \ {w} : pc'[u] = pc[u]
    BY <1>0, <1>19 DEF Reset, ResetSteps
  <2>2. QED
    BY <1>2, <1>3, <2>1
<1>20. CASE UNCHANGED vars
  BY <1>20 DEF vars, LateInv, DeadIsRefused, Dead
<1>21. QED
  BY <1>4, <1>5, <1>6, <1>7, <1>8, <1>9, <1>10, <1>13, <1>14, <1>15, <1>16, <1>17, <1>18,
     <1>19, <1>20 DEF Next, Handler

\* Every reachable state keeps them refused.
LEMMA LateInvariant == Spec => []LateInv
<1>1. Init => LateInv
  BY DEF Init, LateInv, DeadIsRefused
<1>2. QED
  BY <1>1, LateStep, TypeCorrect, PTL DEF Spec

\* The threads that may yet execute with a token: those that took it up alive.
Checking == {"execute_approval", "token_get", "token_expiry", "token_used", "token_spend"}
Trying(t) == {w \in Worker : pc[w] \in Checking /\ local[w].token = t /\ ~local[w].dead}

\* The inductive invariant: a token that was used is marked, so no thread takes it up alive
\* any more, and the uses and those that may still come are no more than the threads.
UseInv ==
    \A t \in TokenId :
        /\ Uses(t) # {} => t \in DOMAIN object /\ object[t].used
        /\ Cardinality(Uses(t)) + Cardinality(Trying(t)) <= Cardinality(Worker)

\* The sets that are counted are finite.
LEMMA CountedSets ==
    ASSUME TypeOK, NEW t
    PROVE  /\ IsFiniteSet(Uses(t)) /\ Cardinality(Uses(t)) \in Nat
           /\ Trying(t) \in SUBSET Worker /\ IsFiniteSet(Trying(t))
           /\ Cardinality(Trying(t)) \in Nat /\ Cardinality(Worker) \in Nat
           /\ Cardinality(Trying(t)) <= Cardinality(Worker)
<1>1. IsFiniteSet(1..Len(executions))
  <2>1. Len(executions) \in Int
    BY DEF TypeOK
  <2>2. QED
    BY <2>1, FS_Interval
<1>2. Uses(t) \in SUBSET (1..Len(executions)) /\ Trying(t) \in SUBSET Worker
  BY DEF Uses, Trying
<1>3. IsFiniteSet(Uses(t)) /\ Cardinality(Uses(t)) \in Nat
  BY <1>1, <1>2, FS_Subset, FS_CardinalityType
<1>4. /\ IsFiniteSet(Trying(t)) /\ Cardinality(Trying(t)) <= Cardinality(Worker)
      /\ Cardinality(Trying(t)) \in Nat /\ Cardinality(Worker) \in Nat
  BY <1>2, PoolAssumption, FS_Subset, FS_CardinalityType
<1>5. QED
  BY <1>2, <1>3, <1>4

\* A step that starts no execution, lets no token be taken up and leaves used tokens marked.
LEMMA NoFurtherUse ==
    ASSUME TypeOK, TypeOK', UseInv, UNCHANGED executions,
           \A t \in DOMAIN object : t \in DOMAIN object' /\ (object[t].used => object'[t].used),
           \A t \in TokenId : Trying(t)' \subseteq Trying(t)
    PROVE  UseInv'
<1> SUFFICES ASSUME NEW t \in TokenId
             PROVE  /\ Uses(t)' # {} => t \in DOMAIN object' /\ object'[t].used
                    /\ Cardinality(Uses(t)') + Cardinality(Trying(t)') <= Cardinality(Worker)
  BY DEF UseInv
<1>1. Uses(t)' = Uses(t)
  BY DEF Uses
<1>2. /\ Uses(t) # {} => t \in DOMAIN object /\ object[t].used
      /\ Cardinality(Uses(t)) + Cardinality(Trying(t)) <= Cardinality(Worker)
  BY DEF UseInv
<1>3. Cardinality(Trying(t)') <= Cardinality(Trying(t)) /\ Cardinality(Trying(t)') \in Nat
  <2>1. IsFiniteSet(Trying(t)) /\ Trying(t)' \in SUBSET Trying(t)
    BY CountedSets
  <2>2. QED
    BY <2>1, FS_Subset, FS_CardinalityType
<1>4. /\ Cardinality(Uses(t)) \in Nat /\ Cardinality(Trying(t)) \in Nat
      /\ Cardinality(Worker) \in Nat
  BY CountedSets
<1>5. Cardinality(Uses(t)') + Cardinality(Trying(t)') <= Cardinality(Worker)
  BY <1>1, <1>2, <1>3, <1>4
<1>6. QED
  BY <1>1, <1>2, <1>5

\* A thread that takes a token up alive finds it unused; one that finds it dead is not among
\* those that are counted (api.py 76-92).
LEMMA TakingUp ==
    ASSUME TypeOK, TypeOK', UseInv, NEW w \in Worker, NEW t \in TokenId, NEW a \in Action,
           ExecuteBegins(w, t, a)
    PROVE  UseInv'
<1>1. /\ pc \in [Worker -> Label] /\ local \in [Worker -> Local]
  BY DEF TypeOK
<1>2. /\ pc[w] = "idle" /\ local'[w].token = t /\ local'[w].dead = Dead(t)
      /\ \A u \in Worker \ {w} : pc'[u] = pc[u] /\ local'[u] = local[u]
      /\ UNCHANGED <<object, executions>>
  BY <1>1, BlankType DEF ExecuteBegins, Goto, Assign, Local
<1>3. \A u \in TokenId : u # t => Trying(u)' \subseteq Trying(u)
  BY <1>2 DEF Trying
<1>4. CASE Dead(t)
  <2>1. Trying(t)' \subseteq Trying(t)
    BY <1>2, <1>4 DEF Trying
  <2>2. QED
    BY <1>2, <1>3, <2>1, NoFurtherUse
<1>5. CASE ~Dead(t)
  <2>1. Uses(t) = {}
    BY <1>5 DEF UseInv, Dead
  <2>2. \A u \in TokenId : Uses(u)' = Uses(u)
    BY <1>2 DEF Uses
  <2>3. Cardinality(Uses(t)') = 0
    BY <2>1, <2>2, FS_EmptySet
  <2>4. /\ Cardinality(Trying(t)') <= Cardinality(Worker)
        /\ Cardinality(Trying(t)') \in Nat /\ Cardinality(Worker) \in Nat
    <3> DEFINE S == Trying(t)'
    <3>1. S \in SUBSET Worker
      BY DEF Trying
    <3> HIDE DEF S
    <3>2. IsFiniteSet(S) /\ Cardinality(S) <= Cardinality(Worker)
      BY <3>1, PoolAssumption, FS_Subset
    <3>3. Cardinality(S) \in Nat /\ Cardinality(Worker) \in Nat
      BY <3>2, PoolAssumption, FS_CardinalityType
    <3>4. QED
      BY <3>2, <3>3 DEF S
  <2>5. Cardinality(Uses(t)') + Cardinality(Trying(t)') <= Cardinality(Worker)
    BY <2>3, <2>4
  <2>6. ASSUME NEW u \in TokenId, u # t
        PROVE  Cardinality(Uses(u)') + Cardinality(Trying(u)') <= Cardinality(Worker)
    <3>1. Trying(u)' = Trying(u)
      BY <1>2, <2>6 DEF Trying, Checking
    <3>2. QED
      BY <2>2, <3>1 DEF UseInv
  <2>7. ASSUME NEW u \in TokenId
        PROVE  Cardinality(Uses(u)') + Cardinality(Trying(u)') <= Cardinality(Worker)
    BY <2>5, <2>6
  <2>8. \A u \in TokenId : Uses(u)' # {} => u \in DOMAIN object' /\ object'[u].used
    BY <1>2, <2>2 DEF UseInv
  <2>9. QED
    BY <2>7, <2>8 DEF UseInv
<1>6. QED
  BY <1>4, <1>5

\* An execution is one more use, by a thread that is no longer among those to come
\* (token_service.py 37-38).
LEMMA Spending ==
    ASSUME TypeOK, TypeOK', LateInv, UseInv, NEW w \in Worker, TokenSpent(w)
    PROVE  UseInv'
<1>0. PICK t \in TokenId : t = local[w].token
  <2>1. local[w].token \in DOMAIN object
    BY DEF TypeOK, TokenSpent, LocalOK, ExecuteLabel
  <2>2. DOMAIN object \subseteq TokenId
    BY DEF TypeOK, IsDict
  <2>3. QED
    BY <2>1, <2>2
<1> DEFINE n == Len(executions) + 1
           e == [token |-> t, action |-> local[w].action,
                 decision |-> local[w].decision, dead |-> local[w].dead]
<1>1. /\ pc \in [Worker -> Label] /\ executions \in Seq(Execution)
      /\ IsDict(object, TokenId, [action : Action, used : BOOLEAN, expired : BOOLEAN])
      /\ t \in DOMAIN object
  BY <1>0 DEF TypeOK, TokenSpent, LocalOK, ExecuteLabel, IsDict
<1>2. /\ pc[w] = "token_spend" /\ executions' = Append(executions, e)
      /\ pc'[w] = "execute_attempt" /\ UNCHANGED local
      /\ \A u \in Worker \ {w} : pc'[u] = pc[u]
  BY <1>0, <1>1 DEF TokenSpent, Goto
<1>3. ~local[w].dead
  BY <1>2 DEF LateInv
<1>4. /\ DOMAIN object' = DOMAIN object /\ object'[t].used
      /\ \A u \in DOMAIN object : object[u].used => object'[u].used
  BY <1>0, <1>1 DEF TokenSpent, IsDict
<1>5. e.token = t
  OBVIOUS
<1> HIDE DEF e
<1>6. /\ Len(executions') = n /\ executions'[n].token = t
      /\ \A i \in 1..Len(executions) : executions'[i] = executions[i]
      /\ 1..n = 1..Len(executions) \cup {n} /\ n \notin 1..Len(executions)
  <2>1. Len(executions) \in Nat
    BY <1>1
  <2>2. /\ Len(executions') = n /\ executions'[n] = e
        /\ \A i \in 1..Len(executions) : executions'[i] = executions[i]
    BY <1>1, <1>2
  <2>3. 1..n = 1..Len(executions) \cup {n} /\ n \notin 1..Len(executions)
    BY <2>1
  <2>4. QED
    BY <1>5, <2>2, <2>3
<1>7. Uses(t)' = Uses(t) \cup {n} /\ n \notin Uses(t)
  BY <1>6 DEF Uses
<1>8. \A u \in TokenId : u # t => Uses(u)' = Uses(u)
  BY <1>6 DEF Uses
<1>9. Trying(t)' = Trying(t) \ {w} /\ w \in Trying(t)
  BY <1>0, <1>2, <1>3 DEF Trying, Checking
<1>10. \A u \in TokenId : u # t => Trying(u)' = Trying(u)
  BY <1>0, <1>2 DEF Trying, Checking
<1>11. Cardinality(Uses(t)') = Cardinality(Uses(t)) + 1
  BY <1>7, CountedSets, FS_AddElement
<1>12. Cardinality(Trying(t)') = Cardinality(Trying(t)) - 1
  BY <1>9, CountedSets, FS_RemoveElement
<1>13. Cardinality(Uses(t)') + Cardinality(Trying(t)') <= Cardinality(Worker)
  <2>1. Cardinality(Uses(t)) + Cardinality(Trying(t)) <= Cardinality(Worker)
    BY <1>1 DEF UseInv
  <2>2. /\ Cardinality(Uses(t)) \in Nat /\ Cardinality(Trying(t)) \in Nat
        /\ Cardinality(Worker) \in Nat
    BY CountedSets
  <2>3. QED
    BY <1>11, <1>12, <2>1, <2>2
<1>14. ASSUME NEW u \in TokenId, u # t
       PROVE  Cardinality(Uses(u)') + Cardinality(Trying(u)') <= Cardinality(Worker)
  BY <1>8, <1>10, <1>14 DEF UseInv
<1>15. ASSUME NEW u \in TokenId
       PROVE  Cardinality(Uses(u)') + Cardinality(Trying(u)') <= Cardinality(Worker)
  BY <1>13, <1>14
<1>16. ASSUME NEW u \in TokenId, Uses(u)' # {}
       PROVE  u \in DOMAIN object' /\ object'[u].used
  <2>1. CASE u = t
    BY <1>1, <1>3, <1>4, <2>1
  <2>2. CASE u # t
    <3>1. u \in DOMAIN object /\ object[u].used
      BY <1>1, <1>8, <1>16, <2>2 DEF UseInv
    <3>2. QED
      BY <1>4, <3>1
  <2>3. QED
    BY <2>1, <2>2
<1>17. QED
  BY <1>15, <1>16 DEF UseInv

LEMMA UseStep == TypeOK /\ TypeOK' /\ LateInv /\ UseInv /\ [Next]_vars => UseInv'
<1> SUFFICES ASSUME TypeOK, TypeOK', LateInv, UseInv, [Next]_vars PROVE UseInv'
  OBVIOUS
<1> USE DEF Goto, Assign
<1>0. /\ pc \in [Worker -> Label] /\ local \in [Worker -> Local]
      /\ IsDict(object, TokenId, [action : Action, used : BOOLEAN, expired : BOOLEAN])
  BY DEF TypeOK
\* A thread that leaves, or goes on with the token it has.
<1>1. ASSUME NEW w \in Worker, UNCHANGED <<object, executions>>,
             \A u \in Worker \ {w} : pc'[u] = pc[u] /\ local'[u] = local[u],
             \/ pc'[w] \notin Checking
             \/ pc[w] \in Checking /\ UNCHANGED local
      PROVE  UseInv'
  <2>1. \A t \in TokenId : Trying(t)' \subseteq Trying(t)
    BY <1>1 DEF Trying
  <2>2. QED
    BY <1>1, <2>1, NoFurtherUse
<1>2. ASSUME NEW w \in Worker,
             \/ LogAndReturn(w) \/ PreviewStores(w) \/ PreviewCounts(w)
             \/ ExecuteAttempts(w) \/ Reset(w)
             \/ \E a \in Action : PreviewBegins(w, a)
             \/ \E id \in ActionId, verdict \in {"approved", "denied"} : Decide(w, id, verdict)
      PROVE  UseInv'
  <2>1. /\ UNCHANGED <<object, executions>> /\ pc'[w] \notin Checking
        /\ \A u \in Worker \ {w} : pc'[u] = pc[u] /\ local'[u] = local[u]
    BY <1>0, <1>2 DEF LogAndReturn, Return, PreviewStores, PreviewCounts, ExecuteAttempts,
         Reset, ResetSteps, PreviewBegins, Decide, Checking
  <2>2. QED
    BY <1>1, <2>1
<1>3. ASSUME NEW w \in Worker,
             \/ ExecuteReadsApproval(w) \/ TokenLookedUp(w) \/ TokenExpiryChecked(w)
             \/ TokenUseChecked(w)
      PROVE  UseInv'
  <2>1. /\ UNCHANGED <<object, executions>> /\ pc[w] \in Checking
        /\ \A u \in Worker \ {w} : pc'[u] = pc[u] /\ local'[u] = local[u]
        /\ pc'[w] = "log" \/ UNCHANGED local
    BY <1>0, <1>3 DEF ExecuteReadsApproval, TokenLookedUp, TokenExpiryChecked, TokenUseChecked,
         Refuse, Checking
  <2>2. "log" \notin Checking
    BY DEF Checking
  <2>3. QED
    BY <1>1, <2>1, <2>2
<1>4. ASSUME NEW w \in Worker, NEW t \in TokenId, NEW a \in Action, TokenIssued(w, t, a)
      PROVE  UseInv'
  <2>1. /\ UNCHANGED executions /\ pc'[w] \notin Checking
        /\ \A u \in Worker \ {w} : pc'[u] = pc[u] /\ local'[u] = local[u]
    BY <1>0, <1>4 DEF TokenIssued, Checking
  <2>2. \A u \in DOMAIN object : u \in DOMAIN object' /\ object'[u] = object[u]
    BY <1>4 DEF TokenIssued, Set
  <2>3. \A u \in TokenId : Trying(u)' \subseteq Trying(u)
    BY <2>1 DEF Trying
  <2>4. QED
    BY <2>1, <2>2, <2>3, NoFurtherUse
<1>5. ASSUME NEW t \in TokenId, Expire(t) PROVE UseInv'
  <2>1. UNCHANGED <<executions, pc, local>>
    BY <1>5 DEF Expire
  <2>2. \A u \in DOMAIN object : u \in DOMAIN object' /\ object'[u].used = object[u].used
    BY <1>0, <1>5 DEF Expire, IsDict
  <2>3. \A u \in TokenId : Trying(u)' \subseteq Trying(u)
    BY <2>1 DEF Trying
  <2>4. QED
    BY <2>1, <2>2, <2>3, NoFurtherUse
<1>6. CASE UNCHANGED vars
  BY <1>6 DEF vars, UseInv, Uses, Trying
<1>7. QED
  BY <1>2, <1>3, <1>4, <1>5, <1>6, TakingUp, Spending DEF Next, Handler

\* A token is used at most once by each thread, whatever happens meanwhile.
LEMMA UseInvariant == Spec => []UseInv
<1>1. Init => UseInv
  <2> SUFFICES ASSUME Init, NEW t \in TokenId
               PROVE  /\ Uses(t) = {}
                      /\ Cardinality(Uses(t)) + Cardinality(Trying(t)) <= Cardinality(Worker)
    BY DEF UseInv
  <2>1. Uses(t) = {} /\ Trying(t) = {}
    BY DEF Init, Uses, Trying, Checking
  <2>2. Cardinality({}) = 0 /\ Cardinality(Worker) \in Nat
    BY PoolAssumption, FS_EmptySet, FS_CardinalityType
  <2>3. QED
    BY <2>1, <2>2
<1>2. QED
  BY <1>1, UseStep, TypeCorrect, LateInvariant, PTL DEF Spec

\* A request that arrives with a used, expired or cleared token never executes, and a token
\* executes at most as often as there are threads, however many they are.
THEOREM LateTokensAreRefused == Spec => []NoLateUse
<1>1. TypeOK /\ LateInv /\ UseInv => NoLateUse
  <2> SUFFICES ASSUME TypeOK, LateInv, UseInv, NEW t \in TokenId
               PROVE  DeadIsRefused /\ Cardinality(Uses(t)) <= Cardinality(Worker)
    BY DEF NoLateUse, LateInv
  <2>1. Cardinality(Uses(t)) + Cardinality(Trying(t)) <= Cardinality(Worker)
    BY DEF UseInv
  <2>2. /\ Cardinality(Uses(t)) \in Nat /\ Cardinality(Trying(t)) \in Nat
        /\ Cardinality(Worker) \in Nat
    BY CountedSets
  <2>3. QED
    BY <2>1, <2>2 DEF LateInv
<1>2. QED
  BY <1>1, LateInvariant, UseInvariant, TypeCorrect, PTL

\* That a token is one-time fails for two threads; it is only their number that matters: a
\* pool of one thread keeps it, with resets, expiry and other bodies as they may come.
THEOREM OneThreadIsOneTime ==
    ASSUME Cardinality(Worker) = 1
    PROVE  Spec => []OneTimeToken
<1>1. TypeOK /\ NoLateUse => OneTimeToken
  <2> SUFFICES ASSUME TypeOK, NoLateUse, NEW i \in 1..Len(executions),
                      NEW j \in 1..Len(executions),
                      executions[i].token = executions[j].token, i # j
               PROVE  FALSE
    BY DEF OneTimeToken
  <2> DEFINE t == executions[i].token
             both == {i} \cup {j}
  <2>1. t \in TokenId
    <3>1. executions[i] \in Execution
      BY DEF TypeOK
    <3>2. QED
      BY <3>1 DEF Execution
  <2>2. both \in SUBSET Uses(t)
    BY DEF Uses
  <2>3. Cardinality(both) = 2
    <3> DEFINE one == {i}
    <3>1. IsFiniteSet(one) /\ Cardinality(one) = 1
      BY FS_Singleton
    <3>2. j \notin one /\ both = one \cup {j}
      OBVIOUS
    <3> HIDE DEF one, both
    <3>3. Cardinality(one \cup {j}) = Cardinality(one) + 1
      BY <3>1, <3>2, FS_AddElement
    <3>4. QED
      BY <3>1, <3>2, <3>3
  <2> HIDE DEF both
  <2>4. Cardinality(both) <= Cardinality(Uses(t))
    BY <2>2, CountedSets, FS_Subset
  <2>5. Cardinality(Uses(t)) <= 1 /\ Cardinality(Uses(t)) \in Nat
    BY <2>1, CountedSets DEF NoLateUse
  <2>6. QED
    BY <2>3, <2>4, <2>5
<1>2. QED
  BY <1>1, LateTokensAreRefused, TypeCorrect, PTL
-----------------------------------------------------------------------------
\* What an execution will be of is settled as its checks are passed: not denied after the
\* approval is read, and of the token's id, type and target once the token may be spent.
Lawful(e) ==
    /\ e.token \in DOMAIN object /\ Matches(object[e.token].action, e.action)
    /\ e.decision # "DENY"
IssuedInv ==
    /\ \A i \in 1..Len(executions) : Lawful(executions[i])
    /\ \A w \in Worker :
          /\ pc[w] \in {"token_get", "token_expiry", "token_used"} => local[w].decision # "DENY"
          /\ pc[w] = "token_spend" => Lawful(local[w])

\* Every step keeps the executions, and those about to start, what their tokens were issued for.
LEMMA IssuedStep == TypeOK /\ IssuedInv /\ [Next]_vars => IssuedInv'
<1> SUFFICES ASSUME TypeOK, IssuedInv, [Next]_vars PROVE IssuedInv'
  OBVIOUS
<1> USE DEF Goto, Assign
<1>0. /\ pc \in [Worker -> Label] /\ local \in [Worker -> Local]
      /\ executions \in Seq(Execution)
      /\ \A w \in Worker : pc[w] \in ExecuteLabel => local[w].token \in DOMAIN object
      /\ IsDict(object, TokenId, [action : Action, used : BOOLEAN, expired : BOOLEAN])
  BY DEF TypeOK, LocalOK
<1> DEFINE Judged == {"token_get", "token_expiry", "token_used", "token_spend"}
           Keeps == /\ DOMAIN object \subseteq DOMAIN object'
                    /\ \A t \in DOMAIN object : object'[t].action = object[t].action
\* The action of a token never changes, so what is lawful stays so.
<1>1. ASSUME Keeps, NEW e, Lawful(e) PROVE e.token \in DOMAIN object' /\ e.decision # "DENY"
                                          /\ Matches(object'[e.token].action, e.action)
  BY <1>1 DEF Lawful
<1>2. ASSUME Keeps, UNCHANGED executions
      PROVE  \A i \in 1..Len(executions') : Lawful(executions[i])'
  BY <1>1, <1>2 DEF IssuedInv, Lawful
<1>3. ASSUME NEW w \in Worker, Keeps, UNCHANGED executions, pc'[w] \notin Judged,
             \A u \in Worker \ {w} : pc'[u] = pc[u] /\ local'[u] = local[u]
      PROVE  IssuedInv'
  <2>1. ASSUME NEW u \in Worker, pc'[u] \in Judged
        PROVE  /\ pc'[u] \in {"token_get", "token_expiry", "token_used"} =>
                     local'[u].decision # "DENY"
               /\ pc'[u] = "token_spend" => Lawful(local[u])'
    BY <1>1, <1>3, <2>1 DEF IssuedInv, Lawful
  <2>2. QED
    BY <1>2, <1>3, <2>1 DEF IssuedInv
<1>4. ASSUME NEW w \in Worker, LogAndReturn(w) PROVE IssuedInv'
  BY <1>0, <1>3, <1>4 DEF LogAndReturn, Return
<1>5. ASSUME NEW w \in Worker, PreviewStores(w) \/ PreviewCounts(w) PROVE IssuedInv'
  BY <1>0, <1>3, <1>5 DEF PreviewStores, PreviewCounts
<1>6. ASSUME NEW w \in Worker, NEW a \in Action, PreviewBegins(w, a) PROVE IssuedInv'
  BY <1>0, <1>3, <1>6 DEF PreviewBegins
<1>7. ASSUME NEW w \in Worker, NEW id, NEW verdict, Decide(w, id, verdict) PROVE IssuedInv'
  BY <1>0, <1>3, <1>7 DEF Decide
<1>8. ASSUME NEW w \in Worker, NEW t \in TokenId, NEW a \in Action, TokenIssued(w, t, a)
      PROVE  IssuedInv'
  <2>1. Keeps
    BY <1>8 DEF TokenIssued, Set
  <2>2. QED
    BY <1>0, <1>3, <1>8, <2>1 DEF TokenIssued
<1>9. ASSUME NEW t \in TokenId, Expire(t) PROVE IssuedInv'
  <2>1. Keeps /\ UNCHANGED <<pc, local, executions>>
    BY <1>0, <1>9 DEF Expire, IsDict, stores
  <2>2. QED
    BY <1>1, <1>2, <2>1 DEF IssuedInv, Lawful
<1>10. ASSUME NEW w \in Worker, NEW t \in TokenId, NEW a \in Action, ExecuteBegins(w, t, a)
       PROVE  IssuedInv'
  BY <1>0, <1>3, <1>10 DEF ExecuteBegins, stores
<1>11. ASSUME NEW w \in Worker, Refuse(w), UNCHANGED <<stores, object, executions>>
       PROVE  IssuedInv'
  BY <1>0, <1>3, <1>11 DEF Refuse, stores
<1>12. ASSUME NEW w \in Worker, NEW label \in Judged, Goto(w, label), UNCHANGED local,
              UNCHANGED <<stores, object, executions>>, local[w].decision # "DENY",
              label = "token_spend" => Lawful(local[w])
       PROVE  IssuedInv'
  <2>1. /\ pc'[w] = label /\ \A u \in Worker \ {w} : pc'[u] = pc[u]
        /\ UNCHANGED <<object, executions, local>>
    BY <1>0, <1>12
  <2>2. QED
    BY <1>12, <2>1 DEF IssuedInv, Lawful
<1>13. ASSUME NEW w \in Worker, ExecuteReadsApproval(w) PROVE IssuedInv'
  <2>1. UNCHANGED <<stores, object, executions>>
    BY <1>13 DEF ExecuteReadsApproval
  <2>2. \/ Refuse(w)
        \/ local[w].decision # "DENY" /\ Goto(w, "token_get") /\ UNCHANGED local
    BY <1>13 DEF ExecuteReadsApproval
  <2>3. QED
    BY <1>11, <1>12, <2>1, <2>2
<1>14. ASSUME NEW w \in Worker, TokenLookedUp(w) \/ TokenExpiryChecked(w) PROVE IssuedInv'
  <2>1. /\ pc[w] \in {"token_get", "token_expiry"} /\ UNCHANGED <<stores, object, executions>>
        /\ \/ Refuse(w)
           \/ \E label \in {"token_expiry", "token_used"} : Goto(w, label) /\ UNCHANGED local
    BY <1>14 DEF TokenLookedUp, TokenExpiryChecked
  <2>2. local[w].decision # "DENY"
    BY <2>1 DEF IssuedInv
  <2>3. QED
    BY <1>11, <1>12, <2>1, <2>2
<1>15. ASSUME NEW w \in Worker, TokenUseChecked(w) PROVE IssuedInv'
  <2>1. /\ pc[w] = "token_used" /\ UNCHANGED <<stores, object, executions>>
        /\ \/ Refuse(w)
           \/ /\ Matches(object[local[w].token].action, local[w].action)
              /\ Goto(w, "token_spend") /\ UNCHANGED local
    BY <1>15 DEF TokenUseChecked
  <2>2. local[w].decision # "DENY" /\ local[w].token \in DOMAIN object
    BY <1>0, <2>1 DEF IssuedInv, ExecuteLabel
  <2>3. QED
    BY <1>11, <1>12, <2>1, <2>2 DEF Lawful
<1>16. ASSUME NEW w \in Worker, TokenSpent(w) PROVE IssuedInv'
  <2> DEFINE e == [token |-> local[w].token, action |-> local[w].action,
                   decision |-> local[w].decision, dead |-> local[w].dead]
  <2>1. /\ pc[w] = "token_spend" /\ executions' = Append(executions, e)
        /\ pc'[w] = "execute_attempt" /\ UNCHANGED local
        /\ \A u \in Worker \ {w} : pc'[u] = pc[u]
    BY <1>0, <1>16 DEF TokenSpent
  <2>2. Keeps
    BY <1>0, <1>16 DEF TokenSpent, IsDict
  <2>3. Lawful(e)
    BY <2>1 DEF IssuedInv, Lawful
  <2> HIDE DEF e
  <2>4. \A i \in 1..Len(executions') : Lawful(executions'[i])
    BY <1>0, <2>1, <2>3 DEF IssuedInv
  <2>5. \A i \in 1..Len(executions') : Lawful(executions[i])'
    BY <1>1, <2>2, <2>4 DEF Lawful
  <2>6. QED
    BY <1>1, <2>1, <2>2, <2>5 DEF IssuedInv, Lawful
<1>17. ASSUME NEW w \in Worker, ExecuteAttempts(w) PROVE IssuedInv'
  BY <1>0, <1>3, <1>17 DEF ExecuteAttempts
<1>18. ASSUME NEW w \in Worker, Reset(w) PROVE IssuedInv'
  BY <1>0, <1>3, <1>18 DEF Reset, ResetSteps
<1>19. CASE UNCHANGED vars
  BY <1>19 DEF vars, IssuedInv, Lawful
<1>20. QED
  BY <1>4, <1>5, <1>6, <1>7, <1>8, <1>9, <1>10, <1>13, <1>14, <1>15, <1>16, <1>17, <1>18,
     <1>19 DEF Next, Handler

\* An execution has the id, type and target of its token and was not previewed as denied,
\* whatever other threads preview, decide or reset meanwhile.
THEOREM ExecutionsAreAsIssued == Spec => []ExecutedAsIssued
<1>1. Init => IssuedInv
  BY DEF Init, IssuedInv
<1>2. IssuedInv => ExecutedAsIssued
  BY DEF IssuedInv, Lawful, Matches, ExecutedAsIssued
<1>3. QED
  BY <1>1, <1>2, IssuedStep, TypeCorrect, PTL DEF Spec
-----------------------------------------------------------------------------
\* An event is owed when it is in the log, or a handler in progress will still write it, or
\* the store it is about is still to be cleared by a reset that has cleared the log.
Owed(e, id, labels) ==
    \/ <<e, id>> \in audit
    \/ \E w \in Worker : local[w].event = e /\ local[w].id = id
    \/ \E w \in Worker : pc[w] \in labels
LogInv ==
    /\ \A id \in DOMAIN approvals : Owed(approvals[id], id, {"reset_approvals"})
    /\ \A t \in tokens :
          Owed("token_issued", object[t].action.action_id, {"reset_approvals", "reset_tokens"})
    /\ \A id \in DOMAIN previews :
          Owed("preview_generated", id, {"reset_approvals", "reset_tokens", "reset_previews"})

\* The events that follow a store.
StoreEvent == {"approved", "denied", "token_issued", "preview_generated"}
ResettingLabel == {"reset_approvals", "reset_tokens", "reset_previews"}

\* A step that neither clears the log nor moves a reset keeps an event owed, if the thread that
\* moves has written its own event or keeps it.
LEMMA OwedStays ==
    ASSUME NEW w \in Worker, NEW e, NEW id, NEW labels, labels \subseteq ResettingLabel,
           Owed(e, id, labels), audit \subseteq audit', pc[w] \notin ResettingLabel,
           \A u \in Worker \ {w} : pc'[u] = pc[u] /\ local'[u] = local[u],
           local[w].event = e /\ local[w].id = id =>
               \/ <<e, id>> \in audit'
               \/ local'[w].event = e /\ local'[w].id = id
    PROVE  Owed(e, id, labels)'
BY DEF Owed

\* Every step keeps the events of the stores owed.
LEMMA LogStep == TypeOK /\ TypeOK' /\ LogInv /\ [Next]_vars => LogInv'
<1> SUFFICES ASSUME TypeOK, TypeOK', LogInv, [Next]_vars PROVE LogInv'
  OBVIOUS
<1> USE DEF Goto, Assign
<1>0. /\ pc \in [Worker -> Label] /\ local \in [Worker -> Local]
      /\ \A w \in Worker : pc[w] \in {"idle"} \cup ResetLabel => local[w] = Blank
      /\ Blank.event = "none"
      /\ \A w \in Worker : pc[w] \in ExecuteLabel => local[w].event = "none"
      /\ \A id \in DOMAIN approvals : approvals[id] \in {"approved", "denied"}
      /\ tokens \subseteq DOMAIN object
  BY DEF TypeOK, LocalOK, Blank, IsDict
<1> DEFINE Others(w) == \A u \in Worker \ {w} : pc'[u] = pc[u] /\ local'[u] = local[u]
           Kept(w) == /\ audit \subseteq audit' /\ pc[w] \notin ResettingLabel /\ Others(w)
                      /\ \/ local[w].event \notin StoreEvent
                         \/ <<local[w].event, local[w].id>> \in audit'
                         \/ local'[w].event = local[w].event /\ local'[w].id = local[w].id
           SameObjects == /\ DOMAIN object \subseteq DOMAIN object'
                          /\ \A t \in DOMAIN object : object'[t].action = object[t].action
<1>1. ASSUME NEW w \in Worker, Kept(w), NEW e \in StoreEvent, NEW id, NEW labels,
             labels \subseteq ResettingLabel, Owed(e, id, labels)
      PROVE  Owed(e, id, labels)'
  BY <1>1, OwedStays
\* A step that stores nothing.
<1>2. ASSUME NEW w \in Worker, Kept(w), UNCHANGED <<approvals, tokens, previews>>, SameObjects
      PROVE  LogInv'
  <2>1. \A id \in DOMAIN approvals' : Owed(approvals[id], id, {"reset_approvals"})'
    BY <1>0, <1>1, <1>2 DEF LogInv, StoreEvent, ResettingLabel
  <2>2. \A t \in tokens' :
           Owed("token_issued", object[t].action.action_id,
                {"reset_approvals", "reset_tokens"})'
    <3>1. ASSUME NEW t \in tokens
          PROVE  Owed("token_issued", object[t].action.action_id,
                      {"reset_approvals", "reset_tokens"})'
      <4>1. object'[t].action = object[t].action
        BY <1>0, <1>2
      <4>2. Owed("token_issued", object[t].action.action_id,
                 {"reset_approvals", "reset_tokens"})
        BY DEF LogInv
      <4>3. QED
        BY <1>1, <1>2, <4>1, <4>2 DEF StoreEvent, ResettingLabel, Owed
    <3>2. QED
      BY <1>2, <3>1
  <2>3. \A id \in DOMAIN previews' :
           Owed("preview_generated", id,
                {"reset_approvals", "reset_tokens", "reset_previews"})'
    BY <1>1, <1>2 DEF LogInv, StoreEvent, ResettingLabel
  <2>4. QED
    BY <2>1, <2>2, <2>3 DEF LogInv
<1>3. ASSUME NEW w \in Worker, LogAndReturn(w) PROVE LogInv'
  <2>1. Kept(w) /\ SameObjects
    BY <1>0, <1>3 DEF LogAndReturn, Return, ResettingLabel
  <2>2. QED
    BY <1>2, <1>3, <2>1 DEF LogAndReturn
<1>4. ASSUME NEW w \in Worker, NEW a \in Action, PreviewBegins(w, a) PROVE LogInv'
  <2>1. Kept(w) /\ SameObjects
    BY <1>0, <1>4 DEF PreviewBegins, ResettingLabel, StoreEvent
  <2>2. QED
    BY <1>2, <1>4, <2>1 DEF PreviewBegins
<1>5. ASSUME NEW w \in Worker, PreviewCounts(w) PROVE LogInv'
  <2>1. Kept(w) /\ SameObjects
    BY <1>0, <1>5 DEF PreviewCounts, ResettingLabel
  <2>2. QED
    BY <1>2, <1>5, <2>1 DEF PreviewCounts
<1>6. ASSUME NEW w \in Worker, pc[w] \in ExecuteLabel, Others(w), audit \subseteq audit',
             UNCHANGED <<approvals, tokens, previews>>, SameObjects
      PROVE  LogInv'
  <2>1. Kept(w)
    BY <1>0, <1>6 DEF ResettingLabel, ExecuteLabel, StoreEvent
  <2>2. QED
    BY <1>2, <1>6, <2>1
<1>7. ASSUME NEW w \in Worker,
             ExecuteReadsApproval(w) \/ TokenLookedUp(w) \/ TokenExpiryChecked(w)
               \/ TokenUseChecked(w)
      PROVE  LogInv'
  <2>1. pc[w] \in ExecuteLabel /\ UNCHANGED <<stores, object, executions>>
    BY <1>7 DEF ExecuteReadsApproval, TokenLookedUp, TokenExpiryChecked, TokenUseChecked,
                ExecuteLabel
  <2>2. Others(w)
    BY <1>0, <1>7 DEF ExecuteReadsApproval, TokenLookedUp, TokenExpiryChecked,
                      TokenUseChecked, Refuse
  <2>3. QED
    BY <1>6, <2>1, <2>2 DEF stores
<1>8. ASSUME NEW w \in Worker, TokenSpent(w) PROVE LogInv'
  <2>1. pc[w] \in ExecuteLabel /\ UNCHANGED stores /\ Others(w)
    BY <1>0, <1>8 DEF TokenSpent, ExecuteLabel
  <2>2. IsDict(object, TokenId, [action : Action, used : BOOLEAN, expired : BOOLEAN])
    BY DEF TypeOK
  <2>3. SameObjects
    BY <1>8, <2>2 DEF TokenSpent, IsDict
  <2>4. QED
    BY <1>6, <2>1, <2>3 DEF stores
<1>9. ASSUME NEW w \in Worker, ExecuteAttempts(w) PROVE LogInv'
  <2>1. pc[w] \in ExecuteLabel /\ Others(w)
    BY <1>0, <1>9 DEF ExecuteAttempts, ExecuteLabel
  <2>2. QED
    BY <1>6, <1>9, <2>1 DEF ExecuteAttempts
<1>10. ASSUME NEW w \in Worker, NEW t \in TokenId, NEW a \in Action, ExecuteBegins(w, t, a)
       PROVE  LogInv'
  <2>1. Kept(w) /\ SameObjects
    BY <1>0, <1>10 DEF ExecuteBegins, ResettingLabel, StoreEvent, stores
  <2>2. QED
    BY <1>2, <1>10, <2>1 DEF ExecuteBegins, stores
<1>11. ASSUME NEW t \in TokenId, Expire(t) PROVE LogInv'
  <2>1. IsDict(object, TokenId, [action : Action, used : BOOLEAN, expired : BOOLEAN])
    BY DEF TypeOK
  <2>2. SameObjects
    BY <1>11, <2>1 DEF Expire, IsDict
  <2>3. UNCHANGED <<approvals, tokens, previews, audit, pc, local>>
    BY <1>11 DEF Expire, stores
  <2>4. \A u \in tokens : object'[u].action = object[u].action
    BY <1>0, <2>2
  <2>5. QED
    BY <2>3, <2>4 DEF LogInv, Owed
<1>12. ASSUME NEW w \in Worker, PreviewStores(w) PROVE LogInv'
  <2>1. Kept(w) /\ SameObjects /\ UNCHANGED <<approvals, tokens, object, local>>
    BY <1>0, <1>12 DEF PreviewStores, ResettingLabel
  <2>2. /\ DOMAIN previews' = DOMAIN previews \cup {local[w].id}
        /\ local'[w].event = "preview_generated" /\ local'[w].id = local[w].id
    BY <1>12, <2>1 DEF PreviewStores, Set, TypeOK, LocalOK, PreviewLabel
  <2>4. \A id \in DOMAIN previews' :
           Owed("preview_generated", id,
                {"reset_approvals", "reset_tokens", "reset_previews"})'
    <3>1. ASSUME NEW id \in DOMAIN previews
          PROVE  Owed("preview_generated", id,
                      {"reset_approvals", "reset_tokens", "reset_previews"})'
      BY <1>1, <2>1 DEF LogInv, StoreEvent, ResettingLabel
    <3>2. Owed("preview_generated", local[w].id,
               {"reset_approvals", "reset_tokens", "reset_previews"})'
      BY <2>2 DEF Owed
    <3>3. QED
      BY <2>1, <2>2, <3>1, <3>2
  <2>5. \A id \in DOMAIN approvals' : Owed(approvals[id], id, {"reset_approvals"})'
    BY <1>0, <1>1, <2>1 DEF LogInv, StoreEvent, ResettingLabel
  <2>6. \A t \in tokens' :
           Owed("token_issued", object[t].action.action_id,
                {"reset_approvals", "reset_tokens"})'
    BY <1>1, <2>1 DEF LogInv, StoreEvent, ResettingLabel
  <2>7. QED
    BY <2>4, <2>5, <2>6 DEF LogInv
<1>13. ASSUME NEW w \in Worker, NEW id \in ActionId, NEW verdict \in {"approved", "denied"},
              Decide(w, id, verdict)
       PROVE  LogInv'
  <2>1. Kept(w) /\ UNCHANGED <<previews, tokens, object>>
    BY <1>0, <1>13 DEF Decide, ResettingLabel, StoreEvent
  <2>2. local'[w].event = verdict /\ local'[w].id = id
    BY <1>0, <1>13, BlankType DEF Decide, Local
  <2>3. Owed(verdict, id, {})'
    BY <2>2 DEF Owed
  <2>4. \A k \in DOMAIN approvals' : Owed(approvals[k], k, {"reset_approvals"})'
    <3>1. ASSUME NEW k \in DOMAIN approvals', k # id
          PROVE  Owed(approvals[k], k, {"reset_approvals"})'
      <4>1. k \in DOMAIN approvals /\ approvals'[k] = approvals[k]
        BY <1>13, <3>1 DEF Decide, Set
      <4>2. Owed(approvals[k], k, {"reset_approvals"}) /\ approvals[k] \in StoreEvent
        BY <1>0, <4>1 DEF LogInv, StoreEvent
      <4>3. QED
        BY <1>1, <2>1, <4>1, <4>2 DEF ResettingLabel, Owed
    <3>2. approvals'[id] = verdict
      BY <1>13 DEF Decide, Set
    <3>3. QED
      BY <2>3, <3>1, <3>2 DEF Owed
  <2>5. \A t \in tokens' :
           Owed("token_issued", object[t].action.action_id,
                {"reset_approvals", "reset_tokens"})'
    BY <1>1, <2>1 DEF LogInv, StoreEvent, ResettingLabel
  <2>6. \A k \in DOMAIN previews' :
           Owed("preview_generated", k,
                {"reset_approvals", "reset_tokens", "reset_previews"})'
    BY <1>1, <2>1 DEF LogInv, StoreEvent, ResettingLabel
  <2>7. QED
    BY <2>4, <2>5, <2>6 DEF LogInv
<1>14. ASSUME NEW w \in Worker, NEW t \in TokenId, NEW a \in Action, TokenIssued(w, t, a)
       PROVE  LogInv'
  <2>1. Kept(w) /\ UNCHANGED <<previews, approvals>>
    BY <1>0, <1>14 DEF TokenIssued, ResettingLabel, StoreEvent
  <2>2. local'[w].event = "token_issued" /\ local'[w].id = a.action_id
    BY <1>0, <1>14, BlankType DEF TokenIssued, Local
  <2>3. /\ tokens' = tokens \cup {t} /\ object'[t].action = a
        /\ \A u \in tokens : u # t /\ object'[u].action = object[u].action
    BY <1>0, <1>14 DEF TokenIssued, Set
  <2>4. \A u \in tokens' :
           Owed("token_issued", object[u].action.action_id,
                {"reset_approvals", "reset_tokens"})'
    <3>1. ASSUME NEW u \in tokens
          PROVE  Owed("token_issued", object[u].action.action_id,
                      {"reset_approvals", "reset_tokens"})'
      <4>1. Owed("token_issued", object[u].action.action_id,
                 {"reset_approvals", "reset_tokens"})
        BY DEF LogInv
      <4>2. QED
        BY <1>1, <2>1, <2>3, <4>1 DEF StoreEvent, ResettingLabel, Owed
    <3>2. Owed("token_issued", object[t].action.action_id,
               {"reset_approvals", "reset_tokens"})'
      BY <2>2, <2>3 DEF Owed
    <3>3. QED
      BY <2>3, <3>1, <3>2
  <2>5. \A id \in DOMAIN approvals' : Owed(approvals[id], id, {"reset_approvals"})'
    BY <1>0, <1>1, <2>1 DEF LogInv, StoreEvent, ResettingLabel
  <2>6. \A k \in DOMAIN previews' :
           Owed("preview_generated", k,
                {"reset_approvals", "reset_tokens", "reset_previews"})'
    BY <1>1, <2>1 DEF LogInv, StoreEvent, ResettingLabel
  <2>7. QED
    BY <2>4, <2>5, <2>6 DEF LogInv
<1>15. ASSUME NEW w \in Worker, Reset(w) PROVE LogInv'
  <2>1. UNCHANGED <<object, local>> /\ \A u \in Worker \ {w} : pc'[u] = pc[u]
    BY <1>0, <1>15 DEF Reset, ResetSteps
  <2>2. CASE pc[w] = "idle"
    <3>1. pc'[w] = "reset_approvals" /\ UNCHANGED <<approvals, tokens, previews>>
      BY <1>0, <1>15, <2>2 DEF Reset, ResetSteps
    <3>2. QED
      BY <2>1, <3>1 DEF LogInv, Owed
  <2>3. CASE pc[w] = "reset_approvals"
    <3>1. /\ pc'[w] = "reset_tokens" /\ DOMAIN approvals' = {}
          /\ UNCHANGED <<tokens, previews, audit>>
      BY <1>0, <1>15, <2>3 DEF Reset, ResetSteps, EmptyDict
    <3>2. QED
      BY <2>1, <3>1 DEF LogInv, Owed
  <2>4. CASE pc[w] = "reset_tokens"
    <3>1. /\ pc'[w] = "reset_previews" /\ tokens' = {}
          /\ UNCHANGED <<approvals, previews, audit>>
      BY <1>0, <1>15, <2>4 DEF Reset, ResetSteps
    <3>2. QED
      BY <2>1, <2>4, <3>1 DEF LogInv, Owed
  <2>5. CASE pc[w] = "reset_previews"
    <3>1. /\ pc'[w] = "reset_attempts" /\ DOMAIN previews' = {}
          /\ UNCHANGED <<approvals, tokens, audit>>
      BY <1>0, <1>15, <2>5 DEF Reset, ResetSteps, EmptyDict
    <3>2. QED
      BY <2>1, <2>5, <3>1 DEF LogInv, Owed
  <2>6. CASE pc[w] = "reset_attempts"
    <3>1. UNCHANGED <<approvals, tokens, previews, audit>>
      BY <1>15, <2>6 DEF Reset, ResetSteps
    <3>2. QED
      BY <2>1, <2>6, <3>1 DEF LogInv, Owed
  <2>7. QED
    BY <1>15, <2>2, <2>3, <2>4, <2>5, <2>6 DEF Reset, ResetSteps
<1>16. CASE UNCHANGED vars
  BY <1>16 DEF vars, LogInv, Owed
<1>17. QED
  BY <1>3, <1>4, <1>5, <1>7, <1>8, <1>9, <1>10, <1>11, <1>12, <1>13, <1>14, <1>15, <1>16
     DEF Next, Handler

\* Whenever no handler is in progress, every stored approval, token and preview is in the log.
THEOREM QuietStoresAreLogged == Spec => []StoresLoggedWhenQuiet
<1>1. Init => LogInv
  BY DEF Init, LogInv, EmptyDict
<1>2. TypeOK /\ LogInv => StoresLoggedWhenQuiet
  <2> SUFFICES ASSUME TypeOK, LogInv, Quiet PROVE StoresLoggedWhenQuiet
    BY DEF StoresLoggedWhenQuiet
  <2>1. \A w \in Worker : local[w].event = "none" /\ pc[w] = "idle"
    <3>1. ASSUME NEW w \in Worker PROVE local[w] = Blank /\ pc[w] = "idle"
      BY DEF Quiet, TypeOK, LocalOK
    <3>2. Blank.event = "none"
      BY DEF Blank
    <3>3. QED
      BY <3>1, <3>2
  <2>2. \A id \in DOMAIN approvals : approvals[id] # "none"
    BY DEF TypeOK, IsDict
  <2>3. QED
    BY <2>1, <2>2 DEF LogInv, Owed, StoresLoggedWhenQuiet
<1>3. QED
  BY <1>1, <1>2, LogStep, TypeCorrect, PTL DEF Spec
=============================================================================
