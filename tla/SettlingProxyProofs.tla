-------------------------- MODULE SettlingProxyProofs --------------------------
(***************************************************************************)
(* The composition implements its two parts, so that what is proved of     *)
(* them holds of it; and, from both, what a settlement goes back to.       *)
(***************************************************************************)
EXTENDS SettlingProxy, ActionProxyProofs

Exec == INSTANCE SettlementExecutorProofs WITH Kgld <- {}, Unreadable <- UnreadableCall

\* The executor of the composition is the one whose proofs are cited.
LEMMA SameCalls ==
    ASSUME NEW c
    PROVE  /\ Executor!Unconfigured(c) => Exec!Unconfigured(c)
           /\ Executor!Raise(c) => Exec!Raise(c)
           /\ Executor!Create(c) => Exec!Create(c)
           /\ Executor!Resume(c) => Exec!Resume(c)
  <1>1. Executor!Unconfigured(c) => Exec!Unconfigured(c)
    BY DEF Executor!Unconfigured, Exec!Unconfigured, Executor!ReturnFailed, Exec!ReturnFailed,
           Executor!Return, Exec!Return, Executor!demoKgldSettlement, Exec!demoKgldSettlement,
           Executor!Result, Exec!Result
  <1>2. (Executor!Raise(c) => Exec!Raise(c)) /\ (Executor!Create(c) => Exec!Create(c))
    BY DEF Executor!Raise, Exec!Raise, Executor!Create, Exec!Create
  <1>3. Executor!Resume(c) => Exec!Resume(c)
    BY DEF Executor!Resume, Exec!Resume, Executor!CreateFailed, Exec!CreateFailed,
           Executor!Execute, Exec!Execute, Executor!ExecuteFailed, Exec!ExecuteFailed,
           Executor!Executed, Exec!Executed, Executor!Rejected, Exec!Rejected,
           Executor!ReturnFailed, Exec!ReturnFailed,
           Executor!Return, Exec!Return, Executor!demoKgldSettlement, Exec!demoKgldSettlement,
           Executor!Result, Exec!Result, Executor!Consume, Exec!Consume,
           Executor!NoReply, Exec!NoReply
  <1> QED BY <1>1, <1>2, <1>3

LEMMA SameOrchestrator == Orchestrator => Exec!Next
  <1>1. ASSUME NEW c \in Call, Executor!ServeCreate(c)
        PROVE  Exec!ServeCreate(c)
    BY <1>1 DEF Executor!ServeCreate, Exec!ServeCreate, Executor!Respond, Exec!Respond,
       Executor!Reply, Exec!Reply
  <1>2. ASSUME NEW c \in Call, NEW id \in SettlementId, Executor!ServeExecute(c, id)
        PROVE  Exec!ServeExecute(c, id)
    BY <1>2 DEF Executor!ServeExecute, Exec!ServeExecute, Executor!Respond, Exec!Respond,
       Executor!Reply, Exec!Reply
  <1>3. ASSUME NEW r \in requests, Executor!Lose(r)
        PROVE  Exec!Lose(r)
    BY <1>3 DEF Executor!Lose, Exec!Lose
  <1> QED BY <1>1, <1>2, <1>3 DEF Orchestrator, Exec!Next

\* What happens to the executor in the composition is a step of SettlementExecutor.
LEMMA ExecutorStep == TypeOK /\ [SettlingNext]_allVars => [Exec!Next]_(Exec!vars)
  <1> SUFFICES ASSUME TypeOK, [SettlingNext]_allVars
               PROVE  [Exec!Next]_(Exec!vars)
    OBVIOUS
  <1>1. CASE UNCHANGED executorVars
    BY <1>1 DEF executorVars, Exec!vars
  <1>2. ASSUME NEW t \in TokenId, NEW a \in Action, Start(t, a)
        PROVE  [Exec!Next]_(Exec!vars)
    <2>1. ToOrchestrator(a) => <<Len(executions) + 1, a>> \in Call
      BY <1>2, MaxExecutionsAssumption DEF Start, Call, TypeOK
    <2> QED BY <1>1, <1>2, <2>1, SameCalls DEF Start, CallExecutor, Exec!Next
  <1>3. ASSUME NEW c \in Call, FetchReturns(c)
        PROVE  [Exec!Next]_(Exec!vars)
    BY <1>3, SameCalls DEF FetchReturns, Exec!Next
  <1>4. CASE Orchestrator
    BY <1>4, SameOrchestrator
  <1> QED BY <1>1, <1>2, <1>3, <1>4
          DEF SettlingNext, Resumption, OtherHandler, Complete, allVars

\* What happens to the proxy in the composition is a step of ActionProxy.
LEMMA ProxyStep == [SettlingNext]_allVars => [Next]_vars
  BY DEF SettlingNext, Resumption, OtherHandler, Start, Complete, FetchReturns, Orchestrator,
     allVars, Next

\* The proxy with its executor implements the proxy that makes up its outcomes (server.ts:276).
THEOREM CompositionImplementsProxy == SettlingSpec => Spec
  BY ProxyStep, PTL DEF SettlingSpec, SettlingInit, Spec

\* Within the proxy, the executor does what it does alone (settlement-orchestrator.ts:161-282).
THEOREM CompositionImplementsExecutor == SettlingSpec => Exec!Spec
  <1>1. SettlingInit => Exec!Init
    BY DEF SettlingInit, Executor!Init, Exec!Init, Executor!NoResult, Exec!NoResult,
       Executor!NoReply, Exec!NoReply, Executor!Result, Exec!Result
  <1>2. SettlingSpec => []TypeOK
    BY CompositionImplementsProxy, TypeCorrect, PTL
  <1> QED BY <1>1, <1>2, ExecutorStep, PTL DEF SettlingSpec, Exec!Spec
-----------------------------------------------------------------------------
\* What the proxy knows of its calls: those that are not idle are of executions it has started,
\* not past a DENY, and it has told of an execution what its call was answered.
Linked ==
    /\ \A c \in Call : pc[c] # "idle" => c[1] \in 1..Len(executions) /\ c = CallOf(c[1])
    /\ \A i \in 1..Len(executions) :
         /\ i \in 1..MaxExecutions /\ executions[i].action \in Action
         /\ executions[i].previewed # "DENY"
         /\ ToOrchestrator(executions[i].action) /\ executions[i].status = "executed"
              => pc[CallOf(i)] = "answered" /\ answer[CallOf(i)].executed

\* A call's steps are its own, and an answered call takes none.
LEMMA OwnSteps ==
    ASSUME pc \in [Call -> Exec!Stage],
           DOMAIN answer = Call, NEW c \in Call,
           \/ Executor!Unconfigured(c) \/ Executor!Raise(c) \/ Executor!Create(c)
           \/ Executor!Resume(c)
    PROVE  /\ pc[c] # "answered"
           /\ Executor!Resume(c) => pc[c] # "idle"
           /\ \A d \in Call : d # c => pc'[d] = pc[d] /\ answer'[d] = answer[d]
  BY DEF Executor!Unconfigured, Executor!Raise, Executor!Create, Executor!Resume,
     Executor!CreateFailed, Executor!Execute, Executor!ExecuteFailed, Executor!Executed,
     Executor!Rejected, Executor!ReturnFailed, Executor!Return

\* The call of an execution to the orchestrator is a call.
LEMMA CallOfExecution ==
    ASSUME Linked, NEW i \in 1..Len(executions), ToOrchestrator(executions[i].action)
    PROVE  CallOf(i) \in Call /\ CallOf(i)[1] = i
  BY DEF Linked, CallOf, Call

LEMMA LinkedStep == TypeOK /\ Exec!TypeOK /\ Linked /\ [SettlingNext]_allVars => Linked'
  <1> SUFFICES ASSUME TypeOK, Exec!TypeOK, Linked, [SettlingNext]_allVars
               PROVE  Linked'
    OBVIOUS
  <1>1. /\ pc \in [Call -> Exec!Stage]
        /\ DOMAIN answer = Call
        /\ executions \in Seq(Execution) /\ Len(executions) \in Nat
    BY DEF Exec!TypeOK, TypeOK
  <1>2. CASE UNCHANGED <<executions, pc, answer>>
    BY <1>2 DEF Linked, CallOf
  <1>3. ASSUME NEW t \in TokenId, NEW a \in Action, Start(t, a)
        PROVE  Linked'
    <2> PICK n \in Nat : n = Len(executions) + 1
      BY <1>1
    <2>1. n \in 1..MaxExecutions /\ n \notin 1..Len(executions)
      BY <1>1, <1>3, MaxExecutionsAssumption DEF Start
    <2>2. \A c \in Call : c[1] = n => pc[c] = "idle"
      BY <2>1 DEF Linked
    <2>3. /\ Len(executions') = n
          /\ executions'[n].action = a /\ executions'[n].status = "awaiting"
          /\ executions'[n].previewed # "DENY"
          /\ \A i \in 1..Len(executions) : executions'[i] = executions[i]
      <3> DEFINE e == [token |-> t, action |-> a, at |-> now, session |-> session,
                       previewed |-> previews[a.action_id], status |-> "awaiting"]
      <3>1. executions' = Append(executions, e) /\ previews[a.action_id] # "DENY"
        BY <1>3, AdmittedToken DEF Start, ExecuteAdmitted
      <3>2. e.action = a /\ e.status = "awaiting" /\ e.previewed = previews[a.action_id]
        OBVIOUS
      <3> HIDE DEF e
      <3> QED BY <1>1, <3>1, <3>2
    <2>4. \A c \in Call : c # <<n, a>> => pc'[c] = pc[c] /\ answer'[c] = answer[c]
      <3>1. CASE ToOrchestrator(a)
        <4>1. \/ Executor!Unconfigured(<<n, a>>) \/ Executor!Raise(<<n, a>>)
              \/ Executor!Create(<<n, a>>)
          BY <1>3, <3>1 DEF Start, CallExecutor
        <4>2. <<n, a>> \in Call
          BY <2>1, <3>1 DEF Call
        <4> QED BY <1>1, <4>1, <4>2, OwnSteps
      <3>2. CASE ~ToOrchestrator(a)
        BY <1>3, <3>2 DEF Start, CallExecutor, executorVars
      <3> QED BY <3>1, <3>2
    <2>5. 1..Len(executions') = 1..Len(executions) \cup {n}
      BY <1>1, <2>3
    <2>6. \A i \in 1..Len(executions) : CallOf(i)' = CallOf(i)
      BY <2>3 DEF CallOf
    <2>7. CallOf(n)' = <<n, a>>
      BY <2>3 DEF CallOf
    <2>8. ASSUME NEW c \in Call, pc'[c] # "idle"
          PROVE  c[1] \in 1..Len(executions') /\ c = CallOf(c[1])'
      <3>1. CASE c = <<n, a>>
        BY <2>5, <2>7, <3>1
      <3>2. CASE c # <<n, a>>
        <4>1. pc[c] # "idle"
          BY <2>4, <2>8, <3>2
        <4> QED BY <2>5, <2>6, <4>1 DEF Linked
      <3> QED BY <3>1, <3>2
    <2>9. ASSUME NEW i \in 1..Len(executions')
          PROVE  /\ i \in 1..MaxExecutions /\ executions'[i].action \in Action
                 /\ executions'[i].previewed # "DENY"
                 /\ ToOrchestrator(executions'[i].action) /\ executions'[i].status = "executed"
                      => pc'[CallOf(i)'] = "answered" /\ answer'[CallOf(i)'].executed
      <3>1. CASE i = n
        BY <2>1, <2>3, <3>1
      <3>2. CASE i \in 1..Len(executions)
        <4>1. ToOrchestrator(executions[i].action) => CallOf(i) \in Call /\ CallOf(i) # <<n, a>>
          BY <2>1, <3>2, CallOfExecution DEF CallOf
        <4> QED BY <2>3, <2>4, <2>6, <3>2, <4>1 DEF Linked
      <3> QED BY <2>5, <3>1, <3>2
    <2> QED BY <2>8, <2>9 DEF Linked
  <1>4. ASSUME NEW k \in 1..MaxExecutions, Complete(k)
        PROVE  Linked'
    <2>0. PICK status : executions' = [executions EXCEPT ![k].status = status]
      BY <1>4 DEF Complete, ExecuteCompleted, ExecutionRaises
    <2>1. /\ k \in 1..Len(executions)
          /\ Len(executions') = Len(executions)
          /\ \A i \in 1..Len(executions) :
               /\ executions'[i].action = executions[i].action
               /\ executions'[i].previewed = executions[i].previewed
               /\ i # k => executions'[i].status = executions[i].status
      BY <1>1, <1>4, <2>0 DEF Complete
    <2>2. /\ pc' = pc /\ answer' = answer
          /\ ToOrchestrator(executions[k].action) /\ executions'[k].status = "executed"
               => pc[CallOf(k)] = "answered" /\ answer[CallOf(k)].executed
      <3>1. CASE ExecuteCompleted(k) /\ Settled(k)
        BY <1>4, <3>1 DEF Complete, Settled, executorVars
      <3>2. CASE ExecutionRaises(k)
        <4>1. executions'[k].status = "raised"
          BY <1>1, <2>1, <3>2 DEF ExecutionRaises, Execution
        <4> QED BY <1>4, <4>1 DEF Complete, executorVars
      <3> QED BY <1>4, <3>1, <3>2 DEF Complete
    <2>3. \A i \in 1..Len(executions) : CallOf(i)' = CallOf(i)
      BY <2>1 DEF CallOf
    <2> QED BY <2>1, <2>2, <2>3 DEF Linked
  <1>5. ASSUME NEW c \in Call, FetchReturns(c)
        PROVE  Linked'
    <2>1. /\ pc[c] # "idle" /\ pc[c] # "answered"
          /\ \A d \in Call : d # c => pc'[d] = pc[d] /\ answer'[d] = answer[d]
          /\ executions' = executions
      BY <1>1, <1>5, OwnSteps DEF FetchReturns, vars
    <2>2. \A i : CallOf(i)' = CallOf(i)
      BY <2>1 DEF CallOf
    <2>3. ASSUME NEW d \in Call, pc'[d] # "idle"
          PROVE  d[1] \in 1..Len(executions) /\ d = CallOf(d[1])
      BY <2>1, <2>3 DEF Linked
    <2>4. ASSUME NEW i \in 1..Len(executions),
                 ToOrchestrator(executions[i].action), executions[i].status = "executed"
          PROVE  pc'[CallOf(i)] = "answered" /\ answer'[CallOf(i)].executed
      <3>1. CallOf(i) \in Call /\ pc[CallOf(i)] = "answered" /\ answer[CallOf(i)].executed
        BY <2>4, CallOfExecution DEF Linked
      <3> QED BY <2>1, <3>1
    <2> QED BY <2>1, <2>2, <2>3, <2>4 DEF Linked
  <1>6. CASE Orchestrator
    <2>1. pc' = pc /\ answer' = answer
      BY <1>6 DEF Orchestrator, Executor!ServeCreate, Executor!ServeExecute, Executor!Lose
    <2>2. executions' = executions
      BY <1>6 DEF Orchestrator, vars
    <2> QED BY <1>2, <2>1, <2>2
  <1>7. CASE OtherHandler
    BY <1>2, <1>7 DEF OtherHandler, executorVars, Preview, PreviewRaises, ExecuteWithoutPreview,
       vars, Approve, Deny, DemoAuditEvent, IssueToken, ExecuteRefused, RefusalRaises, Reset, Tick
  <1> QED BY <1>2, <1>3, <1>4, <1>5, <1>6, <1>7
          DEF SettlingNext, Resumption, allVars, vars, executorVars

LEMMA LinkedInvariant == SettlingSpec => []Linked
  <1>1. SettlingInit => Linked
    BY DEF SettlingInit, Init, Executor!Init, Linked
  <1>2. SettlingSpec => []TypeOK /\ []Exec!TypeOK
    <2>1. Exec!Spec => []Exec!TypeOK
      BY Exec!TypeCorrect
    <2> QED BY <2>1, CompositionImplementsProxy, CompositionImplementsExecutor, TypeCorrect, PTL
  <1> QED BY <1>1, <1>2, LinkedStep, PTL DEF SettlingSpec

\* SettlementsAreAuthorised is a fact about states in which both parts keep their invariants.
LEMMA SettlementsGoBack ==
    TokenInv /\ TypeOK /\ Exec!TypeOK /\ Exec!SettlementInv /\ Linked
      => SettlementsAreAuthorised
  <1> SUFFICES ASSUME TokenInv, TypeOK, Exec!TypeOK, Exec!SettlementInv, Linked
               PROVE  SettlementsAreAuthorised
    OBVIOUS
  <1>1. ASSUME NEW id \in DOMAIN settlements
        PROVE  LET i == settlements[id].call[1]
               IN /\ i \in 1..Len(executions)
                  /\ settlements[id].call = CallOf(i)
                  /\ actionFingerprint(executions[i].action)
                       = actionFingerprint(issued[executions[i].token].action)
                  /\ executions[i].previewed # "DENY"
    <2> DEFINE c == settlements[id].call
    <2>1. c \in Call /\ Exec!Has(c, id)
      BY DEF Exec!TypeOK, Exec!Has
    <2>2. pc[c] # "idle"
      BY <2>1 DEF Exec!SettlementInv, Exec!CallInv
    <2>3. c[1] \in 1..Len(executions) /\ c = CallOf(c[1])
      BY <2>1, <2>2 DEF Linked
    <2>4. executions[c[1]].previewed # "DENY" /\ Lawful(executions[c[1]])
      BY <2>3 DEF Linked, TokenInv
    <2> QED BY <2>3, <2>4 DEF Lawful
  <1>2. ASSUME NEW id \in DOMAIN settlements, NEW other \in DOMAIN settlements,
               executions[settlements[id].call[1]].token
                 = executions[settlements[other].call[1]].token
        PROVE  id = other
    <2>1. settlements[id].call[1] = settlements[other].call[1]
      BY <1>1, <1>2 DEF TokenInv, SingleUse
    <2>2. settlements[id].call = settlements[other].call
      BY <1>1, <2>1
    <2> QED BY <2>2 DEF Exec!SettlementInv, Exec!OneSettlementPerCall
  <1>3. ASSUME NEW i \in 1..Len(executions),
               ToOrchestrator(executions[i].action), executions[i].status = "executed"
        PROVE  \E id \in DOMAIN settlements :
                  settlements[id] = [call |-> CallOf(i), executed |-> TRUE]
    <2>1. CallOf(i) \in Call /\ answer[CallOf(i)].executed
      BY <1>3, CallOfExecution DEF Linked
    <2> QED BY <2>1 DEF Exec!SettlementInv, Exec!ClaimedIsSettled
  <1> QED BY <1>1, <1>2, <1>3 DEF SettlementsAreAuthorised

\* End to end, for any bodies, policy, tokens and settlement ids: a settlement goes back to one
\* authorised execution, no token has two, and what is reported as executed has been settled
\* (server.ts:206-284, settlement-orchestrator.ts:161-282).
THEOREM SettlementsGoBackToTokens == SettlingSpec => []SettlementsAreAuthorised
  <1>1. Exec!Spec => []Exec!SettlementInv
    BY Exec!SettlementInvariant
  <1>2. Exec!Spec => []Exec!TypeOK
    BY Exec!TypeCorrect
  <1> QED BY <1>1, <1>2, SettlementsGoBack, LinkedInvariant, TokenInvariant, TypeCorrect,
             CompositionImplementsProxy, CompositionImplementsExecutor, PTL

\* Policy, log and stores keep their properties when executions settle for real
\* (server.ts:140-314).
THEOREM GovernanceCarriesOver ==
    SettlingSpec => [](ExecutedWithinPolicy /\ AuditExplainsExecution /\ SessionStoresAgree)
  BY CompositionImplementsProxy, NothingDeniedIsExecuted, LogExplainsExecutions, StoresAgree, PTL
=============================================================================
