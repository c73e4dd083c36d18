------------------------ MODULE SettlementExecutorProofs ------------------------
(***************************************************************************)
(* What holds of the settlement executor for any number of calls and of    *)
(* ids: its type, that a call makes at most one settlement, that what it   *)
(* claims is settled, and that it implements SettlementPromise.            *)
(***************************************************************************)
EXTENDS SettlementExecutor, TLAPS

\* The failures are alike: a call that was not answered returns no claim of a real settlement.
Fails(c) ==
    /\ pc[c] # "answered"
    /\ \E id \in Id : ReturnFailed(c, id)
    /\ (reply' = reply /\ ~reply[c].arrived) \/ Consume(c)
    /\ UNCHANGED <<accounts, settlementId, requests, settlements>>

\* The four ways to fail are failures.
LEMMA Failures ==
    ASSUME TypeOK, SettlementInv, NEW c \in Call,
           Unconfigured(c) \/ CreateFailed(c) \/ ExecuteFailed(c) \/ Rejected(c)
    PROVE  Fails(c)
<1>1. settlementId[c] \in Id /\ "none" \in Id /\ CallInv(c)
  BY DEF TypeOK, Id, SettlementInv
<1>2. QED
  BY <1>1 DEF Fails, Unconfigured, CreateFailed, ExecuteFailed, Rejected, CallInv

\* The result of a failure is well typed.
LEMMA FailureType ==
    ASSUME NEW id \in Id
    PROVE  /\ demoKgldSettlement \in ExecutionResult
           /\ Result(FALSE, id, "none") \in ExecutionResult
BY DEF demoKgldSettlement, Result, ExecutionResult

LEMMA NoReplyType == NoReply \in ReplyType
BY DEF NoReply, ReplyType, Id
-----------------------------------------------------------------------------
\* Every step keeps the calls, the wire and the settlements well typed.
LEMMA TypeStep == TypeOK /\ SettlementInv /\ [Next]_vars => TypeOK'
<1> SUFFICES ASSUME TypeOK, SettlementInv, [Next]_vars PROVE TypeOK'
  OBVIOUS
<1>1. ASSUME NEW c \in Call, Fails(c) PROVE TypeOK'
  <2>1. PICK id \in Id : ReturnFailed(c, id)
    BY <1>1 DEF Fails
  <2>2. answer' \in [Call -> ExecutionResult]
    BY <2>1, FailureType DEF ReturnFailed, Return, TypeOK
  <2>3. reply' \in [Call -> ReplyType]
    BY <1>1, NoReplyType DEF Fails, Consume, TypeOK
  <2>4. /\ pc' \in [Call -> Stage]
        /\ \A d \in Call : pc'[d] = "executing" => pc[d] = "executing"
    BY <2>1 DEF ReturnFailed, Return, TypeOK, Stage
  <2>5. QED
    BY <1>1, <2>2, <2>3, <2>4 DEF Fails, TypeOK
<1>2. ASSUME NEW c \in Call, Create(c) PROVE TypeOK'
  BY <1>2 DEF Create, TypeOK, Request, Stage
<1>3. ASSUME NEW c \in Call, Execute(c) PROVE TypeOK'
  <2>1. reply[c].id \in SettlementId
    BY <1>3 DEF Execute, TypeOK, ReplyType, Id
  <2>2. reply' \in [Call -> ReplyType]
    BY <1>3, NoReplyType DEF Execute, Consume, TypeOK
  <2>3. requests' \subseteq Request
    BY <1>3, <2>1 DEF Execute, TypeOK, Request
  <2>4. settlementId' \in [Call -> Id]
    BY <1>3, <2>1 DEF Execute, TypeOK, Id
  <2>5. QED
    BY <1>3, <2>2, <2>3, <2>4 DEF Execute, TypeOK, Stage
<1>4. ASSUME NEW c \in Call, Executed(c) PROVE TypeOK'
  <2>1. Result(TRUE, settlementId[c], "ledger") \in ExecutionResult
    BY DEF TypeOK, Result, ExecutionResult
  <2>2. reply' \in [Call -> ReplyType]
    BY <1>4, NoReplyType DEF Executed, Consume, TypeOK
  <2>3. answer' \in [Call -> ExecutionResult]
    BY <1>4, <2>1 DEF Executed, Return, TypeOK
  <2>4. QED
    BY <1>4, <2>2, <2>3 DEF Executed, Return, TypeOK, Stage
<1>5. ASSUME NEW c \in Call, NEW id \in Id, NEW ok \in BOOLEAN, NEW hash \in BOOLEAN,
             NEW waiting, Respond(c, waiting, Reply(ok, id, hash))
      PROVE  reply' \in [Call -> ReplyType]
  <2>1. Reply(ok, id, hash) \in ReplyType
    BY DEF Reply, ReplyType
  <2>2. QED
    BY <1>5, <2>1 DEF Respond, TypeOK
<1>6. ASSUME NEW c \in Call, ServeCreate(c) PROVE TypeOK'
  <2>1. reply' \in [Call -> ReplyType]
    BY <1>5, <1>6 DEF ServeCreate, Id
  <2>2. /\ DOMAIN settlements' \subseteq SettlementId
        /\ \A id \in DOMAIN settlements' :
              settlements'[id] \in [call : Call, executed : BOOLEAN]
    <3>1. CASE UNCHANGED settlements
      BY <3>1 DEF TypeOK
    <3>2. CASE ~UNCHANGED settlements
      <4>1. PICK id \in SettlementId : settlements' =
                [i \in DOMAIN settlements \cup {id} |->
                    IF i = id THEN [call |-> c, executed |-> FALSE] ELSE settlements[i]]
        BY <1>6, <3>2 DEF ServeCreate
      <4>2. [call |-> c, executed |-> FALSE] \in [call : Call, executed : BOOLEAN]
        OBVIOUS
      <4>3. QED
        BY <4>1, <4>2 DEF TypeOK
    <3>3. QED
      BY <3>1, <3>2
  <2>3. QED
    BY <1>6, <2>1, <2>2 DEF ServeCreate, TypeOK
<1>7. ASSUME NEW c \in Call, NEW id \in SettlementId, ServeExecute(c, id) PROVE TypeOK'
  <2>1. reply' \in [Call -> ReplyType]
    BY <1>5, <1>7 DEF ServeExecute, Id
  <2>2. /\ DOMAIN settlements' \subseteq SettlementId
        /\ \A i \in DOMAIN settlements' :
              settlements'[i] \in [call : Call, executed : BOOLEAN]
    <3>1. settlements' \in {settlements, [settlements EXCEPT ![id].executed = TRUE]}
      BY <1>7 DEF ServeExecute
    <3>2. ASSUME NEW r \in [call : Call, executed : BOOLEAN]
          PROVE  [r EXCEPT !.executed = TRUE] \in [call : Call, executed : BOOLEAN]
      OBVIOUS
    <3>3. CASE settlements' = [settlements EXCEPT ![id].executed = TRUE]
      BY <3>2, <3>3 DEF TypeOK
    <3>4. QED
      BY <3>1, <3>3 DEF TypeOK
  <2>3. QED
    BY <1>7, <2>1, <2>2 DEF ServeExecute, TypeOK
<1>8. ASSUME NEW r \in requests, Lose(r) PROVE TypeOK'
  BY <1>8 DEF Lose, TypeOK
<1>9. CASE UNCHANGED vars
  BY <1>9 DEF vars, TypeOK
<1>10. ASSUME NEW c \in Call, Raise(c) PROVE TypeOK'
  BY <1>10 DEF Raise, TypeOK, Stage
<1>11. QED
  BY <1>1, <1>2, <1>3, <1>4, <1>6, <1>7, <1>8, <1>9, <1>10, Failures DEF Next, Resume
-----------------------------------------------------------------------------
\* A failed call claims nothing, or what it may make up.
LEMMA FailureClaims ==
    ASSUME TypeOK, ClaimedIsSettled, NEW c \in Call, Fails(c)
    PROVE  ClaimedIsSettled'
<1>1. PICK id \in Id : ReturnFailed(c, id)
  BY DEF Fails
<1>2. ASSUME NEW d \in Call, answer'[d].executed
      PROVE  \/ d \in Kgld /\ answer'[d] = demoKgldSettlement
             \/ answer'[d] = answer[d]
  BY <1>1, <1>2 DEF ReturnFailed, Return, Result, TypeOK
<1>3. QED
  BY <1>2 DEF ClaimedIsSettled, Fails, demoKgldSettlement, Result

\* The orchestrator's records of a call are disturbed by no step but those that serve it.
LEMMA FailureKeepsCalls ==
    ASSUME TypeOK, SettlementInv, NEW c \in Call, Fails(c), NEW d \in Call
    PROVE  CallInv(d)'
<1>1. CallInv(d) /\ pc'[c] = "answered" /\ (d # c => pc'[d] = pc[d] /\ reply'[d] = reply[d])
  BY DEF SettlementInv, Fails, ReturnFailed, Return, Consume, TypeOK
<1>2. ~reply'[c].arrived
  BY DEF Fails, Consume, TypeOK, NoReply
<1>3. QED
  BY <1>1, <1>2 DEF Fails, CallInv, Has

\* Every step keeps the inductive invariant.
LEMMA SettlementStep == TypeOK /\ SettlementInv /\ [Next]_vars => SettlementInv'
<1> SUFFICES ASSUME TypeOK, SettlementInv, [Next]_vars PROVE SettlementInv'
  OBVIOUS
<1>0. /\ OneSettlementPerCall /\ ClaimedIsSettled /\ \A d \in Call : CallInv(d)
      /\ pc \in [Call -> Stage]
      /\ reply \in [Call -> ReplyType] /\ settlementId \in [Call -> Id]
  BY DEF SettlementInv, TypeOK
<1>1. ASSUME NEW c \in Call, Fails(c) PROVE SettlementInv'
  <2>1. OneSettlementPerCall'
    BY <1>0, <1>1 DEF Fails, OneSettlementPerCall
  <2>2. QED
    BY <1>0, <1>1, <2>1, FailureClaims, FailureKeepsCalls DEF SettlementInv
<1>2. ASSUME NEW c \in Call, Create(c) PROVE SettlementInv'
  <2>1. OneSettlementPerCall' /\ ClaimedIsSettled'
    BY <1>0, <1>2 DEF Create, OneSettlementPerCall, ClaimedIsSettled
  <2>2. ASSUME NEW d \in Call PROVE CallInv(d)'
    <3>1. CallInv(d) /\ CallInv(c)
      BY <1>0
    <3>2. pc'[c] = "creating" /\ (d # c => pc'[d] = pc[d]) /\ ~reply[c].arrived
      BY <1>0, <1>2 DEF Create, CallInv
    <3>3. QED
      BY <1>2, <3>1, <3>2 DEF Create, CallInv, Has
  <2>3. QED
    BY <2>1, <2>2 DEF SettlementInv
<1>3. ASSUME NEW c \in Call, Execute(c) PROVE SettlementInv'
  <2>1. OneSettlementPerCall' /\ ClaimedIsSettled'
    BY <1>0, <1>3 DEF Execute, OneSettlementPerCall, ClaimedIsSettled
  <2>2. ASSUME NEW d \in Call PROVE CallInv(d)'
    <3>1. CallInv(d)
      BY <1>0
    <3>2. CASE d # c
      BY <1>0, <1>3, <3>1, <3>2 DEF Execute, Consume, CallInv, Has
    <3>3. CASE d = c
      <4>1. /\ pc'[c] = "executing" /\ settlementId'[c] = reply[c].id
            /\ reply'[c] = NoReply /\ ~NoReply.arrived
            /\ Has(c, reply[c].id)
        BY <1>0, <1>3 DEF Execute, Consume, CallInv, NoReply
      <4>2. <<"create", c, "none">> \notin requests'
        BY <1>3, <3>1, <3>3, <4>1 DEF Execute, CallInv, Has
      <4>3. \A id \in SettlementId : <<"execute", c, id>> \in requests' => id = reply[c].id
        BY <1>0, <1>3, <3>1, <3>3 DEF Execute, CallInv
      <4>4. QED
        BY <1>3, <3>3, <4>1, <4>2, <4>3 DEF Execute, CallInv, Has
    <3>4. QED
      BY <3>2, <3>3
  <2>3. QED
    BY <2>1, <2>2 DEF SettlementInv
<1>4. ASSUME NEW c \in Call, Executed(c) PROVE SettlementInv'
  <2>1. OneSettlementPerCall'
    BY <1>0, <1>4 DEF Executed, OneSettlementPerCall
  <2>2. settlements[settlementId[c]] = [call |-> c, executed |-> TRUE]
        /\ settlementId[c] \in DOMAIN settlements
    BY <1>0, <1>4 DEF Executed, CallInv, Has, TypeOK
  <2>3. ClaimedIsSettled'
    BY <1>0, <1>4, <2>2 DEF Executed, Return, Result, ClaimedIsSettled, TypeOK
  <2>4. ASSUME NEW d \in Call PROVE CallInv(d)'
    <3>1. CallInv(d) /\ pc'[c] = "answered" /\ ~reply'[c].arrived
          /\ (d # c => pc'[d] = pc[d] /\ reply'[d] = reply[d])
      BY <1>0, <1>4 DEF Executed, Return, Consume, NoReply
    <3>2. QED
      BY <1>4, <3>1 DEF Executed, CallInv, Has
  <2>5. QED
    BY <2>1, <2>3, <2>4 DEF SettlementInv
<1>5. ASSUME NEW c \in Call, ServeCreate(c) PROVE SettlementInv'
  <2>1. /\ <<"create", c, "none">> \in requests
        /\ requests' = requests \ {<<"create", c, "none">>}
        /\ UNCHANGED <<pc, settlementId, answer>>
        /\ \A d \in Call : d # c => reply'[d] = reply[d]
        /\ pc[c] # "creating" => reply' = reply
        /\ ~\E i \in DOMAIN settlements : Has(c, i)
        /\ pc[c] \notin {"idle", "raised"}
    BY <1>0, <1>5 DEF ServeCreate, Respond, CallInv
  <2>2. CASE UNCHANGED settlements
    <3>1. OneSettlementPerCall' /\ ClaimedIsSettled'
      BY <1>0, <2>1, <2>2 DEF OneSettlementPerCall, ClaimedIsSettled
    <3>2. reply'[c].id = "none" \/ pc[c] # "creating"
      <4>1. ASSUME NEW id \in SettlementId \ DOMAIN settlements,
                   settlements' = [i \in DOMAIN settlements \cup {id} |->
                       IF i = id THEN [call |-> c, executed |-> FALSE] ELSE settlements[i]]
            PROVE  FALSE
        <5>1. DOMAIN settlements' = DOMAIN settlements \cup {id}
          BY <4>1
        <5>2. QED
          BY <2>2, <4>1, <5>1
      <4>2. \E ok \in BOOLEAN : Respond(c, "creating", Reply(ok, "none", FALSE))
        BY <1>5, <4>1 DEF ServeCreate
      <4>3. QED
        BY <1>0, <4>2 DEF Respond, Reply
    <3>3. ASSUME NEW d \in Call PROVE CallInv(d)'
      BY <1>0, <2>1, <2>2, <3>2 DEF CallInv, Has
    <3>4. QED
      BY <3>1, <3>3 DEF SettlementInv
  <2>3. CASE ~UNCHANGED settlements
    <3>1. PICK id \in SettlementId \ DOMAIN settlements :
             /\ settlements' = [i \in DOMAIN settlements \cup {id} |->
                    IF i = id THEN [call |-> c, executed |-> FALSE] ELSE settlements[i]]
             /\ \E ok \in BOOLEAN, known \in {id, "none"} :
                    Respond(c, "creating", Reply(ok, known, FALSE))
      BY <1>5, <2>3 DEF ServeCreate
    <3>2. /\ DOMAIN settlements' = DOMAIN settlements \cup {id}
          /\ settlements'[id].call = c
          /\ \A i \in DOMAIN settlements : settlements'[i] = settlements[i]
      BY <3>1
    <3>3. OneSettlementPerCall' /\ ClaimedIsSettled'
      BY <1>0, <2>1, <3>2 DEF OneSettlementPerCall, ClaimedIsSettled, Has
    <3>4. pc[c] = "creating" => reply'[c].id \in {id, "none"}
      BY <1>0, <3>1 DEF Respond, Reply
    <3>5. ASSUME NEW d \in Call PROVE CallInv(d)'
      <4>1. CallInv(d)
        BY <1>0
      <4>2. CASE d # c
        BY <2>1, <3>2, <4>1, <4>2 DEF CallInv, Has
      <4>3. CASE d = c
        BY <2>1, <3>2, <3>4, <4>1, <4>3 DEF CallInv, Has
      <4>4. QED
        BY <4>2, <4>3
    <3>6. QED
      BY <3>3, <3>5 DEF SettlementInv
  <2>4. QED
    BY <2>2, <2>3
<1>6. ASSUME NEW c \in Call, NEW id \in SettlementId, ServeExecute(c, id) PROVE SettlementInv'
  <2>1. /\ <<"execute", c, id>> \in requests
        /\ requests' = requests \ {<<"execute", c, id>>}
        /\ UNCHANGED <<pc, settlementId, answer>>
        /\ \A d \in Call : d # c => reply'[d] = reply[d]
        /\ pc[c] # "executing" => reply' = reply
        /\ pc[c] \in {"executing", "answered"} /\ Has(c, id) /\ settlementId[c] = id
    BY <1>0, <1>6 DEF ServeExecute, Respond, CallInv
  <2>2. /\ DOMAIN settlements' = DOMAIN settlements
        /\ \A i \in DOMAIN settlements :
              /\ settlements'[i].call = settlements[i].call
              /\ settlements[i].executed => settlements'[i] = settlements[i]
    <3>1. settlements' \in {settlements, [settlements EXCEPT ![id].executed = TRUE]}
      BY <1>6 DEF ServeExecute
    <3>2. CASE settlements' = [settlements EXCEPT ![id].executed = TRUE]
      <4>1. \A i \in DOMAIN settlements : settlements[i] \in [call : Call, executed : BOOLEAN]
        BY DEF TypeOK
      <4>2. QED
        BY <3>2, <4>1
    <3>3. QED
      BY <3>1, <3>2
  <2>3. pc[c] = "executing" /\ reply'[c].hash => settlements'[id].executed
    <3>1. PICK done \in BOOLEAN, ok \in BOOLEAN, hash \in BOOLEAN :
             /\ hash => done
             /\ settlements' = IF done THEN [settlements EXCEPT ![id].executed = TRUE]
                                       ELSE settlements
             /\ Respond(c, "executing", Reply(ok, id, hash))
      BY <1>6 DEF ServeExecute
    <3>2. pc[c] = "executing" => reply'[c].hash = hash
      BY <1>0, <3>1 DEF Respond, Reply
    <3>3. settlements[id] \in [call : Call, executed : BOOLEAN]
      BY <2>1 DEF Has, TypeOK
    <3>4. done => settlements'[id].executed
      BY <2>1, <3>1, <3>3 DEF Has
    <3>5. QED
      BY <3>1, <3>2, <3>4
  <2>4. OneSettlementPerCall' /\ ClaimedIsSettled'
    BY <1>0, <2>1, <2>2 DEF OneSettlementPerCall, ClaimedIsSettled
  <2>5. ASSUME NEW d \in Call PROVE CallInv(d)'
    <3>1. CallInv(d)
      BY <1>0
    <3>2. pc[d] = "executing" /\ reply'[d].arrived /\ reply'[d].hash
              => settlements'[settlementId[d]].executed
      <4>1. CASE d = c
        BY <2>1, <2>3, <4>1
      <4>2. CASE d # c
        BY <2>1, <2>2, <3>1, <4>2 DEF CallInv, Has
      <4>3. QED
        BY <4>1, <4>2
    <3>3. reply'[d].arrived => pc[d] \in {"creating", "executing"}
      BY <2>1, <3>1 DEF CallInv
    <3>4. pc[d] = "creating" => reply'[d] = reply[d]
      BY <2>1
    <3>5. UNCHANGED <<pc, settlementId>> /\ requests' \subseteq requests
      BY <2>1
    <3>6. QED
      BY <2>2, <3>1, <3>2, <3>3, <3>4, <3>5 DEF CallInv, Has
  <2>6. QED
    BY <2>4, <2>5 DEF SettlementInv
<1>7. ASSUME NEW r \in requests, Lose(r) PROVE SettlementInv'
  <2>1. OneSettlementPerCall' /\ ClaimedIsSettled'
    BY <1>0, <1>7 DEF Lose, OneSettlementPerCall, ClaimedIsSettled
  <2>2. ASSUME NEW d \in Call PROVE CallInv(d)'
    BY <1>0, <1>7 DEF Lose, CallInv, Has
  <2>3. QED
    BY <2>1, <2>2 DEF SettlementInv
<1>8. CASE UNCHANGED vars
  <2>1. OneSettlementPerCall' /\ ClaimedIsSettled'
    BY <1>0, <1>8 DEF vars, OneSettlementPerCall, ClaimedIsSettled
  <2>2. ASSUME NEW d \in Call PROVE CallInv(d)'
    BY <1>0, <1>8 DEF vars, CallInv, Has
  <2>3. QED
    BY <2>1, <2>2 DEF SettlementInv
<1>9. ASSUME NEW c \in Call, Raise(c) PROVE SettlementInv'
  <2>1. OneSettlementPerCall' /\ ClaimedIsSettled'
    BY <1>0, <1>9 DEF Raise, OneSettlementPerCall, ClaimedIsSettled
  <2>2. ASSUME NEW d \in Call PROVE CallInv(d)'
    <3>1. CallInv(d) /\ CallInv(c)
      BY <1>0
    <3>2. pc[c] = "idle" /\ pc'[c] = "raised" /\ (d # c => pc'[d] = pc[d])
      BY <1>0, <1>9 DEF Raise
    <3>3. QED
      BY <1>9, <3>1, <3>2 DEF Raise, CallInv, Has
  <2>3. QED
    BY <2>1, <2>2 DEF SettlementInv
<1>10. QED
  BY <1>1, <1>2, <1>3, <1>4, <1>5, <1>6, <1>7, <1>8, <1>9, Failures DEF Next, Resume
-----------------------------------------------------------------------------
\* The initial states satisfy the type and the inductive invariant.
LEMMA InitHolds == Init => TypeOK /\ SettlementInv
<1> SUFFICES ASSUME Init PROVE TypeOK /\ SettlementInv
  OBVIOUS
<1>1. NoResult \in ExecutionResult /\ ~NoResult.executed /\ ~NoReply.arrived
  BY FailureType DEF NoResult, Result, ExecutionResult, Id, NoReply
<1>2. TypeOK
  BY <1>1, NoReplyType DEF Init, TypeOK, Id, Request, Stage
<1>3. SettlementInv
  BY <1>1 DEF Init, SettlementInv, OneSettlementPerCall, ClaimedIsSettled, CallInv, Has
<1>4. QED
  BY <1>2, <1>3

\* The executor's calls, the wire and the orchestrator's settlements stay well typed.
THEOREM TypeCorrect == Spec => []TypeOK
<1>1. TypeOK /\ SettlementInv /\ [Next]_vars => (TypeOK /\ SettlementInv)'
  BY TypeStep, SettlementStep
<1>2. QED
  BY <1>1, InitHolds, PTL DEF Spec

\* What the executor and the wire know of a settlement is true of it at the orchestrator.
THEOREM SettlementInvariant == Spec => []SettlementInv
<1>1. TypeOK /\ SettlementInv /\ [Next]_vars => (TypeOK /\ SettlementInv)'
  BY TypeStep, SettlementStep
<1>2. QED
  BY <1>1, InitHolds, PTL DEF Spec

\* A call, and so a token, makes at most one settlement, whatever requests and replies are lost.
THEOREM SettlesOnce == Spec => []OneSettlementPerCall
<1>1. SettlementInv => OneSettlementPerCall
  BY DEF SettlementInv
<1>2. QED
  BY <1>1, SettlementInvariant, PTL

\* A settlement that is reported with a hash of the ledger is the executed one of the call.
THEOREM ClaimsAreSettled == Spec => []ClaimedIsSettled
<1>1. SettlementInv => ClaimedIsSettled
  BY DEF SettlementInv
<1>2. QED
  BY <1>1, SettlementInvariant, PTL
-----------------------------------------------------------------------------
Settled(c) == \E id \in DOMAIN settlements : settlements[id] = [call |-> c, executed |-> TRUE]
Answered(c) == IF pc[c] # "answered" THEN "none"
               ELSE IF answer[c].executed THEN "executed" ELSE "blocked"

\* What a step does to the promise is settled by what it does to the calls' labels, answers and
\* settlements: a call that is not answered is answered, and the rest is as it was.
LEMMA AnsweringIsPromised ==
    ASSUME TypeOK, NEW c \in Call, pc[c] # "answered", NEW result,
           Return(c, result), UNCHANGED settlements,
           result.executed \in BOOLEAN, result.executed => c \in Kgld \/ Settled(c)
    PROVE  Promise!Next
<1> DEFINE outcome == IF result.executed THEN "executed" ELSE "blocked"
<1>1. pc' = [pc EXCEPT ![c] = "answered"] /\ answer' = [answer EXCEPT ![c] = result]
  BY DEF Return
<1>2. [d \in Call |-> Answered(d)]' = [[d \in Call |-> Answered(d)] EXCEPT ![c] = outcome]
  BY <1>1 DEF Answered, TypeOK
<1>3. {d \in Call : pc[d] # "idle"}' = {d \in Call : pc[d] # "idle"} \cup {c}
  BY <1>1 DEF TypeOK
<1>4. Promise!Answer(c, outcome)
  BY <1>2, <1>3 DEF Promise!Answer, Answered, Settled
<1>5. QED
  BY <1>4 DEF Promise!Next
-----------------------------------------------------------------------------
\* A step that leaves the calls' labels, answers and settlements alone is a stutter.
LEMMA Stutter ==
    ASSUME {c \in Call : pc[c] # "idle"}' = {c \in Call : pc[c] # "idle"},
           {c \in Call : Settled(c)}' = {c \in Call : Settled(c)},
           [c \in Call |-> Answered(c)]' = [c \in Call |-> Answered(c)]
    PROVE  UNCHANGED Promise!vars
BY DEF Promise!vars, Settled, Answered

\* A step of the executor or of the orchestrator is a step of the promise or a stutter.
LEMMA PromiseStep ==
    TypeOK /\ SettlementInv /\ [Next]_vars => [Promise!Next]_(Promise!vars)
<1> SUFFICES ASSUME TypeOK, SettlementInv, [Next]_vars PROVE [Promise!Next]_(Promise!vars)
  OBVIOUS
<1>0. /\ \A d \in Call : CallInv(d)
      /\ pc \in [Call -> Stage]
  BY DEF SettlementInv, TypeOK
<1>1. ASSUME NEW c \in Call, Fails(c) PROVE Promise!Next
  <2>1. PICK id \in Id : ReturnFailed(c, id)
    BY <1>1 DEF Fails
  <2> DEFINE r == IF c \in Kgld THEN demoKgldSettlement ELSE Result(FALSE, id, "none")
  <2>2. Return(c, r)
    BY <2>1 DEF ReturnFailed
  <2>3. r.executed \in BOOLEAN /\ (r.executed => c \in Kgld)
    BY DEF demoKgldSettlement, Result
  <2> HIDE DEF r
  <2>4. QED
    BY <1>1, <2>2, <2>3, AnsweringIsPromised DEF Fails
<1>2. ASSUME NEW c \in Call, Executed(c) PROVE Promise!Next
  <2>1. Settled(c)
    <3>1. /\ settlements[settlementId[c]] = [call |-> c, executed |-> TRUE]
          /\ settlementId[c] \in DOMAIN settlements
      BY <1>0, <1>2 DEF Executed, CallInv, Has, TypeOK
    <3>2. QED
      BY <3>1 DEF Settled
  <2>2. Result(TRUE, settlementId[c], "ledger").executed = TRUE
    BY DEF Result
  <2>3. QED
    BY <1>2, <2>1, <2>2, AnsweringIsPromised DEF Executed
<1>3. ASSUME NEW c \in Call, Create(c) PROVE Promise!Next
  <2>1. {d \in Call : pc[d] # "idle"}' = {d \in Call : pc[d] # "idle"} \cup {c}
    BY <1>0, <1>3 DEF Create
  <2>2. [d \in Call |-> Answered(d)]' = [d \in Call |-> Answered(d)]
    BY <1>0, <1>3 DEF Create, Answered
  <2>3. Promise!Begin(c)
    BY <1>3, <2>1, <2>2 DEF Create, Promise!Begin, Answered
  <2>4. QED
    BY <2>3 DEF Promise!Next
<1>4. ASSUME NEW c \in Call, Execute(c) PROVE UNCHANGED Promise!vars
  <2>1. {d \in Call : pc[d] # "idle"}' = {d \in Call : pc[d] # "idle"}
    BY <1>0, <1>4 DEF Execute
  <2>2. [d \in Call |-> Answered(d)]' = [d \in Call |-> Answered(d)]
    BY <1>0, <1>4 DEF Execute, Answered
  <2>3. {d \in Call : Settled(d)}' = {d \in Call : Settled(d)}
    BY <1>4 DEF Execute, Settled
  <2>4. QED
    BY <2>1, <2>2, <2>3, Stutter
<1>5. ASSUME NEW c \in Call, ServeCreate(c) PROVE UNCHANGED Promise!vars
  <2>1. UNCHANGED <<pc, answer>>
    BY <1>5 DEF ServeCreate
  <2>2. \/ UNCHANGED settlements
        \/ \E id \in SettlementId \ DOMAIN settlements : settlements' =
               [i \in DOMAIN settlements \cup {id} |->
                   IF i = id THEN [call |-> c, executed |-> FALSE] ELSE settlements[i]]
    BY <1>5 DEF ServeCreate
  <2>3. \A d \in Call : Settled(d)' <=> Settled(d)
    <3>1. CASE UNCHANGED settlements
      BY <3>1 DEF Settled
    <3>2. ASSUME NEW id \in SettlementId \ DOMAIN settlements,
                 settlements' = [i \in DOMAIN settlements \cup {id} |->
                     IF i = id THEN [call |-> c, executed |-> FALSE] ELSE settlements[i]]
          PROVE  \A d \in Call : Settled(d)' <=> Settled(d)
      <4>1. \A d : [call |-> c, executed |-> FALSE] # [call |-> d, executed |-> TRUE]
        OBVIOUS
      <4>2. QED
        BY <3>2, <4>1 DEF Settled
    <3>3. QED
      BY <2>2, <3>1, <3>2
  <2>4. QED
    BY <2>1, <2>3, Stutter DEF Answered
<1>6. ASSUME NEW c \in Call, NEW id \in SettlementId, ServeExecute(c, id)
      PROVE  [Promise!Next]_(Promise!vars)
  <2>1. UNCHANGED <<pc, answer>> /\ Has(c, id) /\ pc[c] # "idle"
    BY <1>0, <1>6 DEF ServeExecute, CallInv
  <2>2. CASE UNCHANGED settlements
    BY <2>1, <2>2, Stutter DEF Answered, Settled
  <2>3. CASE settlements' = [settlements EXCEPT ![id].executed = TRUE]
    <3>1. settlements[id] \in [call : Call, executed : BOOLEAN] /\ settlements[id].call = c
      BY <2>1 DEF Has, TypeOK
    <3>2. /\ DOMAIN settlements' = DOMAIN settlements
          /\ settlements'[id] = [call |-> c, executed |-> TRUE]
          /\ \A i \in DOMAIN settlements : i # id => settlements'[i] = settlements[i]
      BY <2>1, <2>3, <3>1 DEF Has
    <3>3. Settled(c)' /\ \A d \in Call : d # c => (Settled(d)' <=> Settled(d))
      <4>1. Settled(c)'
        BY <2>1, <3>2 DEF Settled, Has
      <4>2. ASSUME NEW d \in Call, d # c PROVE Settled(d)' <=> Settled(d)
        <5>1. \A i \in DOMAIN settlements : settlements[i] = [call |-> d, executed |-> TRUE]
                                              => i # id
          BY <3>1, <4>2
        <5>2. [call |-> c, executed |-> TRUE] # [call |-> d, executed |-> TRUE]
          BY <4>2
        <5>3. QED
          BY <3>2, <5>1, <5>2 DEF Settled
      <4>3. QED
        BY <4>1, <4>2
    <3>4. CASE Settled(c)
      BY <2>1, <3>3, <3>4, Stutter DEF Answered
    <3>5. CASE ~Settled(c)
      <4>1. {d \in Call : Settled(d)}' = {d \in Call : Settled(d)} \cup {c}
        BY <3>3
      <4>2. c \in {d \in Call : pc[d] # "idle"} \ {d \in Call : Settled(d)}
        BY <2>1, <3>5
      <4>3. Promise!Settle(c)
        BY <2>1, <4>1, <4>2 DEF Promise!Settle, Settled, Answered
      <4>4. QED
        BY <4>3 DEF Promise!Next
    <3>6. QED
      BY <3>4, <3>5
  <2>4. QED
    BY <1>6, <2>2, <2>3 DEF ServeExecute
<1>7. ASSUME NEW r \in requests, Lose(r) PROVE UNCHANGED Promise!vars
  BY <1>7, Stutter DEF Lose, Settled, Answered
<1>8. CASE UNCHANGED vars
  BY <1>8, Stutter DEF vars, Settled, Answered
<1>9. ASSUME NEW c \in Call, Raise(c) PROVE Promise!Next
  <2>1. {d \in Call : pc[d] # "idle"}' = {d \in Call : pc[d] # "idle"} \cup {c}
    BY <1>0, <1>9 DEF Raise
  <2>2. [d \in Call |-> Answered(d)]' = [d \in Call |-> Answered(d)]
    BY <1>0, <1>9 DEF Raise, Answered
  <2>3. Promise!Begin(c)
    BY <1>9, <2>1, <2>2 DEF Raise, Promise!Begin, Answered
  <2>4. QED
    BY <2>3 DEF Promise!Next
<1>10. QED
  BY <1>1, <1>2, <1>3, <1>4, <1>5, <1>6, <1>7, <1>8, <1>9, Failures DEF Next, Resume

\* The executor implements SettlementPromise: one settlement and one answer per call, and no
\* claim of a settlement that has not happened but for the simulated ones.
THEOREM ExecutorKeepsPromise == Spec => KeepsPromise
<1>1. Init => Promise!Init
  BY DEF Init, Promise!Init
<1>2. TypeOK /\ SettlementInv /\ [Next]_vars => [Promise!Next]_(Promise!vars)
  BY PromiseStep
<1>3. QED
  BY <1>1, <1>2, TypeCorrect, SettlementInvariant, PTL DEF Spec, KeepsPromise, Promise!Spec
=============================================================================
