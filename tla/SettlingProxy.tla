----------------------------- MODULE SettlingProxy -----------------------------
(***************************************************************************)
(* The action proxy with its Settlement Orchestrator executor: what        *)
(* ActionProxy takes as an outcome of its own choice is here the answer of *)
(* SettlementExecutor to a call of execute().  A call is known by the place *)
(* of its execution and by its body, so that a token that started two      *)
(* executions would have two calls.  The handler that starts an execution  *)
(* runs on into the executor up to its first fetch, and resumes when the   *)
(* call has been answered or has raised.                                   *)
(*                                                                         *)
(* No body is a KGLD loan, the one kind whose failures are answered with a *)
(* made-up settlement: that is SettlementExecutor's subject.               *)
(***************************************************************************)
EXTENDS ActionProxy

CONSTANTS
    SettlementId,  \* the identifiers the orchestrator can draw
    MaxExecutions  \* bound

ASSUME MaxExecutionsAssumption == MaxExecutions \in Nat

VARIABLES accounts, pc, settlementId, answer, requests, reply, settlements

Call == (1..MaxExecutions) \X {a \in Action : ToOrchestrator(a)}
UnreadableCall == {c \in Call : ~Readable(c[2])}
Executor == INSTANCE SettlementExecutor WITH Kgld <- {}, Unreadable <- UnreadableCall

executorVars == <<accounts, pc, settlementId, answer, requests, reply, settlements>>
allVars == <<vars, executorVars>>

\* The call that execution i has made of the executor, if it is for the orchestrator
CallOf(i) == <<i, executions[i].action>>

SettlingInit == Init /\ Executor!Init
-----------------------------------------------------------------------------
\* The handlers that call no executor, and the clock
OtherHandler ==
    /\ \/ \E a \in Action : Preview(a) \/ PreviewRaises(a) \/ ExecuteWithoutPreview(a)
       \/ \E id \in ActionId : Approve(id) \/ Deny(id)
       \/ \E type \in ForgedType, id \in ActionId : DemoAuditEvent(type, id)
       \/ \E t \in TokenId, a \in Action :
             IssueToken(t, a) \/ ExecuteRefused(t, a) \/ RefusalRaises(t, a)
       \/ Reset
       \/ Tick
    /\ UNCHANGED executorVars

\* createExecutor: by target system, one of the mocks or the orchestrator's executor
CallExecutor(i, a) ==
    IF ToOrchestrator(a)
    THEN Executor!Unconfigured(<<i, a>>) \/ Executor!Raise(<<i, a>>) \/ Executor!Create(<<i, a>>)
    ELSE UNCHANGED executorVars

Start(t, a) ==
    /\ Len(executions) < MaxExecutions
    /\ ExecuteAdmitted(t, a)
    /\ CallExecutor(Len(executions) + 1, a)

\* The awaited call has its result, which the proxy reports as it is.
Settled(i) ==
    IF ToOrchestrator(executions[i].action)
    THEN /\ pc[CallOf(i)] = "answered"
         /\ executions'[i].status = IF answer[CallOf(i)].executed THEN "executed" ELSE "blocked"
    ELSE TRUE

\* The handler resumes, with the result of its call or with what the call raised.
Complete(i) ==
    /\ i \in 1..Len(executions)
    /\ \/ ExecuteCompleted(i) /\ Settled(i)
       \/ ExecutionRaises(i) /\ pc[CallOf(i)] = "raised"
    /\ UNCHANGED executorVars

FetchReturns(c) == UNCHANGED vars /\ Executor!Resume(c)

Orchestrator ==
    /\ \/ \E c \in Call :
             \/ Executor!ServeCreate(c)
             \/ \E id \in SettlementId : Executor!ServeExecute(c, id)
       \/ \E r \in requests : Executor!Lose(r)
    /\ UNCHANGED vars

\* What the event loop owes: a handler with its call's result, or a call with its fetch's, goes on.
Resumption ==
    \/ \E i \in 1..MaxExecutions : Complete(i)
    \/ \E c \in Call : FetchReturns(c)

SettlingNext ==
    \/ OtherHandler
    \/ \E t \in TokenId, a \in Action : Start(t, a)
    \/ Resumption
    \/ Orchestrator

SettlingSpec == SettlingInit /\ [][SettlingNext]_allVars

\* No more is assumed than that fetches settle and that the event loop goes on with what waits
\* for them; in which order is its choice.
SettlingFairSpec == SettlingSpec /\ WF_allVars(Resumption)
-----------------------------------------------------------------------------
(***************************************************************************)
(* Properties, beside those of ActionProxy                                 *)
(***************************************************************************)
\* End to end (server.ts:206-284, settlement-orchestrator.ts:150-282): every settlement that
\* the orchestrator has, executed or not, is of an execution that the proxy started, made with
\* the parameters of that execution's body, which is the one its token was issued for, and not
\* past a DENY; no token has two, whatever is lost, late, raised or reset; and an execution that
\* is reported as executed has been settled.
SettlementsAreAuthorised ==
    /\ \A id \in DOMAIN settlements :
         \E i \in 1..Len(executions) :
            /\ settlements[id].call = CallOf(i)
            /\ actionFingerprint(executions[i].action)
                 = actionFingerprint(issued[executions[i].token].action)
            /\ executions[i].previewed # "DENY"
    /\ \A id, other \in DOMAIN settlements :
         executions[settlements[id].call[1]].token = executions[settlements[other].call[1]].token
           => id = other
    /\ \A i \in 1..Len(executions) :
         ToOrchestrator(executions[i].action) /\ executions[i].status = "executed"
           => \E id \in DOMAIN settlements :
                 settlements[id] = [call |-> CallOf(i), executed |-> TRUE]
=============================================================================
