--------------------------- MODULE SettlementExecutor ---------------------------
(***************************************************************************)
(* SettlementOrchestratorExecutor.execute: the executor behind target      *)
(* system "settlement_orchestrator".  A call makes two HTTP requests in    *)
(* turn, to create a settlement and to execute it, and is suspended at     *)
(* each; any number of calls are in progress at once.  A request may be    *)
(* lost, its reply may be lost, and a fetch that has been given up may     *)
(* still be served later.  The orchestrator is not part of the repository: *)
(* its three actions say only what the executor can see of it.             *)
(***************************************************************************)
EXTENDS Naturals

CONSTANTS
    Call,          \* the calls of execute(), one for each token spent
    Kgld,          \* those whose action is a KGLD lending action
    Unreadable,    \* those with an amount or a currency that String() raises at
    SettlementId   \* the identifiers the orchestrator can draw

VARIABLES
    accounts,      \* GOLD_DEMO_FROM_ACCOUNT and GOLD_DEMO_TO_ACCOUNT are both set
    pc,            \* call -> "idle" | "creating" | "executing" | "answered" | "raised"
    settlementId,  \* call -> the settlementId read from the first reply, or "none"
    answer,        \* call -> the ExecutionResult
    requests,      \* requests on the wire: <<"create", call, "none">>, <<"execute", call, id>>
    reply,         \* call -> the reply to its pending fetch
    settlements    \* the orchestrator's: id -> [call, executed]

vars == <<accounts, pc, settlementId, answer, requests, reply, settlements>>

\* What the executor reads in a reply: whether it is ok, the id found by extractSettlementId
\* and whether extractTransactionFields found a transaction hash.
Reply(ok, id, hash) == [arrived |-> TRUE, ok |-> ok, id |-> id, hash |-> hash]
NoReply == [arrived |-> FALSE, ok |-> FALSE, id |-> "none", hash |-> FALSE]
Consume(c) == reply' = [reply EXCEPT ![c] = NoReply]

Result(executed, id, hash) == [executed |-> executed, settlementId |-> id, txHash |-> hash]
NoResult == Result(FALSE, "none", "none")
\* The answer made up for a KGLD action, with a hash of its own
demoKgldSettlement == Result(TRUE, "demo", "demo")

Init ==
    /\ accounts \in BOOLEAN
    /\ pc = [c \in Call |-> "idle"]
    /\ settlementId = [c \in Call |-> "none"]
    /\ answer = [c \in Call |-> NoResult]
    /\ requests = {}
    /\ reply = [c \in Call |-> NoReply]
    /\ settlements = [id \in {} |-> id]
-----------------------------------------------------------------------------
Return(c, result) ==
    /\ pc' = [pc EXCEPT ![c] = "answered"]
    /\ answer' = [answer EXCEPT ![c] = result]

\* Every failure ends alike: BLOCKED, or the demonstration settlement for KGLD.  The id is
\* reported once it is known to the scope that fails.
ReturnFailed(c, id) ==
    Return(c, IF c \in Kgld THEN demoKgldSettlement ELSE Result(FALSE, id, "none"))

\* execute() without the accounts
Unconfigured(c) ==
    /\ pc[c] = "idle" /\ ~accounts
    /\ ReturnFailed(c, "none")
    /\ UNCHANGED <<accounts, settlementId, requests, reply, settlements>>

\* execute() raises while it reads the parameters, before the try: its promise is rejected
Raise(c) ==
    /\ pc[c] = "idle" /\ accounts
    /\ c \in Unreadable
    /\ pc' = [pc EXCEPT ![c] = "raised"]
    /\ UNCHANGED <<accounts, settlementId, answer, requests, reply, settlements>>

\* execute(), up to the first fetch
Create(c) ==
    /\ pc[c] = "idle" /\ accounts
    /\ c \notin Unreadable
    /\ pc' = [pc EXCEPT ![c] = "creating"]
    /\ requests' = requests \cup {<<"create", c, "none">>}
    /\ UNCHANGED <<accounts, settlementId, answer, reply, settlements>>

\* The first fetch returns: not ok, or without an id, it is a failure
CreateFailed(c) ==
    /\ pc[c] = "creating" /\ reply[c].arrived
    /\ ~reply[c].ok \/ reply[c].id = "none"
    /\ ReturnFailed(c, "none")
    /\ Consume(c)
    /\ UNCHANGED <<accounts, settlementId, requests, settlements>>

\* Mutated: the id is not asked for.
ExecuteWithoutId(c) ==
    /\ pc[c] = "creating" /\ reply[c].arrived
    /\ reply[c].ok
    /\ pc' = [pc EXCEPT ![c] = "executing"]
    /\ settlementId' = [settlementId EXCEPT ![c] = reply[c].id]
    /\ requests' = requests \cup {<<"execute", c, reply[c].id>>}
    /\ Consume(c)
    /\ UNCHANGED <<accounts, answer, settlements>>

\* ... with an id, the settlement is asked to be executed
Execute(c) ==
    /\ pc[c] = "creating" /\ reply[c].arrived
    /\ reply[c].ok /\ reply[c].id # "none"
    /\ pc' = [pc EXCEPT ![c] = "executing"]
    /\ settlementId' = [settlementId EXCEPT ![c] = reply[c].id]
    /\ requests' = requests \cup {<<"execute", c, reply[c].id>>}
    /\ Consume(c)
    /\ UNCHANGED <<accounts, answer, settlements>>

\* The second fetch returns: not ok, or without a hash, it is a failure
ExecuteFailed(c) ==
    /\ pc[c] = "executing" /\ reply[c].arrived
    /\ ~reply[c].ok \/ ~reply[c].hash
    /\ ReturnFailed(c, settlementId[c])
    /\ Consume(c)
    /\ UNCHANGED <<accounts, settlementId, requests, settlements>>

\* Mutated: an ok reply counts, with or without a transaction hash.
ExecutedWithoutHash(c) ==
    /\ pc[c] = "executing" /\ reply[c].arrived
    /\ reply[c].ok
    /\ Return(c, Result(TRUE, settlementId[c], "ledger"))
    /\ Consume(c)
    /\ UNCHANGED <<accounts, settlementId, requests, settlements>>

\* ... with a hash, the settlement is reported as executed
Executed(c) ==
    /\ pc[c] = "executing" /\ reply[c].arrived
    /\ reply[c].ok /\ reply[c].hash
    /\ Return(c, Result(TRUE, settlementId[c], "ledger"))
    /\ Consume(c)
    /\ UNCHANGED <<accounts, settlementId, requests, settlements>>

\* Mutated: a rejected fetch starts the call again.
RetryAfterRejection(c) ==
    /\ pc[c] \in {"creating", "executing"}
    /\ pc' = [pc EXCEPT ![c] = "idle"]
    /\ Consume(c)
    /\ UNCHANGED <<accounts, settlementId, answer, requests, settlements>>

\* Mutated: the rejection of the second fetch is not caught.
OnlyCreationCaught(c) ==
    /\ pc[c] = "creating"
    /\ ReturnFailed(c, "none")
    /\ Consume(c)
    /\ UNCHANGED <<accounts, settlementId, requests, settlements>>

\* The catch: the fetch is rejected (connection, timeout) or its reply is no JSON, whatever
\* has become of the request
Rejected(c) ==
    /\ pc[c] \in {"creating", "executing"}
    /\ ReturnFailed(c, "none")
    /\ Consume(c)
    /\ UNCHANGED <<accounts, settlementId, requests, settlements>>
-----------------------------------------------------------------------------
\* The orchestrator answers a fetch that is still waited for.
Respond(c, waiting, r) ==
    reply' = IF pc[c] = waiting THEN [reply EXCEPT ![c] = r] ELSE reply

\* The orchestrator serves a creation: it creates the settlement or does not, and only of a
\* settlement it has created can it give the id.
ServeCreate(c) ==
    /\ <<"create", c, "none">> \in requests
    /\ requests' = requests \ {<<"create", c, "none">>}
    /\ \/ \E id \in SettlementId \ DOMAIN settlements, ok \in BOOLEAN :
             /\ settlements' = [i \in DOMAIN settlements \cup {id} |->
                    IF i = id THEN [call |-> c, executed |-> FALSE] ELSE settlements[i]]
             /\ \E known \in {id, "none"} : Respond(c, "creating", Reply(ok, known, FALSE))
       \/ /\ \E ok \in BOOLEAN : Respond(c, "creating", Reply(ok, "none", FALSE))
          /\ UNCHANGED settlements
    /\ UNCHANGED <<accounts, pc, settlementId, answer>>

\* The orchestrator serves an execution: it moves the money or does not, and gives a hash
\* only if it did.
ServeExecute(c, id) ==
    /\ <<"execute", c, id>> \in requests
    /\ requests' = requests \ {<<"execute", c, id>>}
    /\ \E done, ok, hash \in BOOLEAN :
          /\ hash => done
          /\ done => id \in DOMAIN settlements
          /\ settlements' = IF done THEN [settlements EXCEPT ![id].executed = TRUE]
                                    ELSE settlements
          /\ Respond(c, "executing", Reply(ok, id, hash))
    /\ UNCHANGED <<accounts, pc, settlementId, answer>>

\* A request is lost.
Lose(r) ==
    /\ r \in requests
    /\ requests' = requests \ {r}
    /\ UNCHANGED <<accounts, pc, settlementId, answer, reply, settlements>>
-----------------------------------------------------------------------------
Resume(c) ==
    \/ CreateFailed(c) \/ Execute(c)
    \/ ExecuteFailed(c) \/ Executed(c)
    \/ Rejected(c)

Next ==
    \/ \E c \in Call :
          \/ Unconfigured(c) \/ Raise(c) \/ Create(c)
          \/ Resume(c)
          \/ ServeCreate(c)
          \/ \E id \in SettlementId : ServeExecute(c, id)
    \/ \E r \in requests : Lose(r)

Spec == Init /\ [][Next]_vars

\* Every fetch settles: it returns, or undici's timeouts reject it.
FairSpec == Spec /\ \A c \in Call : WF_vars(Resume(c))
-----------------------------------------------------------------------------
Stage == {"idle", "creating", "executing", "answered", "raised"}
Id == SettlementId \cup {"none"}
Request == {<<"create", c, "none">> : c \in Call} \cup ({"execute"} \X Call \X SettlementId)
ReplyType == [arrived : BOOLEAN, ok : BOOLEAN, id : Id, hash : BOOLEAN]
ExecutionResult == [executed : BOOLEAN, settlementId : Id \cup {"demo"},
                    txHash : {"none", "demo", "ledger"}]

\* The calls, the requests and the settlements are well typed, and a call that executes knows
\* the id of its settlement.
TypeOK ==
    /\ accounts \in BOOLEAN
    /\ pc \in [Call -> Stage]
    /\ settlementId \in [Call -> Id]
    /\ answer \in [Call -> ExecutionResult]
    /\ requests \subseteq Request
    /\ reply \in [Call -> ReplyType]
    /\ DOMAIN settlements \subseteq SettlementId
    /\ \A id \in DOMAIN settlements : settlements[id] \in [call : Call, executed : BOOLEAN]
    /\ \A c \in Call : pc[c] = "executing" => settlementId[c] # "none"

\* settlement-orchestrator.ts 161-282: neither a lost reply nor a rejected fetch makes a call
\* ask for a second settlement: one token, at most one settlement, executed or not.
OneSettlementPerCall ==
    \A i, j \in DOMAIN settlements : settlements[i].call = settlements[j].call => i = j

\* settlement-orchestrator.ts 235-267: what is reported with a hash of the ledger is the
\* executed settlement of this very call, however calls and replies interleave; and the
\* executor claims no other settlement, but for the demonstration one of KGLD.
ClaimedIsSettled ==
    \A c \in Call :
        answer[c].executed =>
            \/ c \in Kgld /\ answer[c] = demoKgldSettlement
            \/ /\ answer[c].settlementId \in DOMAIN settlements
               /\ settlements[answer[c].settlementId] = [call |-> c, executed |-> TRUE]

\* The inductive invariant behind the two: what the executor and the wire know of a settlement
\* is true of it at the orchestrator, and a creation still on the wire has created nothing.
Has(c, id) == id \in DOMAIN settlements /\ settlements[id].call = c
CallInv(c) ==
    /\ pc[c] \in {"idle", "raised"} => /\ <<"create", c, "none">> \notin requests
                                       /\ ~\E id \in DOMAIN settlements : Has(c, id)
    /\ <<"create", c, "none">> \in requests => ~\E id \in DOMAIN settlements : Has(c, id)
    /\ \A id \in SettlementId :
           <<"execute", c, id>> \in requests =>
               pc[c] \in {"executing", "answered"} /\ Has(c, id) /\ settlementId[c] = id
    /\ reply[c].arrived => pc[c] \in {"creating", "executing"}
    /\ pc[c] = "creating" /\ reply[c].arrived /\ reply[c].id # "none" => Has(c, reply[c].id)
    /\ pc[c] = "executing" =>
           /\ Has(c, settlementId[c])
           /\ reply[c].arrived /\ reply[c].hash => settlements[settlementId[c]].executed
SettlementInv ==
    /\ OneSettlementPerCall
    /\ ClaimedIsSettled
    /\ \A c \in Call : CallInv(c)

\* The executor keeps the promise of SettlementPromise.
Promise == INSTANCE SettlementPromise WITH
    Simulated <- Kgld,
    called <- {c \in Call : pc[c] # "idle"},
    settled <- {c \in Call : \E id \in DOMAIN settlements :
                                 settlements[id] = [call |-> c, executed |-> TRUE]},
    answer <- [c \in Call |-> IF pc[c] # "answered" THEN "none"
                              ELSE IF answer[c].executed THEN "executed" ELSE "blocked"]
KeepsPromise == Promise!Spec

\* server.ts 276-283, settlement-orchestrator.ts 150-159, 161, 268: the handler awaits execute()
\* without a catch of its own, so each call must return a result whichever request fails; only a
\* call whose parameters cannot be read is rejected, and it asks for nothing.
CallsAreAnswered ==
    \A c \in Call :
        pc[c] # "idle" ~> \/ pc[c] = "answered"
                          \/ /\ pc[c] = "raised" /\ c \in Unreadable
                             /\ \A r \in requests : r[2] # c
                             /\ \A id \in DOMAIN settlements : ~Has(c, id)

\* README.md 156: BLOCKED is the answer to a request that is stopped: what was answered so has
\* not been settled, then or later.
BlockedIsNotSettled ==
    \A c \in Call :
        pc[c] = "answered" /\ ~answer[c].executed =>
            ~\E id \in DOMAIN settlements :
                settlements[id] = [call |-> c, executed |-> TRUE]
=============================================================================
