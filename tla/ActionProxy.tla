------------------------------ MODULE ActionProxy ------------------------------
(***************************************************************************)
(* The action proxy of ts-agentguard: the Fastify handlers of server.ts,   *)
(* the approval store, the token service and the audit log, sharing one    *)
(* Node event loop.  A handler runs to its end without interruption except *)
(* at the `await` on the executor, where an execution is suspended and any *)
(* other handler may run (a /demo/reset included) before it resumes.       *)
(***************************************************************************)
EXTENDS Naturals, Sequences

CONSTANTS
    Action,         \* the request bodies clients send (records, see models.ts)
    evaluatePolicy, \* the decision of policy.ts for each body
    TokenId,        \* the identifiers randomUUID() can draw
    TTL,            \* ttlSeconds, in ticks of the clock
    MaxTime,        \* bound: the clock stops here
    MaxSession,     \* bound: number of /demo/reset calls
    MaxPreviews,    \* bound: previews per attempt key
    ForgedType      \* bound: the event types that clients post to /demo/audit-event

Decision == {"ALLOW", "REVIEW_REQUIRED", "DENY"}

ASSUME PolicyAssumption == evaluatePolicy \in [Action -> Decision]
ASSUME BoundsAssumption == /\ TTL \in Nat /\ MaxTime \in Nat
                           /\ MaxSession \in Nat /\ MaxPreviews \in Nat

\* The events a session's log is made of.  The lines that a handler writes together with
\* one of these, for the same action, are not kept apart from it.
EventType == {"preview_generated", "approval_requested", "approved", "denied", "token_issued",
              "execution_blocked", "execution_attempted", "execution_completed"}
ASSUME ForgedAssumption == ForgedType \subseteq EventType

VARIABLES
    previews,       \* Map action_id -> decision of the last preview
    approvals,      \* Map action_id -> "approved" | "denied"
    tokens,         \* Map token_id -> EphemeralExecutionToken
    attemptCounter, \* Map attempt key -> number of previews
    audit,          \* the audit events of this session, as a set
    now,            \* Date.now(), in ticks
    executions,     \* the calls that passed validation, suspended or finished, in order
    issued,         \* history: Map token_id -> what, when and in which session it was issued
    session         \* history: number of resets so far

vars == <<previews, approvals, tokens, attemptCounter, audit, now, executions, issued, session>>

ActionId == {a.action_id : a \in Action}
AttemptKey(a) == <<a.actor_id, a.action_type, a.target_resource>>

EmptyMap == [k \in {} |-> k]
Set(map, key, value) ==
    [k \in DOMAIN map \cup {key} |-> IF k = key THEN value ELSE map[k]]

\* Mutated: the parameters are left out of the fingerprint.
FingerprintOfNames(a) ==
    <<a.action_id, a.actor_id, a.action_type, a.target_system, a.target_resource, a.context>>

\* sha256 over the stable rendering of seven fields of the body, taken as injective;
\* actor_type and requested_at are not among them.
actionFingerprint(a) ==
    <<a.action_id, a.actor_id, a.action_type, a.target_system, a.target_resource,
      a.parameters, a.context>>

\* A parameter is [kind, n]: a JSON number, a numeric string, a string that is no number
\* (Number() gives NaN), nothing usable, or an object that String() raises at ("unprintable":
\* its toString is not a function).
numberValue(v) ==
    CASE v.kind \in {"number", "numeric_string"} -> [tag |-> "number", n |-> v.n]
      [] v.kind = "text" -> [tag |-> "NaN", n |-> 0]
      [] OTHER -> [tag |-> "undefined", n |-> 0]

\* The fields for the log are read from a purchase's currency with String(); the executor reads
\* the currency and the amounts (settlementAmount stands for them) of any body so.
HasString(v) == v.kind # "unprintable"
Printable(a) == a.action_type = "BUY_GOLD" => HasString(a.parameters.currency)
Readable(a) == HasString(a.parameters.settlementAmount) /\ HasString(a.parameters.currency)

\* NaN differs from every number, itself included.
NotEqual(x, y) == x.tag = "NaN" \/ x # y

Token(a, at) ==
    [action_id |-> a.action_id,
     allowed_action_type |-> a.action_type,
     allowed_target |-> a.target_resource,
     expires_at |-> at + TTL,
     request_fingerprint |-> actionFingerprint(a),
     approved_loan_amount |-> numberValue(a.parameters.loanAmountRLUSD),
     used |-> FALSE]

\* Mutated: off by one, a tick later.
expiredLate(t) == tokens[t].expires_at + 1 < now

expired(t) == tokens[t].expires_at < now

\* The reason validateForExecution gives: the first check that fails, in the code's order.
validateForExecution(t, a) ==
    IF t \notin DOMAIN tokens THEN "token_not_found"
    ELSE IF expired(t) THEN "token_expired"
    ELSE IF tokens[t].used THEN "token_already_used"
    ELSE IF tokens[t].action_id # a.action_id THEN "action_id_mismatch"
    ELSE IF tokens[t].allowed_action_type # a.action_type THEN "action_type_mismatch"
    ELSE IF tokens[t].allowed_target # a.target_resource THEN "target_mismatch"
    ELSE IF /\ tokens[t].approved_loan_amount.tag # "undefined"
            /\ NotEqual(tokens[t].approved_loan_amount,
                        numberValue(a.parameters.loanAmountRLUSD))
         THEN "loan_amount_mismatch"
    ELSE IF tokens[t].request_fingerprint # actionFingerprint(a)
         THEN "request_fingerprint_mismatch"
    ELSE "token_valid"

Log(types, id) == audit' = audit \cup (types \X {id})
-----------------------------------------------------------------------------
Init ==
    /\ previews = EmptyMap
    /\ approvals = EmptyMap
    /\ tokens = EmptyMap
    /\ attemptCounter = EmptyMap
    /\ audit = {}
    /\ now = 0
    /\ executions = <<>>
    /\ issued = EmptyMap
    /\ session = 0

Attempts(a) ==
    IF AttemptKey(a) \in DOMAIN attemptCounter THEN attemptCounter[AttemptKey(a)] ELSE 0

\* POST /actions/preview
Preview(a) ==
    /\ Printable(a)
    /\ Attempts(a) < MaxPreviews
    /\ previews' = Set(previews, a.action_id, evaluatePolicy[a])
    /\ attemptCounter' = Set(attemptCounter, AttemptKey(a), Attempts(a) + 1)
    /\ Log(IF evaluatePolicy[a] = "REVIEW_REQUIRED"
             THEN {"approval_requested", "preview_generated"}
             ELSE {"preview_generated"}, a.action_id)
    /\ UNCHANGED <<approvals, tokens, now, executions, issued, session>>

\* POST /actions/preview answered with 500: the fields for the log are its first statement
PreviewRaises(a) ==
    /\ ~Printable(a)
    /\ UNCHANGED vars

\* POST /actions/:actionId/approve: the id alone, whether or not it was previewed
Approve(id) ==
    /\ approvals' = Set(approvals, id, "approved")
    /\ Log({"approved"}, id)
    /\ UNCHANGED <<previews, tokens, attemptCounter, now, executions, issued, session>>

\* POST /actions/:actionId/deny
Deny(id) ==
    /\ approvals' = Set(approvals, id, "denied")
    /\ Log({"denied"}, id)
    /\ UNCHANGED <<previews, tokens, attemptCounter, now, executions, issued, session>>

\* POST /actions/:actionId/token.  A uuid is drawn once in the life of the process.  The token is
\* stored before the fields for the log are read: of an unprintable body it stays without its
\* event, and its id unanswered.
IssueToken(t, a) ==
    /\ t \notin DOMAIN issued
    /\ tokens' = Set(tokens, t, Token(a, now))
    /\ issued' = Set(issued, t, [action |-> a, at |-> now, session |-> session])
    /\ Log(IF Printable(a) THEN {"token_issued"} ELSE {}, a.action_id)
    /\ UNCHANGED <<previews, approvals, attemptCounter, now, executions, session>>

\* Mutated: any decision of the reviewer counts.
Answered(id) == id \in DOMAIN approvals

\* Why POST /actions/execute does not start the execution; "none" when it does.
Approved(id) == id \in DOMAIN approvals /\ approvals[id] = "approved"
\* Mutated: the preview's DENY is forgotten.
RefusalByReview(t, a) ==
    IF previews[a.action_id] = "REVIEW_REQUIRED" /\ ~Approved(a.action_id)
    THEN "approval_not_granted"
    ELSE IF validateForExecution(t, a) # "token_valid" THEN validateForExecution(t, a)
    ELSE "none"

Refusal(t, a) ==
    IF previews[a.action_id] = "DENY" THEN "policy_denied"
    ELSE IF previews[a.action_id] = "REVIEW_REQUIRED" /\ ~Approved(a.action_id)
         THEN "approval_not_granted"
    ELSE IF validateForExecution(t, a) # "token_valid" THEN validateForExecution(t, a)
    ELSE "none"

\* POST /actions/execute answered with 400: the id was never previewed in this session
ExecuteWithoutPreview(a) ==
    /\ a.action_id \notin DOMAIN previews
    /\ UNCHANGED vars

\* Mutated: the token is marked used before it is checked.
ExecuteRefusedBurning(t, a) ==
    /\ a.action_id \in DOMAIN previews
    /\ Refusal(t, a) # "none"
    /\ Printable(a)
    /\ tokens' = [u \in DOMAIN tokens |->
                     IF u = t THEN [tokens[u] EXCEPT !.used = TRUE] ELSE tokens[u]]
    /\ Log({"execution_blocked"}, a.action_id)
    /\ UNCHANGED <<previews, approvals, attemptCounter, now, executions, issued, session>>

\* POST /actions/execute, refused by the policy, the approval or the token
ExecuteRefused(t, a) ==
    /\ a.action_id \in DOMAIN previews
    /\ Refusal(t, a) # "none"
    /\ Printable(a)
    /\ Log({"execution_blocked"}, a.action_id)
    /\ UNCHANGED <<previews, approvals, tokens, attemptCounter, now, executions, issued, session>>

\* POST /actions/execute, to be refused, but answered with 500
RefusalRaises(t, a) ==
    /\ a.action_id \in DOMAIN previews
    /\ Refusal(t, a) # "none"
    /\ ~Printable(a)
    /\ UNCHANGED vars

\* Mutated: the token is not marked used.
ExecuteAdmittedUnspent(t, a) ==
    /\ a.action_id \in DOMAIN previews
    /\ Refusal(t, a) = "none"
    /\ Printable(a)
    /\ Len(executions) < 3
    /\ executions' = Append(executions,
           [token |-> t, action |-> a, at |-> now, session |-> session,
            previewed |-> previews[a.action_id], status |-> "awaiting"])
    /\ Log({"execution_attempted"}, a.action_id)
    /\ UNCHANGED <<previews, approvals, tokens, attemptCounter, now, issued, session>>

\* POST /actions/execute, up to the await: the token is spent and the executor called.  Nobody
\* can present the token of an unprintable body, whose id was never answered.
ExecuteAdmitted(t, a) ==
    /\ a.action_id \in DOMAIN previews
    /\ Refusal(t, a) = "none"
    /\ Printable(a)
    /\ tokens' = [tokens EXCEPT ![t].used = TRUE]
    /\ executions' = Append(executions,
           [token |-> t, action |-> a, at |-> now, session |-> session,
            previewed |-> previews[a.action_id], status |-> "awaiting"])
    /\ Log({"execution_attempted"}, a.action_id)
    /\ UNCHANGED <<previews, approvals, attemptCounter, now, issued, session>>

\* Mutated: a failed settlement is given a status of its own.
OutcomeOrFailure(a) == {"executed", "blocked", "failed"}

ToOrchestrator(a) == a.target_system = "settlement_orchestrator"

\* What the executor may answer: the mocks always succeed, a settlement may be blocked.
Outcome(a) ==
    IF ToOrchestrator(a) THEN {"executed", "blocked"} ELSE {"executed"}

\* Mutated: a result that arrives after a reset is dropped.
ExecuteCompletedInSession(i) ==
    /\ executions[i].status = "awaiting"
    /\ executions[i].session = session
    /\ \E outcome \in Outcome(executions[i].action) :
           executions' = [executions EXCEPT ![i].status = outcome]
    /\ Log({"execution_completed"}, executions[i].action.action_id)
    /\ UNCHANGED <<previews, approvals, tokens, attemptCounter, now, issued, session>>

\* The suspended handler resumes with the executor's result
ExecuteCompleted(i) ==
    /\ executions[i].status = "awaiting"
    /\ \E outcome \in Outcome(executions[i].action) :
           executions' = [executions EXCEPT ![i].status = outcome]
    /\ Log({"execution_completed"}, executions[i].action.action_id)
    /\ UNCHANGED <<previews, approvals, tokens, attemptCounter, now, issued, session>>

\* The settlement executor raises at a parameter it cannot read: the rejection passes the handler,
\* which logs nothing more, and the client is answered with 500.
ExecutionRaises(i) ==
    /\ executions[i].status = "awaiting"
    /\ ToOrchestrator(executions[i].action) /\ ~Readable(executions[i].action)
    /\ executions' = [executions EXCEPT ![i].status = "raised"]
    /\ UNCHANGED <<previews, approvals, tokens, attemptCounter, audit, now, issued, session>>

\* Mutated: the tokens outlive the session.
ResetKeepingTokens ==
    /\ session < MaxSession
    /\ audit' = {} /\ approvals' = EmptyMap /\ previews' = EmptyMap
    /\ attemptCounter' = EmptyMap
    /\ session' = session + 1
    /\ UNCHANGED <<tokens, now, executions, issued>>

\* POST /demo/reset: every store is cleared; suspended executions are not
Reset ==
    /\ session < MaxSession
    /\ audit' = {}
    /\ approvals' = EmptyMap
    /\ tokens' = EmptyMap
    /\ previews' = EmptyMap
    /\ attemptCounter' = EmptyMap
    /\ session' = session + 1
    /\ UNCHANGED <<now, executions, issued>>

\* POST /demo/audit-event: a client writes an event of its own choice into the log, of any type.
\* The types that the proxy does not write are read by nobody.
DemoAuditEvent(type, id) ==
    /\ Log({type}, id)
    /\ UNCHANGED <<previews, approvals, tokens, attemptCounter, now, executions, issued, session>>

Tick ==
    /\ now < MaxTime
    /\ now' = now + 1
    /\ UNCHANGED <<previews, approvals, tokens, attemptCounter, audit, executions, issued, session>>

Next ==
    \/ \E a \in Action : Preview(a)
    \/ \E a \in Action : PreviewRaises(a)
    \/ \E id \in ActionId : Approve(id)
    \/ \E id \in ActionId : Deny(id)
    \/ \E t \in TokenId, a \in Action : IssueToken(t, a)
    \/ \E a \in Action : ExecuteWithoutPreview(a)
    \/ \E t \in TokenId, a \in Action : ExecuteRefused(t, a)
    \/ \E t \in TokenId, a \in Action : RefusalRaises(t, a)
    \/ \E t \in TokenId, a \in Action : ExecuteAdmitted(t, a)
    \/ \E i \in 1..Len(executions) : ExecuteCompleted(i)
    \/ \E i \in 1..Len(executions) : ExecutionRaises(i)
    \/ \E type \in ForgedType, id \in ActionId : DemoAuditEvent(type, id)
    \/ Reset
    \/ Tick

Spec == Init /\ [][Next]_vars
-----------------------------------------------------------------------------
IsMap(f, S, R) == DOMAIN f \subseteq S /\ \A k \in DOMAIN f : f[k] \in R

EphemeralExecutionToken ==
    [action_id : ActionId,
     allowed_action_type : {a.action_type : a \in Action},
     allowed_target : {a.target_resource : a \in Action},
     expires_at : Nat,
     request_fingerprint : {actionFingerprint(a) : a \in Action},
     approved_loan_amount : {numberValue(a.parameters.loanAmountRLUSD) : a \in Action},
     used : BOOLEAN]

Execution == [token : TokenId, action : Action, at : Nat, session : Nat,
              previewed : Decision, status : {"awaiting", "executed", "blocked", "raised"}]

\* Every store holds what its TypeScript type says, and ids the model knows.
TypeOK ==
    /\ IsMap(previews, ActionId, Decision)
    /\ IsMap(approvals, ActionId, {"approved", "denied"})
    /\ IsMap(tokens, TokenId, EphemeralExecutionToken)
    /\ IsMap(attemptCounter, {AttemptKey(a) : a \in Action}, Nat)
    /\ audit \subseteq EventType \X ActionId
    /\ now \in Nat /\ session \in Nat
    /\ executions \in Seq(Execution)
    /\ IsMap(issued, TokenId, [action : Action, at : Nat, session : Nat])

\* token-service.ts 65-83: however calls, awaits and resets interleave, no token starts two
\* executions.
SingleUse ==
    \A i, j \in 1..Len(executions) :
        executions[i].token = executions[j].token => i = j

\* token-service.ts 68-82: what starts is what the token was issued for, field by field (the
\* loan amount among the parameters); only actor_type and requested_at may differ.
BoundField == {"action_id", "actor_id", "action_type", "target_system", "target_resource",
               "parameters", "context"}
ExecutedAsIssued ==
    \A i \in 1..Len(executions) :
        /\ executions[i].token \in DOMAIN issued
        /\ \A f \in BoundField :
               executions[i].action[f] = issued[executions[i].token].action[f]

\* token-service.ts 48, 62 and server.ts 296-301: an execution starts no later than TTL after
\* its token was issued, never before, and in the same session: a reset revokes every token.
ExecutedInLifetime ==
    \A i \in 1..Len(executions) :
        LET birth == issued[executions[i].token]
        IN  /\ executions[i].at \in birth.at..(birth.at + TTL)
            /\ executions[i].session = birth.session

\* The inductive invariant behind the three properties above: a stored token still says what it
\* was issued for, in this session, and is marked used if it started an execution; every
\* execution is of its token's content, in time and in session.
Executed(t) == \E i \in 1..Len(executions) : executions[i].token = t
Faithful(t) ==
    /\ t \in DOMAIN issued
    /\ tokens[t].expires_at = issued[t].at + TTL
    /\ tokens[t].request_fingerprint = actionFingerprint(issued[t].action)
    /\ issued[t].session = session
    /\ Executed(t) => tokens[t].used
Lawful(e) ==
    /\ e.token \in DOMAIN issued
    /\ actionFingerprint(e.action) = actionFingerprint(issued[e.token].action)
    /\ e.at \in issued[e.token].at..(issued[e.token].at + TTL)
    /\ e.session = issued[e.token].session
TokenInv ==
    /\ SingleUse
    /\ \A t \in DOMAIN tokens : Faithful(t)
    /\ \A i \in 1..Len(executions) : Lawful(executions[i])
    /\ \A t \in DOMAIN issued : issued[t].at <= now

\* server.ts 206-238 for clients that reuse an id only for bodies the policy judges alike
\* (the preview is kept by id, so with mixed bodies it may be the preview of another body):
\* what the policy denies never starts.
ExecutedWithinPolicy ==
    \A i \in 1..Len(executions) :
        LET a == executions[i].action
        IN  (\A b \in Action : b.action_id = a.action_id =>
                                   evaluatePolicy[b] = evaluatePolicy[a])
              => evaluatePolicy[a] # "DENY"

\* server.ts 147-188, 195, 271: until the next reset the log explains every execution: it was
\* previewed, its token issued, and it was approved if its preview asked for review.
AuditExplainsExecution ==
    \A i \in 1..Len(executions) :
        LET id == executions[i].action.action_id
            Logged(type) == <<type, id>> \in audit
        IN  executions[i].session = session =>
                /\ Logged("preview_generated") /\ Logged("token_issued")
                /\ Logged("execution_attempted")
                /\ executions[i].previewed = "REVIEW_REQUIRED" => Logged("approved")

\* server.ts 297-301: the five stores are of the same session: each approval, preview and
\* attempt count has its event in the log, and so has each token whose id was answered, so that
\* a reset can leave no store behind.  (Not the other way round: anybody may write an event.)
SessionStoresAgree ==
    /\ \A id \in DOMAIN previews : <<"preview_generated", id>> \in audit
    /\ \A id \in DOMAIN approvals : <<approvals[id], id>> \in audit
    /\ \A t \in DOMAIN tokens :
           Printable(issued[t].action) => <<"token_issued", tokens[t].action_id>> \in audit
    /\ \A a \in Action :
           AttemptKey(a) \in DOMAIN attemptCounter =>
               \E b \in Action : /\ AttemptKey(b) = AttemptKey(a)
                                 /\ <<"preview_generated", b.action_id>> \in audit

\* token-service.ts 57-84: a token goes from unused to used only in the step that starts its
\* execution (a refused call does not burn it), and never back.
Spent(t) == t \in DOMAIN tokens /\ tokens[t].used
TokenSpentByItsExecution ==
    [][\A t \in TokenId :
          /\ ~Spent(t) /\ Spent(t)' =>
                 /\ Len(executions') = Len(executions) + 1
                 /\ executions'[Len(executions')].token = t
          /\ Spent(t) /\ ~Spent(t)' => session' = session + 1]_vars

\* server.ts 276-283: a started execution is eventually completed and logged, whatever is
\* reset meanwhile; the one exception is a settlement whose parameters cannot be read.
Started(t, statuses) ==
    \E i \in 1..Len(executions) : executions[i].token = t /\ executions[i].status \in statuses
StartedIsCompleted ==
    \A t \in TokenId :
        Executed(t) ~> \/ Started(t, {"executed", "blocked"})
                       \/ /\ Started(t, {"raised"})
                          /\ ToOrchestrator(issued[t].action) /\ ~Readable(issued[t].action)

\* README.md 26, docs/EXECUTION_INTEGRITY.md 5: the executed action is the approved one; at
\* least, the policy would not have denied what was executed.
ExecutedWasJudged ==
    \A i \in 1..Len(executions) : evaluatePolicy[executions[i].action] # "DENY"
-----------------------------------------------------------------------------
(***************************************************************************)
(* The proxy as an implementation of OneShotAuthority.  A token is spent   *)
(* from the moment its execution starts, even if a reset forgets it later. *)
(***************************************************************************)
StandingOf(t) ==
    IF t \notin DOMAIN issued THEN "unissued"
    ELSE IF Executed(t) THEN "spent"
    ELSE IF t \notin DOMAIN tokens \/ tokens[t].expires_at < now THEN "void"
    ELSE "live"

Authority == INSTANCE OneShotAuthority WITH
    Content <- {actionFingerprint(a) : a \in Action},
    grant <- [t \in DOMAIN issued |-> actionFingerprint(issued[t].action)],
    standing <- [t \in TokenId |-> StandingOf(t)],
    effects <- [i \in 1..Len(executions) |->
                   <<executions[i].token, actionFingerprint(executions[i].action)>>]

\* token-service.ts as a whole: tokens are one-shot authorities.
ImplementsAuthority == Authority!Spec
=============================================================================
