----------------------------- MODULE ThreadedProxy -----------------------------
(***************************************************************************)
(* The action proxy of agentguard/api.py.  Its endpoints are plain `def`s, *)
(* which FastAPI runs in a pool of threads: any number of handlers are in  *)
(* progress at once, over the same dictionaries and without a lock.  The   *)
(* interpreter makes one dictionary operation or attribute access atomic   *)
(* and nothing more, so a step is one access to the shared state together  *)
(* with the local computation that follows it.                             *)
(***************************************************************************)
EXTENDS Naturals, Sequences, FiniteSets

CONSTANTS
    Worker,          \* the threads of the pool
    Action,          \* the request bodies, as records
    evaluate_policy, \* the decision of action_policy.py for each body
    TokenId,         \* the identifiers uuid4() can draw
    MaxAttempts      \* bound: no preview starts from a higher count

Decision == {"ALLOW", "REVIEW_REQUIRED", "DENY"}

ASSUME PolicyAssumption == evaluate_policy \in [Action -> Decision]
ASSUME AttemptsAssumption == MaxAttempts \in Nat
ASSUME PoolAssumption == IsFiniteSet(Worker)

VARIABLES
    previews,        \* dict action_id -> decision of the last preview
    approvals,       \* dict action_id -> "approved" | "denied"
    tokens,          \* the token ids in TokenService._tokens
    attempt_counter, \* dict attempt key -> number of previews
    audit,           \* the events of the log that record a store changed or an execution, as a set
    object,          \* token id -> the token object, alive while any thread refers to it
    executions,      \* history: the executions started, in order
    pc,              \* thread -> what it does next ("idle": nothing)
    local            \* thread -> its local variables

stores == <<previews, approvals, tokens, attempt_counter, audit>>
vars == <<previews, approvals, tokens, attempt_counter, audit, object, executions, pc, local>>

ActionId == {a.action_id : a \in Action}
AttemptKey(a) == <<a.actor_id, a.action_type, a.target_resource>>

EmptyDict == [k \in {} |-> k]
Set(dict, key, value) ==
    [k \in DOMAIN dict \cup {key} |-> IF k = key THEN value ELSE dict[k]]

NoAction == [action_id |-> "none"]
Blank == [id |-> "none", action |-> NoAction, token |-> "none", decision |-> "none",
          attempts |-> 0, event |-> "none", dead |-> FALSE]

Init ==
    /\ previews = EmptyDict /\ approvals = EmptyDict /\ tokens = {}
    /\ attempt_counter = EmptyDict /\ audit = {}
    /\ object = EmptyDict /\ executions = <<>>
    /\ pc = [w \in Worker |-> "idle"]
    /\ local = [w \in Worker |-> Blank]

Goto(w, label) == pc' = [pc EXCEPT ![w] = label]
Assign(w, values) == local' = [local EXCEPT ![w] = values]
Return(w) == Goto(w, "idle") /\ Assign(w, Blank)
Event(w, event) == [local[w] EXCEPT !.event = event]
-----------------------------------------------------------------------------
\* The last step of most handlers: audit.log, then the answer.
LogAndReturn(w) ==
    /\ pc[w] = "log"
    /\ audit' = audit \cup {<<local[w].event, local[w].id>>}
    /\ Return(w)
    /\ UNCHANGED <<previews, approvals, tokens, attempt_counter, object, executions>>

\* POST /actions/preview: the attempts so far are read ...
Attempts(a) ==
    IF AttemptKey(a) \in DOMAIN attempt_counter THEN attempt_counter[AttemptKey(a)] ELSE 0
PreviewBegins(w, a) ==
    /\ pc[w] = "idle"
    /\ Attempts(a) < MaxAttempts
    /\ Goto(w, "preview_store")
    /\ Assign(w, [Blank EXCEPT !.id = a.action_id, !.action = a, !.attempts = Attempts(a),
                               !.event = "preview_generated"])
    /\ UNCHANGED <<previews, approvals, tokens, attempt_counter, audit, object, executions>>

\* ... the preview is stored ...
PreviewStores(w) ==
    /\ pc[w] = "preview_store"
    /\ previews' = Set(previews, local[w].id, evaluate_policy[local[w].action])
    /\ Goto(w, "preview_count")
    /\ UNCHANGED <<approvals, tokens, attempt_counter, audit, object, executions, local>>

\* Mutated: the preview counts twice.
PreviewCountsTwice(w) ==
    /\ pc[w] = "preview_count"
    /\ attempt_counter' =
           Set(attempt_counter, AttemptKey(local[w].action), local[w].attempts + 2)
    /\ Goto(w, "log")
    /\ UNCHANGED <<previews, approvals, tokens, audit, object, executions, local>>

\* ... and the attempts written back, whatever other previews wrote meanwhile.
PreviewCounts(w) ==
    /\ pc[w] = "preview_count"
    /\ attempt_counter' =
           Set(attempt_counter, AttemptKey(local[w].action), local[w].attempts + 1)
    /\ Goto(w, "log")
    /\ UNCHANGED <<previews, approvals, tokens, audit, object, executions, local>>

\* POST /actions/{action_id}/approve and /deny
Decide(w, id, verdict) ==
    /\ pc[w] = "idle"
    /\ approvals' = Set(approvals, id, verdict)
    /\ Goto(w, "log")
    /\ Assign(w, [Blank EXCEPT !.id = id, !.event = verdict])
    /\ UNCHANGED <<previews, tokens, attempt_counter, audit, object, executions>>

\* POST /actions/{action_id}/token: a uuid is drawn once.  The client learns it from the
\* answer, after the event is logged.
TokenIssued(w, t, a) ==
    /\ pc[w] = "idle"
    /\ t \notin DOMAIN object
    /\ object' = Set(object, t, [action |-> a, used |-> FALSE, expired |-> FALSE])
    /\ tokens' = tokens \cup {t}
    /\ Goto(w, "log")
    /\ Assign(w, [Blank EXCEPT !.id = a.action_id, !.token = t, !.event = "token_issued"])
    /\ UNCHANGED <<previews, approvals, attempt_counter, audit, executions>>

\* The clock passes a token's expires_at.
Expire(t) ==
    /\ t \in DOMAIN object /\ ~object[t].expired
    /\ object' = [object EXCEPT ![t].expired = TRUE]
    /\ UNCHANGED <<stores, executions, pc, local>>
-----------------------------------------------------------------------------
\* POST /actions/execute.  Known tokens are those whose issue was answered.
Known(t) ==
    /\ t \in DOMAIN object
    /\ \A w \in Worker : ~(local[w].token = t /\ local[w].event = "token_issued")
Dead(t) == t \notin tokens \/ object[t].used \/ object[t].expired

\* The preview is read; without one the answer is 400.
ExecuteBegins(w, t, a) ==
    /\ pc[w] = "idle" /\ Known(t)
    /\ a.action_id \in DOMAIN previews
    /\ Goto(w, "execute_approval")
    /\ Assign(w, [Blank EXCEPT !.id = a.action_id, !.action = a, !.token = t,
                               !.decision = previews[a.action_id], !.dead = Dead(t)])
    /\ UNCHANGED <<stores, object, executions>>

Refuse(w) == Goto(w, "log") /\ Assign(w, Event(w, "execution_blocked"))

\* The approval is read and the decision taken.
Approved(id) == id \in DOMAIN approvals /\ approvals[id] = "approved"
ExecuteReadsApproval(w) ==
    /\ pc[w] = "execute_approval"
    /\ IF \/ local[w].decision = "DENY"
          \/ local[w].decision = "REVIEW_REQUIRED" /\ ~Approved(local[w].id)
         THEN Refuse(w)
         ELSE Goto(w, "token_get") /\ UNCHANGED local
    /\ UNCHANGED <<stores, object, executions>>

\* TokenService.validate_for_execution: _tokens.get
TokenLookedUp(w) ==
    /\ pc[w] = "token_get"
    /\ IF local[w].token \in tokens THEN Goto(w, "token_expiry") /\ UNCHANGED local
                                    ELSE Refuse(w)
    /\ UNCHANGED <<stores, object, executions>>

\* token.expires_at < now
TokenExpiryChecked(w) ==
    /\ pc[w] = "token_expiry"
    /\ IF object[local[w].token].expired THEN Refuse(w)
                                         ELSE Goto(w, "token_used") /\ UNCHANGED local
    /\ UNCHANGED <<stores, object, executions>>

\* Mutated: only the ids are compared.
SameActionId(a, b) == a.action_id = b.action_id

Matches(a, b) ==
    /\ a.action_id = b.action_id
    /\ a.action_type = b.action_type
    /\ a.target_resource = b.target_resource

\* Mutated: the token is not asked whether it was used.
TokenUseIgnored(w) ==
    /\ pc[w] = "token_used"
    /\ IF Matches(object[local[w].token].action, local[w].action)
         THEN Goto(w, "token_spend") /\ UNCHANGED local
         ELSE Refuse(w)
    /\ UNCHANGED <<stores, object, executions>>

\* token.used, then the three fields, which never change
TokenUseChecked(w) ==
    /\ pc[w] = "token_used"
    /\ IF /\ ~object[local[w].token].used
          /\ Matches(object[local[w].token].action, local[w].action)
         THEN Goto(w, "token_spend") /\ UNCHANGED local
         ELSE Refuse(w)
    /\ UNCHANGED <<stores, object, executions>>

\* token.used = True: from here on the execution goes ahead
TokenSpent(w) ==
    /\ pc[w] = "token_spend"
    /\ object' = [object EXCEPT ![local[w].token].used = TRUE]
    /\ executions' = Append(executions,
           [token |-> local[w].token, action |-> local[w].action,
            decision |-> local[w].decision, dead |-> local[w].dead])
    /\ Goto(w, "execute_attempt")
    /\ UNCHANGED <<stores, local>>

\* audit.log("execution_attempted") and the mock executor, which touches nothing shared
ExecuteAttempts(w) ==
    /\ pc[w] = "execute_attempt"
    /\ audit' = audit \cup {<<"execution_attempted", local[w].id>>}
    /\ Goto(w, "log")
    /\ Assign(w, Event(w, "execution_completed"))
    /\ UNCHANGED <<previews, approvals, tokens, attempt_counter, object, executions>>
-----------------------------------------------------------------------------
\* Mutated: the log is cleared after the approvals and the tokens, not before.
ResetLoggingLast(w) ==
    \/ pc[w] = "idle" /\ previews' = EmptyDict /\ Goto(w, "reset_approvals")
       /\ UNCHANGED <<approvals, tokens, attempt_counter, audit>>
    \/ pc[w] = "reset_approvals" /\ approvals' = EmptyDict /\ Goto(w, "reset_tokens")
       /\ UNCHANGED <<previews, tokens, attempt_counter, audit>>
    \/ pc[w] = "reset_tokens" /\ tokens' = {} /\ Goto(w, "reset_previews")
       /\ UNCHANGED <<previews, approvals, attempt_counter, audit>>
    \/ pc[w] = "reset_previews" /\ audit' = {} /\ Goto(w, "reset_attempts")
       /\ UNCHANGED <<previews, approvals, tokens, attempt_counter>>
    \/ pc[w] = "reset_attempts" /\ attempt_counter' = EmptyDict /\ Goto(w, "idle")
       /\ UNCHANGED <<previews, approvals, tokens, audit>>

\* POST /demo/reset: five clear() calls, one after the other
ResetSteps(w) ==
    \/ pc[w] = "idle" /\ audit' = {} /\ Goto(w, "reset_approvals")
       /\ UNCHANGED <<previews, approvals, tokens, attempt_counter>>
    \/ pc[w] = "reset_approvals" /\ approvals' = EmptyDict /\ Goto(w, "reset_tokens")
       /\ UNCHANGED <<previews, tokens, attempt_counter, audit>>
    \/ pc[w] = "reset_tokens" /\ tokens' = {} /\ Goto(w, "reset_previews")
       /\ UNCHANGED <<previews, approvals, attempt_counter, audit>>
    \/ pc[w] = "reset_previews" /\ previews' = EmptyDict /\ Goto(w, "reset_attempts")
       /\ UNCHANGED <<approvals, tokens, attempt_counter, audit>>
    \/ pc[w] = "reset_attempts" /\ attempt_counter' = EmptyDict /\ Goto(w, "idle")
       /\ UNCHANGED <<previews, approvals, tokens, audit>>
Reset(w) == ResetSteps(w) /\ UNCHANGED <<object, executions, local>>
-----------------------------------------------------------------------------
Handler(w) ==
    \/ LogAndReturn(w)
    \/ PreviewStores(w) \/ PreviewCounts(w)
    \/ ExecuteReadsApproval(w) \/ TokenLookedUp(w) \/ TokenExpiryChecked(w)
    \/ TokenUseChecked(w) \/ TokenSpent(w) \/ ExecuteAttempts(w)

Next ==
    \/ \E w \in Worker :
          \/ Handler(w)
          \/ Reset(w)
          \/ \E a \in Action : PreviewBegins(w, a)
          \/ \E id \in ActionId, verdict \in {"approved", "denied"} : Decide(w, id, verdict)
          \/ \E t \in TokenId, a \in Action : TokenIssued(w, t, a)
          \/ \E t \in TokenId, a \in Action : ExecuteBegins(w, t, a)
    \/ \E t \in TokenId : Expire(t)

Spec == Init /\ [][Next]_vars
-----------------------------------------------------------------------------
PreviewLabel == {"preview_store", "preview_count"}
ExecuteLabel == {"execute_approval", "token_get", "token_expiry", "token_used", "token_spend",
                 "execute_attempt"}
ResetLabel == {"reset_approvals", "reset_tokens", "reset_previews", "reset_attempts"}
Label == {"idle", "log"} \cup PreviewLabel \cup ExecuteLabel \cup ResetLabel

EventType == {"preview_generated", "approved", "denied", "token_issued", "execution_blocked",
              "execution_attempted", "execution_completed"}
Local == [id : ActionId \cup {"none"}, action : Action \cup {NoAction},
          token : TokenId \cup {"none"}, decision : Decision \cup {"none"},
          attempts : 0..MaxAttempts, event : EventType \cup {"none"}, dead : BOOLEAN]
Execution == [token : TokenId, action : Action, decision : Decision, dead : BOOLEAN]

IsDict(f, S, R) == DOMAIN f \subseteq S /\ \A k \in DOMAIN f : f[k] \in R

\* A thread's local variables are those of the handler it is in.
LocalOK(w) ==
    /\ pc[w] \in {"idle"} \cup ResetLabel => local[w] = Blank
    /\ pc[w] = "log" => local[w].id \in ActionId /\ local[w].event \in EventType
    /\ pc[w] \in PreviewLabel =>
          /\ local[w].action \in Action /\ local[w].id = local[w].action.action_id
          /\ local[w].attempts < MaxAttempts /\ local[w].event = "preview_generated"
    /\ pc[w] \in ExecuteLabel =>
          /\ local[w].action \in Action /\ local[w].id = local[w].action.action_id
          /\ local[w].token \in DOMAIN object /\ local[w].decision \in Decision
          /\ local[w].event = "none"

\* The dictionaries, the token objects and the threads' local variables are well typed.
TypeOK ==
    /\ IsDict(previews, ActionId, Decision)
    /\ IsDict(approvals, ActionId, {"approved", "denied"})
    /\ IsDict(attempt_counter, {AttemptKey(a) : a \in Action}, 0..MaxAttempts)
    /\ IsDict(object, TokenId, [action : Action, used : BOOLEAN, expired : BOOLEAN])
    /\ tokens \subseteq DOMAIN object
    /\ audit \subseteq EventType \X ActionId
    /\ executions \in Seq(Execution)
    /\ pc \in [Worker -> Label] /\ local \in [Worker -> Local]
    /\ \A w \in Worker : LocalOK(w)

\* token_service.py 23-38: however the threads interleave, a request that arrives with a token
\* already used, expired or cleared never executes; only requests in progress at the same time
\* can share one, so that it executes at most once for each thread of the pool.
DeadIsRefused == \A i \in 1..Len(executions) : ~executions[i].dead
Uses(t) == {i \in 1..Len(executions) : executions[i].token = t}
NoLateUse ==
    /\ DeadIsRefused
    /\ \A t \in TokenId : Cardinality(Uses(t)) <= Cardinality(Worker)

\* api.py 112-118, 57-59, 63-74, 142-143: the reset clears the log before the stores and every
\* handler logs after it stores, so once all have returned each approval, token and preview of
\* the session has its event, wherever the resets fell.
Quiet == \A w \in Worker : pc[w] = "idle"
StoresLoggedWhenQuiet ==
    Quiet =>
        /\ \A id \in DOMAIN approvals : <<approvals[id], id>> \in audit
        /\ \A t \in tokens : <<"token_issued", object[t].action.action_id>> \in audit
        /\ \A id \in DOMAIN previews : <<"preview_generated", id>> \in audit

\* token_service.py 31-36, api.py 80-92: whatever is reset or previewed meanwhile, an execution
\* has the id, type and target of its token, and was not previewed as denied.
ExecutedAsIssued ==
    \A i \in 1..Len(executions) :
        /\ \A f \in {"action_id", "action_type", "target_resource"} :
               executions[i].action[f] = object[executions[i].token].action[f]
        /\ executions[i].decision # "DENY"

\* docs/architecture.md 73: an execution token is one-time: no token starts two executions.
OneTimeToken ==
    \A i, j \in 1..Len(executions) : executions[i].token = executions[j].token => i = j
=============================================================================
