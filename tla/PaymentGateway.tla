----------------------------- MODULE PaymentGateway -----------------------------
(***************************************************************************)
(* The payment gateway of the Python package (gateway.py), with the        *)
(* runtime policy engine it asks (policy_engine.py), the issuer of its     *)
(* tokens (token.py) and the proxy that redeems them (proxy.py).           *)
(*                                                                         *)
(* An agent's request is judged by the policy that is on file; a request   *)
(* that passes gets a token, and where submission is switched on it is     *)
(* submitted to the ledger at once.  Approval requests wait for a human    *)
(* until they expire; nothing expires them but the next call.  A gateway   *)
(* is an object without threads: a call is one step.                       *)
(*                                                                         *)
(* Modelled is a gateway whose own Policy has no maximum, which is the one *)
(* that request_execution can serve: with a maximum, and in                *)
(* process_action, it calls check_policy, which the PolicyEngine of        *)
(* agentguard/policy/__init__.py does not have, and raises.                *)
(***************************************************************************)
EXTENDS Integers, Sequences, FiniteSetsExt

CONSTANTS
    Order,         \* the payments that are asked for
    ForReview,     \* bound: those that an approval request is made for
    Policies,      \* what the policy file may say
    Unreadable,    \* a policy file that cannot be loaded
    WellFormed,    \* the destinations that look like an address
    NoLimit,       \* daily_limit_drops is not given
    Missing,       \* a request without an amount
    Words,         \* an amount that is no number
    Parts,         \* amounts are counted in parts of a unit, so many to a unit
    DropsPerXrp,   \* what normalization multiplies an amount of XRP by
    Day,           \* 86400 seconds, in ticks
    ApprovalTTL,   \* 3600 seconds, in ticks
    TokenTTL,      \* ttl_seconds, in ticks
    MaxTime, MaxTokens, MaxRequests    \* bounds

Amount == Int \cup {Missing, Words}
OrderShape ==
    [agent_id : STRING, wallet_address : STRING, purpose : STRING, destination : STRING,
     currency : {"XRP", "RLUSD"}, amount : Amount, spikes : Nat]
PolicyShape ==
    [agent_id : STRING, purposes : SUBSET STRING, max_amount : Int,
     daily_limit : Int \cup {NoLimit}, whitelist : SUBSET STRING,
     allow_new_destination : BOOLEAN, new_destination_score : Int,
     approve_below : Int, conditional_from : Int, block_from : Int]

ASSUME OrderAssumption == Order \subseteq OrderShape /\ ForReview \subseteq Order
ASSUME PoliciesAssumption == Policies \subseteq PolicyShape /\ Unreadable \notin Policies
ASSUME AmountAssumption ==
    Missing \notin Int /\ Words \notin Int /\ Missing # Words /\ NoLimit \notin Int
ASSUME UnitsAssumption == Parts \in Nat \ {0} /\ DropsPerXrp \in Nat \ {0} /\ Day \in Nat \ {0}
ASSUME BoundsAssumption ==
    /\ ApprovalTTL \in Nat \ {0} /\ TokenTTL \in Nat
    /\ MaxTime \in Nat /\ MaxTokens \in Nat /\ MaxRequests \in Nat

VARIABLES
    now,         \* int(time.time())
    live,        \* USE_XRPL_SUBMIT
    policyFile,  \* the policy on disk
    policy,      \* the policy of the engine
    records,     \* audit_log.records: the lines of requests
    approvals,   \* approval_requests, by order of creation
    trail,       \* audit_log.records: the lines of each approval request
    tokens,      \* the tokens issued, by order of issue; the holder has them
    used_jtis,   \* the tokens redeemed
    charges      \* the calls of the external API

vars == <<now, live, policyFile, policy, records, approvals, trail, tokens, used_jtis, charges>>
-----------------------------------------------------------------------------
(***************************************************************************)
(* Amounts                                                                 *)
(***************************************************************************)
\* int(): the fraction is dropped.  (Below 0, where int() rounds up, both are blocked.)
whole(amount) == amount \div Parts

\* A request is put into a token with its normalized amount, an approval request as it is.
normalize_amount_for_policy(o) ==
    IF o.currency = "XRP" THEN DropsPerXrp * o.amount ELSE o.amount

(***************************************************************************)
(* The policy engine                                                       *)
(***************************************************************************)
\* A file that cannot be loaded leaves the policy as it is.
Reloaded == IF policyFile = Unreadable THEN policy ELSE policyFile

\* What the engine learns of the world: does the ledger have the account, does it have the
\* trust line, did the wallet pay this destination before, is it after hours.
Surroundings == [account : BOOLEAN, trustline : BOOLEAN, known : BOOLEAN, late : BOOLEAN]

risk_score(p, o, s) ==
    (IF s.known THEN 0 ELSE p.new_destination_score)
    + 20 * (o.spikes + IF s.late THEN 1 ELSE 0)

\* What blocks a request whatever its risk.  (An action is barred as a purpose is.)
Barred(p, o, s) ==
    \/ o.agent_id # p.agent_id
    \/ o.purpose \notin p.purposes
    \/ whole(o.amount) <= 0
    \/ whole(o.amount) > p.max_amount
    \/ o.destination \notin WellFormed
    \/ ~s.account
    \/ ~s.trustline
    \/ ~s.known /\ ~p.allow_new_destination

\* Mutated: a risk in between is answered with the other word for a human's turn.
evaluate_policy_other_word(p, o, s, used) ==
    IF Barred(p, o, s) THEN "BLOCKED"
    ELSE IF risk_score(p, o, s) >= p.conditional_from THEN "REQUIRE_APPROVAL" ELSE "APPROVED"

evaluate_policy(p, o, s, used) ==
    IF \/ Barred(p, o, s)
       \/ p.daily_limit # NoLimit /\ used + whole(o.amount) > p.daily_limit
       \/ risk_score(p, o, s) >= p.block_from
    THEN "BLOCKED"
    ELSE IF \/ o.destination \notin p.whitelist
            \/ risk_score(p, o, s) >= p.conditional_from /\ risk_score(p, o, s) > p.approve_below
    THEN "CONDITIONAL_APPROVAL"
    ELSE "APPROVED"

(***************************************************************************)
(* What was approved today.  Only lines with the status APPROVED count.    *)
(***************************************************************************)
DayOf(time) == time \div Day
SumOf(lines) ==
    SumFunctionOnSet([k \in 1..Len(records) |-> whole(records[k].order.amount)], lines)
ApprovedOn(day) ==
    {k \in 1..Len(records) : records[k].status = "APPROVED" /\ DayOf(records[k].at) = day}

\* Mutated: the agent and the wallet must both be the same.
used_today_by_both(o) ==
    SumOf({k \in ApprovedOn(DayOf(now)) :
             /\ records[k].order.agent_id = o.agent_id
             /\ records[k].order.wallet_address = o.wallet_address})

used_today(o) ==
    SumOf({k \in ApprovedOn(DayOf(now)) :
             \/ records[k].order.agent_id = o.agent_id
             \/ records[k].order.wallet_address = o.wallet_address})
-----------------------------------------------------------------------------
SubmitStatus == {"MOCK", "PENDING_CONFIRMATION", "SUBMITTED", "FAILED"}
TokenSource == {"APPROVED", "CONDITIONAL_APPROVAL", "HUMAN"}

\* What a token authorises: the order, with the amount as given or as normalized.
Content ==
    {[order |-> o, amount |-> o.amount] : o \in Order}
    \cup {[order |-> o, amount |-> normalize_amount_for_policy(o)] :
             o \in {u \in Order : u.amount \in Int}}

\* `line` and `approval` are history: the line of the log, or the approval request, that the
\* token comes from, and 0 for the other.  A token that nobody was given is not `held`.
ActionToken ==
    [action : Content, iat : Nat, exp : Nat, source : TokenSource,
     line : Nat, approval : Nat, held : BOOLEAN, submit_status : SubmitStatus]

issue_token(o, amount, source, line, approval, held, submit) ==
    [action |-> [order |-> o, amount |-> amount], iat |-> now, exp |-> now + TokenTTL,
     source |-> source, line |-> line, approval |-> approval, held |-> held,
     submit_status |-> submit]

\* The applied limits are in the line; token_id is 0 for None.
AuditRecord ==
    [status : {"APPROVED", "CONDITIONAL_APPROVAL", "BLOCKED"}, order : Order, at : Nat,
     policy : Policies, token_id : Nat]
ApprovalStatus == {"PENDING", "APPROVED", "REJECTED", "EXPIRED"}
Approval == [request : Order, status : ApprovalStatus, expires_at : Nat]
TrailStatus ==
    {"REQUIRE_APPROVAL", "APPROVED_AFTER_HUMAN_APPROVAL", "REJECTED_BY_HUMAN", "EXPIRED"}
Charge == [token : Nat, request : Content]

Init ==
    /\ now = 0
    /\ live \in BOOLEAN
    /\ policy \in Policies /\ policyFile = policy
    /\ records = <<>> /\ approvals = <<>> /\ trail = <<>>
    /\ tokens = <<>> /\ used_jtis = {} /\ charges = <<>>

RoomForRequest == Len(records) + Len(approvals) < MaxRequests

(***************************************************************************)
(* request_execution                                                       *)
(***************************************************************************)
Line(o, status, jti) ==
    [status |-> status, order |-> o, at |-> now, policy |-> Reloaded, token_id |-> jti]

Blocked(o, s) ==
    /\ evaluate_policy(Reloaded, o, s, used_today(o)) = "BLOCKED"
    /\ records' = Append(records, Line(o, "BLOCKED", 0))
    /\ UNCHANGED tokens

\* Mutated: the policy is read anew only after the request was judged.
GrantedBeforeReload(o, s) ==
    LET decision == evaluate_policy(policy, o, s, used_today(o))
        jti == Len(tokens) + 1
    IN /\ decision # "BLOCKED" /\ Len(tokens) < MaxTokens
       /\ \E submit \in
            IF decision = "CONDITIONAL_APPROVAL" THEN {"PENDING_CONFIRMATION"}
            ELSE IF live THEN {"SUBMITTED", "FAILED"} ELSE {"MOCK"} :
            tokens' = Append(tokens,
              issue_token(o, normalize_amount_for_policy(o), decision, Len(records) + 1, 0,
                          TRUE, submit))
       /\ records' = Append(records, Line(o, decision, jti))

\* An approved request is submitted at once, if submission is switched on; a failure is
\* noted, and the token given out all the same.
Granted(o, s) ==
    LET decision == evaluate_policy(Reloaded, o, s, used_today(o))
        jti == Len(tokens) + 1
    IN /\ decision # "BLOCKED" /\ Len(tokens) < MaxTokens
       /\ \E submit \in
            IF decision = "CONDITIONAL_APPROVAL" THEN {"PENDING_CONFIRMATION"}
            ELSE IF live THEN {"SUBMITTED", "FAILED"} ELSE {"MOCK"} :
            tokens' = Append(tokens,
              issue_token(o, normalize_amount_for_policy(o), decision, Len(records) + 1, 0,
                          TRUE, submit))
       /\ records' = Append(records, Line(o, decision, jti))

request_execution(o) ==
    /\ o.amount \in Int /\ RoomForRequest
    /\ \E s \in Surroundings : Blocked(o, s) \/ Granted(o, s)
    /\ policy' = Reloaded
    /\ UNCHANGED <<now, live, policyFile, approvals, trail, used_jtis, charges>>

\* reload(), called by itself, or by a request that then fails: with an amount that is not
\* there or no number it does not get so far, but the ledger may be out of reach.
reload ==
    /\ policy' = Reloaded
    /\ UNCHANGED <<now, live, policyFile, records, approvals, trail, tokens, used_jtis, charges>>

(***************************************************************************)
(* Approval requests                                                       *)
(***************************************************************************)
\* The request is stored before its line is written, and an amount that is no number fails
\* in between: then nobody is told the id.
create_approval_request(o) ==
    /\ RoomForRequest
    /\ approvals' = Append(approvals,
         [request |-> o, status |-> "PENDING", expires_at |-> now + ApprovalTTL])
    /\ trail' = Append(trail, IF o.amount = Words THEN <<>> ELSE <<"REQUIRE_APPROVAL">>)
    /\ UNCHANGED <<now, live, policyFile, policy, records, tokens, used_jtis, charges>>

\* Mutated: a request may still be answered when its time is up.
DueAfter(i) == approvals[i].status = "PENDING" /\ approvals[i].expires_at < now

Due(i) == approvals[i].status = "PENDING" /\ approvals[i].expires_at <= now

\* Every call first expires what is due; then it may close one request.  `lines` is what
\* the call then adds to the log.
Close(i, status, lines) ==
    /\ approvals' = [k \in 1..Len(approvals) |->
         IF k = i THEN [approvals[k] EXCEPT !.status = status]
         ELSE IF Due(k) THEN [approvals[k] EXCEPT !.status = "EXPIRED"] ELSE approvals[k]]
    /\ trail' = [k \in 1..Len(trail) |->
         IF k = i THEN trail[k] \o lines
         ELSE IF Due(k) THEN Append(trail[k], "EXPIRED") ELSE trail[k]]

\* expire_approval_requests, and a call about a request that is not pending.
expire_approval_requests ==
    /\ Close(0, "EXPIRED", <<>>)
    /\ UNCHANGED <<now, live, policyFile, policy, records, tokens, used_jtis, charges>>

\* Mutated: the status is not looked at.
AnswerableAgain(i) == ~Due(i) /\ approvals[i].request.amount # Words

Answerable(i) ==
    approvals[i].status = "PENDING" /\ ~Due(i) /\ approvals[i].request.amount # Words

\* The status is set and the token issued first; building the payment then fails if there
\* is no amount, and neither a line nor a token comes out.
approve_request(i) ==
    LET o == approvals[i].request
        built == o.amount \in Int
    IN /\ Answerable(i) /\ Len(tokens) < MaxTokens
       /\ Close(i, "APPROVED", IF built THEN <<"APPROVED_AFTER_HUMAN_APPROVAL">> ELSE <<>>)
       /\ \E submit \in IF live /\ built THEN {"SUBMITTED", "FAILED"} ELSE {"MOCK"} :
            tokens' = Append(tokens, issue_token(o, o.amount, "HUMAN", 0, i, built, submit))
       /\ UNCHANGED <<now, live, policyFile, policy, records, used_jtis, charges>>

\* Mutated: the rejection is logged, but the request is still pending.
reject_request_forgotten(i) ==
    /\ Answerable(i)
    /\ Close(i, "PENDING", <<"REJECTED_BY_HUMAN">>)
    /\ UNCHANGED <<now, live, policyFile, policy, records, tokens, used_jtis, charges>>

reject_request(i) ==
    /\ Answerable(i)
    /\ Close(i, "REJECTED", <<"REJECTED_BY_HUMAN">>)
    /\ UNCHANGED <<now, live, policyFile, policy, records, tokens, used_jtis, charges>>

(***************************************************************************)
(* ExecutionProxy.execute_payment, with verify_token                       *)
(***************************************************************************)
\* Mutated: the list of used ids is not asked.
verify_token_anew(j) == ~(tokens[j].exp < now)

verify_token(j) == ~(tokens[j].exp < now) /\ j \notin used_jtis

\* A token that is refused leaves all as it is.
execute_payment(j) ==
    /\ tokens[j].held /\ verify_token(j)
    /\ used_jtis' = used_jtis \cup {j}
    /\ charges' = Append(charges, [token |-> j, request |-> tokens[j].action])
    /\ UNCHANGED <<now, live, policyFile, policy, records, approvals, trail, tokens>>

(***************************************************************************)
(* The surroundings                                                        *)
(***************************************************************************)
Tick ==
    /\ now < MaxTime
    /\ now' = now + 1
    /\ UNCHANGED <<live, policyFile, policy, records, approvals, trail, tokens, used_jtis, charges>>

EditPolicy ==
    /\ policyFile' \in Policies \cup {Unreadable}
    /\ UNCHANGED <<now, live, policy, records, approvals, trail, tokens, used_jtis, charges>>

Next ==
    \/ \E o \in Order : request_execution(o)
    \/ \E o \in ForReview : create_approval_request(o)
    \/ \E i \in 1..Len(approvals) : approve_request(i) \/ reject_request(i)
    \/ \E j \in 1..Len(tokens) : execute_payment(j)
    \/ expire_approval_requests \/ reload \/ Tick \/ EditPolicy

Spec == Init /\ [][Next]_vars
-----------------------------------------------------------------------------
(***************************************************************************)
(* Properties                                                              *)
(***************************************************************************)
\* Every store is well typed, a trail belongs to an approval request, and every id that is
\* written down anywhere has been given out (gateway.py, token.py).
TypeOK ==
    /\ now \in Nat /\ live \in BOOLEAN
    /\ policyFile \in Policies \cup {Unreadable} /\ policy \in Policies
    /\ records \in Seq(AuditRecord)
    /\ approvals \in Seq(Approval)
    /\ trail \in Seq(Seq(TrailStatus)) /\ Len(trail) = Len(approvals)
    /\ tokens \in Seq(ActionToken) /\ Len(tokens) <= MaxTokens
    /\ used_jtis \subseteq 1..Len(tokens)
    /\ charges \in Seq(Charge)

\* What the gateway approves by itself for one agent, or for one wallet, in one day stays
\* within the daily limit of the policy it last approved by, also when agents share wallets,
\* the policy is edited in between and the day changes (gateway.py:517-530).
DailyLimitHolds ==
    \A k \in 1..Len(records) :
      LET limit == records[k].policy.daily_limit
          before == {i \in ApprovedOn(DayOf(records[k].at)) : i <= k}
      IN records[k].status = "APPROVED" /\ limit # NoLimit =>
           /\ SumOf({i \in before : records[i].order.agent_id = records[k].order.agent_id})
                <= limit
           /\ SumOf({i \in before :
                      records[i].order.wallet_address = records[k].order.wallet_address})
                <= limit

\* An approval request is answered once: what was approved, rejected or expired stays so,
\* and nothing is approved or rejected when its time is up, though nothing expires it
\* before the next call (gateway.py:136-148, the checks at 155 and 210).
ApprovalsAreFinal ==
    [][\A i \in 1..Len(approvals) :
         LET before == approvals[i]
             after == approvals'[i]
         IN /\ before.status # "PENDING" => after = before
            /\ before.status = "PENDING" /\ after.status \in {"APPROVED", "REJECTED"}
               => now < before.expires_at]_vars

\* The log tells what became of each approval request, each event once and in order; only
\* a request whose amount cannot be read leaves its lines out (gateway.py:93-131, 136-221).
Opening(a) == IF a.request.amount = Words THEN <<>> ELSE <<"REQUIRE_APPROVAL">>
Closing(a) ==
    CASE a.status = "PENDING" -> <<>>
      [] a.status = "EXPIRED" -> <<"EXPIRED">>
      [] a.status = "REJECTED" -> <<"REJECTED_BY_HUMAN">>
      [] a.status = "APPROVED" ->
            IF a.request.amount \in Int THEN <<"APPROVED_AFTER_HUMAN_APPROVAL">> ELSE <<>>
TrailTellsFate ==
    \A i \in 1..Len(approvals) : trail[i] = Opening(approvals[i]) \o Closing(approvals[i])

\* Every token comes from one decision: a human's, on an approval request that still stands
\* as approved and had not expired, or the policy's, in a line of the log that names the
\* token.  No decision has two tokens, and no line names a token it did not give.
TokenIsExplained(j) ==
    LET t == tokens[j]
    IN IF t.source = "HUMAN"
       THEN /\ t.approval \in 1..Len(approvals)
            /\ approvals[t.approval].status = "APPROVED"
            /\ approvals[t.approval].request = t.action.order
            /\ t.iat < approvals[t.approval].expires_at
       ELSE /\ t.line \in 1..Len(records)
            /\ records[t.line].status = t.source
            /\ records[t.line].token_id = j
            /\ records[t.line].order = t.action.order
AuthorityIsExplained ==
    /\ \A j \in 1..Len(tokens) :
         /\ TokenIsExplained(j)
         /\ \A k \in 1..Len(tokens) :
              /\ tokens[j].source = "HUMAN" /\ tokens[k].source = "HUMAN"
              /\ tokens[j].approval = tokens[k].approval
              => j = k
    /\ \A n \in 1..Len(records) :
         IF records[n].status = "BLOCKED" THEN records[n].token_id = 0
         ELSE /\ records[n].token_id \in 1..Len(tokens)
              /\ tokens[records[n].token_id].line = n

\* docs/architecture/execution-flow.md:23: a conditional request is not executed before a
\* human has confirmed it.  Expected to fail: it gets a token like any other.
ConditionalWaitsForHuman ==
    \A k \in 1..Len(charges) :
      tokens[charges[k].token].source = "CONDITIONAL_APPROVAL" =>
        \E i \in 1..Len(approvals) :
          /\ approvals[i].status = "APPROVED"
          /\ approvals[i].request = charges[k].request.order

\* A charge that no human answered for is of an order that its own policy lets through: the
\* agent is that of the policy in the line of its token, whatever is on file at the time, and
\* the amount, as it was written, is within the maximum; and what is charged is the amount of
\* that order, normalized once (gateway.py:511-533, policy_engine.py:33-65, token.py:31-40).
\* Of an amount of XRP that is DropsPerXrp times the number that was held against the maximum.
Allows(p, o) ==
    o.agent_id = p.agent_id /\ whole(o.amount) > 0 /\ whole(o.amount) <= p.max_amount
ChargesFollowTheirOrder ==
    \A k \in 1..Len(charges) :
      LET t == tokens[charges[k].token]
          o == charges[k].request.order
      IN t.source # "HUMAN" =>
           /\ Allows(records[t.line].policy, o)
           /\ charges[k].request.amount = normalize_amount_for_policy(o)

(***************************************************************************)
(* The gateway as an implementation of OneShotAuthority: a token is spent  *)
(* when it is redeemed and void when it has expired.                       *)
(***************************************************************************)
StandingOf(j) ==
    IF j > Len(tokens) THEN "unissued"
    ELSE IF j \in used_jtis THEN "spent"
    ELSE IF tokens[j].exp < now THEN "void" ELSE "live"
GrantOf == [j \in 1..Len(tokens) |-> tokens[j].action]
Standings == [j \in 1..MaxTokens |-> StandingOf(j)]
Effects == [k \in 1..Len(charges) |-> <<charges[k].token, charges[k].request>>]

Authority == INSTANCE OneShotAuthority WITH
    TokenId <- 1..MaxTokens,
    Content <- Content,
    grant <- GrantOf,
    standing <- Standings,
    effects <- Effects

\* A token lets the payment it was issued for be executed, once, and before it expires
\* (token.py:42-64, proxy.py:47-58).
ImplementsAuthority == Authority!Spec
=============================================================================
