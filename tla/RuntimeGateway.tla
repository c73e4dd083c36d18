----------------------------- MODULE RuntimeGateway -----------------------------
(***************************************************************************)
(* The runtime execution gateway of the Python package                     *)
(* (runtime/execution_gateway.py), with the engine that issues and         *)
(* invalidates its transient tokens (runtime/transient_token_engine.py)    *)
(* and the replay protection (security/replay_protection).                 *)
(*                                                                         *)
(* Both helpers are handed to a gateway when it is built.  Modelled are    *)
(* gateways that share the engine, each with a replay protection of its    *)
(* own, as the default gives it: a token is known to all of them, a nonce  *)
(* only to the gateway that has used it.  The transaction that is sent     *)
(* along is not compared with anything and is left out.  The objects have  *)
(* no threads: a call is one step.                                         *)
(***************************************************************************)
EXTENDS RuntimeClock, Sequences

CONSTANTS
    Gateway,     \* the gateways that share the token engine
    Nonce,       \* the nonces that clients choose
    TokenTTL,    \* ttl_seconds of the engine, in ticks
    MaxTokens,   \* bound
    NoCall       \* nothing has been asked for yet

ASSUME NonceAssumption == Nonce \cap Nat = {}
ASSUME RuntimeBoundsAssumption == TokenTTL \in Nat /\ MaxTokens \in Nat

VARIABLES
    live,        \* USE_XRPL_SUBMIT: the runtime mode is LIVE
    tokens,      \* "token:" entries of the engine's cache, by order of issue
    nonces,      \* "nonce:" entries of each gateway's cache
    tokensUsed,  \* "token_used:" entries of each gateway's cache
    executions,  \* the calls that were approved, in order
    answer       \* what the last call was told

runtimeVars == <<live, tokens, nonces, tokensUsed, executions, answer>>
-----------------------------------------------------------------------------
\* A token without a nonce from its client gets a fresh one: its own number.
TokenNonce == Nonce \cup Nat
Token == [nonce : TokenNonce, expires_at : Nat, invalidated : BOOLEAN]
SubmitStatus == {"MOCK", "SUBMITTED", "FAILED"}
Execution == [gateway : Gateway, token : Nat, at : Nat, submit_status : SubmitStatus]
Reason ==
    {"token_not_found", "replay_attack_detected", "expired_token", "duplicate_nonce", "none"}
Answer == [gateway : Gateway, token : Nat, decision : {"APPROVED", "BLOCKED"}, reason : Reason]

RuntimeInit ==
    /\ live \in BOOLEAN
    /\ tokens = <<>> /\ executions = <<>> /\ answer = NoCall
    /\ nonces = [g \in Gateway |-> {}]
    /\ tokensUsed = [g \in Gateway |-> {}]

\* Mutated: a token whose client gives no nonce has an empty one.
issue_token_without_nonce(nonce) ==
    /\ Len(tokens) < MaxTokens
    /\ tokens' = Append(tokens,
         [nonce |-> IF nonce \in Nonce THEN nonce ELSE NoCall,
          expires_at |-> now + TokenTTL, invalidated |-> FALSE])
    /\ UNCHANGED <<live, nonces, tokensUsed, executions, answer>>

issue_token(nonce) ==
    /\ Len(tokens) < MaxTokens
    /\ tokens' = Append(tokens,
         [nonce |-> nonce, expires_at |-> now + TokenTTL, invalidated |-> FALSE])
    /\ UNCHANGED <<live, nonces, tokensUsed, executions, answer>>

validate_token(t) ==
    IF t \notin 1..Len(tokens) THEN "token_not_found"
    ELSE IF tokens[t].invalidated THEN "replay_attack_detected"
    ELSE IF tokens[t].expires_at <= now THEN "expired_token" ELSE "none"

\* Why the gateway blocks the token, and "none" if it does not.
Refusal(g, t) ==
    IF validate_token(t) # "none" THEN validate_token(t)
    ELSE IF tokens[t].nonce \in nonces[g] THEN "duplicate_nonce"
    ELSE IF t \in tokensUsed[g] THEN "replay_attack_detected"
    ELSE "none"

Answered(g, t, decision, reason) ==
    answer' = [gateway |-> g, token |-> t, decision |-> decision, reason |-> reason]

Refused(g, t) ==
    /\ Refusal(g, t) # "none"
    /\ Answered(g, t, "BLOCKED", Refusal(g, t))
    /\ UNCHANGED <<live, tokens, nonces, tokensUsed, executions>>

\* The ledger answers or fails, which includes that it executes and the answer is lost.
Submitted(g, t) ==
    \E status \in IF live THEN {"SUBMITTED", "FAILED"} ELSE {"MOCK"} :
        executions' = Append(executions,
          [gateway |-> g, token |-> t, at |-> now, submit_status |-> status])

\* Mutated: the token is not invalidated in the engine.
AdmittedKeepingToken(g, t) ==
    /\ Refusal(g, t) = "none"
    /\ nonces' = [nonces EXCEPT ![g] = @ \cup {tokens[t].nonce}]
    /\ tokensUsed' = [tokensUsed EXCEPT ![g] = @ \cup {t}]
    /\ Submitted(g, t)
    /\ Answered(g, t, "APPROVED", "none")
    /\ UNCHANGED <<live, tokens>>

\* The token is used up before the transaction is submitted, and stays so if that fails.
Admitted(g, t) ==
    /\ Refusal(g, t) = "none"
    /\ nonces' = [nonces EXCEPT ![g] = @ \cup {tokens[t].nonce}]
    /\ tokensUsed' = [tokensUsed EXCEPT ![g] = @ \cup {t}]
    /\ tokens' = [tokens EXCEPT ![t].invalidated = TRUE]
    /\ Submitted(g, t)
    /\ Answered(g, t, "APPROVED", "none")
    /\ UNCHANGED live

execute(g, t) == Refused(g, t) \/ Admitted(g, t)

RuntimeNext ==
    \/ \E nonce \in Nonce \cup {Len(tokens) + 1} : issue_token(nonce)
    \/ \E g \in Gateway, t \in 1..MaxTokens : execute(g, t)
-----------------------------------------------------------------------------
(***************************************************************************)
(* Properties                                                              *)
(***************************************************************************)
\* The caches hold tokens, and what was used of them, that have been issued.
RuntimeTypeOK ==
    /\ live \in BOOLEAN
    /\ tokens \in Seq(Token)
    /\ nonces \in [Gateway -> SUBSET TokenNonce]
    /\ tokensUsed \in [Gateway -> SUBSET (1..Len(tokens))]
    /\ executions \in Seq(Execution)
    /\ answer \in Answer \cup {NoCall}

\* What was approved before the approval numbered `n`, or ever.
ExecutedBefore(n, t) == \E k \in 1..n - 1 : executions[k].token = t
Executed(t) == ExecutedBefore(Len(executions) + 1, t)
NonceSpentBefore(n, g, t) ==
    \E k \in 1..n - 1 : /\ executions[k].gateway = g /\ executions[k].token # t
                        /\ tokens[executions[k].token].nonce = tokens[t].nonce

\* An answer tells what has happened.  APPROVED: this is the first execution of the token at
\* any gateway, also if its submission fails, the first of its nonce at this one, and in time.
\* BLOCKED: the token has been executed before if that is the reason, and is unused if it is
\* another; a duplicate nonce was spent by another token (execution_gateway.py:28-44).
AnswersAreTrue ==
    answer # NoCall =>
      LET g == answer.gateway
          t == answer.token
          last == Len(executions)
      IN /\ answer.decision = "APPROVED" =>
              /\ last > 0
              /\ executions[last].gateway = g /\ executions[last].token = t
              /\ executions[last].at < tokens[t].expires_at
              /\ ~ExecutedBefore(last, t) /\ ~NonceSpentBefore(last, g, t)
         /\ answer.decision = "BLOCKED" =>
              (Executed(t) <=> answer.reason = "replay_attack_detected")
         /\ answer.reason = "duplicate_nonce" => NonceSpentBefore(last + 1, g, t)
         /\ answer.reason = "expired_token" => tokens[t].expires_at <= now

\* The inductive invariant behind it: the marks on tokens and in the caches are those of the
\* executions, no more and no less.
StoresTellExecutions ==
    /\ \A k \in 1..Len(executions) :
         LET e == executions[k]
         IN /\ e.token \in 1..Len(tokens) /\ tokens[e.token].invalidated
            /\ tokens[e.token].nonce \in nonces[e.gateway]
    /\ \A t \in 1..Len(tokens) : tokens[t].invalidated => Executed(t)
    /\ \A g \in Gateway : \A nonce \in nonces[g] : \E k \in 1..Len(executions) :
         executions[k].gateway = g /\ tokens[executions[k].token].nonce = nonce
    /\ \A g \in Gateway : \A t \in tokensUsed[g] : tokens[t].invalidated
    /\ answer # NoCall =>
         \/ answer.token \in 1..Len(tokens)
         \/ answer.decision = "BLOCKED" /\ answer.reason = "token_not_found"

(***************************************************************************)
(* The gateways as an implementation of OneShotAuthority.  What a token    *)
(* may do is nothing but carry its nonce.  It is spent when a gateway has  *)
(* admitted it and void once its time is over: one that is issued with no  *)
(* time at all is so when the clock moves on.                              *)
(***************************************************************************)
IsOver(t) == tokens[t].expires_at <= now /\ tokens[t].expires_at < now + TokenTTL
StandingOf(t) ==
    IF t > Len(tokens) THEN "unissued"
    ELSE IF tokens[t].invalidated THEN "spent"
    ELSE IF IsOver(t) THEN "void" ELSE "live"
GrantOf == [t \in 1..Len(tokens) |-> tokens[t].nonce]
Standings == [t \in 1..MaxTokens |-> StandingOf(t)]
Effects ==
    [k \in 1..Len(executions) |-> <<executions[k].token, tokens[executions[k].token].nonce>>]

Authority == INSTANCE OneShotAuthority WITH
    TokenId <- 1..MaxTokens,
    Content <- Nonce \cup 1..MaxTokens,
    grant <- GrantOf,
    standing <- Standings,
    effects <- Effects

\* A token lets one call through, at one of the gateways, and before it expires: the mark the
\* engine sets outlives every cache of the gateways (transient_token_engine.py:35-53).
ImplementsAuthority == Authority!Spec
=============================================================================
