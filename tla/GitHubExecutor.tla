----------------------------- MODULE GitHubExecutor -----------------------------
(***************************************************************************)
(* The GitHub runtime integration of the Python package                    *)
(* (integrations/github): an executor asks the policy, mints a signed      *)
(* token for an action it allows, and calls GitHub for whoever presents a  *)
(* token that holds for the action, the repository and the time.           *)
(*                                                                         *)
(* Every executor is built for one repository; the signing key comes from  *)
(* the environment, so executors share it and see one another's tokens.    *)
(* Nothing is kept of a token but its signature, on the token itself: the  *)
(* executor's only state is its audit log.  The agent and the policy       *)
(* version, which no check looks at, are left out.                         *)
(***************************************************************************)
EXTENDS RuntimeClock, Sequences

CONSTANTS
    Intent,              \* the actions that agents ask for
    Repo,                \* the repositories that have an executor
    Sandbox,             \* those whose name has a sandbox marker
    GitHubTTL,           \* ttl_seconds of the executor, in ticks
    NoEntry,             \* the log is empty
    MaxMinted, MaxCalls  \* bounds

ASSUME ReposAssumption == Sandbox \subseteq Repo
ASSUME GitHubBoundsAssumption == GitHubTTL \in Nat /\ MaxMinted \in Nat /\ MaxCalls \in Nat

VARIABLES
    minted,      \* history: what was signed, in order
    calls,       \* history: the requests that GitHub received
    audit_log    \* of each executor: the last entry, an action and its final result

githubVars == <<minted, calls, audit_log>>
-----------------------------------------------------------------------------
Payload == [allowed_action : Intent, repo : Repo, expires_at : Nat]
Call == [action : Intent, repo : Repo, at : Nat]
HasCall == {"create_branch", "create_pr"}
FinalResult ==
    {"BLOCKED BEFORE EXECUTION", "BLOCKED", "HUMAN REVIEW REQUIRED",
     "EXECUTED IN SANDBOX", "SAFE MOCK EXECUTED"}

GitHubInit ==
    /\ minted = <<>> /\ calls = <<>>
    /\ audit_log = [r \in Repo |-> NoEntry]

\* An action that the map does not know is one for a review, like those it has so.
Allowed == {"create_branch", "create_pr", "modify_docs"}
Denied ==
    {"delete_repo", "disable_branch_protection", "export_secrets", "secret_access_attempt",
     "force_push", "production_file_modify"}
evaluate_github_action(a) ==
    IF a \in Allowed THEN "ALLOW" ELSE IF a \in Denied THEN "DENY" ELSE "REVIEW_REQUIRED"

Logged(r, action, result) ==
    audit_log' = [audit_log EXCEPT ![r] = [action |-> action, final_result |-> result]]

evaluate_and_mint_token(r, a) ==
    \/ /\ evaluate_github_action(a) # "ALLOW"
       /\ Logged(r, a, "BLOCKED BEFORE EXECUTION")
       /\ UNCHANGED <<minted, calls>>
    \/ /\ evaluate_github_action(a) = "ALLOW"
       /\ Len(minted) < MaxMinted
       /\ minted' = Append(minted,
            [allowed_action |-> a, repo |-> r, expires_at |-> now + GitHubTTL])
       /\ UNCHANGED <<calls, audit_log>>

\* Mutated: the time is not among what is signed.
SignedWithoutTime(payload, j) ==
    minted[j].allowed_action = payload.allowed_action /\ minted[j].repo = payload.repo

\* A token is a payload with the signature of a payload, the same or another.
Signed(payload, j) == minted[j] = payload

\* A token that lacks a field fails as one that was signed otherwise; one with a time that
\* cannot be read raises, and changes nothing.
_validate_token(r, a, payload, j) ==
    /\ payload.allowed_action = a
    /\ payload.repo = r
    /\ payload.expires_at >= now
    /\ Signed(payload, j)

Rejected(r, a) ==
    /\ Logged(r, a, "BLOCKED")
    /\ UNCHANGED <<minted, calls>>

\* The client raises before it sends anything: a parameter is missing, the repository is no
\* sandbox, there is no GitHub token.  Nothing is logged.
NotSent(r, a) ==
    a \in HasCall /\ UNCHANGED githubVars

\* GitHub receives the request, or it gets lost on the way.  The client then has an answer, an
\* error it turns into one, or raises on an answer that it cannot read or that does not come.
Sent(r, a) ==
    /\ a \in HasCall /\ r \in Sandbox
    /\ \/ /\ Len(calls) < MaxCalls
          /\ calls' = Append(calls, [action |-> a, repo |-> r, at |-> now])
          /\ \/ Logged(r, a, "EXECUTED IN SANDBOX")
             \/ Logged(r, a, "SAFE MOCK EXECUTED")
             \/ UNCHANGED audit_log
       \/ calls' = calls /\ Logged(r, a, "SAFE MOCK EXECUTED")
    /\ UNCHANGED minted

\* An action that the executor has no call for.  (No policy allows modify_workflow.)
Unsupported(r, a) ==
    /\ a \notin HasCall
    /\ Logged(r, a, IF a = "modify_workflow" THEN "HUMAN REVIEW REQUIRED"
                    ELSE "BLOCKED BEFORE EXECUTION")
    /\ UNCHANGED <<minted, calls>>

githubExecute(r, a, payload, j) ==
    IF _validate_token(r, a, payload, j)
    THEN NotSent(r, a) \/ Sent(r, a) \/ Unsupported(r, a)
    ELSE Rejected(r, a)

GitHubNext ==
    \E r \in Repo, a \in Intent :
        \/ evaluate_and_mint_token(r, a)
        \/ \E payload \in [allowed_action : Intent, repo : Repo, expires_at : 0..MaxTime + GitHubTTL],
             j \in 1..Len(minted) : githubExecute(r, a, payload, j)
-----------------------------------------------------------------------------
(***************************************************************************)
(* Properties                                                              *)
(***************************************************************************)
\* Minted tokens, calls and logs are of known actions and repositories.
GitHubTypeOK ==
    /\ minted \in Seq(Payload)
    /\ calls \in Seq(Call)
    /\ audit_log \in [Repo -> [action : Intent, final_result : FinalResult] \cup {NoEntry}]

\* What GitHub receives was allowed by the policy, under a token that was minted for this
\* action and this repository and has not expired, whatever else is presented, signed by
\* whichever executor; and it is for a sandbox.  What a log calls executed, GitHub received.
CallIsAuthorised(c) ==
    /\ evaluate_github_action(c.action) = "ALLOW"
    /\ c.repo \in Sandbox
    /\ \E j \in 1..Len(minted) :
         /\ minted[j].allowed_action = c.action /\ minted[j].repo = c.repo
         /\ c.at \in minted[j].expires_at - GitHubTTL .. minted[j].expires_at
EntryIsTrue(r) ==
    audit_log[r] # NoEntry /\ audit_log[r].final_result = "EXECUTED IN SANDBOX" =>
        \E k \in 1..Len(calls) : calls[k].repo = r /\ calls[k].action = audit_log[r].action
CallsAreAuthorised ==
    /\ \A k \in 1..Len(calls) : CallIsAuthorised(calls[k])
    /\ \A r \in Repo : EntryIsTrue(r)

\* The inductive invariant behind it needs this much of the tokens: none was minted ahead of
\* its time.
MintedInTime == \A j \in 1..Len(minted) : minted[j].expires_at <= now + GitHubTTL
=============================================================================
