---------------------------- MODULE OneShotAuthority ----------------------------
(***************************************************************************)
(* What an execution token promises, whoever implements it: a token        *)
(* authorises one effect, of the content it was granted for, at most once, *)
(* and never again once it has been revoked (expiry and session reset are  *)
(* both revocations).                                                      *)
(***************************************************************************)
EXTENDS Naturals, Sequences

CONSTANTS
    TokenId,    \* the identifiers tokens are given
    Content     \* what a token may authorise

VARIABLES
    grant,      \* what each granted token authorises (a map with domain the granted tokens)
    standing,   \* "unissued", "live", "spent" or "void", per token
    effects     \* the effects performed, in order: pairs <<token, content>>

vars == <<grant, standing, effects>>

Standing == {"unissued", "live", "spent", "void"}

TypeOK ==
    /\ DOMAIN grant \subseteq TokenId
    /\ \A t \in DOMAIN grant : grant[t] \in Content
    /\ standing \in [TokenId -> Standing]
    /\ effects \in Seq(TokenId \X Content)

Init ==
    /\ grant = [t \in {} |-> t]
    /\ standing = [t \in TokenId |-> "unissued"]
    /\ effects = <<>>

Grant(t, c) ==
    /\ standing[t] = "unissued"
    /\ grant' = [u \in DOMAIN grant \cup {t} |-> IF u = t THEN c ELSE grant[u]]
    /\ standing' = [standing EXCEPT ![t] = "live"]
    /\ UNCHANGED effects

Perform(t) ==
    /\ standing[t] = "live"
    /\ standing' = [standing EXCEPT ![t] = "spent"]
    /\ effects' = Append(effects, <<t, grant[t]>>)
    /\ UNCHANGED grant

Revoke(S) ==
    /\ \A t \in S : standing[t] = "live"
    /\ standing' = [t \in TokenId |-> IF t \in S THEN "void" ELSE standing[t]]
    /\ UNCHANGED <<grant, effects>>

Next ==
    \/ \E t \in TokenId, c \in Content : Grant(t, c)
    \/ \E t \in TokenId : Perform(t)
    \/ \E S \in SUBSET TokenId : Revoke(S)

Spec == Init /\ [][Next]_vars
-----------------------------------------------------------------------------
\* What a client may rely on: an effect is the only one of its token, which is spent, and of
\* the content the token was granted for (what token.py:42-64 and token-service.ts check for).
EffectsAreAuthorised ==
    /\ \A t \in TokenId : standing[t] \in {"live", "spent"} => t \in DOMAIN grant
    /\ \A i \in 1..Len(effects) :
          LET t == effects[i][1]
          IN /\ t \in TokenId /\ standing[t] = "spent" /\ effects[i][2] = grant[t]
             /\ \A j \in 1..Len(effects) : effects[j][1] = t => j = i
=============================================================================
