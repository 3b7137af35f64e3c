--------------------------- MODULE MCControlPlane ---------------------------
(***************************************************************************)
(* The control plane for TLC: accounts, single sign-on, policy packs,      *)
(* connector credentials and rate limits.  They share no rows but those of *)
(* accounts and single sign-on, so one run checks them side by side: part  *)
(* says which of them is running, the others stay in an initial state.     *)
(***************************************************************************)
EXTENDS OidcLogin, PolicyPacks, Credentials, RateLimit, TLC

VARIABLE part

Init ==
  /\ part \in {"accounts", "sso", "policy", "credentials", "rate"}
  /\ IF part = "accounts"
     THEN /\ AccountsInit
          /\ cookie = None /\ login = [l \in Logins |-> "none"]
          /\ completion = [c \in Codes |-> None] /\ identity = [s \in Subjects |-> None]
          /\ issued = [t \in Tokens |-> None]
     ELSE OidcInit
  /\ PolicyInit /\ CredentialInit /\ RateLimitInit

Next ==
  /\ UNCHANGED part
  /\ \/ /\ part = "accounts" /\ AccountsNext
        /\ UNCHANGED <<oidcTables, issued, policyVars, credentialVars, rateLimitVars>>
     \/ /\ part = "sso" /\ OidcNext
        /\ UNCHANGED <<policyVars, credentialVars, rateLimitVars>>
     \/ /\ part = "policy" /\ PolicyNext
        /\ UNCHANGED <<oidcVars, credentialVars, rateLimitVars>>
     \/ /\ part = "credentials" /\ CredentialNext
        /\ UNCHANGED <<oidcVars, policyVars, rateLimitVars>>
     \/ /\ part = "rate" /\ RateLimitNext
        /\ UNCHANGED <<oidcVars, policyVars, credentialVars>>

vars == <<part, oidcVars, policyVars, credentialVars, rateLimitVars>>

Spec == Init /\ [][Next]_vars

Symmetry ==
  Permutations(Requests) \cup Permutations(Users) \cup Permutations(Workspaces) \cup Permutations(Tokens)

\* The types of the five parts.
TypeOK == AccountsTypeOK /\ OidcTypeOK /\ PolicyTypeOK /\ CredentialTypeOK /\ RateLimitTypeOK
=============================================================================
