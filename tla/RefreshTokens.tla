---------------------------- MODULE RefreshTokens ----------------------------
(***************************************************************************)
(* The table refresh_tokens and the statements RefreshTokenRepository and  *)
(* RefreshTokenService run on it.  A service call reads in one statement   *)
(* and writes in a later one, with no lock between; writes become visible  *)
(* at the commit.  The rows are numbered in the order they were inserted.  *)
(***************************************************************************)
EXTENDS Naturals, Sequences, FiniteSets

CONSTANTS Emails,      \* an account is known by its (lower-case) email
          MaxTokens    \* bound: tokens ever issued

VARIABLES tokens,   \* rows of refresh_tokens
          parent,   \* per row: the token it was rotated from, 0 at a login (history)
          raced,    \* tokens two requests held active at once (history)
          ended     \* tokens a sign-out revoked (history)
tokenVars == <<tokens, parent, raced, ended>>

TokenIds == 1..Len(tokens)
\* A row: its account, revoked_at, replaced_by_id (0 is NULL) and expires_at.
TokenRows == [account : Emails, revoked : BOOLEAN, replacedBy : Nat, expired : BOOLEAN]

TokensTypeOK ==
  /\ tokens \in Seq(TokenRows) /\ Len(tokens) <= MaxTokens
  /\ parent \in Seq(Nat) /\ Len(parent) = Len(tokens)
  /\ raced \subseteq TokenIds /\ ended \subseteq TokenIds

InitTokens == tokens = <<>> /\ parent = <<>> /\ raced = {} /\ ended = {}

\* Mutant: revoked_at is not looked at.
ActiveIgnoresRevoked(t) == t \in TokenIds /\ ~tokens[t].expired

\* get_active_by_raw_token finds the row.
Active(t) == t \in TokenIds /\ ~tokens[t].revoked /\ ~tokens[t].expired
\* Mutant: only the newest row is swept.
UnrevokedNewest(e) == {t \in TokenIds : tokens[t].account = e /\ t = Len(tokens)}

\* What revoke_all_for_account selects: expired rows too.
Unrevoked(e) == {t \in TokenIds : tokens[t].account = e /\ ~tokens[t].revoked}

NewRow(e) == [account |-> e, revoked |-> FALSE, replacedBy |-> 0, expired |-> FALSE]
\* Mutant: the row is not the one that is inserted.
NextTokenSkips == Len(tokens) + 2

NextToken == Len(tokens) + 1

\* issue_pair
IssuePair(e) == /\ NextToken <= MaxTokens
                /\ tokens' = Append(tokens, NewRow(e)) /\ parent' = Append(parent, 0)
                /\ UNCHANGED <<raced, ended>>

\* Mutant: the old token is not revoked.
RotateKeepsOld(t) == /\ NextToken <= MaxTokens
                     /\ tokens' = Append([tokens EXCEPT ![t].replacedBy = NextToken],
                                         NewRow(tokens[t].account))
                     /\ parent' = Append(parent, t)
                     /\ UNCHANGED <<raced, ended>>

\* Mutant: every other token is revoked too.
RotateAlone(t) ==
  /\ NextToken <= MaxTokens
  /\ tokens' = Append([u \in TokenIds |-> [tokens[u] EXCEPT !.revoked = TRUE, !.replacedBy = NextToken]],
                      NewRow(tokens[t].account))
  /\ parent' = Append(parent, t)
  /\ UNCHANGED <<raced, ended>>

\* rotate, once it has read t as active: the new row, the old one revoked and
\* pointing to it, in one transaction.
Rotate(t) == /\ NextToken <= MaxTokens
             /\ tokens' = Append([tokens EXCEPT ![t] = [@ EXCEPT !.revoked = TRUE, !.replacedBy = NextToken]],
                                 NewRow(tokens[t].account))
             /\ parent' = Append(parent, t)
             /\ UNCHANGED <<raced, ended>>

\* Mutant: replaced_by_id is written as NULL.
RevokeResets(S) == /\ tokens' = [t \in TokenIds |->
                        IF t \in S THEN [tokens[t] EXCEPT !.revoked = TRUE, !.replacedBy = 0]
                        ELSE tokens[t]]
                   /\ ended' = ended \cup S
                   /\ UNCHANGED <<parent, raced>>

\* revoke and revoke_all, once they have read the rows S as not revoked: only
\* revoked_at changes, the NULL given to replaced_by_id is what was loaded.
Revoke(S) == /\ tokens' = [t \in TokenIds |-> IF t \in S THEN [tokens[t] EXCEPT !.revoked = TRUE]
                                              ELSE tokens[t]]
             /\ ended' = ended \cup S
             /\ UNCHANGED <<parent, raced>>

\* expires_at passes.
Expire(t) == /\ t \in TokenIds /\ ~tokens[t].expired
             /\ tokens' = [tokens EXCEPT ![t].expired = TRUE]
             /\ UNCHANGED <<parent, raced, ended>>

----------------------------------------------------------------------------
\* The chain of replacements is sound whatever overlaps: a replaced token is
\* revoked, its replacement was issued later and to the same account, and it
\* is the newest rotation of that token (refresh_token_service.py:71-82).
TokenLineage ==
  \A t \in TokenIds :
    /\ tokens[t].replacedBy # 0 =>
         LET r == tokens[t].replacedBy IN
         /\ tokens[t].revoked /\ r \in TokenIds /\ r > t /\ parent[r] = t
         /\ tokens[r].account = tokens[t].account
         /\ \A u \in TokenIds : parent[u] = t => u <= r
    /\ parent[t] # 0 => parent[t] < t /\ tokens[parent[t]].replacedBy # 0

\* A token is rotated twice only when two requests held it active at once;
\* refreshes that follow one another never split a session in two.
ForksNeedOverlap ==
  \A t, u \in TokenIds : t # u /\ parent[t] = parent[u] /\ parent[t] # 0 => parent[t] \in raced

\* What revocation may never do: a revoked token becomes active again, or a
\* recorded replacement is forgotten, by a late write of another request.
RevocationIsFinal ==
  [][/\ Len(tokens) <= Len(tokens')
     /\ \A t \in TokenIds :
          /\ tokens'[t].account = tokens[t].account
          /\ tokens[t].revoked => tokens'[t].revoked
          /\ tokens[t].replacedBy # 0 => tokens'[t].replacedBy >= tokens[t].replacedBy]_tokenVars
=============================================================================
